SPECIFICATION Spec
CONSTANTS
    Request = {r1, r2, r3}
    Access = {a1, a2}
    RefreshToken = rt
    TTL = 3
    Threshold = 1
    AccessLife = 1
    RefreshLife = 4
    MaxFaults = 1
SYMMETRY Symmetry
INVARIANTS
    LogoutIsFinal
