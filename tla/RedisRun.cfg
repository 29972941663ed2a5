SPECIFICATION FairSpec
CONSTANTS
    Conn = {r1, r2}
    Db = {d0, d1}
    ConfigDb = d0
    Worker = {w1}
    Client = {k1, k2, k3}
    Slot = {s1, s2}
    None = None

INVARIANTS
    TypeOK
    OwnClient
    AloneScan
    LockServed
PROPERTIES
    CallsEnd
