CONSTANTS
    Task = {t1, t2, t3}
    Publisher = {p1}
    Intervals = {2, 4}
    PerSecond = 2
    MaxHold = 1
    MaxFaults = 2
SYMMETRY TaskSymmetry
SPECIFICATION EditSpec
INVARIANTS TypeOK LockExcludes
PROPERTY KeepsRate
CHECK_DEADLOCK FALSE
