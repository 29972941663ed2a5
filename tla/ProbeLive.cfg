CONSTANTS
    Task = {t1, t2, t3}
    Publisher = {p1}
    Intervals = {2}
    PerSecond = 2
    MaxHold = 1
    MaxFaults = 0
SPECIFICATION FairSpec
PROPERTIES DispatchedForEver ChainsDieOut
CHECK_DEADLOCK FALSE
