SPECIFICATION FairSpec
CONSTANTS
    Exec = {e1, e2}
    Request = {r1}
    Sweeper = sweeper
    StaleAfter = 0
    MaxFaults = 2
    MaxWork = 3
INVARIANTS
    TypeOK
    ReturnMeansFinal
    ExecutorsTracked
    SuccessMeansRan
    PlaysAreWatched
PROPERTIES
    KeepsLifecycle
    RunningEnds
CHECK_DEADLOCK FALSE
