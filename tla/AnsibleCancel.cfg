SPECIFICATION Spec
CONSTANTS
    Exec = {e1}
    Request = {r1}
    Sweeper = sweeper
    StaleAfter = 0
    MaxFaults = 0
    MaxWork = 1
SYMMETRY Symmetry
PROPERTIES
    CancelledStays
CHECK_DEADLOCK FALSE
