SPECIFICATION Spec
CONSTANTS
    Worker = {w1, w2}
    nMap = 2
    nReduce = 1
    MaxCrashes = 0
    Slow = TRUE
    CrashDeleting = FALSE
CHECK_DEADLOCK FALSE
INVARIANTS
    ReduceAfterMaps
