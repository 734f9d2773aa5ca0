SPECIFICATION Spec
CONSTANTS
    Worker = {w1, w2, w3}
    nMap = 2
    nReduce = 2
    MaxCrashes = 2
    Slow = FALSE
    CrashDeleting = FALSE
CHECK_DEADLOCK FALSE
INVARIANTS
    TypeOK ReduceAfterMaps FilesAreThere DoneIsComplete
PROPERTIES
    JobFinishes
