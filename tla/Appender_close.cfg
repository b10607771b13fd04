SPECIFICATION Spec
CONSTANTS
    W = W
    N = N
    Worker = Worker
    Callers <- OneCaller
    Ops <- AllOps
    Modes <- AsyncOnly
    MapOutcomes <- MapOK
    Crypt = TRUE
    NotifyAt = 2
    WarnAt = 3
    Capacity = 4
    MaxLogs = 2
    MaxOpens = 2
    MaxCrashes = 0
    MaxFails = 0
INVARIANT CloseWritesEverything
CHECK_DEADLOCK FALSE
