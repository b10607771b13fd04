SPECIFICATION Spec
CONSTANTS
    W = W
    N = N
    Worker = Worker
    Callers <- TwoCallers
    Ops <- WriterOps
    Modes <- AsyncOnly
    MapOutcomes <- MapOK
    Crypt = TRUE
    NotifyAt = 2
    WarnAt = 3
    Capacity = 4
    MaxLogs = 1
    MaxOpens = 2
    MaxCrashes = 1
    MaxFails = 0
INVARIANT LastLogFollowsItsMark
CHECK_DEADLOCK FALSE
