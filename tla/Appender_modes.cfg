SPECIFICATION Spec
CONSTANTS
    W = W
    N = N
    Worker = Worker
    Callers <- TwoCallers
    Ops <- ModeOps
    Modes <- BothModes
    MapOutcomes <- MapMayFail
    Crypt = TRUE
    NotifyAt = 2
    WarnAt = 3
    Capacity = 4
    MaxLogs = 0
    MaxOpens = 1
    MaxCrashes = 0
    MaxFails = 1
INVARIANT RecordsInv
CHECK_DEADLOCK FALSE
