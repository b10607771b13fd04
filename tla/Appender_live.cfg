SPECIFICATION FairSpec
CONSTANTS
    W = W
    N = N
    Worker = Worker
    Callers <- OneCaller
    Ops <- NoFlushOps
    Modes <- AsyncOnly
    MapOutcomes <- MapMayFail
    Crypt = TRUE
    NotifyAt = 2
    WarnAt = 3
    Capacity = 4
    MaxLogs = 1
    MaxOpens = 2
    MaxCrashes = 1
    MaxFails = 1
INVARIANT NoSegfault
PROPERTIES EveryRecordSettles CallsReturn
CHECK_DEADLOCK FALSE
