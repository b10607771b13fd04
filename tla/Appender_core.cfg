SPECIFICATION Spec
CONSTANTS
    W = W
    N = N
    Worker = Worker
    Callers <- TwoCallers
    Ops <- WriterOps
    Modes <- AsyncOnly
    MapOutcomes <- MapOK
    Crypt = TRUE
    NotifyAt = 2
    WarnAt = 3
    Capacity = 4
    MaxLogs = 1
    MaxOpens = 2
    MaxCrashes = 1
    MaxFails = 1
INVARIANTS FlushLeavesNothingBehind BufferIsNewest FileInOrder
PROPERTY ImplementsDurableLog
CHECK_DEADLOCK FALSE
