SPECIFICATION BusySpec
CONSTANTS
    P = P
    Q = Q
    Writer = Writer
    None = None
    Posters <- TwoPosters
    Ops <- MixedOps
    LoadOutcomes <- LoadMayFail
    Objects = {1, 2, 3, 4, 5}
    MaxPool = 1
    MaxQueue = 1
    MaxCalls = 1
INVARIANTS NoAliasing PostedAsAsked
PROPERTIES MessagesLeave FlushBlockingReturns ImplementsMailbox
CHECK_DEADLOCK FALSE
