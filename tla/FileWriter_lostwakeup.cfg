SPECIFICATION FairSpec
CONSTANTS
    P = P
    Q = Q
    Writer = Writer
    None = None
    Posters <- OnePoster
    Ops <- AllOps
    LoadOutcomes <- LoadOK
    Objects = {1, 2, 3, 4, 5}
    MaxPool = 1
    MaxQueue = 1
    MaxCalls = 1
PROPERTY FlushIsHandled
CHECK_DEADLOCK FALSE
