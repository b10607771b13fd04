SPECIFICATION MCSpec
CONSTANTS
    T = T
    U = U
    Threads <- TwoThreads
    Ops <- Roles
    Levels <- SomeLevels
    FileSizes = {0, 7}
    LoadOutcomes = {TRUE}
    MaxCalls <- FewCalls
    MaxCrashes = 1
    MaxFails = 1
INVARIANTS ConfigAgrees BufferMatchesMap LeftoversSurvive
CHECK_DEADLOCK FALSE
