SPECIFICATION MCSpec
CONSTANTS
    Cap = 9
    WarnAt = 7
    Block = 3
    Sizes <- MixedRecords
    Keys <- AnyKey
    MaxLogs = 5
    MaxCuts = 1
    MaxCrashes = 2
    Nul = Nul
    Datum = Datum
    Autos = {A1, A2}
    Ptr = Ptr
    UnitSize = 2
    MaxBytes = 3
    MaxMemory = 5
    Strings <- TwoStrings
    LastHour = 2
    MaxData = 2
    MaxFile = 6
    MaxTorn = 1
INVARIANTS ChunkDecodes CrashKeeps HeaderAgrees PeriodFound
PROPERTY BuffersAreStrings
CHECK_DEADLOCK FALSE
