SPECIFICATION MCSpec
CONSTANTS
    P = P
    Q = Q
    Callers <- TwoCallers
    Ops <- OwnerAndOther
    Outside = FALSE
    MaxStarts = 2
    MaxKills = 1
    MaxFails = 1
    Users = {P, Q}
    Scopes = {"a", "b", "c"}
    On <- MostlyMutex
    Nobody = Nobody
    Gone = Gone
    NoScope = NoScope
    Holders = {h1, h2, h3}
    Vectors = {0, 1, 2}
    Threads = {P, Q}
    Types = {t1, t2}
    MaxObjects = 2
INVARIANTS Lifetimes ReleasedOnce DelayHonoured HoldersAgree VectorAgrees HolderKeeps
PROPERTY CancelEnds
CHECK_DEADLOCK FALSE
