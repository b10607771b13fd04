SPECIFICATION MCSpec
CONSTANTS
    Owner = Owner
    Other = Other
    Clients <- TwoClients
    Queue = Queue
    Ops <- Roles
    Budget <- FewCalls
    Handlers = {h1, h2}
    Async = h1
    Receivers = {h2}
    Everyone = Everyone
    Titles = {t1}
    Timings = {"now", "periodic"}
    MaxMessages = 2
    MaxLoops = 2
    MaxPeriods = 2
    Invokers = {Owner, Other}
    Insiders = {Other}
    Kinds = {"value", "reference"}
    MaxResults = 2
    MaxTurns = 2
    WordBits = 4
    Words = 2
    Omega = 15
    N = 211
    Gx = 3
    Gy = 47
    ServerKeys <- MCServerKeys
    ZDraws <- MCZDraws
    MaxTries = 2
    ByteBits = 2
    SignKeys <- MCSignKeys
    Hashes <- MCHashes
    Masks <- MCMasks
INVARIANTS HandledIsAlive CancelAndWaitStops WaitReturnsDone ResultsAreTold
INVARIANTS SharedSecretAgrees ArithmeticAgrees SignaturesAgree
PROPERTY WaitersReturn
CHECK_DEADLOCK FALSE
