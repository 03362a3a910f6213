SPECIFICATION StableSpec
CONSTANTS
    B = 4
    CollProvider = 2
    CollSeeker = 3
    SeekSeqs = {0, 1}
    ProvideSeqs = {0, 1, 2}
    AmountRange = {0, 1, 4}
    FeeRange = {0, 1, 4}
    Rates = {6, 7}
    Parts = 2
    MsatsPerSat = 2
    Locked = {10}
    Ecash = {41}
    Typed = {4, 10}
    MinBps = 0
    MaxStable = 40
    FeeRate = 100
    FediFee = 20
    Fresh = TRUE
    MaxCalls = 2
    AllMoney = 3
    Actors = {"ui"}
    UserDeposits = TRUE
    EventsEarly = FALSE
    OutputsFail = FALSE
    CallsFail = FALSE
INVARIANTS
    LoopsAgree
    AskedIsTaken
PROPERTIES
    ConfirmedIsDone
    OperationsEnd
CHECK_DEADLOCK FALSE
