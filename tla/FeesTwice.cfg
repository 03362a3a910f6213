SPECIFICATION InterruptedSpec
CONSTANTS
    MILLION = 10
    FediPpms = {0, 1, 2, 3, 7}
    Bases = {0, 1, 4}
    Rates = {0, 1, 2}
    MsatsPerSat = 2
    MaxBalance = 40
    FeeSends = {"p", "q"}
    FeeReceipts = {"r"}
    AmountIn <- AmountOf
    OperationFee <- FeesOfFive
    Ecash = 16
    Threshold = 5
    Base = 1
    Rate = 1
    Timeouts = FALSE
    MaxRemits = 2
    MaxCrashes = 0
    Feds = {"a", "b"}
    Joiners = {"t1", "t2"}
    Refreshers = {}
    JoinsOverlap = FALSE
    MaxPrefix = 3
    MaxActs = 1
    Progressing <- FivePaged
    Annotated <- ThreeNoted
    Kinds = {"lnSend", "lnReceive", "pegIn", "ecashSend", "ecashReceive", "spDeposit", "spWithdrawal"}
    Crashes = TRUE
INVARIANTS
    InterruptedChargedOnce
CHECK_DEADLOCK FALSE
