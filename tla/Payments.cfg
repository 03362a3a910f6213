SPECIFICATION Spec
CONSTANTS
    Active = "first"
    FormWallets = {"first", "second"}
    Balances = {1000, 12500}
    Limits <- SomeLimits
    Rates = {30, 250}
    OverlayRates = {30}
    Unit = 1
    Group = 10
    SameLocale = TRUE
    Digits = {0, 1, 2}
    MaxTyped = 99
    FormChanges = 1
    PayingWallets = {"rich", "poor"}
    Balance <- RichAndPoor
    Asked <- AskedFor
    Typed <- TypedIn
    WalletChanges = 3
    Requestable = {1, 2}
    Lnurl = FALSE
    OnChain = TRUE
    MaxInvoices = 3
    DialogWallets = {"first", "second"}
    Reopens = FALSE
    SlowFailures = FALSE
    ServicePaysEarly = FALSE
    MaxMade = 2
    MaxOpened = 2
    Sats <- TwoMints
    OldToken = FALSE
    Fees = {1, 2}
    MaxTries = 4
    Invoices = {"a"}
    ModPayments = {"b"}
    Signatures = {"c"}
    Links = {"d"}
    MaxOutages = 1
INVARIANTS
    SentAsShown
    RequestsAreTrue
    AnswersAreOwn
PROPERTIES
    SentIsAccepted
    WaitsEnd
CHECK_DEADLOCK FALSE
