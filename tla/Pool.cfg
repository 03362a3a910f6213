SPECIFICATION Spec
CONSTANTS
    Account = {a1, a2}
    B = 4
    CollProvider = 1
    CollSeeker = 1
    MinSeek = 2
    MinProvide = 2
    MaxFeeRate = 1
    MinCancelBps = 1
    BpsUnit = 2
    Deposits = {3}
    FeeRates = {0, 1}
    Bps = {1, 2}
    Withdrawals = {2}
    Prices = {1, 3}
    MaxSeeks = 2
    MaxProvides = 2
    MaxCycles = 3
INVARIANTS
    TypeOK
    Conservation
    Collateralised
    PrioritiesHold
    ProvidesNeverDivideByZero
    OneSided
    CancellationBacked
    MetadataTruthful
    SeeksKeepValue
PROPERTIES
    ImplementsCustody
    MarketClears
    FullCancellationExits
CHECK_DEADLOCK FALSE
