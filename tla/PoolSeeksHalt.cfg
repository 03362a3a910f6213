SPECIFICATION Spec
CONSTANTS
    Account = {a1, a2}
    B = 4
    CollProvider = 1
    CollSeeker = 1
    MinSeek = 2
    MinProvide = 2
    MaxFeeRate = 1
    MinCancelBps = 1
    BpsUnit = 2
    Deposits = {3}
    FeeRates = {1}
    Bps = {1, 2}
    Withdrawals = {2}
    Prices = {1, 2, 3}
    MaxSeeks = 1
    MaxProvides = 1
    MaxCycles = 3
INVARIANTS
    SeeksNeverDivideByZero
CHECK_DEADLOCK FALSE
