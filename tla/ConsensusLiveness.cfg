SPECIFICATION FairSpec
CONSTANTS
    Guardian = {g1, g2, g3, g4}
    Faulty = {g4}
    Threshold = 3
    CycleDuration = 0
    EnoughTime = 0
    Prices = {1}
    FaultyPrices = {9}
    FaultyTimes = {9}
    MaxTime = 1
    MaxCycles = 2
    MaxRestarts = 1
    MaxLosses = 0
PROPERTIES
    TurnsOver
CHECK_DEADLOCK FALSE
