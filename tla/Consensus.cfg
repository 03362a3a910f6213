SPECIFICATION ConsensusSpec
CONSTANTS
    Guardian = {g1, g2, g3, g4}
    Faulty = {g4}
    Threshold = 3
    CycleDuration = 1
    EnoughTime = 0
    Prices = {1}
    FaultyPrices = {1}
    FaultyTimes = {0}
    MaxTime = 2
    MaxCycles = 2
    MaxRestarts = 1
    MaxLosses = 0
SYMMETRY Symmetry
INVARIANTS
    MediansAreHonest
    CyclesAreSound
CHECK_DEADLOCK FALSE
