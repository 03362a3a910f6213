SPECIFICATION Spec
CONSTANTS
    Feds = {a, b}
    Joiners = {j1, j2}
    Refreshers = {}
    JoinsOverlap = TRUE
    MaxPrefix = 2
    MaxActs = 1
INVARIANT RunningIsSaved
