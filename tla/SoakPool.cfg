CONSTANTS
    Workers = {w1, w2, w3}
    MinimumCycles = 2
    MaxCycles = 2
SPECIFICATION FairPoolSpec
INVARIANTS
    PassedIsClean
    FailureIsGenuine
PROPERTIES
    Concludes
CHECK_DEADLOCK FALSE
