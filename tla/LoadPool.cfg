CONSTANTS
    Workers = {w1, w2}
    OperationCount = 4
SPECIFICATION FairLoadSpec
INVARIANTS
    PassedIsComplete
    FailedIsGenuine
    NothingIsLost
PROPERTIES
    LoadConcludes
CHECK_DEADLOCK FALSE
