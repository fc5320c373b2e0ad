CONSTANTS
    Concurrency = 2
    AskedKeys = 1
    HotKeys = 2
    Batch = 2
    Workloads = {"merge"}
    LateEffects = TRUE
    ReadSize = 2
    MaxSeq = 2
SPECIFICATION Spec
INVARIANTS
    AtMostOneAhead
    NoFalseAlarm
PROPERTIES
    CountsOnce
CHECK_DEADLOCK FALSE
