CONSTANTS
    Concurrency = 2
    AskedKeys = 3
    HotKeys = 0
    Batch = 2
    Workloads = {"upsert", "mixed"}
    LateEffects = FALSE
    ReadSize = 3
    MaxSeq = 2
    SeedSize = 3
    Warmups = 1
    Tickets = 2
    Offered = 2
SPECIFICATION Spec
INVARIANTS
    HealthyIsEarned
    UnhealthyIsGenuine
    VerifiedAccounts
PROPERTIES
    Implements
    Concludes
CHECK_DEADLOCK FALSE
