CONSTANTS
    Servers <- MCServers
SPECIFICATION FairSpec
INVARIANTS
    NoFalseAlarm
    CleansUp
    DoneIsEarned
PROPERTIES
    Completes
CHECK_DEADLOCK FALSE
