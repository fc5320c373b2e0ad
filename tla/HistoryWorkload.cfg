CONSTANTS
    Rounds <- MCRounds
    Documents <- MCDocuments
    MaxEntries = 24
    Budget = 250000
SPECIFICATION Spec
INVARIANTS
    NoFalseAlarm
    FailedAddsStayUnexplained
CHECK_DEADLOCK FALSE
