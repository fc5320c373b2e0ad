CONSTANTS
    p1 = p1
    p2 = p2
    t1 = t1
    t2 = t2
    Packages = {p1, p2}
    Tests = {t1, t2}
    Lists <- MCLists
    MaxRuns = 2
    Keys = {k1, k2}
    Values = {1, 2}
    BatchSize = 2
    Steps = 3
    MaxErrors = 1
SPECIFICATION JudgesSpec
INVARIANTS
    AcceptedIsGreen
    NoFalseAlarm
    PassedIsFaithful
PROPERTIES
    GreenIsAccepted
CHECK_DEADLOCK FALSE
