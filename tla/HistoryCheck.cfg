CONSTANTS
    Histories <- MCHistories
    Initials <- MCInitials
    Documents <- MCDocuments
    MaxEntries = 4
    Budget = 6
SPECIFICATION FairSpec
INVARIANTS
    AcceptedIsExplained
    IllegalIsUnexplainable
    MemoIsRefuted
PROPERTY
    Terminates
CHECK_DEADLOCK FALSE
