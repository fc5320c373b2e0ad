CONSTANTS
    a = a
    b = b
    odd = odd
    Names = {a, b}
    NullTable <- MCNull
    Documents <- MCDocuments
    Results <- MCResults
    MaxMerges = 1
SPECIFICATION FairSpec
INVARIANTS
    CyclesAreRefused
    Faithful
    RoundTrip
PROPERTIES
    Ends
CHECK_DEADLOCK FALSE
