CONSTANTS
    first = first
    reply = reply
    loss = loss
    answer = answer
    Nobody = Nobody
    Requests <- MCRequests
    Gates <- MCGates
    Matches <- MCMatches
    Nth <- MCNth
    OnResponse <- MCOnResponse
    Drops <- MCDrops
SPECIFICATION AllSpec
INVARIANTS
    CrashBoundary
    DiscardedIsLost
    NoFalseFailure
    PassedIsSafe
PROPERTIES
    Closes
CHECK_DEADLOCK FALSE
