SPECIFICATION FairSpec
CONSTANTS
    c1 = c1
    c2 = c2
    Calls = {c1, c2}
    Handles = {h1, h2, h3}
    Ids = {i1, i2, i3}
    NoCall = NoCall
    NoHandle = NoHandle
    NoId = NoId
    MaxNodes = 2
    MaxHeard = 2
    Slow = {TRUE, FALSE}
    Overlap = FALSE
    Operations <- MCOperations
    Cancellable = {c1}
    Focus = {"calls", "subscriptions"}
INVARIANTS SpinnerServesItsNode OnlyKnownLeaks FirstMessageWins InProgressIsKnown 
PROPERTIES EveryCallEnds
CHECK_DEADLOCK FALSE
