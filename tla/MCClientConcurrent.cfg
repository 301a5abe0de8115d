\* connect() called at any moment: two handshakes may be in flight at once.
SPECIFICATION FairSpec
CONSTANTS
    ConnectCalls = {u1, u2}
    DisconnectCalls = {d1}
    Requests = {r1}
    MaxConns = 2
    MaxAttempts = 2
    Reconnect = TRUE
    SerialUse = FALSE
    OddFrames = TRUE
INVARIANTS
    NoStrandedRequest
PROPERTIES
    EveryRequestSettles
    DisconnectReturns
    LossIsNoticed
    ImplementsRequestContract
CHECK_DEADLOCK FALSE
