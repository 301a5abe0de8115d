\* One client used the way transport_manager uses it.
SPECIFICATION Spec
CONSTANTS
    ConnectCalls = {u1, u2}
    DisconnectCalls = {d1, d2}
    Requests = {r1, r2}
    MaxConns = 2
    MaxAttempts = 2
    Reconnect = TRUE
    SerialUse = TRUE
    OddFrames = TRUE
SYMMETRY Symmetry
INVARIANTS
    WaitsOnlyAcrossClose
    OneOwner
    NoOrphanSocket
PROPERTIES
    ImplementsTransportLife
CHECK_DEADLOCK FALSE
