SPECIFICATION Spec
CONSTANTS
    NoCache = NoCache
    Calls = {c1, c2}
    Topics = {odom, rosout}
    Own = {odom}
    ContextTTL = 2
    ScanTTL = 2
    Threshold = 2
    ListTime = 2
    MaxClock = 8
    MaxGen = 2
    ModeOf <- MCModeOf
    Focus = {"context", "scanner"}
INVARIANTS ContextIsRecent FailureIsRetried OldContextFades ScanIsRecent HealthTracksSightings
SYMMETRY Symmetry
CHECK_DEADLOCK FALSE
