\* Two callers: a tool that connects, a command that switches.
SPECIFICATION FairSpec
CONSTANTS
    Callers = {c1, c2}
    FastModes = {direct_dds}
    SlowModes = {rosbridge}
    MissingModes = {zenoh}
    NoMode = NoMode
    NoCaller = NoCaller
    MaxInsts = 4
    Settings <- MCSettings
INVARIANTS
    ActiveIsNotClosed
    OneSwitchAtATime
    NoOrphanUnlessRetried
PROPERTIES
    SwitchLeavesItsOwnOrNone
    SwitchEnds
CHECK_DEADLOCK FALSE
