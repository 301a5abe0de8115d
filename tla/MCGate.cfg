\* Every process; payloads on both sides of every limit.
SPECIFICATION Spec
CONSTANTS
    c1 = c1
    c2 = c2
    Calls = {c1, c2}
    Hosts = {"serve", "mcp", "plugin", "cli", "bridge"}
    Limits <- MCLimits
    Default <- Loose
    NoLimits = NoLimits
    Sections = {"transport", "rosbridge"}
    Payloads <- MCPayloads
    Commands <- MCCommands
    Extras = {"retries"}
    MaxLoads = 2
INVARIANTS
    GateIsSound
    BlockedForCause
    CheckedByTheLatest
    AcceptedCallsBind
CHECK_DEADLOCK FALSE
