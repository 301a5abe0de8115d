\* Every transport, caller and machine; two stops at once from the server.
SPECIFICATION FairSpec
CONSTANTS
    Calls = {e1, e2}
    Arms = {arm1, arm2}
    CmdVel = cmd_vel
    Kinds = {"rosbridge", "dds"}
    Entries = {"server", "cli"}
    RclpyWorks = {TRUE, FALSE}
INVARIANTS
    RosbridgeStopSendsZero
    BaseGoesFirst
PROPERTY StopEnds
CHECK_DEADLOCK FALSE
