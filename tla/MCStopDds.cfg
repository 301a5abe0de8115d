\* A DDS publish that reports a failure.
SPECIFICATION Spec
CONSTANTS
    Calls = {e1}
    Arms = {arm1}
    CmdVel = cmd_vel
    Kinds = {"dds"}
    Entries = {"server"}
    RclpyWorks = {TRUE}
INVARIANT EveryCallSendsZero
CHECK_DEADLOCK FALSE
