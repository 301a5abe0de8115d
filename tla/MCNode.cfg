\* A topic with a rate, an action, an internal topic and a service.
SPECIFICATION FairSpec
CONSTANTS
    odom = odom
    nav = nav
    rosout = rosout
    trigger = trigger
    all = all
    arm = arm
    Topics = {odom, nav, rosout}
    Services = {trigger}
    Feedback = {nav}
    Internal = {rosout}
    Namespaces = {all, arm}
    Everything = all
    Within <- MCWithin
    Own = all
    Requests = {r1}
    Window = 3
    Measured = {odom}
    Setters = {violations}
    MaxClock = 4
    MaxArrivals = 4
    MaxUpdates = 1
    MaxChanges = 2
    Focus = {"arrivals", "graph"}
INVARIANTS
    RateIsRecent
    NoStrangers
PROPERTIES
    ManifestCatchesUp
CHECK_DEADLOCK FALSE
