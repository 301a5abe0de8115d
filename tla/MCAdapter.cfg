\* Two subscriptions and a one-shot one over two sessions.
SPECIFICATION Spec
CONSTANTS
    Subs = {s1, s2}
    Onces = {o1}
    Topics = {t1, t2}
    Goals = {g1, g2}
    Actions = {a1, a2}
    Nothing = Nothing
    Resub = Resub
    MaxSessions = 2
    Twice = FALSE
    Overlap = FALSE
SYMMETRY Symmetry
INVARIANTS
    EveryListenerIsServed
    LeaksOnlyReconnects
    CancelFindsTheGoal
CHECK_DEADLOCK FALSE
