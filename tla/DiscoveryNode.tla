---------------------------- MODULE DiscoveryNode ----------------------------
(***************************************************************************)
(* AnimaDiscoveryNode (anima_discovery/discovery_node.py), the node on the *)
(* robot that publishes a manifest of the ROS graph.  Its executor has one *)
(* thread: the timer, the service and whatever feeds it arrivals and       *)
(* telemetry run one at a time.  The graph changes at any moment, also     *)
(* between the three queries of one manifest.                              *)
(*                                                                         *)
(* Names are model values; Within gives those that start with a namespace, *)
(* Internal those that start with an internal prefix, and an action is     *)
(* known by its feedback topic.                                            *)
(***************************************************************************)
EXTENDS Integers, Sequences

CONSTANTS
    Topics, Services,
    Feedback,   \* the topics that end with /_action/feedback
    Internal,
    Namespaces, Everything,
    Within,     \* of each namespace: the names that start with it
    Own,        \* the node's robot_namespace
    Requests,   \* queries of /anima/get_capabilities
    Window,     \* _HZ_WINDOW
    Measured,   \* BOUND: the topics whose arrivals are recorded
    Setters,    \* what the setters of the telemetry set
    MaxClock,   \* BOUND: time
    MaxArrivals, MaxUpdates, MaxChanges, \* BOUNDS
    Focus       \* BOUND: a behaviour has arrivals, or a graph that changes

Names == Topics \cup Services
NoRequest == "timer"

ASSUME NodeAssumption ==
    /\ Feedback \cup Measured \subseteq Topics /\ Internal \subseteq Names
    /\ Everything \in Namespaces /\ Own \in Namespaces
    /\ Within \in [Namespaces -> SUBSET Names] /\ Within[Everything] = Names
    /\ NoRequest \notin Requests
    /\ Window \in Nat \ {0, 1}
    /\ {MaxClock, MaxArrivals, MaxUpdates, MaxChanges} \subseteq Nat
    /\ Focus \subseteq {"arrivals", "graph"}

NoMessage == [namespace |-> Everything, topics |-> {}, hz |-> <<>>, services |-> {}, actions |-> {},
              telemetry |-> <<>>]

VARIABLES
    focus, clock,
    graph, changes,     \* the names in the ROS graph
    stamps,             \* _topic_timestamps
    arrivals,           \* every arrival so far
    telemetry,
    step,               \* where the callback that builds a manifest is
    serving,            \* the request it serves, or NoRequest for the timer
    msg,                \* the manifest being built
    during,             \* names that were in the graph while it was
    latched,            \* the last manifest published, kept for late subscribers
    answers             \* the responses to the requests

callback == <<step, serving, msg, during>>
vars == <<focus, clock, graph, changes, stamps, arrivals, telemetry, callback, latched, answers>>

Init ==
    /\ focus \in Focus /\ clock = 0 /\ graph \in SUBSET Names /\ changes = 0
    /\ stamps = [t \in Topics |-> <<>>] /\ arrivals = [t \in Topics |-> <<>>]
    /\ telemetry = [s \in Setters |-> 0]
    /\ step = "idle" /\ serving = NoRequest /\ msg = NoMessage /\ during = {}
    /\ latched = NoMessage
    /\ answers = [r \in Requests |-> NoMessage]

-----------------------------------------------------------------------------
(* The robot, and what feeds the node *)

Tick ==
    /\ focus = "arrivals" /\ clock < MaxClock /\ clock' = clock + 1
    /\ UNCHANGED <<focus, graph, changes, stamps, arrivals, telemetry, callback, latched, answers>>

GraphChanges(n) ==
    /\ focus = "graph" /\ changes < MaxChanges /\ changes' = changes + 1
    /\ graph' = IF n \in graph THEN graph \ {n} ELSE graph \cup {n}
    /\ during' = IF step = "idle" THEN during ELSE during \cup graph'
    /\ UNCHANGED <<focus, clock, stamps, arrivals, telemetry, step, serving, msg, latched, answers>>

\* Mutant: the newest samples are dropped.
Recent_Oldest(s) == IF Len(s) > Window THEN SubSeq(s, 1, Window) ELSE s

Recent(s) == IF Len(s) > Window THEN SubSeq(s, Len(s) - Window + 1, Len(s)) ELSE s

record_topic_timestamp(t) ==
    /\ focus = "arrivals" /\ step = "idle" /\ t \in graph /\ Len(arrivals[t]) < MaxArrivals
    /\ stamps' = [stamps EXCEPT ![t] = Recent(Append(@, clock))]
    /\ arrivals' = [arrivals EXCEPT ![t] = Append(@, clock)]
    /\ UNCHANGED <<focus, clock, graph, changes, telemetry, callback, latched, answers>>

update_telemetry(s) ==
    /\ step = "idle" /\ telemetry[s] < MaxUpdates
    /\ telemetry' = [telemetry EXCEPT ![s] = @ + 1]
    /\ UNCHANGED <<focus, clock, graph, changes, stamps, arrivals, callback, latched, answers>>

-----------------------------------------------------------------------------
(* The manifest *)

Included(n, ns) == n \notin Internal /\ n \in Within[ns]

\* A rate as samples over elapsed time; <<0, 1>> where none can be told.
Hz(s) ==
    IF Len(s) < 2 \/ s[Len(s)] = s[1] THEN <<0, 1>>
    ELSE <<Len(s) - 1, s[Len(s)] - s[1]>>

Begins(ns, r) ==
    /\ step = "idle"
    /\ step' = "topics" /\ serving' = r
    /\ msg' = [NoMessage EXCEPT !.namespace = ns]
    /\ during' = graph
    /\ UNCHANGED <<focus, clock, graph, changes, stamps, arrivals, telemetry, latched, answers>>

OnTimer == Begins(Own, NoRequest)

HandleGetCapabilities(r) ==
    /\ focus = "graph" /\ answers[r] = NoMessage
    /\ \E asked \in Namespaces : Begins(IF asked = Everything THEN Own ELSE asked, r)

ListsTopics ==
    /\ step = "topics" /\ step' = "services"
    /\ LET listed == {n \in graph \cap Topics : Included(n, msg.namespace)}
       IN  msg' = [msg EXCEPT !.topics = listed, !.hz = [t \in listed |-> Hz(stamps[t])]]
    /\ UNCHANGED <<focus, clock, graph, changes, stamps, arrivals, telemetry, serving, during, latched, answers>>

ListsServices ==
    /\ step = "services" /\ step' = "actions"
    /\ msg' = [msg EXCEPT !.services = {n \in graph \cap Services : Included(n, msg.namespace)}]
    /\ UNCHANGED <<focus, clock, graph, changes, stamps, arrivals, telemetry, serving, during, latched, answers>>

\* Mutant: the manifest of a request is published as well.
Delivers_Both(m) ==
    /\ latched' = m
    /\ answers' = IF serving = NoRequest THEN answers ELSE [answers EXCEPT ![serving] = m]

\* Mutant: what is kept for late subscribers is published once.
Delivers_Once(m) ==
    IF serving = NoRequest THEN latched' = (IF latched = NoMessage THEN m ELSE latched) /\ UNCHANGED answers
    ELSE answers' = [answers EXCEPT ![serving] = m] /\ UNCHANGED latched

\* The timer publishes, the service answers.
Delivers(m) ==
    IF serving = NoRequest THEN latched' = m /\ UNCHANGED answers
    ELSE answers' = [answers EXCEPT ![serving] = m] /\ UNCHANGED latched

ListsActions ==
    /\ step = "actions" /\ step' = "idle"
    /\ Delivers([msg EXCEPT
           !.actions = {n \in graph \cap Feedback : Included(n, msg.namespace)},
           !.telemetry = telemetry])
    /\ serving' = NoRequest /\ msg' = NoMessage /\ during' = {}
    /\ UNCHANGED <<focus, clock, graph, changes, stamps, arrivals, telemetry>>

Next ==
    \/ Tick \/ OnTimer \/ ListsTopics \/ ListsServices \/ ListsActions
    \/ \E n \in Names : GraphChanges(n)
    \/ \E t \in Measured : record_topic_timestamp(t)
    \/ \E s \in Setters : update_telemetry(s)
    \/ \E r \in Requests : HandleGetCapabilities(r)

Spec == Init /\ [][Next]_vars

\* A callback runs to its end, and the timer comes due again and again.
FairSpec ==
    /\ Spec
    /\ WF_vars(ListsTopics) /\ WF_vars(ListsServices) /\ WF_vars(ListsActions)
    /\ SF_vars(OnTimer)

-----------------------------------------------------------------------------
(* Properties *)

Delivered == {latched} \cup {answers[r] : r \in Requests}

\* The rate a manifest would report is the mean of the gaps between the last
\* Window arrivals: no faster than the shortest of them, no slower than the
\* longest, and there is one as soon as two of them differ in time.
LastGaps(t) ==
    LET a == arrivals[t]
        first == IF Len(a) > Window THEN Len(a) - Window + 1 ELSE 1
    IN  {a[i + 1] - a[i] : i \in first .. Len(a) - 1}

RateIsRecent ==
    \A t \in Topics :
        LET rate == Hz(stamps[t])
            gaps == LastGaps(t)
        IN  /\ (\E g \in gaps : g > 0) => rate[1] > 0
            /\ rate[1] > 0 => /\ \E g \in gaps : g * rate[1] <= rate[2]
                              /\ \E g \in gaps : g * rate[1] >= rate[2]

\* What a manifest lists was in the graph while it was built, belongs to the
\* namespace the manifest names, and is nothing internal; the manifest that is
\* kept for late subscribers is the node's own and not somebody's query.
NoStrangers ==
    /\ latched.namespace \in {Own, Everything}
    /\ \A m \in Delivered : \A n \in m.topics \cup m.services \cup m.actions :
          n \notin Internal /\ n \in Within[m.namespace]
    /\ msg.topics \cup msg.services \subseteq during

\* A topic, service or action that stays in the graph gets into the manifest
\* late subscribers are given, whatever queries come in between.
Listed(n) ==
    /\ n \in Topics => n \in latched.topics
    /\ n \in Services => n \in latched.services
    /\ n \in Feedback => n \in latched.actions

ManifestCatchesUp ==
    \A n \in Names :
        n \in graph /\ Included(n, Own) ~> Listed(n) \/ n \notin graph
=============================================================================
