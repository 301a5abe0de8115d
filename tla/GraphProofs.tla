----------------------------- MODULE GraphProofs -----------------------------
(***************************************************************************)
(* What is told of the ROS graph, for any names and entities: the          *)
(* manifests of DiscoveryNode, however the graph changes while one is      *)
(* built, and the fingerprints of Fingerprint, in whatever order the graph *)
(* lists its entities.                                                     *)
(***************************************************************************)
EXTENDS DiscoveryNode, Fingerprint, SequenceTheorems, FiniteSetTheorems, WellFoundedInduction, TLAPS

USE DEF callback

-----------------------------------------------------------------------------
(* Manifests *)

Fields == {"namespace", "topics", "hz", "services", "actions", "telemetry"}

IsManifest(m) == DOMAIN m = Fields

\* All that m lists is of its namespace, and nothing internal.
Proper(m) ==
    /\ IsManifest(m)
    /\ m.namespace \in Namespaces
    /\ \A n \in m.topics \cup m.services \cup m.actions : Included(n, m.namespace)

LEMMA Empty ==
    ASSUME NEW ns \in Namespaces
    PROVE  /\ Proper(NoMessage)
           /\ Proper([NoMessage EXCEPT !.namespace = ns])
           /\ [NoMessage EXCEPT !.namespace = ns].namespace = ns
           /\ NoMessage.namespace = Everything
           /\ [NoMessage EXCEPT !.namespace = ns].topics = {}
           /\ [NoMessage EXCEPT !.namespace = ns].services = {}
           /\ NoMessage.topics = {} /\ NoMessage.services = {}
<1>1. DOMAIN NoMessage = Fields /\ NoMessage.namespace = Everything
  BY DEF NoMessage, Fields
<1>2. NoMessage.topics = {} /\ NoMessage.services = {} /\ NoMessage.actions = {}
  BY DEF NoMessage
<1> DEFINE m2 == [NoMessage EXCEPT !.namespace = ns]
<1>3. DOMAIN m2 = Fields /\ m2.namespace = ns
  BY <1>1 DEF Fields
<1>4. m2.topics = {} /\ m2.services = {} /\ m2.actions = {}
  BY <1>1, <1>2 DEF Fields
<1> QED BY <1>1, <1>2, <1>3, <1>4, NodeAssumption DEF Proper, IsManifest

LEMMA WithServices ==
    ASSUME NEW m, Proper(m), NEW S, \A n \in S : Included(n, m.namespace)
    PROVE  LET m2 == [m EXCEPT !.services = S] IN
           Proper(m2) /\ m2.namespace = m.namespace /\ m2.topics = m.topics /\ m2.services = S
<1> DEFINE m2 == [m EXCEPT !.services = S]
<1>1. /\ DOMAIN m2 = Fields /\ m2.namespace = m.namespace /\ m2.topics = m.topics
      /\ m2.services = S /\ m2.actions = m.actions
  BY DEF Proper, IsManifest, Fields
<1> HIDE DEF m2
<1> QED BY <1>1 DEF Proper, IsManifest

LEMMA WithActions ==
    ASSUME NEW m, Proper(m), NEW S, NEW tel, \A n \in S : Included(n, m.namespace)
    PROVE  LET m2 == [m EXCEPT !.actions = S, !.telemetry = tel] IN
           Proper(m2) /\ m2.namespace = m.namespace
<1> DEFINE m2 == [m EXCEPT !.actions = S, !.telemetry = tel]
<1>1. /\ DOMAIN m2 = Fields /\ m2.namespace = m.namespace /\ m2.topics = m.topics
      /\ m2.services = m.services /\ m2.actions = S
  BY DEF Proper, IsManifest, Fields
<1> HIDE DEF m2
<1> QED BY <1>1 DEF Proper, IsManifest

-----------------------------------------------------------------------------
(* The invariant *)

\* Of the manifest being built.
BuildInv ==
    /\ Proper(msg)
    /\ step # "idle" /\ serving = NoRequest => msg.namespace = Own
    /\ step = "idle" => serving = NoRequest
    /\ serving # NoRequest => serving \in Requests
    /\ step # "idle" => graph \subseteq during
    /\ msg.topics \cup msg.services \subseteq during

\* Of those that were delivered.
DeliveredInv ==
    /\ Proper(latched) /\ latched.namespace \in {Own, Everything}
    /\ answers = [r \in Requests |-> answers[r]]
    /\ \A r \in Requests : Proper(answers[r])

NodeInv == BuildInv /\ DeliveredInv

LEMMA NodeInit == Init => NodeInv
<1> SUFFICES ASSUME Init PROVE NodeInv
  OBVIOUS
<1>1. Everything \in Namespaces
  BY NodeAssumption
<1>2. BuildInv
  BY <1>1, Empty DEF Init, BuildInv
<1>3. DeliveredInv
  BY <1>1, Empty DEF Init, DeliveredInv
<1> QED BY <1>2, <1>3 DEF NodeInv

LEMMA NodeStep == NodeInv /\ [Next]_vars => NodeInv'
<1> SUFFICES ASSUME BuildInv, DeliveredInv, [Next]_vars PROVE BuildInv' /\ DeliveredInv'
  BY DEF NodeInv
<1>1. ASSUME NEW n \in Names, GraphChanges(n) PROVE BuildInv' /\ DeliveredInv'
  <2>1. UNCHANGED <<step, serving, msg, latched, answers>>
    BY <1>1 DEF GraphChanges
  <2>2. during \subseteq during' /\ (step # "idle" => graph' \subseteq during')
    BY <1>1 DEF GraphChanges
  <2>3. BuildInv'
    BY <2>1, <2>2 DEF BuildInv
  <2> QED BY <2>1, <2>3 DEF DeliveredInv
<1>2. ASSUME NEW ns \in Namespaces, NEW r, Begins(ns, r),
             r \in Requests \/ (r = NoRequest /\ ns = Own)
      PROVE  BuildInv' /\ DeliveredInv'
  <2>1. /\ step' = "topics" /\ serving' = r /\ during' = graph' /\ UNCHANGED <<latched, answers>>
        /\ msg' = [NoMessage EXCEPT !.namespace = ns]
    BY <1>2 DEF Begins
  <2>2. BuildInv'
    <3>1. Proper(msg') /\ msg'.namespace = ns /\ msg'.topics = {} /\ msg'.services = {}
      BY <2>1, Empty
    <3>2. serving' = NoRequest => ns = Own
      BY <1>2, <2>1, NodeAssumption
    <3> QED BY <1>2, <2>1, <3>1, <3>2 DEF BuildInv
  <2> QED BY <2>1, <2>2 DEF DeliveredInv
<1>3. CASE OnTimer
  BY <1>2, <1>3, NodeAssumption DEF OnTimer
<1>4. ASSUME NEW r \in Requests, HandleGetCapabilities(r) PROVE BuildInv' /\ DeliveredInv'
  BY <1>2, <1>4, NodeAssumption DEF HandleGetCapabilities
<1>5. CASE ListsTopics
  <2> DEFINE listed == {n \in graph \cap Topics : Included(n, msg.namespace)}
             hz == [t \in listed |-> Hz(stamps[t])]
  <2>1. /\ msg' = [msg EXCEPT !.topics = listed, !.hz = hz] /\ step = "topics" /\ step' = "services"
        /\ UNCHANGED <<graph, serving, during, latched, answers>>
    BY <1>5 DEF ListsTopics
  <2>2. listed \subseteq during
    BY <2>1 DEF BuildInv
  <2>3. Proper(msg) /\ \A n \in listed : Included(n, msg.namespace)
    BY DEF BuildInv
  <2> HIDE DEF hz, listed
  <2>4. Proper(msg') /\ msg'.namespace = msg.namespace /\ msg'.topics = listed /\ msg'.services = msg.services
    <3> DEFINE m2 == [msg EXCEPT !.topics = listed, !.hz = hz]
    <3>1. /\ DOMAIN m2 = Fields /\ m2.namespace = msg.namespace /\ m2.topics = listed
          /\ m2.services = msg.services /\ m2.actions = msg.actions
      BY <2>3 DEF Proper, IsManifest, Fields
    <3>2. msg' = m2
      BY <2>1
    <3> HIDE DEF m2
    <3> QED BY <2>3, <3>1, <3>2 DEF Proper, IsManifest
  <2>5. BuildInv'
    BY <2>1, <2>2, <2>4 DEF BuildInv
  <2> QED BY <2>1, <2>5 DEF DeliveredInv
<1>6. CASE ListsServices
  <2> DEFINE listed == {n \in graph \cap Services : Included(n, msg.namespace)}
  <2>1. /\ msg' = [msg EXCEPT !.services = listed] /\ step = "services" /\ step' = "actions"
        /\ UNCHANGED <<graph, serving, during, latched, answers>>
    BY <1>6 DEF ListsServices
  <2>2. listed \subseteq during
    BY <2>1 DEF BuildInv
  <2>3. Proper(msg)
    BY DEF BuildInv
  <2>4. Proper(msg') /\ msg'.namespace = msg.namespace /\ msg'.topics = msg.topics /\ msg'.services = listed
    BY <2>1, <2>3, WithServices
  <2> HIDE DEF listed
  <2>5. BuildInv'
    BY <2>1, <2>2, <2>4 DEF BuildInv
  <2> QED BY <2>1, <2>5 DEF DeliveredInv
<1>7. CASE ListsActions
  <2> DEFINE listed == {n \in graph \cap Feedback : Included(n, msg.namespace)}
             m == [msg EXCEPT !.actions = listed, !.telemetry = telemetry]
  <2>1. /\ Delivers(m) /\ step = "actions" /\ step' = "idle" /\ serving' = NoRequest
        /\ msg' = NoMessage /\ during' = {}
    BY <1>7 DEF ListsActions
  <2>2. Proper(m) /\ m.namespace = msg.namespace
    BY WithActions DEF BuildInv
  <2> HIDE DEF m
  <2>3. BuildInv'
    BY <2>1, Empty, NodeAssumption DEF BuildInv
  <2>4. CASE serving = NoRequest
    <3>1. latched' = m /\ UNCHANGED answers /\ msg.namespace = Own
      BY <2>1, <2>4 DEF Delivers, BuildInv
    <3> QED BY <2>2, <2>3, <3>1 DEF DeliveredInv
  <2>5. CASE serving # NoRequest
    <3>1. answers' = [answers EXCEPT ![serving] = m] /\ UNCHANGED latched /\ serving \in Requests
      BY <2>1, <2>5 DEF Delivers, BuildInv
    <3>2. answers' = [r \in Requests |-> IF r = serving THEN m ELSE answers[r]]
      BY <3>1 DEF DeliveredInv
    <3> QED BY <2>2, <2>3, <3>1, <3>2 DEF DeliveredInv
  <2> QED BY <2>3, <2>4, <2>5
<1>8. ASSUME UNCHANGED <<graph, step, serving, msg, during, latched, answers>>
      PROVE  BuildInv' /\ DeliveredInv'
  BY <1>8 DEF BuildInv, DeliveredInv
<1>9. ASSUME NEW t \in Measured, record_topic_timestamp(t)
      PROVE  UNCHANGED <<graph, step, serving, msg, during, latched, answers>>
  BY <1>9 DEF record_topic_timestamp
<1>10. ASSUME NEW s \in Setters, update_telemetry(s)
      PROVE  UNCHANGED <<graph, step, serving, msg, during, latched, answers>>
  BY <1>10 DEF update_telemetry
<1>11. ASSUME Tick \/ UNCHANGED vars
      PROVE  UNCHANGED <<graph, step, serving, msg, during, latched, answers>>
  BY <1>11 DEF Tick, vars
<1> QED
  BY <1>1, <1>3, <1>4, <1>5, <1>6, <1>7, <1>8, <1>9, <1>10, <1>11 DEF Next

\* However the graph changes between the queries of a manifest, it lists nothing
\* internal, nothing of another namespace and nothing that was never there, and
\* late subscribers are never given the manifest of somebody's query.
THEOREM ManifestsListNoStrangers == Spec => []NoStrangers
<1>1. NodeInv => NoStrangers
  BY DEF NodeInv, BuildInv, DeliveredInv, NoStrangers, Delivered, Proper, Included
<1> QED BY <1>1, NodeInit, NodeStep, PTL DEF Spec

-----------------------------------------------------------------------------
(* The manifest catches up *)

\* The timer's own manifest has got to step s, with name n in its lists.
OwnRun(n, s) ==
    /\ step = s /\ serving = NoRequest
    /\ s \in {"services", "actions"} /\ n \in Topics => n \in msg.topics
    /\ s = "actions" /\ n \in Services => n \in msg.services

\* Nothing but the three queries moves the callback that builds a manifest.
LEMMA NodeMoves ==
    ASSUME [Next]_vars, ~ListsTopics, ~ListsServices, ~ListsActions, step # "idle"
    PROVE  UNCHANGED <<step, serving, msg, latched>>
<1>1. ASSUME NEW n \in Names, GraphChanges(n) PROVE UNCHANGED <<step, serving, msg, latched>>
  BY <1>1 DEF GraphChanges
<1>2. ASSUME NEW t \in Measured, record_topic_timestamp(t) PROVE FALSE
  BY <1>2 DEF record_topic_timestamp
<1>3. ASSUME NEW s \in Setters, update_telemetry(s) PROVE FALSE
  BY <1>3 DEF update_telemetry
<1>4. ASSUME NEW r \in Requests, HandleGetCapabilities(r) PROVE FALSE
  BY <1>4 DEF HandleGetCapabilities, Begins
<1>5. CASE OnTimer
  BY <1>5 DEF OnTimer, Begins
<1>6. CASE Tick \/ UNCHANGED vars
  BY <1>6 DEF Tick, vars
<1> QED
  BY <1>1, <1>2, <1>3, <1>4, <1>5, <1>6 DEF Next

LEMMA OwnRunStep ==
    ASSUME NodeInv, [Next]_vars, NEW n \in graph, n \in Names, Included(n, Own)
    PROVE  /\ OwnRun(n, "topics") => OwnRun(n, "topics")' \/ OwnRun(n, "services")'
           /\ OwnRun(n, "services") => OwnRun(n, "services")' \/ OwnRun(n, "actions")'
           /\ OwnRun(n, "actions") => OwnRun(n, "actions")' \/ Listed(n)'
<1>0. Proper(msg) /\ (step # "idle" /\ serving = NoRequest => msg.namespace = Own)
  BY DEF NodeInv, BuildInv
<1>1. CASE ListsTopics
  <2>1. msg'.topics = {x \in graph \cap Topics : Included(x, msg.namespace)}
    BY <1>0, <1>1 DEF ListsTopics, Proper, IsManifest, Fields
  <2> QED
    BY <1>0, <1>1, <2>1 DEF ListsTopics, OwnRun
<1>2. CASE ListsServices
  <2>1. /\ msg'.services = {x \in graph \cap Services : Included(x, msg.namespace)}
        /\ msg'.topics = msg.topics
    BY <1>0, <1>2 DEF ListsServices, Proper, IsManifest, Fields
  <2> QED
    BY <1>0, <1>2, <2>1 DEF ListsServices, OwnRun
<1>3. CASE ListsActions
  <2> DEFINE found == {x \in graph \cap Feedback : Included(x, msg.namespace)}
             m == [msg EXCEPT !.actions = found, !.telemetry = telemetry]
  <2>1. m.actions = found /\ m.topics = msg.topics /\ m.services = msg.services
    BY <1>0 DEF Proper, IsManifest, Fields
  <2>2. step = "actions" /\ Delivers(m)
    BY <1>3 DEF ListsActions
  <2> HIDE DEF m
  <2>3. OwnRun(n, "actions") => latched' = m
    BY <2>2 DEF OwnRun, Delivers
  <2>4. OwnRun(n, "actions") => Listed(n)'
    BY <1>0, <2>1, <2>3 DEF OwnRun, Listed
  <2> QED
    BY <2>2, <2>4 DEF OwnRun
<1>4. CASE ~ListsTopics /\ ~ListsServices /\ ~ListsActions
  BY <1>4, NodeMoves DEF OwnRun
<1> QED
  BY <1>1, <1>2, <1>3, <1>4

\* The callback goes through its steps in their order, whoever it serves.
LEMMA StepOrder ==
    ASSUME [Next]_vars
    PROVE  /\ step = "topics" => step' \in {"topics", "services"}
           /\ step = "services" => step' \in {"services", "actions"}
           /\ step = "actions" => step' \in {"actions", "idle"}
BY NodeMoves DEF ListsTopics, ListsServices, ListsActions

StepInv == step \in {"idle", "topics", "services", "actions"}

LEMMA StepAlways == Spec => [](NodeInv /\ StepInv)
<1>1. Init => StepInv
  BY DEF Init, StepInv
<1>2. StepInv /\ [Next]_vars => StepInv'
  <2> SUFFICES ASSUME StepInv, [Next]_vars PROVE StepInv'
    OBVIOUS
  <2>1. CASE step # "idle"
    BY <2>1, StepOrder DEF StepInv
  <2>2. CASE step = "idle"
    <3>1. ASSUME NEW n \in Names, GraphChanges(n) PROVE StepInv'
      BY <3>1 DEF GraphChanges, StepInv
    <3>2. ASSUME NEW t \in Measured, record_topic_timestamp(t) PROVE StepInv'
      BY <3>2 DEF record_topic_timestamp, StepInv
    <3>3. ASSUME NEW s \in Setters, update_telemetry(s) PROVE StepInv'
      BY <3>3 DEF update_telemetry, StepInv
    <3>4. ASSUME NEW r \in Requests, HandleGetCapabilities(r) PROVE StepInv'
      BY <3>4 DEF HandleGetCapabilities, Begins, StepInv
    <3>5. CASE OnTimer
      BY <3>5 DEF OnTimer, Begins, StepInv
    <3>6. CASE Tick \/ UNCHANGED vars
      BY <3>6 DEF Tick, vars, StepInv
    <3> QED
      BY <2>2, <3>1, <3>2, <3>3, <3>4, <3>5, <3>6
      DEF Next, ListsTopics, ListsServices, ListsActions
  <2> QED
    BY <2>1, <2>2
<1> QED
  BY <1>1, <1>2, NodeInit, NodeStep, PTL DEF Spec

\* The timer can fire when no callback runs, and a callback that runs can take
\* its next step: none of the four has another guard, and each assigns every
\* variable once.  The provers cannot expand ENABLED, so the theorem has this
\* as a hypothesis.
NodeCanGoOn ==
    /\ [](step = "idle" => ENABLED <<OnTimer>>_vars)
    /\ [](step = "topics" => ENABLED <<ListsTopics>>_vars)
    /\ [](step = "services" => ENABLED <<ListsServices>>_vars)
    /\ [](step = "actions" => ENABLED <<ListsActions>>_vars)

LEMMA NameCatchesUp ==
    ASSUME NEW n \in Names, Included(n, Own)
    PROVE  FairSpec /\ NodeCanGoOn => (n \in graph ~> Listed(n) \/ n \notin graph)
<1> DEFINE Idle == step = "idle"
           T == step = "topics"
           S == step = "services"
           A == step = "actions"
           G == n \in graph
           L == Listed(n)
           OwnT == OwnRun(n, "topics")
           OwnS == OwnRun(n, "services")
           OwnA == OwnRun(n, "actions")
           Inv == NodeInv /\ StepInv
<1>1. Inv => Idle \/ T \/ S \/ A
  BY DEF StepInv
<1>2. [Next]_vars => (T => T' \/ S') /\ (S => S' \/ A') /\ (A => A' \/ Idle')
  BY StepOrder
<1>3. /\ T /\ <<ListsTopics>>_vars => ~T'
      /\ S /\ <<ListsServices>>_vars => ~S'
      /\ A /\ <<ListsActions>>_vars => ~A'
  BY DEF ListsTopics, ListsServices, ListsActions
<1>4. Inv /\ G /\ [Next]_vars =>
         /\ OwnT => OwnT' \/ OwnS'
         /\ OwnS => OwnS' \/ OwnA'
         /\ OwnA => OwnA' \/ L'
  BY OwnRunStep
<1>5. <<OnTimer>>_vars => OwnT'
  BY DEF OnTimer, Begins, OwnRun
<1>6. (OwnT => T) /\ (OwnS => S) /\ (OwnA => A)
  BY DEF OwnRun
<1>7. Spec => []Inv
  BY StepAlways
<1>8. (n \notin graph) <=> ~G
  OBVIOUS
<1>9. NodeCanGoOn <=>
         /\ [](Idle => ENABLED <<OnTimer>>_vars)
         /\ [](T => ENABLED <<ListsTopics>>_vars)
         /\ [](S => ENABLED <<ListsServices>>_vars)
         /\ [](A => ENABLED <<ListsActions>>_vars)
  BY PTL DEF NodeCanGoOn
<1>10. (n \in graph <=> G) /\ (Listed(n) <=> L)
  OBVIOUS
<1>11. (S => ~T) /\ (A => ~S) /\ (Idle => ~A)
  OBVIOUS
<1> HIDE DEF Idle, T, S, A, G, L, OwnT, OwnS, OwnA, Inv
<1> QED
  BY <1>1, <1>2, <1>3, <1>4, <1>5, <1>6, <1>7, <1>8, <1>9, <1>10, <1>11, PTL DEF Spec, FairSpec

\* A name that stays in the graph gets into the manifest late subscribers are
\* given, though any number of queries keep the executor busy in between: a
\* callback that can go on does, so the executor is idle again and again, and
\* the timer's turn comes; from then on no query can cut in.
THEOREM ManifestsCatchUp == FairSpec /\ NodeCanGoOn => ManifestCatchesUp
<1>1. ASSUME NEW n \in Names
      PROVE  FairSpec /\ NodeCanGoOn
                => (n \in graph /\ Included(n, Own) ~> Listed(n) \/ n \notin graph)
  <2>1. CASE Included(n, Own)
    <3>1. FairSpec /\ NodeCanGoOn => (n \in graph ~> Listed(n) \/ n \notin graph)
      BY <2>1, NameCatchesUp
    <3>2. n \in graph /\ Included(n, Own) => n \in graph
      OBVIOUS
    <3> QED
      BY <3>1, <3>2, PTL
  <2>2. CASE ~Included(n, Own)
    <3>1. ~(n \in graph /\ Included(n, Own))
      BY <2>2
    <3> QED
      BY <3>1, PTL
  <2> QED
    BY <2>1, <2>2
<1> QED
  BY <1>1 DEF ManifestCatchesUp

-----------------------------------------------------------------------------
(* Induction.  A predicate is the set of the numbers it holds of. *)

LEMMA Least ==
    ASSUME NEW T \in SUBSET Nat, T # {}
    PROVE  \E x \in T : \A y \in T : x <= y
<1> DEFINE R == OpToRel(<, Nat)
<1>1. IsWellFoundedOn(R, Nat)
  BY NatLessThanWellFounded
<1>2. \A x, y \in Nat : y < x => <<y, x>> \in R
  BY DEF R, OpToRel
<1> HIDE DEF R
<1>3. PICK x \in T : \A y \in T : ~ (<<y, x>> \in R)
  BY <1>1, WFMin
<1>4. ASSUME NEW y \in T PROVE x <= y
  <2>1. ~ (y < x)
    BY <1>2, <1>3
  <2> QED BY <2>1
<1> QED BY <1>4

LEMMA NatIsInductive ==
    ASSUME NEW S, 0 \in S, \A n \in Nat : n \in S => n + 1 \in S
    PROVE  Nat \subseteq S
<1> SUFFICES ASSUME ~ (Nat \subseteq S) PROVE FALSE
  OBVIOUS
<1> DEFINE T == Nat \ S
<1>1. PICK x \in T : \A y \in T : x <= y
  <2>1. T \in SUBSET Nat /\ T # {}
    OBVIOUS
  <2> HIDE DEF T
  <2> QED BY <2>1, Least
<1>2. x # 0 /\ x - 1 \in Nat /\ x - 1 \in T
  OBVIOUS
<1> QED BY <1>1, <1>2

-----------------------------------------------------------------------------
(* Rates *)

\* Samples of a clock that does not run backwards.
Samples(a) ==
    /\ a \in Seq(Nat)
    /\ \A i, j \in 1 .. Len(a) : i <= j => a[i] <= a[j]

\* Where the last Window samples begin.
FirstOf(a) == IF Len(a) > Window THEN Len(a) - Window + 1 ELSE 1

\* What is kept are the last samples: as many as fit, in their order.
LEMMA RecentSamples ==
    ASSUME NEW a \in Seq(Nat)
    PROVE  LET s == Recent(a) IN
           /\ s \in Seq(Nat) /\ Len(s) = Len(a) - FirstOf(a) + 1
           /\ \A i \in 1 .. Len(s) : s[i] = a[FirstOf(a) + i - 1]
<1>0. Window \in Nat /\ Window > 1 /\ Len(a) \in Nat
  BY NodeAssumption
<1>1. CASE Len(a) > Window
  <2>1. FirstOf(a) = Len(a) - Window + 1 /\ Recent(a) = SubSeq(a, FirstOf(a), Len(a))
    BY <1>1 DEF FirstOf, Recent
  <2>2. FirstOf(a) \in 1 .. Len(a) + 1 /\ Len(a) \in FirstOf(a) - 1 .. Len(a)
    BY <1>0, <1>1, <2>1
  <2> HIDE DEF FirstOf
  <2> QED BY <1>0, <2>1, <2>2, SubSeqProperties
<1>2. CASE ~ (Len(a) > Window)
  BY <1>0, <1>2 DEF FirstOf, Recent
<1> QED BY <1>1, <1>2

\* Dropping the oldest sample when one is added keeps the last ones.
LEMMA RecentIsKept ==
    ASSUME NEW a \in Seq(Nat), NEW c \in Nat
    PROVE  Recent(Append(Recent(a), c)) = Recent(Append(a, c))
<1> DEFINE b == Append(a, c)   u == Recent(a)   v == Append(u, c)
<1>0. Window \in Nat /\ Window > 1 /\ Len(a) \in Nat
  BY NodeAssumption
<1>1. b \in Seq(Nat) /\ Len(b) = Len(a) + 1 /\ b[Len(a) + 1] = c /\ \A i \in 1 .. Len(a) : b[i] = a[i]
  BY AppendProperties
<1>2. u \in Seq(Nat) /\ Len(u) = Len(a) - FirstOf(a) + 1 /\ \A i \in 1 .. Len(u) : u[i] = a[FirstOf(a) + i - 1]
  BY RecentSamples
<1>3. v \in Seq(Nat) /\ Len(v) = Len(u) + 1 /\ v[Len(u) + 1] = c /\ \A i \in 1 .. Len(u) : v[i] = u[i]
  BY <1>2, AppendProperties
<1> HIDE DEF b, u, v
<1>4. /\ Recent(v) \in Seq(Nat) /\ Len(Recent(v)) = Len(v) - FirstOf(v) + 1
      /\ \A i \in 1 .. Len(Recent(v)) : Recent(v)[i] = v[FirstOf(v) + i - 1]
  BY <1>3, RecentSamples
<1>5. /\ Recent(b) \in Seq(Nat) /\ Len(Recent(b)) = Len(b) - FirstOf(b) + 1
      /\ \A i \in 1 .. Len(Recent(b)) : Recent(b)[i] = b[FirstOf(b) + i - 1]
  BY <1>1, RecentSamples
<1> DEFINE A == Len(a)   fa == FirstOf(a)   fb == FirstOf(b)   fv == FirstOf(v)
<1>l. Len(b) = A + 1 /\ Len(v) = A - fa + 2
  <2>1. Len(u) \in Nat /\ FirstOf(a) \in Int
    BY <1>0, <1>2 DEF FirstOf
  <2> QED BY <1>0, <1>1, <1>2, <1>3, <2>1
<1>f. /\ fa = IF A > Window THEN A - Window + 1 ELSE 1
      /\ fb = IF A + 1 > Window THEN A - Window + 2 ELSE 1
      /\ fv = IF A - fa + 2 > Window THEN A - fa - Window + 3 ELSE 1
  BY <1>0, <1>l DEF FirstOf
<1> HIDE DEF fa, fb, fv
<1>6. Len(Recent(v)) = Len(Recent(b)) /\ Len(Recent(v)) = A - fa - fv + 3
  <2>1. Len(Recent(v)) = (A - fa + 2) - fv + 1 /\ Len(Recent(b)) = (A + 1) - fb + 1
    BY <1>4, <1>5, <1>l DEF fv, fb
  <2>2. A \in Nat
    BY <1>0
  <2> HIDE DEF A
  <2>3. CASE A > Window
    BY <1>0, <1>f, <2>1, <2>2, <2>3
  <2>4. CASE ~ (A > Window)
    <3>1. fa = 1 /\ (A - fa + 2 > Window <=> A + 1 > Window) /\ fa \in Int
      BY <1>0, <1>f, <2>2, <2>4
    <3> QED BY <1>0, <1>f, <2>1, <2>2, <2>4, <3>1
  <2> QED BY <2>3, <2>4
<1>7. ASSUME NEW i \in 1 .. Len(Recent(v)) PROVE Recent(v)[i] = Recent(b)[i]
  <2>1. Recent(v)[i] = v[FirstOf(v) + i - 1] /\ Recent(b)[i] = b[FirstOf(b) + i - 1]
    BY <1>4, <1>5, <1>6, <1>7
  <2> DEFINE j == FirstOf(v) + i - 1
  <2>2. j \in 1 .. Len(u) + 1 /\ FirstOf(b) + i - 1 = FirstOf(a) + j - 1
    <3>1. i \in 1 .. A - fa - fv + 3
      BY <1>6
    <3>2. fv + i - 1 \in 1 .. (A - fa + 1) + 1 /\ fb + i - 1 = fa + (fv + i - 1) - 1
      <4>1. A \in Nat
        BY <1>0
      <4> HIDE DEF A
      <4>2. CASE A > Window
        BY <1>0, <1>f, <3>1, <4>1, <4>2
      <4>3. CASE ~ (A > Window)
        <5>1. fa = 1 /\ (A - fa + 2 > Window <=> A + 1 > Window) /\ fa \in Int
          BY <1>0, <1>f, <4>1, <4>3
        <5> QED BY <1>0, <1>f, <3>1, <4>1, <4>3, <5>1
      <4> QED BY <4>2, <4>3
    <3> QED BY <1>2, <3>2 DEF fv, fb, fa
  <2>3. CASE j = Len(u) + 1
    <3>1. FirstOf(b) + i - 1 = Len(a) + 1
      <4>1. fa + (A - fa + 2) - 1 = A + 1 /\ fa \in Int /\ Len(u) = A - fa + 1
        <5>1. A \in Nat /\ fa \in Int
          BY <1>0, <1>f
        <5> QED BY <1>2, <5>1 DEF fa
      <4> QED BY <2>2, <2>3, <4>1 DEF fa
    <3> QED BY <1>1, <1>3, <2>1, <2>3, <3>1
  <2>4. CASE j # Len(u) + 1
    <3>1. j \in 1 .. Len(u) /\ FirstOf(a) + j - 1 \in 1 .. Len(a)
      <4>1. Len(u) = A - fa + 1 /\ fa \in 1 .. A + 1
        BY <1>0, <1>f, <1>2 DEF fa
      <4>2. j \in 1 .. (A - fa + 1) + 1 /\ j # (A - fa + 1) + 1
        BY <2>2, <2>4, <4>1
      <4> HIDE DEF j
      <4>3. j \in 1 .. A - fa + 1 /\ fa + j - 1 \in 1 .. A
        BY <1>0, <4>1, <4>2
      <4> QED BY <4>1, <4>3 DEF fa
    <3> QED BY <1>1, <1>2, <1>3, <2>1, <2>2, <3>1
  <2> QED BY <2>3, <2>4
<1>8. Recent(v) = Recent(b)
  BY <1>4, <1>5, <1>6, <1>7, SeqEqual
<1> QED BY <1>8 DEF b, u, v

\* Arithmetic that the next proofs need.
LEMMA OneMore ==
    /\ \A x, y, z, q \in Int : (z - x) * q = (z - y) * q + (y - x) * q
    /\ \A n, r \in Int : (n + 1) * r = n * r + r
    /\ \A x, y \in Int : x * y \in Int
OBVIOUS

\* When no gap of an interval is shorter than r, its length is at least r for
\* each of them; the second, when none is longer.  The samples are scaled by q.
LEMMA GapsAddUp ==
    ASSUME NEW a \in Seq(Nat), NEW q \in Nat, NEW r \in Int,
           NEW lo \in 1 .. Len(a), NEW hi \in lo .. Len(a),
           \A i \in lo .. hi - 1 : (a[i + 1] - a[i]) * q >= r
    PROVE  (a[hi] - a[lo]) * q >= (hi - lo) * r
<1> DEFINE S == {n \in Nat : lo + n <= hi => (a[lo + n] - a[lo]) * q >= n * r}
<1>0. Len(a) \in Nat /\ \A i \in lo .. hi : i \in Nat /\ a[i] \in Nat
  BY ElementOfSeq
<1>1. 0 \in S
  BY <1>0
<1>2. ASSUME NEW n \in Nat, n \in S PROVE n + 1 \in S
  <2> SUFFICES ASSUME lo + (n + 1) <= hi PROVE (a[lo + (n + 1)] - a[lo]) * q >= (n + 1) * r
    OBVIOUS
  <2>1. (a[lo + n] - a[lo]) * q >= n * r
    BY <1>0, <1>2
  <2>2. (a[(lo + n) + 1] - a[lo + n]) * q >= r
    BY <1>0
  <2>3. a[lo + n] \in Nat /\ a[(lo + n) + 1] \in Nat /\ a[lo] \in Nat /\ lo + (n + 1) = (lo + n) + 1
    BY <1>0
  <2> DEFINE x == a[lo]   y == a[lo + n]   z == a[(lo + n) + 1]
  <2>6. x \in Int /\ y \in Int /\ z \in Int /\ q \in Int /\ z - y \in Int /\ y - x \in Int
    <3>1. x \in Nat /\ y \in Nat /\ z \in Nat /\ q \in Nat
      BY <2>3
    <3> HIDE DEF x, y, z
    <3> QED BY <3>1
  <2>4. (z - x) * q = (z - y) * q + (y - x) * q /\ (n + 1) * r = n * r + r
    <3> HIDE DEF x, y, z
    <3> QED BY <2>6, OneMore
  <2>5. (z - y) * q \in Int /\ (y - x) * q \in Int /\ n * r \in Int
    <3> HIDE DEF x, y, z
    <3> QED BY <2>6, OneMore
  <2> QED BY <2>1, <2>2, <2>3, <2>4, <2>5
<1> HIDE DEF S
<1>3. hi - lo \in S
  <2>1. Nat \subseteq S
    BY <1>1, <1>2, NatIsInductive
  <2> QED BY <1>0, <2>1
<1> QED BY <1>0, <1>3 DEF S

LEMMA GapsStayBelow ==
    ASSUME NEW a \in Seq(Nat), NEW q \in Nat, NEW r \in Int,
           NEW lo \in 1 .. Len(a), NEW hi \in lo .. Len(a),
           \A i \in lo .. hi - 1 : (a[i + 1] - a[i]) * q <= r
    PROVE  (a[hi] - a[lo]) * q <= (hi - lo) * r
<1> DEFINE S == {n \in Nat : lo + n <= hi => (a[lo + n] - a[lo]) * q <= n * r}
<1>0. Len(a) \in Nat /\ \A i \in lo .. hi : i \in Nat /\ a[i] \in Nat
  BY ElementOfSeq
<1>1. 0 \in S
  BY <1>0
<1>2. ASSUME NEW n \in Nat, n \in S PROVE n + 1 \in S
  <2> SUFFICES ASSUME lo + (n + 1) <= hi PROVE (a[lo + (n + 1)] - a[lo]) * q <= (n + 1) * r
    OBVIOUS
  <2>1. (a[lo + n] - a[lo]) * q <= n * r
    BY <1>0, <1>2
  <2>2. (a[(lo + n) + 1] - a[lo + n]) * q <= r
    BY <1>0
  <2>3. a[lo + n] \in Nat /\ a[(lo + n) + 1] \in Nat /\ a[lo] \in Nat /\ lo + (n + 1) = (lo + n) + 1
    BY <1>0
  <2> DEFINE x == a[lo]   y == a[lo + n]   z == a[(lo + n) + 1]
  <2>6. x \in Int /\ y \in Int /\ z \in Int /\ q \in Int /\ z - y \in Int /\ y - x \in Int
    <3>1. x \in Nat /\ y \in Nat /\ z \in Nat /\ q \in Nat
      BY <2>3
    <3> HIDE DEF x, y, z
    <3> QED BY <3>1
  <2>4. (z - x) * q = (z - y) * q + (y - x) * q /\ (n + 1) * r = n * r + r
    <3> HIDE DEF x, y, z
    <3> QED BY <2>6, OneMore
  <2>5. (z - y) * q \in Int /\ (y - x) * q \in Int /\ n * r \in Int
    <3> HIDE DEF x, y, z
    <3> QED BY <2>6, OneMore
  <2> QED BY <2>1, <2>2, <2>3, <2>4, <2>5
<1> HIDE DEF S
<1>3. hi - lo \in S
  <2>1. Nat \subseteq S
    BY <1>1, <1>2, NatIsInductive
  <2> QED BY <1>0, <2>1
<1> QED BY <1>0, <1>3 DEF S

\* The mean gap lies between two gaps.
LEMMA MeanIsBetween ==
    ASSUME NEW a, Samples(a), NEW lo \in 1 .. Len(a), NEW hi \in lo .. Len(a), hi # lo
    PROVE  /\ \E i \in lo .. hi - 1 : (a[i + 1] - a[i]) * (hi - lo) <= a[hi] - a[lo]
           /\ \E i \in lo .. hi - 1 : (a[i + 1] - a[i]) * (hi - lo) >= a[hi] - a[lo]
<1> DEFINE q == hi - lo   p == a[hi] - a[lo]
<1>0. /\ a \in Seq(Nat) /\ Len(a) \in Nat /\ q \in Nat /\ q > 0
      /\ \A i \in lo .. hi : i \in Nat /\ a[i] \in Nat
  BY ElementOfSeq DEF Samples
<1>1. p \in Int
  BY <1>0
<1>2. ASSUME NEW i \in lo .. hi - 1 PROVE (a[i + 1] - a[i]) * q \in Int
  <2> DEFINE x == a[i + 1] - a[i]
  <2>1. x \in Int
    BY <1>0
  <2> HIDE DEF x, q
  <2> QED BY <1>0, <2>1
<1>3. ASSUME NEW r \in Int
      PROVE  /\ (\A i \in lo .. hi - 1 : (a[i + 1] - a[i]) * q >= r) => p * q >= q * r
             /\ (\A i \in lo .. hi - 1 : (a[i + 1] - a[i]) * q <= r) => p * q <= q * r
  <2>1. q \in Nat
    BY <1>0
  <2>2. \A k \in Nat :
           /\ (\A i \in lo .. hi - 1 : (a[i + 1] - a[i]) * k >= r) => (a[hi] - a[lo]) * k >= (hi - lo) * r
           /\ (\A i \in lo .. hi - 1 : (a[i + 1] - a[i]) * k <= r) => (a[hi] - a[lo]) * k <= (hi - lo) * r
    BY <1>0, GapsAddUp, GapsStayBelow
  <2> QED BY <2>1, <2>2
<1> HIDE DEF p, q
<1>4. p * q \in Int /\ q * (p + 1) = p * q + q /\ q * (p - 1) = p * q - q
  BY <1>0, <1>1
<1>5. \E i \in lo .. hi - 1 : (a[i + 1] - a[i]) * q <= p
  <2> SUFFICES ASSUME \A i \in lo .. hi - 1 : ~ ((a[i + 1] - a[i]) * q <= p) PROVE FALSE
    OBVIOUS
  <2>1. ASSUME NEW i \in lo .. hi - 1 PROVE (a[i + 1] - a[i]) * q >= p + 1
    <3> DEFINE y == (a[i + 1] - a[i]) * q
    <3>1. y \in Int /\ ~ (y <= p)
      BY <1>2
    <3> HIDE DEF y
    <3>2. y >= p + 1
      BY <1>1, <3>1
    <3> QED BY <3>2 DEF y
  <2>2. p + 1 \in Int
    BY <1>1
  <2>3. p * q >= q * (p + 1)
    BY <1>3, <2>1, <2>2
  <2> QED BY <1>0, <1>4, <2>3
<1>6. \E i \in lo .. hi - 1 : (a[i + 1] - a[i]) * q >= p
  <2> SUFFICES ASSUME \A i \in lo .. hi - 1 : ~ ((a[i + 1] - a[i]) * q >= p) PROVE FALSE
    OBVIOUS
  <2>1. ASSUME NEW i \in lo .. hi - 1 PROVE (a[i + 1] - a[i]) * q <= p - 1
    <3> DEFINE y == (a[i + 1] - a[i]) * q
    <3>1. y \in Int /\ ~ (y >= p)
      BY <1>2
    <3> HIDE DEF y
    <3>2. y <= p - 1
      BY <1>1, <3>1
    <3> QED BY <3>2 DEF y
  <2>2. p - 1 \in Int
    BY <1>1
  <2>3. p * q <= q * (p - 1)
    BY <1>3, <2>1, <2>2
  <2> QED BY <1>0, <1>4, <2>3
<1> QED BY <1>5, <1>6 DEF p, q

\* The rate of the last Window samples, in terms of all that arrived.
LEMMA HzOfRecent ==
    ASSUME NEW a, Samples(a)
    PROVE  LET rate == Hz(Recent(a))
               lo == FirstOf(a)
               hi == Len(a)
           IN  /\ rate = <<0, 1>> /\ (hi > lo => a[hi] = a[lo])
               \/ /\ lo \in 1 .. hi /\ hi > lo /\ rate = <<hi - lo, a[hi] - a[lo]>>
<1> DEFINE s == Recent(a)   lo == FirstOf(a)   hi == Len(a)
<1>0. a \in Seq(Nat) /\ hi \in Nat /\ Window \in Nat /\ Window > 1
  BY NodeAssumption DEF Samples
<1>1. s \in Seq(Nat) /\ Len(s) = hi - lo + 1 /\ \A i \in 1 .. Len(s) : s[i] = a[lo + i - 1]
  BY <1>0, RecentSamples
<1>2. lo \in Nat /\ lo >= 1 /\ lo <= hi + 1
  BY <1>0 DEF FirstOf
<1> HIDE DEF s, lo
<1>3. CASE Len(s) < 2
  <2>1. Hz(s) = <<0, 1>>
    BY <1>3 DEF Hz
  <2>2. ~ (hi > lo)
    <3> HIDE DEF hi
    <3> QED BY <1>0, <1>1, <1>2, <1>3
  <2> QED BY <2>1, <2>2 DEF s, lo
<1>4. CASE ~ (Len(s) < 2)
  <2>1. hi > lo
    <3> HIDE DEF hi
    <3> QED BY <1>0, <1>1, <1>2, <1>4
  <2>2. s[Len(s)] = a[hi] /\ s[1] = a[lo]
    <3>1. Len(s) \in 1 .. Len(s) /\ 1 \in 1 .. Len(s) /\ lo + Len(s) - 1 = hi /\ lo + 1 - 1 = lo
      <4> HIDE DEF hi
      <4> QED BY <1>0, <1>1, <1>2, <2>1
    <3>2. s[Len(s)] = a[lo + Len(s) - 1] /\ s[1] = a[lo + 1 - 1]
      BY <1>1, <3>1
    <3> QED BY <3>1, <3>2
  <2>3. Len(s) - 1 = hi - lo
    <3> HIDE DEF hi
    <3> QED BY <1>0, <1>1, <1>2
  <2>4. CASE a[hi] = a[lo]
    <3>1. Hz(s) = <<0, 1>>
      BY <2>2, <2>4 DEF Hz
    <3> QED BY <2>4, <3>1 DEF s, lo
  <2>5. CASE a[hi] # a[lo]
    <3>1. Hz(s) = <<hi - lo, a[hi] - a[lo]>>
      BY <1>4, <2>2, <2>3, <2>5 DEF Hz
    <3>2. lo \in 1 .. hi
      BY <1>0, <1>2, <2>1
    <3> QED BY <2>1, <3>1, <3>2 DEF s, lo
  <2> QED BY <2>4, <2>5
<1> QED BY <1>3, <1>4

\* What is kept of a topic's arrivals, and that time does not run backwards.
RateInv ==
    /\ clock \in Nat
    /\ stamps = [t \in Topics |-> Recent(arrivals[t])]
    /\ arrivals = [t \in Topics |-> arrivals[t]]
    /\ \A t \in Topics :
          /\ Samples(arrivals[t])
          /\ \A i \in 1 .. Len(arrivals[t]) : arrivals[t][i] <= clock

LEMMA SamplesGrow ==
    ASSUME NEW a, Samples(a), NEW c \in Nat, \A i \in 1 .. Len(a) : a[i] <= c
    PROVE  Samples(Append(a, c)) /\ \A i \in 1 .. Len(Append(a, c)) : Append(a, c)[i] <= c
<1> DEFINE b == Append(a, c)
<1>1. a \in Seq(Nat) /\ Len(a) \in Nat
  BY DEF Samples
<1>2. b \in Seq(Nat) /\ Len(b) = Len(a) + 1 /\ b[Len(a) + 1] = c /\ \A i \in 1 .. Len(a) : b[i] = a[i]
  BY <1>1, AppendProperties
<1> HIDE DEF b
<1>3. ASSUME NEW i \in 1 .. Len(b) PROVE b[i] <= c
  BY <1>1, <1>2
<1>4. ASSUME NEW i \in 1 .. Len(b), NEW j \in 1 .. Len(b), i <= j PROVE b[i] <= b[j]
  <2>1. CASE j = Len(a) + 1
    BY <1>2, <1>3, <2>1
  <2>2. CASE j # Len(a) + 1
    <3>1. i \in 1 .. Len(a) /\ j \in 1 .. Len(a)
      BY <1>1, <1>2, <1>4, <2>2
    <3> QED BY <1>2, <1>4, <3>1 DEF Samples
  <2> QED BY <2>1, <2>2
<1> QED BY <1>2, <1>3, <1>4 DEF Samples, b

LEMMA RateInit == Init => RateInv
<1> SUFFICES ASSUME Init PROVE RateInv
  OBVIOUS
<1>1. Samples(<<>>) /\ Len(<<>>) = 0
  BY DEF Samples
<1>2. Recent(<<>>) = <<>>
  BY <1>1, NodeAssumption DEF Recent
<1> QED BY <1>1, <1>2 DEF Init, RateInv

LEMMA RateStep == RateInv /\ [Next]_vars => RateInv'
<1> SUFFICES ASSUME RateInv, [Next]_vars PROVE RateInv'
  OBVIOUS
<1>1. CASE Tick
  <2>1. clock' = clock + 1 /\ UNCHANGED <<stamps, arrivals>>
    BY <1>1 DEF Tick
  <2>2. ASSUME NEW t \in Topics, NEW i \in 1 .. Len(arrivals[t]) PROVE arrivals[t][i] <= clock + 1
    <3>1. arrivals[t][i] \in Nat /\ arrivals[t][i] <= clock /\ clock \in Nat
      BY ElementOfSeq DEF RateInv, Samples
    <3> QED BY <3>1
  <2> QED BY <2>1, <2>2 DEF RateInv
<1>2. ASSUME NEW t \in Measured, record_topic_timestamp(t) PROVE RateInv'
  <2>0. t \in Topics
    BY NodeAssumption
  <2> DEFINE a == arrivals[t]
  <2>1. /\ stamps' = [stamps EXCEPT ![t] = Recent(Append(@, clock))]
        /\ arrivals' = [arrivals EXCEPT ![t] = Append(@, clock)] /\ clock' = clock
    BY <1>2 DEF record_topic_timestamp
  <2>2. /\ stamps' = [u \in Topics |-> IF u = t THEN Recent(Append(Recent(a), clock)) ELSE Recent(arrivals[u])]
        /\ arrivals' = [u \in Topics |-> IF u = t THEN Append(a, clock) ELSE arrivals[u]]
    BY <2>0, <2>1 DEF RateInv
  <2>3. Samples(a) /\ clock \in Nat /\ \A i \in 1 .. Len(a) : a[i] <= clock
    BY <2>0 DEF RateInv
  <2> HIDE DEF a
  <2>4. Recent(Append(Recent(a), clock)) = Recent(Append(a, clock))
    BY <2>3, RecentIsKept DEF Samples
  <2>5. Samples(Append(a, clock)) /\ \A i \in 1 .. Len(Append(a, clock)) : Append(a, clock)[i] <= clock
    BY <2>3, SamplesGrow
  <2> DEFINE b == Append(a, clock)
  <2> HIDE DEF b
  <2>6. stamps' = [u \in Topics |-> Recent(arrivals'[u])] /\ arrivals' = [u \in Topics |-> arrivals'[u]]
    BY <2>2, <2>4
  <2>7. ASSUME NEW u \in Topics
        PROVE  Samples(arrivals'[u]) /\ \A i \in 1 .. Len(arrivals'[u]) : arrivals'[u][i] <= clock
    <3>1. CASE u = t
      <4>1. arrivals'[u] = b
        BY <2>2, <3>1 DEF b
      <4> QED BY <2>5, <4>1 DEF b
    <3>2. CASE u # t
      <4>1. arrivals'[u] = arrivals[u]
        BY <2>2, <3>2
      <4> QED BY <4>1 DEF RateInv
    <3> QED BY <3>1, <3>2
  <2> QED BY <2>1, <2>3, <2>6, <2>7 DEF RateInv
<1>3. ASSUME UNCHANGED <<clock, stamps, arrivals>> PROVE RateInv'
  BY <1>3 DEF RateInv
<1>4. ASSUME NEW n \in Names, GraphChanges(n) PROVE UNCHANGED <<clock, stamps, arrivals>>
  BY <1>4 DEF GraphChanges
<1>5. ASSUME NEW s \in Setters, update_telemetry(s) PROVE UNCHANGED <<clock, stamps, arrivals>>
  BY <1>5 DEF update_telemetry
<1>6. ASSUME \/ OnTimer \/ ListsTopics \/ ListsServices \/ ListsActions \/ UNCHANGED vars
             \/ \E r \in Requests : HandleGetCapabilities(r)
      PROVE  UNCHANGED <<clock, stamps, arrivals>>
  BY <1>6 DEF OnTimer, HandleGetCapabilities, Begins, ListsTopics, ListsServices, ListsActions, vars
<1> QED
  BY <1>1, <1>2, <1>3, <1>4, <1>5, <1>6 DEF Next

\* The rate a manifest gives of a topic lies between the shortest and the longest
\* gap of the last Window arrivals, and there is one unless they were all at once.
THEOREM RatesAreRecent == Spec => []RateIsRecent
<1>1. RateInv => RateIsRecent
  <2> SUFFICES ASSUME RateInv, NEW t \in Topics
               PROVE  LET rate == Hz(stamps[t])
                          gaps == LastGaps(t)
                      IN  /\ (\E g \in gaps : g > 0) => rate[1] > 0
                          /\ rate[1] > 0 => /\ \E g \in gaps : g * rate[1] <= rate[2]
                                            /\ \E g \in gaps : g * rate[1] >= rate[2]
    BY DEF RateIsRecent
  <2> DEFINE a == arrivals[t]   lo == FirstOf(a)   hi == Len(a)   rate == Hz(stamps[t])
  <2>1. Samples(a) /\ stamps[t] = Recent(a)
    BY DEF RateInv
  <2>2. LastGaps(t) = {a[i + 1] - a[i] : i \in lo .. hi - 1}
    BY DEF LastGaps, FirstOf
  <2>3. \/ rate = <<0, 1>> /\ (hi > lo => a[hi] = a[lo])
        \/ lo \in 1 .. hi /\ hi > lo /\ rate = <<hi - lo, a[hi] - a[lo]>>
    BY <2>1, HzOfRecent
  <2>4. hi \in Nat /\ lo \in Nat /\ lo >= 1
    BY <2>1, NodeAssumption DEF Samples, FirstOf
  <2> HIDE DEF a, lo, hi, rate
  <2>5. CASE rate = <<0, 1>> /\ (hi > lo => a[hi] = a[lo])
    <3>1. ASSUME NEW i \in lo .. hi - 1 PROVE ~ (a[i + 1] - a[i] > 0)
      <4>1. /\ i \in 1 .. hi /\ i + 1 \in 1 .. hi /\ lo \in 1 .. hi /\ hi \in 1 .. hi
            /\ lo <= i /\ i + 1 <= hi /\ hi > lo
        BY <2>4
      <4>2. a[lo] <= a[i] /\ a[i + 1] <= a[hi] /\ a[hi] = a[lo]
        BY <2>1, <2>5, <4>1 DEF Samples, hi
      <4>3. a[lo] \in Nat /\ a[i] \in Nat /\ a[i + 1] \in Nat
        BY <2>1, <4>1, ElementOfSeq DEF Samples, hi
      <4> QED BY <4>2, <4>3
    <3> QED BY <2>2, <2>5, <3>1 DEF rate
  <2>6. CASE lo \in 1 .. hi /\ hi > lo /\ rate = <<hi - lo, a[hi] - a[lo]>>
    <3>1. hi \in lo .. Len(a) /\ lo \in 1 .. Len(a) /\ hi # lo
      BY <2>4, <2>6 DEF hi
    <3>2. /\ \E i \in lo .. hi - 1 : (a[i + 1] - a[i]) * (hi - lo) <= a[hi] - a[lo]
          /\ \E i \in lo .. hi - 1 : (a[i + 1] - a[i]) * (hi - lo) >= a[hi] - a[lo]
      BY <2>1, <3>1, MeanIsBetween
    <3>3. rate[1] = hi - lo /\ rate[2] = a[hi] - a[lo] /\ rate[1] > 0
      BY <2>4, <2>6
    <3> QED BY <2>2, <3>2, <3>3 DEF rate
  <2> QED BY <2>3, <2>5, <2>6
<1> QED BY <1>1, RateInit, RateStep, PTL DEF Spec

-----------------------------------------------------------------------------
(* Loops.  A loop over 1 .. m is a recursive function; its body is the       *)
(* function F of the index and of what the loop has built so far.            *)

IsLoop(r, m, A, x0, F) ==
    r \in [0 .. m -> A] /\ r[0] = x0 /\ \A i \in 1 .. m : r[i] = F[<<i, r[i - 1]>>]

LEMMA LoopExists ==
    ASSUME NEW A, NEW x0 \in A, NEW m \in Nat, NEW F \in [(1 .. m) \X A -> A]
    PROVE  \E r : IsLoop(r, m, A, x0, F)
<1> DEFINE S == {n \in Nat : n <= m =>
                    \E r \in [0 .. n -> A] : r[0] = x0 /\ \A i \in 1 .. n : r[i] = F[<<i, r[i - 1]>>]}
<1>1. 0 \in S
  <2> DEFINE r0 == [i \in 0 .. 0 |-> x0]
  <2>1. r0 \in [0 .. 0 -> A] /\ r0[0] = x0 /\ 1 .. 0 = {}
    OBVIOUS
  <2> HIDE DEF r0
  <2>2. \E r \in [0 .. 0 -> A] : r[0] = x0 /\ \A i \in 1 .. 0 : r[i] = F[<<i, r[i - 1]>>]
    BY <2>1
  <2> QED BY <2>2
<1>2. ASSUME NEW n \in Nat, n \in S PROVE n + 1 \in S
  <2> SUFFICES ASSUME n + 1 <= m
               PROVE  \E r \in [0 .. n + 1 -> A] :
                         r[0] = x0 /\ \A i \in 1 .. n + 1 : r[i] = F[<<i, r[i - 1]>>]
    OBVIOUS
  <2>1. PICK r \in [0 .. n -> A] : r[0] = x0 /\ \A i \in 1 .. n : r[i] = F[<<i, r[i - 1]>>]
    BY <1>2
  <2> DEFINE q == [i \in 0 .. n + 1 |-> IF i = n + 1 THEN F[<<n + 1, r[n]>>] ELSE r[i]]
  <2>2. F[<<n + 1, r[n]>>] \in A
    <3>1. r[n] \in A /\ n + 1 \in 1 .. m
      OBVIOUS
    <3> QED BY <3>1
  <2>3. q \in [0 .. n + 1 -> A]
    <3>1. ASSUME NEW i \in 0 .. n + 1, i # n + 1 PROVE i \in 0 .. n
      BY <3>1
    <3> QED BY <2>2, <3>1
  <2>4. q[0] = x0
    BY <2>1
  <2>5. ASSUME NEW i \in 1 .. n + 1 PROVE q[i] = F[<<i, q[i - 1]>>]
    <3>1. CASE i = n + 1
      <4>1. q[i] = F[<<n + 1, r[n]>>] /\ q[n] = r[n] /\ i - 1 = n
        BY <3>1
      <4> QED BY <3>1, <4>1
    <3>2. CASE i # n + 1
      <4>1. i \in 1 .. n /\ i - 1 \in 0 .. n /\ i - 1 # n + 1
        BY <3>2
      <4>2. q[i] = r[i] /\ q[i - 1] = r[i - 1]
        BY <3>2, <4>1
      <4> QED BY <2>1, <4>1, <4>2
    <3> QED BY <3>1, <3>2
  <2> QED BY <2>3, <2>4, <2>5
<1> HIDE DEF S
<1>3. m \in S
  BY <1>1, <1>2, NatIsInductive
<1> QED BY <1>3 DEF S, IsLoop

\* A loop that adds c[i] in its step i collects them all.
LEMMA LoopCollects ==
    ASSUME NEW m \in Nat, NEW r, NEW c,
           \A i \in 1 .. m : Range(r[i]) = Range(r[i - 1]) \cup c[i]
    PROVE  \A x : x \in Range(r[m]) <=> x \in Range(r[0]) \/ \E i \in 1 .. m : x \in c[i]
<1> SUFFICES ASSUME NEW x PROVE x \in Range(r[m]) <=> x \in Range(r[0]) \/ \E i \in 1 .. m : x \in c[i]
  OBVIOUS
<1> DEFINE S == {n \in Nat : n <= m =>
                    (x \in Range(r[n]) <=> x \in Range(r[0]) \/ \E i \in 1 .. n : x \in c[i])}
<1>1. 0 \in S
  OBVIOUS
<1>2. ASSUME NEW n \in Nat, n \in S PROVE n + 1 \in S
  <2> SUFFICES ASSUME n + 1 <= m
               PROVE  x \in Range(r[n + 1]) <=> x \in Range(r[0]) \/ \E i \in 1 .. n + 1 : x \in c[i]
    OBVIOUS
  <2>1. x \in Range(r[n]) <=> x \in Range(r[0]) \/ \E i \in 1 .. n : x \in c[i]
    BY <1>2
  <2>2. Range(r[n + 1]) = Range(r[n]) \cup c[n + 1]
    <3>1. n + 1 \in 1 .. m /\ (n + 1) - 1 = n
      OBVIOUS
    <3> QED BY <3>1
  <2>3. 1 .. n + 1 = (1 .. n) \cup {n + 1}
    OBVIOUS
  <2> QED BY <2>1, <2>2, <2>3
<1> HIDE DEF S
<1>3. m \in S
  BY <1>1, <1>2, NatIsInductive
<1> QED BY <1>3 DEF S

\* A loop that appends one element in the steps of P, and none in the others.
LEMMA LoopCounts ==
    ASSUME NEW m \in Nat, NEW r, NEW P \in SUBSET (1 .. m), Len(r[0]) = 0,
           \A i \in 1 .. m : Len(r[i]) = IF i \in P THEN Len(r[i - 1]) + 1 ELSE Len(r[i - 1])
    PROVE  Len(r[m]) = Cardinality(P)
<1> DEFINE Q(n) == P \cap (1 .. n)
           S == {n \in Nat : n <= m => IsFiniteSet(Q(n)) /\ Len(r[n]) = Cardinality(Q(n))}
<1>1. 0 \in S
  <2>1. Q(0) = {}
    OBVIOUS
  <2> QED BY <2>1, FS_EmptySet
<1>2. ASSUME NEW n \in Nat, n \in S PROVE n + 1 \in S
  <2> SUFFICES ASSUME n + 1 <= m
               PROVE  IsFiniteSet(Q(n + 1)) /\ Len(r[n + 1]) = Cardinality(Q(n + 1))
    OBVIOUS
  <2>1. IsFiniteSet(Q(n)) /\ Len(r[n]) = Cardinality(Q(n)) /\ n + 1 \notin Q(n)
    BY <1>2
  <2>2. Len(r[n + 1]) = IF n + 1 \in P THEN Len(r[n]) + 1 ELSE Len(r[n])
    <3>1. n + 1 \in 1 .. m /\ (n + 1) - 1 = n
      OBVIOUS
    <3> QED BY <3>1
  <2>3. Q(n + 1) = IF n + 1 \in P THEN Q(n) \cup {n + 1} ELSE Q(n)
    <3>1. 1 .. n + 1 = (1 .. n) \cup {n + 1}
      OBVIOUS
    <3> QED BY <3>1
  <2> HIDE DEF Q
  <2> QED BY <2>1, <2>2, <2>3, FS_AddElement
<1>3. m \in S
  <2> HIDE DEF S
  <2> QED BY <1>1, <1>2, NatIsInductive
<1>4. Q(m) = P
  OBVIOUS
<1> HIDE DEF Q
<1> QED BY <1>3, <1>4

-----------------------------------------------------------------------------
(* The loops of a fingerprint *)

LEMMA RangeOfAppend ==
    ASSUME NEW T, NEW q \in Seq(T), NEW x \in T
    PROVE  Range(Append(q, x)) = Range(q) \cup {x}
<1> DEFINE b == Append(q, x)
<1>1. b \in Seq(T) /\ Len(b) = Len(q) + 1 /\ b[Len(q) + 1] = x /\ \A i \in 1 .. Len(q) : b[i] = q[i]
  BY AppendProperties
<1>2. DOMAIN b = 1 .. Len(q) + 1 /\ DOMAIN q = 1 .. Len(q) /\ Len(q) \in Nat
  BY <1>1, LenProperties
<1>3. 1 .. Len(q) + 1 = (1 .. Len(q)) \cup {Len(q) + 1}
  BY <1>2
<1> HIDE DEF b
<1> QED BY <1>1, <1>2, <1>3 DEF Range, b

\* Facts that are cited of several lists have a name, which the provers match
\* as a whole.
Joined(s, o) == Range(s \o o) = Range(s) \cup Range(o)

LEMMA RangeOfJoin ==
    ASSUME NEW A, NEW B, NEW s \in Seq(A), NEW o \in Seq(B)
    PROVE  Joined(s, o)
<1> DEFINE E == A \cup B
<1>1. s \in Seq(E) /\ o \in Seq(E)
  BY SeqMonotonic
<1>2. \A S : \A u, v \in Seq(S) : Joined(u, v)
  BY RangeConcatenation DEF Joined
<1> HIDE DEF E
<1> QED BY <1>1, <1>2

\* Where a list has something that a table of patterns detects.
Hits(patterns, entities) == {i \in 1 .. Len(entities) : Matching(patterns, entities[i]) # {}}

\* A scan detects every entity that matches, and each of them once.
LEMMA DetectResult ==
    ASSUME NEW patterns, NEW E, NEW s \in Seq(E)
    PROVE  /\ Detect(patterns, s) \in Seq({Kind(patterns, e) : e \in E})
           /\ Range(Detect(patterns, s)) = {Kind(patterns, s[i]) : i \in Hits(patterns, s)}
           /\ Len(Detect(patterns, s)) = Cardinality(Hits(patterns, s))
<1> DEFINE T == {Kind(patterns, e) : e \in E}
           m == Len(s)
           P == Hits(patterns, s)
           F == [w \in (1 .. m) \X Seq(T) |->
                    IF Matching(patterns, s[w[1]]) = {} THEN w[2] ELSE Append(w[2], Kind(patterns, s[w[1]]))]
<1>1. m \in Nat /\ P \in SUBSET (1 .. m) /\ \A i \in 1 .. m : s[i] \in E /\ Kind(patterns, s[i]) \in T
  BY ElementOfSeq DEF Hits
<1>2. F \in [(1 .. m) \X Seq(T) -> Seq(T)]
  <2>1. ASSUME NEW w \in (1 .. m) \X Seq(T)
        PROVE  (IF Matching(patterns, s[w[1]]) = {} THEN w[2] ELSE Append(w[2], Kind(patterns, s[w[1]])))
                  \in Seq(T)
    <3>1. w[1] \in 1 .. m /\ w[2] \in Seq(T)
      OBVIOUS
    <3> HIDE DEF T, m
    <3> QED BY <1>1, <3>1, AppendProperties
  <2> QED BY <2>1
<1> DEFINE found == CHOOSE f : f = [n \in 0 .. Len(s) |->
                       IF n = 0 THEN <<>>
                       ELSE IF Matching(patterns, s[n]) = {} THEN f[n - 1]
                       ELSE Append(f[n - 1], Kind(patterns, s[n]))]
<1>3. Detect(patterns, s) = found[m]
  BY DEF Detect
<1>4. PICK r \in [0 .. m -> Seq(T)] : r[0] = <<>> /\ \A i \in 1 .. m : r[i] = F[<<i, r[i - 1]>>]
  <2> DEFINE A == Seq(T)   x0 == <<>>
  <2>1. x0 \in A /\ F \in [(1 .. m) \X A -> A] /\ m \in Nat
    BY <1>1, <1>2
  <2> HIDE DEF A, x0, m, F
  <2>2. PICK r : IsLoop(r, m, A, x0, F)
    BY <2>1, LoopExists
  <2> QED BY <2>2 DEF A, x0, IsLoop
<1>5. \A i \in 1 .. m : r[i] = IF Matching(patterns, s[i]) = {} THEN r[i - 1]
                              ELSE Append(r[i - 1], Kind(patterns, s[i]))
  <2> SUFFICES ASSUME NEW i \in 1 .. m
               PROVE  r[i] = IF Matching(patterns, s[i]) = {} THEN r[i - 1]
                             ELSE Append(r[i - 1], Kind(patterns, s[i]))
    OBVIOUS
  <2>1. i - 1 \in 0 .. m
    BY <1>1
  <2>2. <<i, r[i - 1]>> \in (1 .. m) \X Seq(T)
    <3> HIDE DEF T, m
    <3> QED BY <2>1
  <2> HIDE DEF T, m
  <2> QED BY <1>4, <2>2
<1>6. r = [n \in 0 .. Len(s) |->
             IF n = 0 THEN <<>>
             ELSE IF Matching(patterns, s[n]) = {} THEN r[n - 1]
             ELSE Append(r[n - 1], Kind(patterns, s[n]))]
  <2>1. ASSUME NEW n \in 0 .. m, n # 0 PROVE n \in 1 .. m
    BY <1>1, <2>1
  <2> HIDE DEF T, F
  <2> QED BY <1>4, <1>5, <2>1
<1>7. found = [n \in 0 .. Len(s) |->
             IF n = 0 THEN <<>>
             ELSE IF Matching(patterns, s[n]) = {} THEN found[n - 1]
             ELSE Append(found[n - 1], Kind(patterns, s[n]))]
  BY <1>6
<1> HIDE DEF F, found
<1>8. /\ found[0] = <<>>
      /\ \A i \in 1 .. m : found[i] = IF Matching(patterns, s[i]) = {} THEN found[i - 1]
                                      ELSE Append(found[i - 1], Kind(patterns, s[i]))
  <2>1. 0 \in 0 .. m /\ \A i \in 1 .. m : i \in 0 .. m /\ i # 0
    BY <1>1
  <2> QED BY <1>7, <2>1
<1>9. \A n \in 0 .. m : found[n] \in Seq(T)
  <2> DEFINE S == {n \in Nat : n <= m => found[n] \in Seq(T)}
  <2>1. 0 \in S
    <3>1. <<>> \in Seq(T)
      OBVIOUS
    <3> HIDE DEF T, m
    <3> QED BY <1>8, <3>1
  <2>2. ASSUME NEW n \in Nat, n \in S PROVE n + 1 \in S
    <3> SUFFICES ASSUME n + 1 <= m PROVE found[n + 1] \in Seq(T)
      OBVIOUS
    <3> DEFINE q == found[n]   e == s[n + 1]
    <3>1. n + 1 \in 1 .. m /\ (n + 1) - 1 = n /\ q \in Seq(T)
      BY <1>1, <2>2
    <3>2. found[n + 1] = IF Matching(patterns, e) = {} THEN q ELSE Append(q, Kind(patterns, e))
      <4> HIDE DEF T, m, S
      <4> QED BY <1>8, <3>1
    <3>3. Kind(patterns, e) \in T
      <4> HIDE DEF T, m, S
      <4> QED BY <1>1, <3>1
    <3> HIDE DEF T, m, S, q, e
    <3> QED BY <3>1, <3>2, <3>3, AppendProperties
  <2> HIDE DEF S
  <2>3. Nat \subseteq S
    BY <2>1, <2>2, NatIsInductive
  <2> HIDE DEF T, m
  <2> QED BY <1>1, <2>3 DEF S
<1> DEFINE c == [i \in 1 .. m |-> IF i \in P THEN {Kind(patterns, s[i])} ELSE {}]
<1>10. ASSUME NEW i \in 1 .. m
       PROVE  /\ Range(found[i]) = Range(found[i - 1]) \cup c[i]
              /\ Len(found[i]) = IF i \in P THEN Len(found[i - 1]) + 1 ELSE Len(found[i - 1])
  <2>1. i - 1 \in 0 .. m /\ found[i - 1] \in Seq(T)
    BY <1>1, <1>9
  <2>2. i \in P <=> Matching(patterns, s[i]) # {}
    BY DEF Hits
  <2> HIDE DEF P, T, m
  <2>3. CASE i \in P
    <3> DEFINE q == found[i - 1]
    <3>1. found[i] = Append(q, Kind(patterns, s[i])) /\ c[i] = {Kind(patterns, s[i])}
      BY <1>8, <2>2, <2>3
    <3>2. q \in Seq(T) /\ Kind(patterns, s[i]) \in T
      BY <1>1, <2>1
    <3> HIDE DEF q
    <3>3. /\ Append(q, Kind(patterns, s[i])) \in Seq(T)
          /\ Range(Append(q, Kind(patterns, s[i]))) = Range(q) \cup {Kind(patterns, s[i])}
          /\ Len(Append(q, Kind(patterns, s[i]))) = Len(q) + 1
      BY <3>2, RangeOfAppend, AppendProperties
    <3> QED BY <2>3, <3>1, <3>3 DEF q
  <2>4. CASE i \notin P
    <3>1. found[i] = found[i - 1] /\ c[i] = {}
      BY <1>8, <2>2, <2>4
    <3> QED BY <2>4, <3>1
  <2> QED BY <2>3, <2>4
<1>11. Range(found[m]) = {Kind(patterns, s[i]) : i \in P}
  <2>1. Range(<<>>) = {}
    BY DEF Range
  <2>2. \A x : x \in Range(found[m]) <=> x \in Range(found[0]) \/ \E i \in 1 .. m : x \in c[i]
    <3> HIDE DEF c, m
    <3> QED BY <1>1, <1>10, LoopCollects
  <2>3. \A i \in 1 .. m : c[i] = IF i \in P THEN {Kind(patterns, s[i])} ELSE {}
    OBVIOUS
  <2> HIDE DEF P, c, m
  <2>4. ASSUME NEW x PROVE x \in Range(found[m]) <=> \E i \in P : x = Kind(patterns, s[i])
    <3>1. x \in Range(found[m]) <=> \E i \in 1 .. m : x \in c[i]
      BY <1>8, <2>1, <2>2
    <3>2. \A i \in 1 .. m : x \in c[i] <=> i \in P /\ x = Kind(patterns, s[i])
      BY <2>3
    <3>3. P \subseteq 1 .. m
      BY <1>1
    <3> QED BY <3>1, <3>2, <3>3
  <2> QED BY <2>4
<1>12. Len(found[m]) = Cardinality(P)
  <2>1. Len(found[0]) = 0
    BY <1>8
  <2> HIDE DEF P, m
  <2> QED BY <1>1, <1>10, <2>1, LoopCounts
<1>13. found[m] \in Seq(T)
  <2>1. m \in 0 .. m
    BY <1>1
  <2> QED BY <1>9, <2>1
<1> HIDE DEF P, T, m
<1> QED BY <1>3, <1>11, <1>12, <1>13 DEF T, P, m

\* What a loop adds to a list is new to it, and nothing is lost.
LEMMA AddModulesResult ==
    ASSUME NEW T, NEW mods \in Seq(T), NEW rec \in Seq(T)
    PROVE  AddModules(mods, rec) \in Seq(T) /\ Range(AddModules(mods, rec)) = Range(mods) \cup Range(rec)
<1> DEFINE A == Seq(T)   m == Len(rec)
           F == [w \in (1 .. m) \X A |-> IF rec[w[1]] \in Range(w[2]) THEN w[2] ELSE Append(w[2], rec[w[1]])]
<1>1. m \in Nat /\ \A i \in 1 .. m : rec[i] \in T
  BY ElementOfSeq
<1>2. F \in [(1 .. m) \X A -> A]
  <2>1. ASSUME NEW w \in (1 .. m) \X A
        PROVE  (IF rec[w[1]] \in Range(w[2]) THEN w[2] ELSE Append(w[2], rec[w[1]])) \in A
    <3>1. w[1] \in 1 .. m /\ w[2] \in Seq(T)
      OBVIOUS
    <3> HIDE DEF m
    <3> QED BY <1>1, <3>1, AppendProperties
  <2> QED BY <2>1
<1> DEFINE added == CHOOSE f : f = [n \in 0 .. Len(rec) |->
                       IF n = 0 THEN mods
                       ELSE IF rec[n] \in Range(f[n - 1]) THEN f[n - 1]
                       ELSE Append(f[n - 1], rec[n])]
<1>3. AddModules(mods, rec) = added[m]
  BY DEF AddModules
<1>4. PICK r \in [0 .. m -> A] : r[0] = mods /\ \A i \in 1 .. m : r[i] = F[<<i, r[i - 1]>>]
  <2>1. mods \in A
    OBVIOUS
  <2> HIDE DEF A, m, F
  <2>2. PICK r : IsLoop(r, m, A, mods, F)
    BY <1>1, <1>2, <2>1, LoopExists
  <2> QED BY <2>2 DEF IsLoop
<1>5. ASSUME NEW i \in 1 .. m
      PROVE  r[i] = IF rec[i] \in Range(r[i - 1]) THEN r[i - 1] ELSE Append(r[i - 1], rec[i])
  <2>1. i - 1 \in 0 .. m
    BY <1>1
  <2>2. <<i, r[i - 1]>> \in (1 .. m) \X A
    <3> HIDE DEF A, m
    <3> QED BY <2>1
  <2> HIDE DEF A, m
  <2> QED BY <1>4, <2>2
<1>6. r = [n \in 0 .. Len(rec) |->
             IF n = 0 THEN mods
             ELSE IF rec[n] \in Range(r[n - 1]) THEN r[n - 1]
             ELSE Append(r[n - 1], rec[n])]
  <2>1. ASSUME NEW n \in 0 .. m, n # 0 PROVE n \in 1 .. m
    BY <1>1, <2>1
  <2> HIDE DEF A, F
  <2> QED BY <1>4, <1>5, <2>1
<1>7. added = [n \in 0 .. Len(rec) |->
             IF n = 0 THEN mods
             ELSE IF rec[n] \in Range(added[n - 1]) THEN added[n - 1]
             ELSE Append(added[n - 1], rec[n])]
  BY <1>6
<1> HIDE DEF F, added
<1>8. /\ added[0] = mods
      /\ \A i \in 1 .. m : added[i] = IF rec[i] \in Range(added[i - 1]) THEN added[i - 1]
                                      ELSE Append(added[i - 1], rec[i])
  <2>1. 0 \in 0 .. m /\ \A i \in 1 .. m : i \in 0 .. m /\ i # 0
    BY <1>1
  <2> QED BY <1>7, <2>1
<1> HIDE DEF m
<1>9. \A n \in 0 .. m : added[n] \in Seq(T)
  <2> DEFINE S == {n \in Nat : n <= m => added[n] \in Seq(T)}
  <2>1. 0 \in S
    BY <1>8
  <2>2. ASSUME NEW n \in Nat, n \in S PROVE n + 1 \in S
    <3> SUFFICES ASSUME n + 1 <= m PROVE added[n + 1] \in Seq(T)
      OBVIOUS
    <3> DEFINE q == added[n]   e == rec[n + 1]
    <3>1. n + 1 \in 1 .. m /\ (n + 1) - 1 = n /\ q \in Seq(T)
      BY <1>1, <2>2
    <3>2. added[n + 1] = IF e \in Range(q) THEN q ELSE Append(q, e)
      <4> HIDE DEF S
      <4> QED BY <1>8, <3>1
    <3>3. e \in T
      BY <1>1, <3>1
    <3> HIDE DEF S, q, e
    <3> QED BY <3>1, <3>2, <3>3, AppendProperties
  <2> HIDE DEF S
  <2>3. Nat \subseteq S
    BY <2>1, <2>2, NatIsInductive
  <2> QED BY <1>1, <2>3 DEF S
<1> DEFINE c == [i \in 1 .. m |-> {rec[i]}]
<1>10. ASSUME NEW i \in 1 .. m
       PROVE  Range(added[i]) = Range(added[i - 1]) \cup c[i]
  <2> DEFINE q == added[i - 1]
  <2>1. q \in Seq(T) /\ rec[i] \in T /\ c[i] = {rec[i]}
    <3>1. i - 1 \in 0 .. m
      BY <1>1
    <3> QED BY <1>1, <1>9, <3>1
  <2>2. added[i] = IF rec[i] \in Range(q) THEN q ELSE Append(q, rec[i])
    BY <1>8
  <2> HIDE DEF q, c
  <2> QED BY <2>1, <2>2, RangeOfAppend DEF q
<1>11. Range(added[m]) = Range(mods) \cup Range(rec)
  <2>1. \A x : x \in Range(added[m]) <=> x \in Range(added[0]) \/ \E i \in 1 .. m : x \in c[i]
    <3> HIDE DEF c
    <3> QED BY <1>1, <1>10, LoopCollects
  <2>2. ASSUME NEW x PROVE x \in Range(rec) <=> \E i \in 1 .. m : x \in c[i]
    <3>1. DOMAIN rec = 1 .. m
      BY LenProperties DEF m
    <3> QED BY <3>1 DEF Range
  <2> HIDE DEF c
  <2> QED BY <1>8, <2>1, <2>2
<1>12. m \in 0 .. m
  BY <1>1
<1> QED BY <1>3, <1>9, <1>11, <1>12

AllModules == {"AZOTH", "MONAD", "LOGOS", "CHRONOS", "ABYSSOS", "PRISM 3D", "LOCI", "NEXUS", "PRISM",
               "HERMES", "GNOMON", "HAPTOS", "DAEDALUS", "PYGMALION"}

LEMMA RecommendationsAreLists ==
    ASSUME NEW k PROVE ModuleRecommendations(k) \in Seq(AllModules)
<1>1. CASE k = "rgb_camera"
  BY <1>1 DEF ModuleRecommendations, AllModules
<1>2. CASE k = "depth_camera"
  BY <1>2 DEF ModuleRecommendations, AllModules
<1>3. CASE k = "stereo_camera"
  BY <1>3 DEF ModuleRecommendations, AllModules
<1>4. CASE k = "lidar_3d"
  BY <1>4 DEF ModuleRecommendations, AllModules
<1>5. CASE k = "lidar_2d"
  BY <1>5 DEF ModuleRecommendations, AllModules
<1>6. CASE k = "imu"
  BY <1>6 DEF ModuleRecommendations, AllModules
<1>7. CASE k = "force_torque"
  BY <1>7 DEF ModuleRecommendations, AllModules
<1>8. CASE k = "joint_state"
  BY <1>8 DEF ModuleRecommendations, AllModules
<1>9. CASE k \notin {"rgb_camera", "depth_camera", "stereo_camera", "lidar_3d",
                     "lidar_2d", "imu", "force_torque", "joint_state"}
  <2>1. ModuleRecommendations(k) = <<>>
    BY <1>9 DEF ModuleRecommendations
  <2> QED BY <2>1
<1> QED BY <1>1, <1>2, <1>3, <1>4, <1>5, <1>6, <1>7, <1>8, <1>9

\* Every module that some sensor calls for is listed, and no other.
LEMMA ModulesResult ==
    ASSUME NEW K, NEW s \in Seq(K)
    PROVE  \A x : x \in Range(Modules(s)) <=> \E k \in Range(s) : x \in Range(ModuleRecommendations(k))
<1> DEFINE A == Seq(AllModules)   m == Len(s)   R(i) == ModuleRecommendations(s[i])
           F == [w \in (1 .. m) \X A |-> AddModules(w[2], R(w[1]))]
<1>1. m \in Nat /\ \A i \in 1 .. m : R(i) \in A
  BY RecommendationsAreLists
<1>2. F \in [(1 .. m) \X A -> A]
  <2>1. ASSUME NEW w \in (1 .. m) \X A PROVE AddModules(w[2], R(w[1])) \in A
    <3>1. w[1] \in 1 .. m /\ w[2] \in Seq(AllModules)
      OBVIOUS
    <3> HIDE DEF m, R
    <3> QED BY <1>1, <3>1, AddModulesResult
  <2> QED BY <2>1
<1> DEFINE listed == CHOOSE f : f = [n \in 0 .. Len(s) |->
                       IF n = 0 THEN <<>> ELSE AddModules(f[n - 1], ModuleRecommendations(s[n]))]
<1>3. Modules(s) = listed[m]
  BY DEF Modules
<1>4. PICK r \in [0 .. m -> A] : r[0] = <<>> /\ \A i \in 1 .. m : r[i] = F[<<i, r[i - 1]>>]
  <2> DEFINE x0 == <<>>
  <2>1. x0 \in A
    OBVIOUS
  <2> HIDE DEF A, m, F, x0
  <2>2. PICK r : IsLoop(r, m, A, x0, F)
    BY <1>1, <1>2, <2>1, LoopExists
  <2> QED BY <2>2 DEF IsLoop, x0
<1>5. ASSUME NEW i \in 1 .. m PROVE r[i] = AddModules(r[i - 1], R(i))
  <2>1. i - 1 \in 0 .. m
    BY <1>1
  <2>2. <<i, r[i - 1]>> \in (1 .. m) \X A
    <3> HIDE DEF A, m
    <3> QED BY <2>1
  <2> HIDE DEF A, m, R
  <2> QED BY <1>4, <2>2
<1>6. r = [n \in 0 .. Len(s) |-> IF n = 0 THEN <<>> ELSE AddModules(r[n - 1], ModuleRecommendations(s[n]))]
  <2>1. ASSUME NEW n \in 0 .. m, n # 0 PROVE n \in 1 .. m
    BY <1>1, <2>1
  <2> HIDE DEF A, F
  <2> QED BY <1>4, <1>5, <2>1
<1>7. listed = [n \in 0 .. Len(s) |->
                  IF n = 0 THEN <<>> ELSE AddModules(listed[n - 1], ModuleRecommendations(s[n]))]
  BY <1>6
<1> HIDE DEF F, listed
<1>8. listed[0] = <<>> /\ \A i \in 1 .. m : listed[i] = AddModules(listed[i - 1], R(i))
  <2>1. 0 \in 0 .. m /\ \A i \in 1 .. m : i \in 0 .. m /\ i # 0
    BY <1>1
  <2> QED BY <1>7, <2>1
<1> HIDE DEF m, R
<1>9. \A n \in 0 .. m : listed[n] \in Seq(AllModules)
  <2> DEFINE S == {n \in Nat : n <= m => listed[n] \in Seq(AllModules)}
  <2>1. 0 \in S
    <3>1. <<>> \in Seq(AllModules)
      OBVIOUS
    <3> QED BY <1>8, <3>1
  <2>2. ASSUME NEW n \in Nat, n \in S PROVE n + 1 \in S
    <3> SUFFICES ASSUME n + 1 <= m PROVE listed[n + 1] \in Seq(AllModules)
      OBVIOUS
    <3>1. n + 1 \in 1 .. m /\ (n + 1) - 1 = n /\ listed[n] \in Seq(AllModules)
      BY <1>1, <2>2
    <3>2. listed[n + 1] = AddModules(listed[n], R(n + 1)) /\ R(n + 1) \in Seq(AllModules)
      <4> HIDE DEF S
      <4> QED BY <1>1, <1>8, <3>1
    <3> HIDE DEF S
    <3> QED BY <3>1, <3>2, AddModulesResult
  <2> HIDE DEF S
  <2>3. Nat \subseteq S
    BY <2>1, <2>2, NatIsInductive
  <2> QED BY <1>1, <2>3 DEF S
<1> DEFINE c == [i \in 1 .. m |-> Range(R(i))]
<1>10. ASSUME NEW i \in 1 .. m
       PROVE  Range(listed[i]) = Range(listed[i - 1]) \cup c[i]
  <2> DEFINE q == listed[i - 1]
  <2>1. q \in Seq(AllModules) /\ R(i) \in Seq(AllModules) /\ c[i] = Range(R(i))
    <3>1. i - 1 \in 0 .. m
      BY <1>1
    <3> QED BY <1>1, <1>9, <3>1
  <2>2. listed[i] = AddModules(q, R(i))
    BY <1>8
  <2> HIDE DEF q, c
  <2> QED BY <2>1, <2>2, AddModulesResult DEF q
<1>11. ASSUME NEW x
       PROVE  x \in Range(listed[m]) <=> \E k \in Range(s) : x \in Range(ModuleRecommendations(k))
  <2>1. x \in Range(listed[m]) <=> x \in Range(listed[0]) \/ \E i \in 1 .. m : x \in c[i]
    <3> HIDE DEF c
    <3> QED BY <1>1, <1>10, LoopCollects
  <2>2. x \notin Range(listed[0])
    BY <1>8 DEF Range
  <2>3. \A i \in 1 .. m : c[i] = Range(ModuleRecommendations(s[i]))
    BY DEF R
  <2>4. Range(s) = {s[i] : i \in 1 .. m}
    BY LenProperties DEF Range, m
  <2> HIDE DEF c
  <2> QED BY <2>1, <2>2, <2>3, <2>4
<1> QED BY <1>3, <1>11

-----------------------------------------------------------------------------
(* Fingerprints *)

\* A reordered list has the same entities, and as many of each kind.
FindsTheSame(patterns, o, s) ==
    /\ Range(Detect(patterns, o)) = Range(Detect(patterns, s))
    /\ Len(Detect(patterns, o)) = Len(Detect(patterns, s))

LEMMA ReorderedSame ==
    ASSUME NEW E, NEW s \in Seq(E), NEW o \in Reordered(s), NEW patterns
    PROVE  /\ o \in Seq(E) /\ Range(o) = Range(s)
           /\ FindsTheSame(patterns, o, s)
<1> DEFINE m == Len(s)   D == 1 .. m
<1>1. m \in Nat /\ DOMAIN s = D /\ \A i \in D : s[i] \in E
  BY LenProperties, ElementOfSeq
<1>2. PICK p \in [D -> D] : o = [i \in D |-> s[p[i]]] /\ \A i, j \in D : i # j => p[i] # p[j]
  BY <1>1 DEF Reordered
<1>3. \A j \in D : \E i \in D : p[i] = j
  <2>1. IsFiniteSet(D)
    BY <1>1, FS_Interval
  <2>2. p \in Injection(D, D)
    BY <1>2 DEF Injection, IsInjective
  <2> HIDE DEF D
  <2>3. p \in Surjection(D, D)
    BY <2>1, <2>2, FS_Injection
  <2> QED BY <2>3 DEF Surjection
<1>4. o \in [1 .. m -> E]
  BY <1>1, <1>2
<1>5. o \in Seq(E) /\ Len(o) = m
  <2>1. o \in Seq(E)
    BY <1>1, <1>4, SeqDef
  <2>2. DOMAIN o = 1 .. Len(o) /\ DOMAIN o = 1 .. m /\ Len(o) \in Nat
    BY <1>4, <2>1, LenProperties
  <2> HIDE DEF m
  <2>3. ~ (Len(o) < m)
    <3>1. Len(o) < m => m \in 1 .. m /\ m \notin 1 .. Len(o)
      BY <1>1, <2>2
    <3> QED BY <2>2, <3>1
  <2>4. ~ (m < Len(o))
    <3>1. m < Len(o) => Len(o) \in 1 .. Len(o) /\ Len(o) \notin 1 .. m
      BY <1>1, <2>2
    <3> QED BY <2>2, <3>1
  <2>5. Len(o) = m
    <3> DEFINE n == Len(o)
    <3>1. n \in Nat /\ m \in Nat /\ ~ (n < m) /\ ~ (m < n)
      BY <1>1, <2>2, <2>3, <2>4
    <3> HIDE DEF n
    <3>2. n = m
      BY <3>1
    <3> QED BY <3>2 DEF n
  <2> QED BY <2>1, <2>5
<1> HIDE DEF m
<1>6. Range(o) = Range(s)
  <2>1. Range(o) = {o[i] : i \in D} /\ Range(s) = {s[i] : i \in D}
    BY <1>1, <1>4 DEF Range
  <2>2. \A i \in D : p[i] \in D /\ o[i] = s[p[i]]
    BY <1>2
  <2> HIDE DEF D
  <2>3. ASSUME NEW x PROVE (\E i \in D : x = o[i]) <=> (\E j \in D : x = s[j])
    BY <1>3, <2>2
  <2> QED BY <2>1, <2>3
<1> DEFINE H == Hits(patterns, s)   G == Hits(patterns, o)
<1>7. /\ H \in SUBSET D /\ G \in SUBSET D
      /\ \A i \in D : (i \in H <=> Matching(patterns, s[i]) # {})
      /\ \A i \in D : (i \in G <=> Matching(patterns, o[i]) # {})
  BY <1>5 DEF Hits, m
<1>8. \A i \in D : p[i] \in D /\ o[i] = s[p[i]] /\ (i \in G <=> p[i] \in H)
  BY <1>2, <1>7
<1> HIDE DEF H, G, D
<1>9. Cardinality(G) = Cardinality(H)
  <2> DEFINE g == [i \in G |-> p[i]]
  <2>1. \A i \in G : g[i] = p[i] /\ i \in D /\ p[i] \in H
    BY <1>7, <1>8
  <2>2. g \in Injection(G, H)
    <3>1. g \in [G -> H]
      BY <2>1
    <3>2. \A i, j \in G : g[i] = g[j] => i = j
      BY <1>2, <2>1
    <3> HIDE DEF g
    <3> QED BY <3>1, <3>2 DEF Injection, IsInjective
  <2>3. g \in Surjection(G, H)
    <3>1. g \in [G -> H]
      BY <2>1
    <3>2. \A j \in H : \E i \in G : g[i] = j
      BY <1>3, <1>7, <1>8, <2>1
    <3> HIDE DEF g
    <3> QED BY <3>1, <3>2 DEF Surjection
  <2>4. ExistsBijection(G, H)
    BY <2>2, <2>3 DEF ExistsBijection, Bijection
  <2>5. IsFiniteSet(G)
    <3>1. IsFiniteSet(D)
      BY <1>1, FS_Interval DEF D
    <3> QED BY <1>7, <3>1, FS_Subset
  <2> QED BY <2>4, <2>5, FS_Bijection
<1>10. {Kind(patterns, o[i]) : i \in G} = {Kind(patterns, s[i]) : i \in H}
  <2>1. ASSUME NEW x
        PROVE  (\E i \in G : x = Kind(patterns, o[i])) <=> (\E j \in H : x = Kind(patterns, s[j]))
    BY <1>3, <1>7, <1>8
  <2> QED BY <2>1
<1>11. /\ Range(Detect(patterns, s)) = {Kind(patterns, s[i]) : i \in H}
       /\ Len(Detect(patterns, s)) = Cardinality(H)
  BY DetectResult DEF H
<1>12. /\ Range(Detect(patterns, o)) = {Kind(patterns, o[i]) : i \in G}
       /\ Len(Detect(patterns, o)) = Cardinality(G)
  BY <1>5, DetectResult DEF G
<1> QED BY <1>5, <1>6, <1>9, <1>10, <1>11, <1>12 DEF FindsTheSame

\* A longer list has all that a shorter one had.
Continues(s, o) == Len(s) <= Len(o) /\ \A i \in 1 .. Len(s) : o[i] = s[i]

LEMMA LongerHasMore ==
    ASSUME NEW E, NEW s \in Seq(E), NEW o \in Seq(E), NEW patterns, Continues(s, o)
    PROVE  /\ Range(Detect(patterns, s)) \subseteq Range(Detect(patterns, o))
           /\ Len(Detect(patterns, s)) <= Len(Detect(patterns, o))
<1> DEFINE H == Hits(patterns, s)   G == Hits(patterns, o)
<1>1. Len(s) \in Nat /\ Len(o) \in Nat
  OBVIOUS
<1>2. H \subseteq G /\ G \subseteq 1 .. Len(o) /\ \A i \in H : o[i] = s[i]
  BY <1>1 DEF Hits, Continues
<1> HIDE DEF H, G
<1>3. /\ Range(Detect(patterns, s)) = {Kind(patterns, s[i]) : i \in H}
      /\ Len(Detect(patterns, s)) = Cardinality(H)
  BY DetectResult DEF H
<1>4. /\ Range(Detect(patterns, o)) = {Kind(patterns, o[i]) : i \in G}
      /\ Len(Detect(patterns, o)) = Cardinality(G)
  BY DetectResult DEF G
<1>5. IsFiniteSet(G)
  <2>1. IsFiniteSet(1 .. Len(o))
    BY <1>1, FS_Interval
  <2> QED BY <1>2, <2>1, FS_Subset
<1>6. Cardinality(H) <= Cardinality(G)
  BY <1>2, <1>5, FS_Subset
<1> QED BY <1>2, <1>3, <1>4, <1>6

\* What a fingerprint depends on: the entities, the kinds and how many there are.
FingerprintIs(f, ts, as) ==
    LET st == Detect(SensorPatterns, ts)
        ct == Detect(ControlPatterns, ts)
        ca == Detect(ActionControlPatterns, as)
    IN  /\ Len(st) \in Nat /\ Len(ct) \in Nat /\ Len(ca) \in Nat
        /\ f.vendor = Vendor(ts \o as)[2] /\ f.model = Vendor(ts \o as)[3]
        /\ f.category = Category(Range(st), Range(ct) \cup Range(ca), f.vendor, f.model)
        /\ f.confidence = Confidence(Len(st) + Len(ct) + Len(ca))
        /\ \A x : x \in Range(f.modules) <=> \E k \in Range(st) : x \in Range(ModuleRecommendations(k))

LEMMA FingerprintParts ==
    ASSUME NEW ts \in Seq(TopicEntities), NEW as \in Seq(ActionEntities)
    PROVE  FingerprintIs(FingerprintOf(ts, as), ts, as)
<1> DEFINE f == FingerprintOf(ts, as)
           st == Detect(SensorPatterns, ts)
           ct == Detect(ControlPatterns, ts)
           ca == Detect(ActionControlPatterns, as)
           K == UNION {Range(st), Range(ct), Range(ca)}
<1>1. st \in Seq(K) /\ ct \in Seq(K) /\ ca \in Seq(K)
  <2>1. /\ st \in Seq({Kind(SensorPatterns, e) : e \in TopicEntities})
        /\ ct \in Seq({Kind(ControlPatterns, e) : e \in TopicEntities})
        /\ ca \in Seq({Kind(ActionControlPatterns, e) : e \in ActionEntities})
    BY DetectResult
  <2>2. Range(st) \subseteq K /\ Range(ct) \subseteq K /\ Range(ca) \subseteq K
    OBVIOUS
  <2> HIDE DEF st, ct, ca, K
  <2>3. st \in Seq(Range(st)) /\ ct \in Seq(Range(ct)) /\ ca \in Seq(Range(ca))
    BY <2>1, SeqOfRange
  <2> QED BY <2>2, <2>3, SeqMonotonic
<1> HIDE DEF st, ct, ca, K
<1>2. Len(st) \in Nat /\ Len(ct) \in Nat /\ Len(ca) \in Nat
  BY <1>1
<1>3. Range(ct \o ca) = Range(ct) \cup Range(ca) /\ Len(ct \o ca) = Len(ct) + Len(ca)
  <2>1. Joined(ct, ca)
    BY <1>1, RangeOfJoin
  <2> QED BY <1>1, <2>1, ConcatProperties DEF Joined
<1>5. /\ f.vendor = Vendor(ts \o as)[2] /\ f.model = Vendor(ts \o as)[3]
      /\ f.category = Category(Range(st), Range(ct \o ca), Vendor(ts \o as)[2], Vendor(ts \o as)[3])
      /\ f.confidence = Confidence(Len(st) + Len(ct \o ca)) /\ f.modules = Modules(st)
  BY DEF FingerprintOf, st, ct, ca
<1>6. \A x : x \in Range(Modules(st)) <=> \E k \in Range(st) : x \in Range(ModuleRecommendations(k))
  BY <1>1, ModulesResult
<1>7. Len(st) + Len(ct \o ca) = Len(st) + Len(ct) + Len(ca)
  BY <1>2, <1>3
<1> HIDE DEF f
<1> QED BY <1>2, <1>3, <1>5, <1>6, <1>7 DEF f, st, ct, ca, FingerprintIs

FingerprintInv ==
    /\ topics \in Seq(TopicEntities) /\ actions \in Seq(ActionEntities)
    /\ fp = FingerprintOf(topics, actions)

LEMMA FingerprintStart == FingerprintInit => FingerprintInv
BY DEF FingerprintInit, FingerprintInv

LEMMA FingerprintStep == FingerprintInv /\ [FingerprintNext]_fingerprintVars => FingerprintInv'
<1> SUFFICES ASSUME FingerprintInv, [FingerprintNext]_fingerprintVars PROVE FingerprintInv'
  OBVIOUS
<1>1. ASSUME NEW e \in TopicEntities, PublishTopic(e) PROVE FingerprintInv'
  <2>1. topics' = Append(topics, e) /\ actions' = actions /\ fp' = FingerprintOf(topics', actions')
    BY <1>1 DEF PublishTopic
  <2> QED BY <2>1, AppendProperties DEF FingerprintInv
<1>2. ASSUME NEW e \in ActionEntities, OfferAction(e) PROVE FingerprintInv'
  <2>1. actions' = Append(actions, e) /\ topics' = topics /\ fp' = FingerprintOf(topics', actions')
    BY <1>2 DEF OfferAction
  <2> QED BY <2>1, AppendProperties DEF FingerprintInv
<1>3. CASE UNCHANGED fingerprintVars
  BY <1>3 DEF fingerprintVars, FingerprintInv
<1> QED BY <1>1, <1>2, <1>3 DEF FingerprintNext

\* In whatever order the graph lists its topics and actions, a fingerprint names
\* the same vendor, model, category and modules, and is as sure of them.
THEOREM OrderIsIrrelevant == FingerprintSpec => []OrderDoesNotMatter
<1>1. FingerprintInv => OrderDoesNotMatter
  <2> SUFFICES ASSUME FingerprintInv, NEW ts \in Reordered(topics), NEW as \in Reordered(actions)
               PROVE  LET other == FingerprintOf(ts, as) IN
                      /\ <<other.category, other.vendor, other.model, other.confidence>>
                           = <<fp.category, fp.vendor, fp.model, fp.confidence>>
                      /\ Range(other.modules) = Range(fp.modules)
    BY DEF OrderDoesNotMatter
  <2> DEFINE other == FingerprintOf(ts, as)
  <2>0. topics \in Seq(TopicEntities) /\ actions \in Seq(ActionEntities) /\ fp = FingerprintOf(topics, actions)
    BY DEF FingerprintInv
  <2>1. /\ ts \in Seq(TopicEntities) /\ Range(ts) = Range(topics)
        /\ \A patterns : FindsTheSame(patterns, ts, topics)
    BY <2>0, ReorderedSame
  <2>2. /\ as \in Seq(ActionEntities) /\ Range(as) = Range(actions)
        /\ \A patterns : FindsTheSame(patterns, as, actions)
    BY <2>0, ReorderedSame
  <2>3. FingerprintIs(other, ts, as)
    BY <2>1, <2>2, FingerprintParts
  <2>4. FingerprintIs(fp, topics, actions)
    BY <2>0, FingerprintParts
  <2> HIDE DEF other
  <2>5. other.vendor = fp.vendor /\ other.model = fp.model
    <3>1. Joined(ts, as) /\ Joined(topics, actions)
      BY <2>0, <2>1, <2>2, RangeOfJoin
    <3>2. Range(ts \o as) = Range(topics \o actions)
      BY <2>1, <2>2, <3>1 DEF Joined
    <3>3. Vendor(ts \o as) = Vendor(topics \o actions)
      BY <3>2 DEF Vendor
    <3> QED BY <2>3, <2>4, <3>3 DEF FingerprintIs
  <2> DEFINE st == Detect(SensorPatterns, ts)       st0 == Detect(SensorPatterns, topics)
             ct == Detect(ControlPatterns, ts)      ct0 == Detect(ControlPatterns, topics)
             ca == Detect(ActionControlPatterns, as) ca0 == Detect(ActionControlPatterns, actions)
  <2>6. /\ FindsTheSame(SensorPatterns, ts, topics) /\ FindsTheSame(ControlPatterns, ts, topics)
        /\ FindsTheSame(ActionControlPatterns, as, actions)
    BY <2>1, <2>2
  <2>7. /\ Range(st) = Range(st0) /\ Range(ct) = Range(ct0) /\ Range(ca) = Range(ca0)
        /\ Len(st) = Len(st0) /\ Len(ct) = Len(ct0) /\ Len(ca) = Len(ca0)
    BY <2>6 DEF FindsTheSame
  <2>8. /\ other.category = Category(Range(st), Range(ct) \cup Range(ca), other.vendor, other.model)
        /\ other.confidence = Confidence(Len(st) + Len(ct) + Len(ca))
        /\ \A x : x \in Range(other.modules)
                    <=> \E k \in Range(st) : x \in Range(ModuleRecommendations(k))
    BY <2>3 DEF FingerprintIs
  <2>9. /\ fp.category = Category(Range(st0), Range(ct0) \cup Range(ca0), fp.vendor, fp.model)
        /\ fp.confidence = Confidence(Len(st0) + Len(ct0) + Len(ca0))
        /\ \A x : x \in Range(fp.modules)
                    <=> \E k \in Range(st0) : x \in Range(ModuleRecommendations(k))
    BY <2>4 DEF FingerprintIs
  <2> HIDE DEF st, st0, ct, ct0, ca, ca0
  <2>10. other.category = fp.category /\ other.confidence = fp.confidence
    BY <2>5, <2>7, <2>8, <2>9
  <2>11. Range(other.modules) = Range(fp.modules)
    <3>1. \A x : x \in Range(other.modules) <=> x \in Range(fp.modules)
      BY <2>7, <2>8, <2>9
    <3> QED BY <3>1
  <2> QED BY <2>5, <2>10, <2>11 DEF other
<1> QED BY <1>1, FingerprintStart, FingerprintStep, PTL DEF FingerprintSpec

\* A robot is unknown when nothing that moves it was detected.
LEMMA UnknownCategory ==
    ASSUME NEW sensors, NEW ctrl, NEW vendor, NEW model
    PROVE  Category(sensors, ctrl, vendor, model) = "unknown"
              <=> ctrl \cap {"velocity", "moveit", "gripper", "joint_position", "joint_trajectory"} = {}
<1> DEFINE v == "velocity" \in ctrl
           j == ctrl \cap {"joint_position", "joint_trajectory"} # {}
           g == ctrl \cap {"moveit", "gripper"} # {}
<1>1. IsArm(ctrl) <=> (j \/ g) /\ ~ v
  BY DEF IsArm
<1>2. ctrl \cap {"velocity", "moveit", "gripper", "joint_position", "joint_trajectory"} = {} <=> ~ v /\ ~ j /\ ~ g
  OBVIOUS
<1>3. CASE v
  BY <1>1, <1>2, <1>3 DEF Category
<1>4. CASE ~ v
  BY <1>1, <1>2, <1>4 DEF Category
<1> QED BY <1>3, <1>4

\* When the robot publishes more, its fingerprint gets no less sure, never more
\* than certain, and what was classified does not become unknown.
THEOREM FingerprintsOnlyGrow == FingerprintSpec => MoreIsNotLess
<1> DEFINE More == /\ fp'.confidence \in fp.confidence .. 5
                   /\ fp'.category = "unknown" => fp.category = "unknown"
<1>1. FingerprintInv /\ [FingerprintNext]_fingerprintVars => [More]_fp
  <2> SUFFICES ASSUME FingerprintInv, FingerprintInv', FingerprintNext PROVE More
    BY FingerprintStep DEF fingerprintVars
  <2>0. /\ topics \in Seq(TopicEntities) /\ actions \in Seq(ActionEntities)
        /\ topics' \in Seq(TopicEntities) /\ actions' \in Seq(ActionEntities)
        /\ fp = FingerprintOf(topics, actions) /\ fp' = FingerprintOf(topics', actions')
    BY DEF FingerprintInv
  <2>1. Continues(topics, topics') /\ Continues(actions, actions')
    <3>0. Len(topics) \in Nat /\ Len(actions) \in Nat
      BY <2>0
    <3>1. ASSUME NEW e \in TopicEntities, PublishTopic(e) PROVE Continues(topics, topics') /\ Continues(actions, actions')
      <4>1. topics' = Append(topics, e) /\ actions' = actions
        BY <3>1 DEF PublishTopic
      <4> QED BY <2>0, <3>0, <4>1, AppendProperties DEF Continues
    <3>2. ASSUME NEW e \in ActionEntities, OfferAction(e) PROVE Continues(topics, topics') /\ Continues(actions, actions')
      <4>1. actions' = Append(actions, e) /\ topics' = topics
        BY <3>2 DEF OfferAction
      <4> QED BY <2>0, <3>0, <4>1, AppendProperties DEF Continues
    <3> QED BY <3>1, <3>2 DEF FingerprintNext
  <2> DEFINE st == Detect(SensorPatterns, topics)         st2 == Detect(SensorPatterns, topics')
             ct == Detect(ControlPatterns, topics)        ct2 == Detect(ControlPatterns, topics')
             ca == Detect(ActionControlPatterns, actions) ca2 == Detect(ActionControlPatterns, actions')
             old == Range(ct) \cup Range(ca)              new == Range(ct2) \cup Range(ca2)
  <2>2. /\ Len(st) <= Len(st2) /\ Range(ct) \subseteq Range(ct2) /\ Len(ct) <= Len(ct2)
        /\ Range(ca) \subseteq Range(ca2) /\ Len(ca) <= Len(ca2)
    BY <2>0, <2>1, LongerHasMore
  <2>3. /\ fp.category = Category(Range(st), old, fp.vendor, fp.model)
        /\ fp.confidence = Confidence(Len(st) + Len(ct) + Len(ca))
        /\ Len(st) \in Nat /\ Len(ct) \in Nat /\ Len(ca) \in Nat
    <3>1. FingerprintIs(fp, topics, actions)
      BY <2>0, FingerprintParts
    <3> QED BY <3>1 DEF FingerprintIs
  <2>4. /\ fp'.category = Category(Range(st2), new, fp'.vendor, fp'.model)
        /\ fp'.confidence = Confidence(Len(st2) + Len(ct2) + Len(ca2))
        /\ Len(st2) \in Nat /\ Len(ct2) \in Nat /\ Len(ca2) \in Nat
    <3>1. FingerprintIs(fp', topics', actions')
      BY <2>0, FingerprintParts
    <3> QED BY <3>1 DEF FingerprintIs
  <2>5. old \subseteq new
    BY <2>2
  <2> HIDE DEF st, st2, ct, ct2, ca, ca2, old, new
  <2>6. fp'.confidence \in fp.confidence .. 5
    BY <2>2, <2>3, <2>4 DEF Confidence
  <2>7. fp'.category = "unknown" => fp.category = "unknown"
    <3> DEFINE moving == {"velocity", "moveit", "gripper", "joint_position", "joint_trajectory"}
    <3>1. fp.category = "unknown" <=> old \cap moving = {}
      BY <2>3, UnknownCategory
    <3>2. fp'.category = "unknown" <=> new \cap moving = {}
      BY <2>4, UnknownCategory
    <3> HIDE DEF moving
    <3> QED BY <2>5, <3>1, <3>2
  <2> QED BY <2>6, <2>7
<1> QED BY <1>1, FingerprintStart, FingerprintStep, PTL DEF FingerprintSpec, MoreIsNotLess

=============================================================================
