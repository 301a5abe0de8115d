----------------------- MODULE RosbridgeAdapterProofs -----------------------
(***************************************************************************)
(* Theorems about RosbridgeAdapter, for every set of users, topics, goals  *)
(* and actions and every bound on the sessions.                            *)
(***************************************************************************)
EXTENDS RosbridgeAdapter, TLAPS

-----------------------------------------------------------------------------
(* The inductive invariants *)

\* A topic's entry is the set its listeners hold, and has no other members.
TableInv ==
    /\ \A u \in Users : Listening(u) =>
          /\ topic[u] \in Topics /\ held[u] \in Users
          /\ table[topic[u]] = held[u] /\ u \in members[held[u]]
    /\ \A t \in Topics : table[t] # Nothing =>
          /\ members[table[t]] # {}
          /\ state[table[t]] # "idle" /\ topic[table[t]] = t
          /\ \A u \in members[table[t]] : Listening(u) /\ topic[u] = t
    /\ \A u \in Users : state[u] = "idle" => members[u] = {}

\* There is no connection without a session: what the type of blind needs.
TypeInv == TypeOK /\ (session = 0 => link \in {"off", "closed"})

\* What the server holds in a session.
ServerInv ==
    /\ link # "up" => \A t \in Topics : server[t] = {}
    /\ session = 0 => \A u \in Users : state[u] = "idle"
    /\ link = "up" => \A u \in Users : Listening(u) =>
          u \in server[topic[u]] \/ Resub \in server[topic[u]]

SubsInv == TableInv /\ ServerInv /\ LeaksOnlyReconnects

\* The goals of one action.
GoalsInv ==
    /\ CancelNamesItsGoal
    /\ \A g \in Goals : goal[g] # "idle" => goalAction[g] \in Actions
    /\ link = "off" => \A g \in Goals : goal[g] # "running"
    /\ ~Overlap => \A g, h \in Goals :
          /\ goal[g] \in {"running", "settled"} /\ goal[h] \in {"running", "settled"}
          /\ goalAction[g] = goalAction[h]
          => g = h
    /\ CancelFindsTheGoal

-----------------------------------------------------------------------------
(* Types *)

USE DEF linkVars, subVars, pubVars, goalVars, LinkState, UserState, GoalState

LEMMA AdapterInit == Init => TypeInv /\ SubsInv /\ GoalsInv
<1> SUFFICES ASSUME Init PROVE TypeInv /\ SubsInv /\ GoalsInv
  OBVIOUS
<1> USE AdapterAssumption DEF Init
<1>1. TypeInv
  BY DEF TypeInv, TypeOK
<1>2. SubsInv
  BY DEF SubsInv, TableInv, ServerInv, LeaksOnlyReconnects, Listening
<1>3. GoalsInv
  BY DEF GoalsInv, CancelNamesItsGoal, CancelFindsTheGoal
<1> QED
  BY <1>1, <1>2, <1>3

\* remove() keeps the table well typed.
LEMMA RemoveTyped ==
    ASSUME TypeOK, NEW u \in Users, Remove(u)
    PROVE  table' \in [Topics -> Users \cup {Nothing}] /\ members' \in [Users -> SUBSET Users]
BY DEF TypeOK, Remove

LEMMA TypeStep == TypeInv /\ [Next]_vars => TypeInv'
<1> SUFFICES ASSUME TypeInv, [Next]_vars PROVE TypeInv'
  OBVIOUS
<1> USE AdapterAssumption DEF TypeInv, TypeOK
<1>1. CASE Connects
  BY <1>1 DEF Connects, Resubscribe
<1>2. CASE SocketDies \/ LossNoticed \/ DisconnectReturns
  <2>1. CASE SocketDies
    BY <2>1 DEF SocketDies, SessionLost
  <2>2. CASE LossNoticed
    <3>1. /\ link' = "off" /\ goal' \in [Goals -> GoalState]
          /\ UNCHANGED <<session, subVars, pubVars, goalAction, activeGoal, feedback, cancelled>>
      BY <2>2 DEF LossNoticed
    <3> QED
      BY <3>1
  <2>3. CASE DisconnectReturns
    BY <2>3 DEF DisconnectReturns
  <2> QED
    BY <1>2, <2>1, <2>2, <2>3
<1>3. CASE Disconnect
  <2>1. /\ link' \in {"closing", "closed"} /\ goal' \in [Goals -> GoalState]
        /\ activeGoal' \in [Actions -> Goals \cup {Nothing}]
        /\ server' \in [Topics -> SUBSET (Users \cup {Resub})]
        /\ heralded' = {} /\ advertised' = {}
    BY <1>3 DEF Disconnect, SessionLost
  <2>2. session = 0 => link' = "closed"
    BY <1>3 DEF Disconnect, Connected
  <2>3. UNCHANGED <<session, topic, state, table, members, held, blind, goalAction,
                    feedback, cancelled>>
    BY <1>3 DEF Disconnect
  <2> QED
    BY <2>1, <2>2, <2>3
<1>4. ASSUME NEW u \in Users, NEW t \in Topics, Listen(u, t) PROVE TypeInv'
  <2>1. SetOf(u, t) \in Users
    BY DEF SetOf
  <2> QED
    BY <1>4, <2>1 DEF Listen, SendSubscribe
<1>5. ASSUME NEW u \in Users, Unsubscribe(u) \/ OnceEnds(u) PROVE TypeInv'
  <2>1. /\ table' \in [Topics -> Users \cup {Nothing}] /\ members' \in [Users -> SUBSET Users]
    BY <1>5, RemoveTyped DEF Unsubscribe, OnceEnds
  <2>2. server' \in [Topics -> SUBSET (Users \cup {Resub})]
    BY <1>5 DEF Unsubscribe, OnceEnds, SendUnsubscribe
  <2>3. state' \in [Users -> UserState]
    BY <1>5 DEF Unsubscribe, OnceEnds
  <2>4. UNCHANGED <<linkVars, topic, held, pubVars, goalVars>>
    BY <1>5 DEF Unsubscribe, OnceEnds
  <2> QED
    BY <2>1, <2>2, <2>3, <2>4
<1>6. ASSUME NEW t \in Topics, Delivers(t) PROVE TypeInv'
  BY <1>6 DEF Delivers
<1>7. ASSUME NEW t \in Topics, Publish(t) PROVE TypeInv'
  <2>1. link = "up" => session \in 1 .. MaxSessions
    OBVIOUS
  <2>2. Announce(t) \subseteq Topics
    BY DEF Announce
  <2> QED
    BY <1>7, <2>1, <2>2 DEF Publish
<1>8. ASSUME NEW g \in Goals, GoalSettles(g) \/ GoalReturns(g) PROVE TypeInv'
  <2>1. CASE GoalSettles(g)
    BY <2>1 DEF GoalSettles
  <2>2. CASE GoalReturns(g)
    BY <2>2 DEF GoalReturns, ForgetGoal
  <2> QED
    BY <1>8, <2>1, <2>2
<1>9. ASSUME NEW g \in Goals, NEW a \in Actions, SendGoal(g, a) PROVE TypeInv'
  BY <1>9 DEF SendGoal
<1>10. ASSUME NEW a \in Actions, CancelAction(a) PROVE TypeInv'
  BY <1>10 DEF CancelAction
<1>11. CASE UNCHANGED vars
  BY <1>11 DEF vars
<1>12. CASE LinkStep
  BY <1>1, <1>2, <1>3, <1>12 DEF LinkStep
<1>13. CASE TopicStep
  BY <1>4, <1>5, <1>6, <1>7, <1>13 DEF TopicStep
<1>14. CASE GoalStep
  BY <1>8, <1>9, <1>10, <1>14 DEF GoalStep
<1> QED
  BY <1>11, <1>12, <1>13, <1>14 DEF Next

-----------------------------------------------------------------------------
(* Subscriptions *)

\* One more listener.
LEMMA ListenStep ==
    ASSUME TypeInv, SubsInv, NEW u \in Users, NEW t \in Topics, Listen(u, t)
    PROVE  SubsInv'
<1> USE AdapterAssumption DEF TypeInv, TypeOK
<1> DEFINE c == SetOf(u, t)
<1>1. /\ state' = [state EXCEPT ![u] = "listening"] /\ topic' = [topic EXCEPT ![u] = t]
      /\ table' = [table EXCEPT ![t] = c]
      /\ members' = [members EXCEPT ![c] = @ \cup {u}] /\ held' = [held EXCEPT ![u] = c]
      /\ state[u] = "idle" /\ Connected /\ UNCHANGED <<link, session>>
      /\ SendSubscribe(u, t)
  BY DEF Listen
<1>2. c \in Users /\ (table[t] = Nothing => c = u) /\ (table[t] # Nothing => c = table[t])
  BY DEF SetOf
<1>3. members[u] = {} /\ ~Listening(u) /\ \A s \in Topics : table[s] # u
  BY <1>1 DEF SubsInv, TableInv, Listening
<1>4. \A s \in Topics : s # t => table[s] # c
  BY <1>2, <1>3 DEF SubsInv, TableInv
<1>5. \A v \in Users : v # u => (Listening(v)' <=> Listening(v)) /\ topic'[v] = topic[v]
  BY <1>1 DEF Listening
<1>6. Listening(u)' /\ topic'[u] = t
  BY <1>1 DEF Listening
<1>7. ASSUME NEW v \in Users, Listening(v)'
      PROVE  /\ topic'[v] \in Topics /\ held'[v] \in Users
             /\ table'[topic'[v]] = held'[v] /\ v \in members'[held'[v]]
  <2>1. CASE v = u
    BY <1>1, <1>2, <2>1
  <2>2. CASE v # u
    <3>1. /\ topic[v] \in Topics /\ held[v] \in Users /\ table[topic[v]] = held[v]
          /\ v \in members[held[v]]
      BY <1>5, <1>7, <2>2 DEF SubsInv, TableInv
    <3>2. topic[v] = t => held[v] = c
      BY <1>2, <3>1
    <3> QED
      BY <1>1, <1>2, <2>2, <3>1, <3>2
  <2> QED
    BY <2>1, <2>2
<1>8. ASSUME NEW s \in Topics, table'[s] # Nothing
      PROVE  /\ members'[table'[s]] # {}
             /\ state'[table'[s]] # "idle" /\ topic'[table'[s]] = s
             /\ \A v \in members'[table'[s]] : Listening(v)' /\ topic'[v] = s
  <2>1. CASE s = t
    <3>1. table'[s] = c /\ members'[c] = members[c] \cup {u}
      BY <1>1, <1>2, <2>1
    <3>2. CASE table[t] = Nothing
      BY <1>1, <1>2, <1>3, <1>6, <2>1, <3>1, <3>2
    <3>3. CASE table[t] # Nothing
      <4>1. /\ state[c] # "idle" /\ topic[c] = t
            /\ \A v \in members[c] : Listening(v) /\ topic[v] = t
        BY <1>2, <3>3 DEF SubsInv, TableInv
      <4> QED
        BY <1>1, <1>2, <1>3, <1>5, <1>6, <2>1, <3>1, <4>1
    <3> QED
      BY <3>2, <3>3
  <2>2. CASE s # t
    <3>1. table'[s] = table[s] /\ table[s] # c /\ table[s] # u /\ table[s] \in Users
      BY <1>1, <1>3, <1>4, <1>8, <2>2
    <3>2. members'[table[s]] = members[table[s]]
      BY <1>1, <3>1
    <3>3. /\ members[table[s]] # {} /\ state[table[s]] # "idle" /\ topic[table[s]] = s
          /\ \A v \in members[table[s]] : Listening(v) /\ topic[v] = s
      BY <1>8, <3>1 DEF SubsInv, TableInv
    <3>4. u \notin members[table[s]]
      BY <1>3, <3>3
    <3> QED
      BY <1>1, <1>5, <3>1, <3>2, <3>3, <3>4
  <2> QED
    BY <2>1, <2>2
<1>9. ASSUME NEW v \in Users, state'[v] = "idle" PROVE members'[v] = {}
  <2>1. v # u /\ state[v] = "idle" /\ members[v] = {}
    BY <1>1, <1>9 DEF SubsInv, TableInv
  <2>2. v # c
    BY <1>2, <2>1 DEF SubsInv, TableInv
  <2> QED
    BY <1>1, <2>1, <2>2
<1>10. TableInv'
  BY <1>7, <1>8, <1>9 DEF TableInv
<1>11. session # 0
  BY <1>1 DEF Connected
<1>12. ServerInv' /\ LeaksOnlyReconnects'
  <2>1. CASE link # "up"
    BY <1>1, <1>11, <2>1 DEF SendSubscribe, SubsInv, ServerInv, LeaksOnlyReconnects
  <2>2. CASE link = "up"
    <3>1. server' = [server EXCEPT ![t] = @ \cup {u}]
      BY <1>1, <2>2 DEF SendSubscribe
    <3>2. ServerInv'
      BY <1>1, <1>5, <1>6, <1>11, <2>2, <3>1 DEF SubsInv, ServerInv
    <3>3. LeaksOnlyReconnects'
      BY <1>1, <1>3, <1>5, <1>6, <3>1 DEF SubsInv, LeaksOnlyReconnects
    <3> QED
      BY <3>2, <3>3
  <2> QED
    BY <2>1, <2>2
<1> QED
  BY <1>10, <1>12 DEF SubsInv

\* One listener less.
LEMMA StopStep ==
    ASSUME TypeInv, SubsInv, NEW u \in Users, Listening(u),
           state' = [state EXCEPT ![u] = "gone"], Remove(u), SendUnsubscribe(u),
           UNCHANGED <<linkVars, topic, held>>
    PROVE  SubsInv'
<1> USE AdapterAssumption DEF TypeInv, TypeOK
<1> DEFINE c == held[u]
           t == topic[u]
<1>1. t \in Topics /\ c \in Users /\ table[t] = c /\ u \in members[c]
  BY DEF SubsInv, TableInv
<1>2. /\ \A v \in members[c] : Listening(v) /\ topic[v] = t
      /\ state[c] # "idle" /\ topic[c] = t
  BY <1>1 DEF SubsInv, TableInv
<1>3. \A s \in Topics : s # t => table[s] # c
  BY <1>1, <1>2 DEF SubsInv, TableInv
<1>4. /\ ~Listening(u)' /\ \A v \in Users : v # u => (Listening(v)' <=> Listening(v))
      /\ \A v \in Users : state'[v] = "idle" <=> state[v] = "idle"
  BY DEF Listening
<1>5. /\ members' = [members EXCEPT ![c] = @ \ {u}]
      /\ table' = IF members[c] \ {u} = {} THEN [table EXCEPT ![t] = Nothing] ELSE table
  BY DEF Remove
<1>6. ASSUME NEW v \in Users, Listening(v)'
      PROVE  /\ topic'[v] \in Topics /\ held'[v] \in Users
             /\ table'[topic'[v]] = held'[v] /\ v \in members'[held'[v]]
  <2>1. /\ v # u /\ topic[v] \in Topics /\ held[v] \in Users
        /\ table[topic[v]] = held[v] /\ v \in members[held[v]]
    BY <1>4, <1>6 DEF SubsInv, TableInv
  <2>2. v \in members'[held[v]]
    BY <1>1, <1>5, <2>1
  <2>3. topic[v] = t => members[c] \ {u} # {}
    BY <1>1, <2>1
  <2>4. table'[topic[v]] = table[topic[v]]
    BY <1>1, <1>5, <2>1, <2>3
  <2> QED
    BY <2>1, <2>2, <2>4
<1>7. ASSUME NEW s \in Topics, table'[s] # Nothing
      PROVE  /\ members'[table'[s]] # {}
             /\ state'[table'[s]] # "idle" /\ topic'[table'[s]] = s
             /\ \A v \in members'[table'[s]] : Listening(v)' /\ topic'[v] = s
  <2>1. table'[s] = table[s] /\ table[s] \in Users
    BY <1>1, <1>5, <1>7
  <2>2. /\ members[table[s]] # {} /\ state[table[s]] # "idle" /\ topic[table[s]] = s
        /\ \A v \in members[table[s]] : Listening(v) /\ topic[v] = s
    BY <1>7, <2>1 DEF SubsInv, TableInv
  <2>3. CASE s = t
    <3>1. table[s] = c /\ members'[c] = members[c] \ {u} /\ members[c] \ {u} # {}
      BY <1>1, <1>5, <1>7, <2>3
    <3> QED
      BY <1>4, <2>1, <2>2, <3>1
  <2>4. CASE s # t
    <3>1. members'[table[s]] = members[table[s]] /\ u \notin members[table[s]]
      BY <1>3, <1>5, <2>1, <2>2, <2>4
    <3> QED
      BY <1>4, <2>1, <2>2, <3>1
  <2> QED
    BY <2>3, <2>4
<1>8. ASSUME NEW v \in Users, state'[v] = "idle" PROVE members'[v] = {}
  <2>1. members[v] = {} /\ v # c
    BY <1>2, <1>4, <1>8 DEF SubsInv, TableInv
  <2> QED
    BY <1>5, <2>1
<1>9. TableInv'
  BY <1>6, <1>7, <1>8 DEF TableInv
<1>10. session # 0
  BY DEF SubsInv, ServerInv, Listening
<1>11. ServerInv' /\ LeaksOnlyReconnects'
  <2>1. CASE link # "up"
    BY <1>10, <2>1 DEF SendUnsubscribe, SubsInv, ServerInv, LeaksOnlyReconnects
  <2>2. CASE link = "up"
    <3>1. server' = [server EXCEPT ![t] = @ \ {u}]
      BY <2>2 DEF SendUnsubscribe
    <3>2. ServerInv'
      BY <1>1, <1>4, <1>10, <2>2, <3>1 DEF SubsInv, ServerInv
    <3>3. LeaksOnlyReconnects'
      <4> SUFFICES ASSUME NEW s \in Topics, NEW id \in server'[s]
                   PROVE  \/ id = Resub /\ session > 1
                          \/ id \in Users /\ Listening(id)' /\ topic[id] = s
        BY DEF LeaksOnlyReconnects
      <4>1. id \in server[s] /\ (s = t => id # u)
        BY <1>1, <3>1
      <4>2. \/ id = Resub /\ session > 1
            \/ id \in Users /\ Listening(id) /\ topic[id] = s
        BY <4>1 DEF SubsInv, LeaksOnlyReconnects
      <4> QED
        BY <1>4, <4>1, <4>2
    <3> QED
      BY <3>2, <3>3
  <2> QED
    BY <2>1, <2>2
<1> QED
  BY <1>9, <1>11 DEF SubsInv

LEMMA SubsStep == ~Twice /\ TypeInv /\ SubsInv /\ [Next]_vars => SubsInv'
<1> SUFFICES ASSUME ~Twice, TypeInv, SubsInv, [Next]_vars PROVE SubsInv'
  OBVIOUS
<1> USE AdapterAssumption DEF TypeInv, TypeOK
<1> DEFINE Same == UNCHANGED <<topic, state, table, members, held>>
<1>s. ASSUME Same PROVE TableInv'
  BY <1>s DEF SubsInv, TableInv, Listening
<1>1. CASE Connects
  <2>1. /\ Same /\ session' = session + 1 /\ link' = "up" /\ link = "off"
        /\ \A u \in Users : Listening(u)' <=> Listening(u)
    BY <1>1 DEF Connects, Listening
  <2>2. CASE session = 0
    <3>1. UNCHANGED server /\ \A u \in Users : ~Listening(u)
      BY <1>1, <2>2 DEF Connects, SubsInv, ServerInv, Listening
    <3> QED
      BY <1>s, <2>1, <2>2, <3>1 DEF SubsInv, ServerInv, LeaksOnlyReconnects
  <2>3. CASE session # 0
    <3>1. server' = [t \in Topics |-> IF table[t] = Nothing THEN {} ELSE {Resub}]
      BY <1>1, <2>3 DEF Connects, Resubscribe
    <3>2. \A u \in Users : Listening(u) => topic[u] \in Topics /\ table[topic[u]] # Nothing
      BY DEF SubsInv, TableInv
    <3>3. ServerInv'
      BY <2>1, <3>1, <3>2 DEF ServerInv
    <3>4. LeaksOnlyReconnects'
      BY <2>1, <2>3, <3>1 DEF LeaksOnlyReconnects
    <3> QED
      BY <1>s, <2>1, <3>3, <3>4 DEF SubsInv
  <2> QED
    BY <2>2, <2>3
<1>2. CASE SocketDies \/ Disconnect
  <2>1. /\ Same /\ UNCHANGED session /\ link' # "up" /\ server' = [t \in Topics |-> {}]
    BY <1>2 DEF SocketDies, Disconnect, SessionLost
  <2> QED
    BY <1>s, <2>1 DEF SubsInv, ServerInv, LeaksOnlyReconnects
<1>3. CASE LossNoticed \/ DisconnectReturns
  <2>1. Same /\ UNCHANGED <<session, server>> /\ link' # "up" /\ link # "up"
    BY <1>3 DEF LossNoticed, DisconnectReturns
  <2> QED
    BY <1>s, <2>1 DEF SubsInv, ServerInv, LeaksOnlyReconnects
<1>4. ASSUME NEW u \in Users, Unsubscribe(u) \/ OnceEnds(u) PROVE SubsInv'
  <2>1. /\ Listening(u) /\ state' = [state EXCEPT ![u] = "gone"] /\ Remove(u)
        /\ SendUnsubscribe(u) /\ UNCHANGED <<linkVars, topic, held>>
    BY <1>4 DEF Unsubscribe, OnceEnds, Listening
  <2> QED
    BY <2>1, StopStep
<1>5. ASSUME NEW t \in Topics, Delivers(t) PROVE SubsInv'
  <2>1. UNCHANGED <<link, session, topic, table, members, held, server>>
    BY <1>5 DEF Delivers
  <2>2. \A u \in Users : \/ state'[u] = state[u]
                         \/ state[u] = "listening" /\ state'[u] = "answered"
    BY <1>5 DEF Delivers
  <2>3. \A u \in Users : (Listening(u)' <=> Listening(u)) /\ (state'[u] = "idle" <=> state[u] = "idle")
    BY <2>2 DEF Listening
  <2>4. TableInv'
    <3>1. \A s \in Topics : table[s] # Nothing =>
             table[s] \in Users /\ members[table[s]] \subseteq Users
      OBVIOUS
    <3>2. \A u \in Users : Listening(u)' =>
             /\ topic[u] \in Topics /\ held[u] \in Users
             /\ table[topic[u]] = held[u] /\ u \in members[held[u]]
      BY <2>3 DEF SubsInv, TableInv
    <3>3. \A s \in Topics : table[s] # Nothing =>
             /\ members[table[s]] # {}
             /\ state'[table[s]] # "idle" /\ topic[table[s]] = s
             /\ \A u \in members[table[s]] : Listening(u)' /\ topic[u] = s
      BY <2>3, <3>1 DEF SubsInv, TableInv
    <3>4. \A u \in Users : state'[u] = "idle" => members[u] = {}
      BY <2>3 DEF SubsInv, TableInv
    <3> QED
      BY <2>1, <3>2, <3>3, <3>4 DEF TableInv
  <2>5. ServerInv'
    BY <2>1, <2>3 DEF SubsInv, ServerInv
  <2>6. LeaksOnlyReconnects'
    BY <2>1, <2>3 DEF SubsInv, LeaksOnlyReconnects
  <2> QED
    BY <2>4, <2>5, <2>6 DEF SubsInv
<1>6. CASE UNCHANGED <<linkVars, subVars>>
  BY <1>6, <1>s DEF SubsInv, ServerInv, LeaksOnlyReconnects, Listening
<1>7. CASE GoalStep \/ (\E t \in Topics : Publish(t)) \/ UNCHANGED vars
  <2>1. UNCHANGED <<linkVars, subVars>>
    BY <1>7 DEF GoalStep, GoalSettles, GoalReturns, SendGoal, CancelAction, Publish, vars
  <2> QED
    BY <1>6, <2>1
<1>8. CASE TopicStep
  BY <1>4, <1>5, <1>7, <1>8, ListenStep DEF TopicStep
<1>9. CASE LinkStep
  BY <1>1, <1>2, <1>3, <1>9 DEF LinkStep
<1> QED
  BY <1>7, <1>8, <1>9 DEF Next

-----------------------------------------------------------------------------
(* Goals *)

LEMMA GoalsStep == TypeInv /\ GoalsInv /\ [Next]_vars => GoalsInv'
<1> SUFFICES ASSUME TypeInv, GoalsInv, [Next]_vars PROVE GoalsInv'
  OBVIOUS
<1> USE AdapterAssumption DEF TypeInv, TypeOK, GoalsInv, CancelNamesItsGoal, CancelFindsTheGoal
<1>1. CASE Connects \/ SocketDies \/ DisconnectReturns
  <2>1. CASE Connects
    BY <2>1 DEF Connects
  <2>2. CASE SocketDies
    BY <2>2 DEF SocketDies
  <2>3. CASE DisconnectReturns
    BY <2>3 DEF DisconnectReturns
  <2> QED
    BY <1>1, <2>1, <2>2, <2>3
<1>2. CASE LossNoticed
  BY <1>2 DEF LossNoticed
<1>3. CASE Disconnect
  BY <1>3 DEF Disconnect, Connected
<1>4. ASSUME NEW g \in Goals, GoalSettles(g) PROVE GoalsInv'
  BY <1>4 DEF GoalSettles
<1>5. ASSUME NEW g \in Goals, GoalReturns(g) PROVE GoalsInv'
  BY <1>5 DEF GoalReturns, ForgetGoal
<1>6. ASSUME NEW g \in Goals, NEW a \in Actions, SendGoal(g, a) PROVE GoalsInv'
  BY <1>6 DEF SendGoal, Connected
<1>7. ASSUME NEW a \in Actions, CancelAction(a) PROVE GoalsInv'
  BY <1>7 DEF CancelAction, Connected
<1>8. CASE TopicStep \/ UNCHANGED vars
  <2>1. UNCHANGED <<linkVars, goalVars>>
    BY <1>8 DEF TopicStep, OnceEnds, Unsubscribe, Listen, Delivers, Publish, vars
  <2> QED
    BY <2>1
<1>9. CASE GoalStep
  BY <1>4, <1>5, <1>6, <1>7, <1>9 DEF GoalStep
<1>10. CASE LinkStep
  BY <1>1, <1>2, <1>3, <1>10 DEF LinkStep
<1> QED
  BY <1>8, <1>9, <1>10 DEF Next

-----------------------------------------------------------------------------
(* Advertised topics *)

\* What the transport believes to have advertised, the server of the first
\* session knows.
HeraldInv ==
    /\ session = 0 => link \in {"off", "closed"} /\ advertised = {}
    /\ session = 1 /\ link = "up" => advertised \subseteq heralded
    /\ 1 \notin blind

LEMMA HeraldStep == TypeInv /\ HeraldInv /\ [Next]_vars => HeraldInv'
<1> SUFFICES ASSUME TypeInv, HeraldInv, [Next]_vars PROVE HeraldInv'
  OBVIOUS
<1> USE AdapterAssumption DEF TypeInv, TypeOK, HeraldInv
<1>1. ASSUME NEW t \in Topics, Publish(t) PROVE HeraldInv'
  <2>1. session # 0
    BY <1>1 DEF Publish, Connected
  <2>2. link = "up" /\ t \notin Announce(t) => session # 1
    BY DEF Announce
  <2>3. session = 1 /\ link = "up" => advertised' \subseteq heralded'
    BY <1>1 DEF Publish, Announce
  <2> QED
    BY <1>1, <2>1, <2>2, <2>3 DEF Publish, linkVars
<1>2. CASE LinkStep
  BY <1>2 DEF LinkStep, Connects, SocketDies, LossNoticed, Disconnect, DisconnectReturns,
              Connected, SessionLost, pubVars
<1>3. CASE GoalStep \/ UNCHANGED vars
  BY <1>3 DEF GoalStep, GoalSettles, GoalReturns, SendGoal, CancelAction, vars, linkVars, pubVars
<1>4. ASSUME TopicStep, \A t \in Topics : ~Publish(t) PROVE HeraldInv'
  BY <1>4 DEF TopicStep, OnceEnds, Unsubscribe, Listen, Delivers, linkVars, pubVars
<1>5. TopicStep => HeraldInv'
  BY <1>1, <1>4
<1> QED
  BY <1>2, <1>3, <1>5 DEF Next

-----------------------------------------------------------------------------
(* Theorems *)

LEMMA TypeAlways == Spec => []TypeInv
<1>1. Init => TypeInv
  BY AdapterInit
<1>2. TypeInv /\ [Next]_vars => TypeInv'
  BY TypeStep
<1> QED
  BY <1>1, <1>2, PTL DEF Spec

\* What the transport and the server remember keeps its type.
THEOREM AdapterTypeCorrect == Spec => []TypeOK
<1>1. TypeInv => TypeOK
  BY DEF TypeInv
<1> QED
  BY <1>1, TypeAlways, PTL

LEMMA SubsAlways == ASSUME ~Twice PROVE Spec => [](TypeInv /\ SubsInv)
<1>1. Init => SubsInv
  BY AdapterInit
<1>2. TypeInv /\ SubsInv /\ [Next]_vars => SubsInv'
  BY SubsStep
<1> QED
  BY <1>1, <1>2, TypeAlways, PTL DEF Spec

\* Whoever subscribed and has not unsubscribed is in the handler table, and the
\* server sends the topic while the connection is up, after any number of
\* reconnects, as long as no handle is unsubscribed twice.
THEOREM ListenersAreServed == ASSUME ~Twice PROVE Spec => []EveryListenerIsServed
<1>1. TypeInv /\ SubsInv => EveryListenerIsServed
  <2> SUFFICES ASSUME TypeInv, SubsInv, NEW u \in Users, Listening(u)
               PROVE  /\ table[topic[u]] # Nothing /\ u \in members[table[topic[u]]]
                      /\ link = "up" => server[topic[u]] # {}
    BY DEF EveryListenerIsServed
  <2>1. /\ held[u] \in Users /\ table[topic[u]] = held[u] /\ u \in members[held[u]]
    BY DEF SubsInv, TableInv
  <2>2. link = "up" => server[topic[u]] # {}
    BY DEF SubsInv, ServerInv
  <2> QED
    BY <2>1, <2>2, AdapterAssumption
<1> QED
  BY <1>1, SubsAlways, PTL

\* The handler table names only topics somebody listens to.
THEOREM TableStaysTidy == ASSUME ~Twice PROVE Spec => []TableIsTidy
<1>1. TypeInv /\ SubsInv => TableIsTidy
  BY AdapterAssumption DEF TypeInv, TypeOK, SubsInv, TableInv, TableIsTidy
<1> QED
  BY <1>1, SubsAlways, PTL

\* What the server sends to nobody is what a reconnect subscribed.
THEOREM OnlyReconnectsLeak == ASSUME ~Twice PROVE Spec => []LeaksOnlyReconnects
<1>1. SubsInv => LeaksOnlyReconnects
  BY DEF SubsInv
<1> QED
  BY <1>1, SubsAlways, PTL

LEMMA GoalsAlways == Spec => []GoalsInv
<1>1. Init => GoalsInv
  BY AdapterInit
<1>2. TypeInv /\ GoalsInv /\ [Next]_vars => GoalsInv'
  BY GoalsStep
<1> QED
  BY <1>1, <1>2, TypeAlways, PTL DEF Spec

\* cancel_action() never names a goal that has returned or that belongs to
\* another action, even with several goals of one action in progress.
THEOREM CancelIsNotStale == Spec => []CancelNamesItsGoal
<1>1. GoalsInv => CancelNamesItsGoal
  BY DEF GoalsInv
<1> QED
  BY <1>1, GoalsAlways, PTL

\* With one goal of an action at a time, cancel_action() finds the goal.
THEOREM CancelReaches == Spec => []CancelFindsTheGoal
<1>1. GoalsInv => CancelFindsTheGoal
  BY DEF GoalsInv
<1> QED
  BY <1>1, GoalsAlways, PTL

\* In the first session a topic is advertised before anything is published on
\* it; a reconnect does not clear the set publish() looks at.
THEOREM FirstSessionAdvertises == Spec => []AdvertisedFirst
<1>1. Init => HeraldInv
  BY DEF Init, HeraldInv
<1>2. TypeInv /\ HeraldInv /\ [Next]_vars => HeraldInv'
  BY HeraldStep
<1>3. HeraldInv => AdvertisedFirst
  BY DEF HeraldInv, AdvertisedFirst
<1> QED
  BY <1>1, <1>2, <1>3, TypeAlways, PTL DEF Spec
=============================================================================
