--------------------------- MODULE DirectDdsProofs ---------------------------
(***************************************************************************)
(* Theorems about DirectDds, for any number of calls, subscriptions and    *)
(* nodes.                                                                  *)
(***************************************************************************)
EXTENDS DirectDds, TLAPS

USE DEF conn, spin, calls, goals, subs

-----------------------------------------------------------------------------
(* Types *)

USE DEF Nodes, None, Kinds, PcState, Stages

LEMMA TypeInit == Init => TypeOK
<1> SUFFICES ASSUME Init PROVE TypeOK
  OBVIOUS
<1> USE DdsAssumption DEF Init
<1>1. ConnType
  <2>1. cached \subseteq {"publisher", "client"} \X (Nodes \cup {None})
    OBVIOUS
  <2>2. node \in Nodes \cup {None} /\ made \in 0 .. MaxNodes /\ alive \subseteq Nodes
    OBVIOUS
  <2> QED BY <2>1, <2>2, Zenon DEF ConnType
<1>2. SpinType
  BY DEF SpinType
<1>3. ReadyType
  BY DEF ReadyType
<1>4. CallsType
  BY DEF CallsType
<1>5. GoalsType
  BY DEF GoalsType
<1>6. SubsType
  BY DEF SubsType
<1> QED BY <1>1, <1>2, <1>3, <1>4, <1>5, <1>6, Zenon DEF TypeOK

LEMMA TypeStep == TypeOK /\ [Next]_vars => TypeOK'
<1> SUFFICES ASSUME ConnType, SpinType, ReadyType, CallsType, GoalsType, SubsType, [Next]_vars
             PROVE  ConnType' /\ SpinType' /\ ReadyType' /\ CallsType' /\ GoalsType' /\ SubsType'
  BY Zenon DEF TypeOK
<1> USE DdsAssumption
<1>1. CASE Connect
  <2>1. ConnType'
    <3>1. cached' \subseteq {"publisher", "client"} \X (Nodes \cup {None})
      BY <1>1 DEF ConnType, Connect
    <3>2. node' \in Nodes \cup {None} /\ made' \in 0 .. MaxNodes /\ alive' \subseteq Nodes
      BY <1>1 DEF ConnType, Connect
    <3>3. connected' \in BOOLEAN /\ slow' \in Slow /\ focus' \in Focus
      BY <1>1 DEF ConnType, Connect
    <3> QED BY <3>1, <3>2, <3>3, Zenon DEF ConnType
  <2>2. SpinType'
    BY <1>1 DEF SpinType, Connect
  <2>3. ReadyType'
    BY <1>1 DEF ReadyType, Connect
  <2>4. CallsType'
    BY <1>1 DEF CallsType, Connect
  <2>5. GoalsType'
    BY <1>1 DEF GoalsType, Connect
  <2>6. SubsType'
    BY <1>1 DEF SubsType, Connect
  <2> QED BY <2>1, <2>2, <2>3, <2>4, <2>5, <2>6
<1>2. CASE DisconnectBegins
  <2>1. ConnType'
    BY <1>2 DEF ConnType, DisconnectBegins, CancelGoals
  <2>2. SpinType'
    BY <1>2 DEF SpinType, DisconnectBegins, CancelGoals
  <2>3. ReadyType'
    BY <1>2 DEF ReadyType, DisconnectBegins, CancelGoals
  <2>4. CallsType'
    BY <1>2 DEF CallsType, DisconnectBegins, CancelGoals
  <2>5. GoalsType'
    BY <1>2 DEF GoalsType, DisconnectBegins, CancelGoals
  <2>6. SubsType'
    BY <1>2 DEF SubsType, DisconnectBegins, CancelGoals
  <2> QED BY <2>1, <2>2, <2>3, <2>4, <2>5, <2>6
<1>3. CASE DisconnectEnds
  <2>1. ConnType'
    BY <1>3 DEF ConnType, DisconnectEnds, DestroyAll
  <2>2. SpinType'
    BY <1>3 DEF SpinType, DisconnectEnds, DestroyAll
  <2>3. ReadyType'
    BY <1>3 DEF ReadyType, DisconnectEnds, DestroyAll
  <2>4. CallsType'
    BY <1>3 DEF CallsType, DisconnectEnds, DestroyAll
  <2>5. GoalsType'
    BY <1>3 DEF GoalsType, DisconnectEnds, DestroyAll
  <2>6. SubsType'
    BY <1>3 DEF SubsType, DisconnectEnds, DestroyAll
  <2> QED BY <2>1, <2>2, <2>3, <2>4, <2>5, <2>6
<1>4. CASE LoopRuns
  <2>1. ConnType'
    BY <1>4 DEF ConnType, LoopRuns
  <2>2. SpinType'
    BY <1>4 DEF SpinType, LoopRuns
  <2>3. ReadyType'
    BY <1>4 DEF ReadyType, LoopRuns
  <2>4. CallsType'
    <3>1. Head(ready) \in Calls \X Stages \X (1 .. MaxHeard)
      BY <1>4 DEF ReadyType, LoopRuns
    <3> HIDE DEF Stages
    <3>2. Head(ready)[3] \in 0 .. MaxHeard
      BY <3>1
    <3>3. fut' \in [Calls -> {"none", "pending", "set"}] /\ got' \in [Calls -> 0 .. MaxHeard]
      BY <1>4, <3>2 DEF CallsType, LoopRuns
    <3> QED BY <1>4, <3>3 DEF CallsType, LoopRuns
  <2>5. GoalsType'
    BY <1>4 DEF GoalsType, LoopRuns
  <2>6. SubsType'
    BY <1>4 DEF SubsType, LoopRuns
  <2> QED BY <2>1, <2>2, <2>3, <2>4, <2>5, <2>6
<1>5. CASE CancelAction
  <2>1. ConnType'
    BY <1>5 DEF ConnType, CancelAction, CancelGoals
  <2>2. SpinType'
    BY <1>5 DEF SpinType, CancelAction, CancelGoals
  <2>3. ReadyType'
    BY <1>5 DEF ReadyType, CancelAction, CancelGoals
  <2>4. CallsType'
    BY <1>5 DEF CallsType, CancelAction, CancelGoals
  <2>5. GoalsType'
    BY <1>5 DEF GoalsType, CancelAction, CancelGoals
  <2>6. SubsType'
    BY <1>5 DEF SubsType, CancelAction, CancelGoals
  <2> QED BY <2>1, <2>2, <2>3, <2>4, <2>5, <2>6
<1>6. CASE Publish
  <2>1. ConnType'
    <3>1. cached' \subseteq {"publisher", "client"} \X (Nodes \cup {None})
      BY <1>6 DEF ConnType, Publish
    <3> QED BY <1>6, <3>1 DEF ConnType, Publish
  <2>2. SpinType'
    BY <1>6 DEF SpinType, Publish
  <2>3. ReadyType'
    BY <1>6 DEF ReadyType, Publish
  <2>4. CallsType'
    BY <1>6 DEF CallsType, Publish
  <2>5. GoalsType'
    BY <1>6 DEF GoalsType, Publish
  <2>6. SubsType'
    BY <1>6 DEF SubsType, Publish
  <2> QED BY <2>1, <2>2, <2>3, <2>4, <2>5, <2>6
<1>7. ASSUME NEW n \in Nodes, Thread(n)
       PROVE  ConnType' /\ SpinType' /\ ReadyType' /\ CallsType' /\ GoalsType' /\ SubsType'
  <2>1. ConnType'
    BY <1>7 DEF ConnType, Thread, ThreadEnds, CallbackBlocks, CallbackReturns, ThreadCrashes
  <2>2. SpinType'
    BY <1>7 DEF SpinType, Thread, ThreadEnds, CallbackBlocks, CallbackReturns, ThreadCrashes
  <2>3. ReadyType'
    BY <1>7 DEF ReadyType, Thread, ThreadEnds, CallbackBlocks, CallbackReturns, ThreadCrashes
  <2>4. CallsType'
    BY <1>7 DEF CallsType, Thread, ThreadEnds, CallbackBlocks, CallbackReturns, ThreadCrashes
  <2>5. GoalsType'
    BY <1>7 DEF GoalsType, Thread, ThreadEnds, CallbackBlocks, CallbackReturns, ThreadCrashes
  <2>6. SubsType'
    BY <1>7 DEF SubsType, Thread, ThreadEnds, CallbackBlocks, CallbackReturns, ThreadCrashes
  <2> QED BY <2>1, <2>2, <2>3, <2>4, <2>5, <2>6
<1>8. ASSUME NEW c \in Calls, NEW k \in Kinds, Begin(c, k)
       PROVE  ConnType' /\ SpinType' /\ ReadyType' /\ CallsType' /\ GoalsType' /\ SubsType'
  <2>1. ConnType'
    <3>1. cached' \subseteq {"publisher", "client"} \X (Nodes \cup {None})
      BY <1>8 DEF ConnType, Begin
    <3> QED BY <1>8, <3>1 DEF ConnType, Begin
  <2>2. SpinType'
    BY <1>8 DEF SpinType, Begin
  <2>3. ReadyType'
    BY <1>8 DEF ReadyType, Begin
  <2>4. CallsType'
    <3>1. /\ kind' \in [Calls -> Kinds \cup {"none"}] /\ on' \in [Calls -> Nodes \cup {None}]
          /\ owns' \subseteq Calls
      BY <1>8 DEF CallsType, ConnType, Begin
    <3>2. pc' \in [Calls -> PcState] /\ fut' \in [Calls -> {"none", "pending", "set"}]
      BY <1>8 DEF CallsType, Begin
    <3> QED BY <1>8, <3>1, <3>2 DEF CallsType, Begin
  <2>5. GoalsType'
    BY <1>8 DEF GoalsType, Begin
  <2>6. SubsType'
    BY <1>8 DEF SubsType, Begin
  <2> QED BY <2>1, <2>2, <2>3, <2>4, <2>5, <2>6
<1>9. ASSUME NEW c \in Calls, Found(c)
       PROVE  ConnType' /\ SpinType' /\ ReadyType' /\ CallsType' /\ GoalsType' /\ SubsType'
  <2>1. ConnType'
    BY <1>9 DEF ConnType, Found, Ends, PopGoal
  <2>2. SpinType'
    BY <1>9 DEF SpinType, Found, Ends, PopGoal
  <2>3. ReadyType'
    BY <1>9 DEF ReadyType, Found, Ends, PopGoal
  <2>4. CallsType'
    BY <1>9 DEF CallsType, Found, Ends, PopGoal
  <2>5. GoalsType'
    BY <1>9 DEF GoalsType, Found, Ends, PopGoal
  <2>6. SubsType'
    BY <1>9 DEF SubsType, Found, Ends, PopGoal
  <2> QED BY <2>1, <2>2, <2>3, <2>4, <2>5, <2>6
<1>10. ASSUME NEW c \in Calls, Expire(c)
       PROVE  ConnType' /\ SpinType' /\ ReadyType' /\ CallsType' /\ GoalsType' /\ SubsType'
  <2>1. ConnType'
    BY <1>10 DEF ConnType, Expire, Ends, PopGoal
  <2>2. SpinType'
    BY <1>10 DEF SpinType, Expire, Ends, PopGoal
  <2>3. ReadyType'
    BY <1>10 DEF ReadyType, Expire, Ends, PopGoal
  <2>4. CallsType'
    BY <1>10 DEF CallsType, Expire, Ends, PopGoal
  <2>5. GoalsType'
    BY <1>10 DEF GoalsType, Expire, Ends, PopGoal
  <2>6. SubsType'
    BY <1>10 DEF SubsType, Expire, Ends, PopGoal
  <2> QED BY <2>1, <2>2, <2>3, <2>4, <2>5, <2>6
<1>11. ASSUME NEW c \in Calls, Accepted(c)
       PROVE  ConnType' /\ SpinType' /\ ReadyType' /\ CallsType' /\ GoalsType' /\ SubsType'
  <2>1. ConnType'
    BY <1>11 DEF ConnType, Accepted, Ends, PopGoal
  <2>2. SpinType'
    BY <1>11 DEF SpinType, Accepted, Ends, PopGoal
  <2>3. ReadyType'
    BY <1>11 DEF ReadyType, Accepted, Ends, PopGoal
  <2>4. CallsType'
    <3>1. CASE Ends(c, "failed") \/ Ends(c, "aborted")
      BY <1>11, <3>1 DEF CallsType, Accepted, Ends
    <3>2. CASE /\ pc' = [pc EXCEPT ![c] = "waiting"] /\ fut' = [fut EXCEPT ![c] = "pending"]
               /\ heard' = [heard EXCEPT ![c] = 0] /\ UNCHANGED <<kind, on, outcome, owns>>
      BY <1>11, <3>2 DEF CallsType, Accepted
    <3> QED BY <1>11, <3>1, <3>2 DEF Accepted
  <2>5. GoalsType'
    BY <1>11 DEF GoalsType, Accepted, Ends, PopGoal
  <2>6. SubsType'
    BY <1>11 DEF SubsType, Accepted, Ends, PopGoal
  <2> QED BY <2>1, <2>2, <2>3, <2>4, <2>5, <2>6
<1>12. ASSUME NEW c \in Calls, Answered(c)
       PROVE  ConnType' /\ SpinType' /\ ReadyType' /\ CallsType' /\ GoalsType' /\ SubsType'
  <2>1. ConnType'
    BY <1>12 DEF ConnType, Answered, Ends, PopGoal
  <2>2. SpinType'
    BY <1>12 DEF SpinType, Answered, Ends, PopGoal
  <2>3. ReadyType'
    BY <1>12 DEF ReadyType, Answered, Ends, PopGoal
  <2>4. CallsType'
    BY <1>12 DEF CallsType, Answered, Ends, PopGoal
  <2>5. GoalsType'
    BY <1>12 DEF GoalsType, Answered, Ends, PopGoal
  <2>6. SubsType'
    BY <1>12 DEF SubsType, Answered, Ends, PopGoal
  <2> QED BY <2>1, <2>2, <2>3, <2>4, <2>5, <2>6
<1>13. ASSUME NEW c \in Calls, OnMessage(c)
       PROVE  ConnType' /\ SpinType' /\ ReadyType' /\ CallsType' /\ GoalsType' /\ SubsType'
  <2>1. ConnType'
    BY <1>13 DEF ConnType, OnMessage
  <2>2. SpinType'
    BY <1>13 DEF SpinType, OnMessage
  <2>3. ReadyType'
    <3>1. <<c, "waiting", heard[c] + 1>> \in Calls \X Stages \X (1 .. MaxHeard)
      BY <1>13 DEF CallsType, OnMessage
    <3> HIDE DEF Stages
    <3> QED BY <1>13, <3>1 DEF ReadyType, OnMessage
  <2>4. CallsType'
    BY <1>13 DEF CallsType, OnMessage
  <2>5. GoalsType'
    BY <1>13 DEF GoalsType, OnMessage
  <2>6. SubsType'
    BY <1>13 DEF SubsType, OnMessage
  <2> QED BY <2>1, <2>2, <2>3, <2>4, <2>5, <2>6
<1>14. ASSUME NEW c \in Calls, OnDone(c)
       PROVE  ConnType' /\ SpinType' /\ ReadyType' /\ CallsType' /\ GoalsType' /\ SubsType'
  <2>1. ConnType'
    BY <1>14 DEF ConnType, OnDone
  <2>2. SpinType'
    BY <1>14 DEF SpinType, OnDone
  <2>3. ReadyType'
    BY <1>14 DEF ReadyType, OnDone
  <2>4. CallsType'
    BY <1>14 DEF CallsType, OnDone
  <2>5. GoalsType'
    BY <1>14 DEF GoalsType, OnDone
  <2>6. SubsType'
    BY <1>14 DEF SubsType, OnDone
  <2> QED BY <2>1, <2>2, <2>3, <2>4, <2>5, <2>6
<1>15. ASSUME NEW c \in Calls, RobotDecides(c)
       PROVE  ConnType' /\ SpinType' /\ ReadyType' /\ CallsType' /\ GoalsType' /\ SubsType'
  <2>1. ConnType'
    BY <1>15 DEF ConnType, RobotDecides
  <2>2. SpinType'
    BY <1>15 DEF SpinType, RobotDecides
  <2>3. ReadyType'
    BY <1>15 DEF ReadyType, RobotDecides
  <2>4. CallsType'
    BY <1>15 DEF CallsType, RobotDecides
  <2>5. GoalsType'
    BY <1>15 DEF GoalsType, RobotDecides
  <2>6. SubsType'
    BY <1>15 DEF SubsType, RobotDecides
  <2> QED BY <2>1, <2>2, <2>3, <2>4, <2>5, <2>6
<1>16. ASSUME NEW h \in Handles, Subscribe(h) \/ Unsubscribe(h)
       PROVE  ConnType' /\ SpinType' /\ ReadyType' /\ CallsType' /\ GoalsType' /\ SubsType'
  <2>1. ConnType'
    BY <1>16 DEF ConnType, Subscribe, Unsubscribe
  <2>2. SpinType'
    BY <1>16 DEF SpinType, Subscribe, Unsubscribe
  <2>3. ReadyType'
    BY <1>16 DEF ReadyType, Subscribe, Unsubscribe
  <2>4. CallsType'
    BY <1>16 DEF CallsType, Subscribe, Unsubscribe
  <2>5. GoalsType'
    BY <1>16 DEF GoalsType, Subscribe, Unsubscribe
  <2>6. SubsType'
    BY <1>16 DEF SubsType, Subscribe, Unsubscribe
  <2> QED BY <2>1, <2>2, <2>3, <2>4, <2>5, <2>6
<1>18. ASSUME NEW c \in Calls, CallerGivesUp(c)
       PROVE  ConnType' /\ SpinType' /\ ReadyType' /\ CallsType' /\ GoalsType' /\ SubsType'
  <2>1. ConnType'
    BY <1>18 DEF ConnType, CallerGivesUp
  <2>2. SpinType'
    BY <1>18 DEF SpinType, CallerGivesUp
  <2>3. ReadyType'
    BY <1>18 DEF ReadyType, CallerGivesUp
  <2>4. CallsType'
    BY <1>18 DEF CallsType, CallerGivesUp, Ends
  <2>5. GoalsType'
    BY <1>18 DEF GoalsType, CallerGivesUp
  <2>6. SubsType'
    BY <1>18 DEF SubsType, CallerGivesUp
  <2> QED BY <2>1, <2>2, <2>3, <2>4, <2>5, <2>6
<1>17. CASE UNCHANGED vars
  <2>1. ConnType'
    BY <1>17 DEF ConnType, vars
  <2>2. SpinType'
    BY <1>17 DEF SpinType, vars
  <2>3. ReadyType'
    BY <1>17 DEF ReadyType, vars
  <2>4. CallsType'
    BY <1>17 DEF CallsType, vars
  <2>5. GoalsType'
    BY <1>17 DEF GoalsType, vars
  <2>6. SubsType'
    BY <1>17 DEF SubsType, vars
  <2> QED BY <2>1, <2>2, <2>3, <2>4, <2>5, <2>6
<1> QED
  BY <1>1, <1>2, <1>3, <1>4, <1>5, <1>6, <1>7, <1>8, <1>9, <1>10, <1>11, <1>12, <1>13, <1>14, <1>15, <1>16, <1>17, <1>18
     DEF Next, Coroutine

\* The variables keep their types, for any calls, nodes and bounds.
THEOREM DdsTypeCorrect == Spec => []TypeOK
BY TypeInit, TypeStep, PTL DEF Spec

-----------------------------------------------------------------------------
(* Nodes and their threads *)

\* A node that is not the transport's was never spun; a thread that lives on
\* was held by a callback; a call's node is alive while the transport stays
\* connected, and never again.
NodeInv ==
    /\ alive \subseteq 1 .. made /\ node \in 0 .. made
    /\ connected => node \in alive /\ thread[node] # "none"
    /\ ~connected /\ node # None => thread[node] = "none"
    /\ joining => connected
    /\ \A n \in Nodes : n > made => thread[n] = "none"
    /\ \A n \in alive : n # node => thread[n] = "none"
    /\ \A n \in Nodes : thread[n] = "busy" => slow
    /\ \A n \in Nodes : thread[n] = "running" /\ n # node => slow
    /\ \A e \in cached : e[2] = node /\ node \in alive
    /\ \A c \in Calls : on[c] \in 0 .. made /\ (on[c] \in alive => connected /\ on[c] = node)

LEMMA NodeInit == Init => NodeInv
BY DdsAssumption DEF Init, NodeInv

LEMMA NodeStep == TypeOK /\ NodeInv /\ [Next]_vars => NodeInv'
<1> SUFFICES ASSUME ConnType, SpinType, CallsType, NodeInv, [Next]_vars PROVE NodeInv'
  BY Zenon DEF TypeOK
<1> USE DdsAssumption DEF NodeInv, ConnType, SpinType
<1>1. CASE Connect
  <2>1. /\ ~connected /\ ~joining /\ made' = made + 1 /\ node' = made + 1
        /\ alive' = alive \cup {made + 1} /\ cached' = {} /\ UNCHANGED <<joining, slow, on>>
        /\ \/ connected' = TRUE /\ thread' = [thread EXCEPT ![made + 1] = "running"]
           \/ UNCHANGED <<connected, thread>>
    BY <1>1 DEF Connect
  <2>2. made \in Nat /\ made + 1 \in Nodes /\ made + 1 \notin alive
    BY <1>1 DEF Connect
  <2>3. /\ \A n \in Nodes : n # made + 1 => thread'[n] = thread[n]
        /\ thread'[made + 1] = IF connected' THEN "running" ELSE "none"
    BY <2>1, <2>2
  <2>4. \A n \in alive : thread[n] = "none" \/ n = node
    OBVIOUS
  <2>5. thread[node] = "none" \/ node = None
    BY <2>1
  <2>6. \A n \in alive : thread[n] = "none"
    BY <2>4, <2>5
  <2>7. \A c \in Calls : on[c] \in 0 .. made /\ on[c] \notin alive
    BY <2>1
  <2>8. /\ alive' \subseteq 1 .. made' /\ node' \in 0 .. made' /\ ~joining'
        /\ connected' => node' \in alive' /\ thread'[node'] # "none"
        /\ ~connected' => thread'[node'] = "none"
    BY <2>1, <2>2, <2>3
  <2>9. \A n \in Nodes : /\ n > made' => thread'[n] = "none"
                         /\ thread'[n] = "busy" => slow'
                         /\ thread'[n] = "running" /\ n # node' => slow'
    BY <2>1, <2>2, <2>3
  <2>10. \A n \in alive' : n # node' => thread'[n] = "none"
    BY <2>1, <2>2, <2>3, <2>6
  <2>11. \A c \in Calls : on'[c] \in 0 .. made' /\ on'[c] \notin alive' \ {made + 1}
                          /\ on'[c] # made + 1
    BY <2>1, <2>2, <2>7
  <2> QED BY <2>1, <2>8, <2>9, <2>10, <2>11
<1>2. CASE DisconnectBegins
  BY <1>2 DEF DisconnectBegins
<1>3. CASE DisconnectEnds
  <2>1. /\ joining /\ connected /\ node # None /\ thread[node] \in {"ended", "crashed", "busy"}
        /\ joining' = FALSE /\ connected' = FALSE /\ node' = None /\ cached' = {}
        /\ alive' = alive \ {node} /\ UNCHANGED <<made, thread, slow, on>>
    BY <1>3 DEF DisconnectEnds, DestroyAll, Joined
  <2>2. thread[node] = "running" => slow
    BY <2>1
  <2>3. \A n \in alive' : thread[n] = "none"
    BY <2>1
  <2>4. \A n \in Nodes : thread[n] = "running" => slow
    BY <2>1, <2>2
  <2>5. \A c \in Calls : on[c] \in 0 .. made /\ on[c] \notin alive'
    BY <2>1
  <2> QED BY <2>1, <2>3, <2>4, <2>5
<1>4. CASE Publish
  BY <1>4 DEF Publish
<1>5. ASSUME NEW n \in Nodes, Thread(n) PROVE NodeInv'
  <2>1. /\ thread[n] \in {"running", "busy"} /\ UNCHANGED <<conn, joining, on>>
        /\ \E t \in {"running", "busy", "ended", "crashed"} :
             /\ thread' = [thread EXCEPT ![n] = t]
             /\ t = "busy" => slow
             /\ t = "running" => thread[n] = "busy"
    BY <1>5 DEF Thread, ThreadEnds, CallbackBlocks, CallbackReturns, ThreadCrashes
  <2>2. PICK t \in {"running", "busy", "ended", "crashed"} :
             /\ thread' = [thread EXCEPT ![n] = t]
             /\ t = "busy" => slow
             /\ t = "running" => thread[n] = "busy"
    BY <2>1
  <2>3. n \in 1 .. made /\ (n \in alive => n = node) /\ (n = node => connected)
    BY <2>1
  <2>4. \A m \in Nodes : thread'[m] = IF m = n THEN t ELSE thread[m]
    BY <2>2
  <2>5. /\ alive' \subseteq 1 .. made' /\ node' \in 0 .. made'
        /\ connected' => node' \in alive' /\ thread'[node'] # "none"
        /\ ~connected' /\ node' # None => thread'[node'] = "none"
        /\ joining' => connected'
    BY <2>1, <2>3, <2>4
  <2>6. /\ \A m \in Nodes : m > made' => thread'[m] = "none"
        /\ \A m \in alive' : m # node' => thread'[m] = "none"
    BY <2>1, <2>3, <2>4
  <2>7. /\ \A m \in Nodes : thread'[m] = "busy" => slow'
        /\ \A m \in Nodes : thread'[m] = "running" /\ m # node' => slow'
    BY <2>1, <2>2, <2>4
  <2>8. /\ \A e \in cached' : e[2] = node' /\ node' \in alive'
        /\ \A c \in Calls : on'[c] \in 0 .. made' /\ (on'[c] \in alive' => connected' /\ on'[c] = node')
    BY <2>1
  <2> QED BY <2>5, <2>6, <2>7, <2>8
<1>6. ASSUME NEW c \in Calls, NEW k \in Kinds, Begin(c, k) PROVE NodeInv'
  BY <1>6 DEF Begin, CallsType
<1>7. CASE UNCHANGED <<conn, spin, on>>
  BY <1>7
<1>8. ASSUME NEW c \in Calls,
             Coroutine(c) \/ CallerGivesUp(c) \/ OnMessage(c) \/ OnDone(c) \/ RobotDecides(c)
      PROVE  UNCHANGED <<conn, spin, on>>
  BY <1>8 DEF Coroutine, CallerGivesUp, Found, Expire, Accepted, Answered, Ends, OnMessage, OnDone, RobotDecides
<1>9. ASSUME LoopRuns \/ CancelAction \/ UNCHANGED vars PROVE UNCHANGED <<conn, spin, on>>
  BY <1>9 DEF LoopRuns, CancelAction, vars
<1>10. ASSUME NEW h \in Handles, Subscribe(h) \/ Unsubscribe(h) PROVE UNCHANGED <<conn, spin, on>>
  BY <1>10 DEF Subscribe, Unsubscribe
<1> QED
  BY <1>1, <1>2, <1>3, <1>4, <1>5, <1>6, <1>7, <1>8, <1>9, <1>10 DEF Next

LEMMA NodesHold == Spec => []NodeInv
<1>1. TypeOK /\ NodeInv /\ [Next]_vars => NodeInv'
  BY NodeStep
<1> QED BY <1>1, NodeInit, DdsTypeCorrect, PTL DEF Spec

\* A connected transport has a node with a thread, and no other thread spins
\* unless a callback held it beyond the join.
THEOREM TheSpinnerIsItsOwn == Spec => []SpinnerServesItsNode
<1>1. NodeInv => SpinnerServesItsNode
  BY DEF NodeInv, SpinnerServesItsNode
<1> QED BY <1>1, NodesHold, PTL

-----------------------------------------------------------------------------
(* Subscriptions *)

\* A held handle that does not track itself has the address of a stray.
HandlesInv ==
    /\ ~connected => held = {}
    /\ HandlesKeepTheirOwn

LEMMA HandlesInit == Init => HandlesInv
BY DEF Init, HandlesInv, HandlesKeepTheirOwn

LEMMA HandlesStep == TypeOK /\ NodeInv /\ HandlesInv /\ [Next]_vars => HandlesInv'
<1> SUFFICES ASSUME SubsType, NodeInv, HandlesInv, [Next]_vars PROVE HandlesInv'
  BY Zenon DEF TypeOK
<1> USE DdsAssumption DEF HandlesInv, HandlesKeepTheirOwn, SubsType
<1>1. CASE Connect
  BY <1>1 DEF Connect
<1>2. CASE DisconnectEnds
  BY <1>2 DEF DisconnectEnds, DestroyAll
<1>3. ASSUME NEW h \in Handles, Subscribe(h) PROVE HandlesInv'
  <2>1. PICK i \in Ids :
          /\ tracked[i] = NoHandle
          /\ subId' = [subId EXCEPT ![h] = i] /\ tracked' = [tracked EXCEPT ![i] = h]
    BY <1>3 DEF Subscribe, FreshId
  <2>2. held' = held \cup {h} /\ UNCHANGED <<strays, connected>> /\ connected /\ subId[h] = NoId
    BY <1>3 DEF Subscribe
  <2>3. subId'[h] # NoId /\ tracked'[subId'[h]] = h
    BY <2>1
  <2>4. ASSUME NEW g \in held, g # h
        PROVE  /\ subId'[g] # NoId
               /\ tracked'[subId'[g]] = g \/ subId'[g] \in strays'
    <3>1. subId'[g] = subId[g] /\ subId[g] \in Ids
      BY <2>1, <2>4
    <3>2. CASE subId[g] = i
      <4>1. tracked[i] # g
        BY <2>1
      <4> QED BY <2>2, <3>1, <3>2, <4>1
    <3>3. CASE subId[g] # i
      BY <2>1, <2>2, <3>1, <3>3
    <3> QED BY <3>2, <3>3
  <2> QED BY <2>2, <2>3, <2>4
<1>4. ASSUME NEW h \in Handles, Unsubscribe(h) PROVE HandlesInv'
  <2>1. /\ tracked' = [tracked EXCEPT ![subId[h]] = NoHandle] /\ held' = held \ {h}
        /\ strays' = (IF h \in held THEN strays ELSE strays \cup {subId[h]})
        /\ UNCHANGED <<subId, connected>>
    BY <1>4 DEF Unsubscribe
  <2>2. ASSUME NEW g \in held, g # h
        PROVE  tracked'[subId[g]] = g \/ subId[g] \in strays'
    <3>1. CASE subId[g] # subId[h]
      BY <2>1, <2>2, <3>1
    <3>2. CASE subId[g] = subId[h]
      BY <2>1, <2>2, <3>2
    <3> QED BY <3>1, <3>2
  <2> QED BY <2>1, <2>2
<1>5. CASE UNCHANGED <<connected, subs>>
  BY <1>5
<1>6. ASSUME NEW c \in Calls,
             Coroutine(c) \/ CallerGivesUp(c) \/ OnMessage(c) \/ OnDone(c) \/ RobotDecides(c)
      PROVE  UNCHANGED <<connected, subs>>
  BY <1>6 DEF Coroutine, CallerGivesUp, Found, Expire, Accepted, Answered, Ends, OnMessage, OnDone, RobotDecides
<1>7. ASSUME DisconnectBegins \/ LoopRuns \/ CancelAction \/ Publish \/ UNCHANGED vars
      PROVE  UNCHANGED <<connected, subs>>
  BY <1>7 DEF DisconnectBegins, LoopRuns, CancelAction, Publish, vars
<1>8. ASSUME NEW n \in Nodes, Thread(n) PROVE UNCHANGED <<connected, subs>>
  BY <1>8 DEF Thread, ThreadEnds, CallbackBlocks, CallbackReturns, ThreadCrashes
<1>9. ASSUME NEW c \in Calls, NEW k \in Kinds, Begin(c, k) PROVE UNCHANGED <<connected, subs>>
  BY <1>9 DEF Begin
<1> QED
  BY <1>1, <1>2, <1>3, <1>4, <1>5, <1>6, <1>7, <1>8, <1>9 DEF Next

\* Addresses are given out again, and yet a subscription stays until its handle
\* is unsubscribed, or a handle from before a disconnect() that had its address.
THEOREM SubscriptionsStay == Spec => []HandlesKeepTheirOwn
<1>1. TypeOK /\ NodeInv /\ HandlesInv /\ [Next]_vars => HandlesInv'
  BY HandlesStep
<1>2. HandlesInv => HandlesKeepTheirOwn
  BY DEF HandlesInv
<1> QED BY HandlesInit, <1>1, <1>2, DdsTypeCorrect, NodesHold, PTL DEF Spec

-----------------------------------------------------------------------------
(* Goals *)

Active(c) == kind[c] = "goal" /\ pc[c] \in {"finding", "accepting", "waiting"}

\* One goal at a time, and while its result is awaited it is registered or was
\* asked to stop.
GoalInv ==
    /\ \A c, d \in Calls : Active(c) /\ Active(d) => c = d
    /\ \A c \in Calls : pc[c] = "accepting" => kind[c] = "goal"
    /\ \A c \in Calls : Active(c) /\ pc[c] = "waiting" => goal = c \/ c \in cancelled

LEMMA GoalInit == Init => GoalInv
BY DEF Init, GoalInv, Active

LEMMA GoalStep == TypeOK /\ ~Overlap /\ GoalInv /\ [Next]_vars => GoalInv'
<1> SUFFICES ASSUME ~Overlap, CallsType, GoalsType, GoalInv, [Next]_vars PROVE GoalInv'
  BY Zenon DEF TypeOK
<1> USE DdsAssumption DEF GoalInv, Active, CallsType, GoalsType
<1>1. ASSUME NEW c \in Calls, NEW k \in Kinds, Begin(c, k) PROVE GoalInv'
  <2>1. /\ kind' = [kind EXCEPT ![c] = k] /\ UNCHANGED goals
        /\ pc' = [pc EXCEPT ![c] = IF k = "once" THEN "waiting" ELSE "finding"]
        /\ k = "goal" => \A d \in Calls : kind[d] = "goal" => pc[d] \in {"idle", "done"}
    BY <1>1 DEF Begin
  <2>2. \A d \in Calls : Active(d)' => Active(d) \/ (d = c /\ k = "goal")
    BY <2>1
  <2>3. \A d \in Calls : k = "goal" => ~Active(d)
    BY <2>1
  <2> QED BY <2>1, <2>2, <2>3
<1>2. ASSUME NEW c \in Calls, Coroutine(c) PROVE GoalInv'
  <2>1. \A d \in Calls : d # c => pc'[d] = pc[d]
    BY <1>2 DEF Coroutine, Found, Expire, Accepted, Answered, Ends
  <2>2. UNCHANGED <<kind, cancelled>> /\ pc[c] \in {"finding", "accepting", "waiting"}
    BY <1>2 DEF Coroutine, Found, Expire, Accepted, Answered, Ends
  <2>3. kind[c] # "goal" => UNCHANGED goal /\ pc'[c] # "accepting"
    BY <1>2 DEF Coroutine, Found, Expire, Accepted, Answered, Ends, PopGoal
  <2>4. pc'[c] = "waiting" => kind[c] # "goal" \/ goal' = c
    BY <1>2 DEF Coroutine, Found, Expire, Accepted, Answered, Ends, PopGoal
  <2>5. \A d \in Calls : Active(d)' => Active(d)
    BY <2>1, <2>2
  <2>6. \A d, e \in Calls : Active(d)' /\ Active(e)' => d = e
    BY <2>5
  <2>7. \A d \in Calls : pc'[d] = "accepting" => kind'[d] = "goal"
    BY <2>1, <2>2, <2>3
  <2>8. \A d \in Calls : Active(d)' /\ pc'[d] = "waiting" => goal' = d \/ d \in cancelled'
    <3>1. CASE kind[c] # "goal"
      BY <3>1, <2>1, <2>2, <2>3
    <3>2. CASE kind[c] = "goal"
      BY <3>2, <2>1, <2>2, <2>4, <2>5
    <3> QED BY <3>1, <3>2
  <2> QED BY <2>6, <2>7, <2>8
<1>10. ASSUME NEW c \in Calls, CallerGivesUp(c) PROVE GoalInv'
  <2>1. pc' = [pc EXCEPT ![c] = "done"] /\ UNCHANGED <<kind, goal, cancelled>>
    BY <1>10 DEF CallerGivesUp, Ends
  <2> QED BY <2>1
<1>3. ASSUME CancelGoals, UNCHANGED <<kind, pc>> PROVE GoalInv'
  BY <1>3 DEF CancelGoals
<1>4. ASSUME DisconnectBegins \/ CancelAction PROVE CancelGoals /\ UNCHANGED <<kind, pc>>
  BY <1>4 DEF DisconnectBegins, CancelAction
<1>5. ASSUME UNCHANGED <<kind, pc, goal, cancelled>> PROVE GoalInv'
  BY <1>5
<1>6. ASSUME NEW c \in Calls, OnMessage(c) \/ OnDone(c) \/ RobotDecides(c)
      PROVE  UNCHANGED <<kind, pc, goal, cancelled>>
  BY <1>6 DEF OnMessage, OnDone, RobotDecides
<1>7. ASSUME Connect \/ DisconnectEnds \/ LoopRuns \/ Publish \/ UNCHANGED vars
      PROVE  UNCHANGED <<kind, pc, goal, cancelled>>
  BY <1>7 DEF Connect, DisconnectEnds, LoopRuns, Publish, vars
<1>8. ASSUME NEW n \in Nodes, Thread(n) PROVE UNCHANGED <<kind, pc, goal, cancelled>>
  BY <1>8 DEF Thread, ThreadEnds, CallbackBlocks, CallbackReturns, ThreadCrashes
<1>9. ASSUME NEW h \in Handles, Subscribe(h) \/ Unsubscribe(h)
      PROVE  UNCHANGED <<kind, pc, goal, cancelled>>
  BY <1>9 DEF Subscribe, Unsubscribe
<1> QED
  BY <1>1, <1>2, <1>3, <1>4, <1>5, <1>6, <1>7, <1>8, <1>9, <1>10 DEF Next

\* If goals of an action do not overlap, cancel_action() finds the goal in
\* progress, or it was asked to stop before.
THEOREM GoalInProgressIsKnown == Spec => []InProgressIsKnown
<1>1. CASE Overlap
  <2>1. InProgressIsKnown
    BY <1>1 DEF InProgressIsKnown
  <2> QED BY <2>1, PTL
<1>2. CASE ~Overlap
  <2>1. TypeOK /\ GoalInv /\ [Next]_vars => GoalInv'
    BY <1>2, GoalStep
  <2>2. GoalInv => InProgressIsKnown
    BY DEF GoalInv, InProgressIsKnown, Active
  <2> QED BY GoalInit, <2>1, <2>2, DdsTypeCorrect, PTL DEF Spec
<1> QED BY <1>1, <1>2

-----------------------------------------------------------------------------
(* What the calls leave behind *)

Entries == { ready[i] : i \in DOMAIN ready }

LEMMA EntriesAfter ==
    ASSUME ReadyType
    PROVE  /\ ready # <<>> => Head(ready) \in Entries
           /\ ready # <<>> /\ ready' = Tail(ready) => Entries' \subseteq Entries
           /\ \A e : ready' = Append(ready, e) => Entries' \subseteq Entries \cup {e}
           /\ ready' = ready => Entries' = Entries
<1> DEFINE E == Calls \X Stages \X (1 .. MaxHeard)
<1>1. ready \in Seq(E)
  BY DEF ReadyType
<1> HIDE DEF E
<1>2. ready # <<>> => Head(ready) \in Entries
  BY <1>1 DEF Entries
<1>3. ASSUME ready # <<>>, ready' = Tail(ready) PROVE Entries' \subseteq Entries
  <2>1. \A i \in DOMAIN ready' : i + 1 \in DOMAIN ready /\ ready'[i] = ready[i + 1]
    BY <1>1, <1>3
  <2> QED BY <2>1 DEF Entries
<1>4. ASSUME NEW e, ready' = Append(ready, e) PROVE Entries' \subseteq Entries \cup {e}
  <2>1. \A i \in DOMAIN ready' : (i \in DOMAIN ready /\ ready'[i] = ready[i]) \/ ready'[i] = e
    BY <1>1, <1>4
  <2> QED BY <2>1 DEF Entries
<1>5. ready' = ready => Entries' = Entries
  BY DEF Entries
<1> QED BY <1>2, <1>3, <1>4, <1>5

\* A call's kind is settled when it begins.  Only goals are known to the robot,
\* and a result that is on its way or there is that of a goal that is over.
CallInv ==
    /\ \A c \in Calls : pc[c] = "idle" => kind[c] = "none" /\ c \notin owns
    /\ \A c \in Calls : pc[c] # "idle" => kind[c] # "none"
    /\ \A c \in Calls : kind[c] # "goal" \/ pc[c] = "finding" => robot[c] = "none"
    /\ \A c \in Calls : kind[c] = "service" => c \notin owns
    /\ \A c \in Calls : kind[c] = "goal" /\ pc[c] = "waiting" /\ fut[c] = "set" => robot[c] = "over"
    /\ \A e \in Entries : kind[e[1]] = "goal" /\ e[2] = "waiting" => robot[e[1]] = "over"
    /\ \A e \in Entries : kind[e[1]] # "none"
    /\ \A c \in Calls : pc[c] = "accepting" => kind[c] = "goal"
    /\ goal # NoCall => kind[goal] = "goal" /\ pc[goal] \in {"waiting", "done"}

\* OnlyKnownLeaks, of the calls.
LeakInv ==
    /\ \A c \in owns : pc[c] = "done" /\ on[c] \in alive =>
         kind[c] = "goal" /\ outcome[c] \in {"aborted", "cancelled"}
    /\ \A c \in Calls : pc[c] = "done" /\ robot[c] \in {"asked", "executing"} =>
         c \in cancelled \/ outcome[c] \in {"aborted", "cancelled"}
    /\ goal # NoCall /\ pc[goal] = "done" => outcome[goal] = "cancelled"

LEMMA CallInit == Init => CallInv /\ LeakInv
BY DEF Init, CallInv, LeakInv, Entries

LEMMA CallStep == TypeOK /\ CallInv /\ [Next]_vars => CallInv'
<1> SUFFICES ASSUME ReadyType, CallsType, GoalsType, CallInv, [Next]_vars PROVE CallInv'
  BY Zenon DEF TypeOK
<1> USE DdsAssumption DEF CallInv, CallsType, GoalsType
<1>e. \A e \in Entries : e[1] \in Calls
  BY DEF ReadyType, Entries
<1>1. ASSUME NEW c \in Calls, NEW k \in Kinds, Begin(c, k) PROVE CallInv'
  <2>1. Entries' = Entries
    BY <1>1, EntriesAfter DEF Begin
  <2> QED BY <1>1, <1>e, <2>1 DEF Begin
<1>2. ASSUME NEW c \in Calls, Coroutine(c) PROVE CallInv'
  <2>1. Entries' = Entries /\ UNCHANGED kind
    BY <1>2, EntriesAfter DEF Coroutine, Found, Expire, Accepted, Answered, Ends
  <2>2. CASE Found(c)
    BY <2>1, <2>2, <1>e DEF Found, Ends, PopGoal
  <2>3. CASE Expire(c)
    BY <2>1, <2>3, <1>e DEF Expire, Ends, PopGoal
  <2>4. CASE Accepted(c)
    BY <2>1, <2>4, <1>e DEF Accepted, Ends, PopGoal
  <2>5. CASE Answered(c)
    BY <2>1, <2>5, <1>e DEF Answered, Ends, PopGoal
  <2> QED BY <1>2, <2>2, <2>3, <2>4, <2>5 DEF Coroutine
<1>11. ASSUME NEW c \in Calls, CallerGivesUp(c) PROVE CallInv'
  <2>1. Entries' = Entries /\ UNCHANGED <<kind, goals>>
    BY <1>11, EntriesAfter DEF CallerGivesUp, Ends
  <2> QED BY <1>11, <2>1, <1>e DEF CallerGivesUp, Ends
<1>3. ASSUME NEW c \in Calls, OnMessage(c) PROVE CallInv'
  <2>1. UNCHANGED <<kind, pc, fut, robot, owns, goal>> /\ kind[c] = "once"
    BY <1>3 DEF OnMessage
  <2>2. CASE fut[c] = "pending"
    <3>1. ready' = Append(ready, <<c, "waiting", heard[c] + 1>>)
      BY <1>3, <2>2 DEF OnMessage
    <3>2. Entries' \subseteq Entries \cup {<<c, "waiting", heard[c] + 1>>}
      BY <3>1, EntriesAfter
    <3>3. \A e \in Entries' : e \in Entries \/ (e[1] = c /\ e[2] = "waiting")
      BY <3>2
    <3> QED BY <1>e, <2>1, <3>3
  <2>3. CASE fut[c] # "pending"
    <3>1. Entries' = Entries
      BY <1>3, <2>3, EntriesAfter DEF OnMessage
    <3> QED BY <1>e, <2>1, <3>1
  <2> QED BY <2>2, <2>3
<1>4. ASSUME NEW c \in Calls, OnDone(c) PROVE CallInv'
  <2>1. Entries' \subseteq Entries \cup {<<c, pc[c], 1>>}
    BY <1>4, EntriesAfter DEF OnDone
  <2> QED BY <1>4, <1>e, <2>1 DEF OnDone
<1>5. ASSUME NEW c \in Calls, RobotDecides(c) PROVE CallInv'
  <2>1. Entries' = Entries
    BY <1>5, EntriesAfter DEF RobotDecides
  <2> QED BY <1>5, <1>e, <2>1 DEF RobotDecides
<1>6. CASE LoopRuns
  <2>1. Entries' \subseteq Entries /\ Head(ready) \in Entries
    BY <1>6, EntriesAfter DEF LoopRuns
  <2>2. UNCHANGED <<kind, pc, robot, owns, goal>>
    BY <1>6 DEF LoopRuns
  <2>3. \A c \in Calls : fut'[c] # fut[c] =>
          c = Head(ready)[1] /\ Head(ready)[2] = pc[c]
    BY <1>6 DEF LoopRuns, SetResult
  <2> QED BY <2>1, <2>2, <2>3, <1>e
<1>7. ASSUME UNCHANGED <<ready, kind, pc, fut, robot, owns>>, goal' \in {goal, NoCall} PROVE CallInv'
  <2>1. Entries' = Entries
    BY <1>7, EntriesAfter
  <2> QED BY <1>7, <1>e, <2>1
<1>8. ASSUME DisconnectBegins \/ DisconnectEnds \/ CancelAction \/ Connect \/ Publish \/ UNCHANGED vars
      PROVE  UNCHANGED <<ready, kind, pc, fut, robot, owns>> /\ goal' \in {goal, NoCall}
  BY <1>8 DEF DisconnectBegins, DisconnectEnds, CancelAction, CancelGoals, Connect, Publish, vars
<1>9. ASSUME NEW n \in Nodes, Thread(n) PROVE UNCHANGED <<ready, kind, pc, fut, robot, owns, goal>>
  BY <1>9 DEF Thread, ThreadEnds, CallbackBlocks, CallbackReturns, ThreadCrashes
<1>10. ASSUME NEW h \in Handles, Subscribe(h) \/ Unsubscribe(h)
      PROVE  UNCHANGED <<ready, kind, pc, fut, robot, owns, goal>>
  BY <1>10 DEF Subscribe, Unsubscribe
<1> QED
  BY <1>1, <1>2, <1>3, <1>4, <1>5, <1>6, <1>7, <1>8, <1>9, <1>10, <1>11 DEF Next, Coroutine

LEMMA LeakStep == TypeOK /\ NodeInv /\ CallInv /\ LeakInv /\ [Next]_vars => LeakInv'
<1> SUFFICES ASSUME ConnType, CallsType, GoalsType, NodeInv, CallInv, LeakInv, [Next]_vars
             PROVE LeakInv'
  BY Zenon DEF TypeOK
<1> USE DdsAssumption DEF LeakInv, CallsType, GoalsType
<1>c. \A c \in Calls : on[c] \in 0 .. made /\ (on[c] \in alive => node # None)
  BY DEF NodeInv, ConnType
<1>1. ASSUME NEW c \in Calls, NEW k \in Kinds, Begin(c, k) PROVE LeakInv'
  BY <1>1 DEF Begin, CallInv
<1>2. ASSUME NEW c \in Calls, NEW how \in {"answer", "failed", "aborted", "cancelled"}, Ends(c, how),
             UNCHANGED <<conn, cancelled, robot>>,
             how # "cancelled" => goal' # c, goal' \in {goal, NoCall},
             how = "failed" => robot[c] \in {"none", "rejected"},
             how = "answer" => robot[c] \in {"none", "over"},
             pc[c] # "idle"
      PROVE  LeakInv'
  <2>1. kind[c] \in Kinds
    BY <1>2 DEF CallInv
  <2>2. \A d \in Calls : d # c => pc'[d] = pc[d] /\ outcome'[d] = outcome[d] /\ (d \in owns' => d \in owns)
    BY <1>2 DEF Ends
  <2>3. c \in owns' /\ on[c] \in alive => kind[c] = "goal" /\ outcome'[c] \in {"aborted", "cancelled"}
    BY <1>2, <1>c, <2>1 DEF Ends, DestroysOwn, CallInv
  <2>4. robot[c] \in {"asked", "executing"} => outcome'[c] \in {"aborted", "cancelled"}
    BY <1>2, <2>1 DEF Ends, CallInv
  <2>5. goal' # NoCall /\ pc'[goal'] = "done" => outcome'[goal'] = "cancelled"
    <3>1. CASE goal' = c
      <4>1. how = "cancelled" /\ goal = c /\ kind[c] = "goal"
        BY <1>2, <3>1 DEF CallInv
      <4> QED BY <1>2, <3>1, <4>1 DEF Ends
    <3>2. CASE goal' # c
      BY <1>2, <2>2, <3>2
    <3> QED BY <3>1, <3>2
  <2> QED BY <1>2, <2>2, <2>3, <2>4, <2>5 DEF Ends
<1>3. ASSUME NEW c \in Calls, Coroutine(c) PROVE LeakInv'
  <2>1. CASE Found(c) /\ ~\E how \in {"failed", "aborted"} : Ends(c, how)
    BY <2>1 DEF Found, CallInv
  <2>2. CASE Accepted(c) /\ ~\E how \in {"failed", "aborted"} : Ends(c, how)
    BY <2>2 DEF Accepted, CallInv
  <2>3. ASSUME Found(c), NEW how \in {"failed", "aborted"}, Ends(c, how) PROVE LeakInv'
    <3>1. UNCHANGED <<conn, cancelled, robot>> /\ robot[c] = "none" /\ pc[c] = "finding"
      BY <2>3 DEF Found, Ends, CallInv
    <3>2. goal' # c /\ goal' \in {goal, NoCall}
      BY <2>3, <3>1 DEF Found, PopGoal, Ends, CallInv
    <3> QED BY <1>2, <2>3, <3>1, <3>2
  <2>4. ASSUME Accepted(c), NEW how \in {"failed", "aborted"}, Ends(c, how) PROVE LeakInv'
    <3>1. UNCHANGED <<conn, cancelled, robot>> /\ pc[c] = "accepting"
      BY <2>4 DEF Accepted
    <3>2. how = "failed" => robot[c] \in {"none", "rejected"}
      BY <2>4 DEF Accepted, Ends, CallInv
    <3>3. goal' # c /\ goal' \in {goal, NoCall}
      BY <2>4, <3>1 DEF Accepted, PopGoal, Ends, CallInv
    <3> QED BY <1>2, <2>4, <3>1, <3>2, <3>3
  <2>5. CASE Expire(c)
    <3>1. goal' # c /\ goal' \in {goal, NoCall}
      BY <2>5 DEF Expire, PopGoal, CallInv
    <3> QED BY <1>2, <2>5, <3>1 DEF Expire, Stages
  <2>6. CASE Answered(c)
    <3>1. robot[c] \in {"none", "over"}
      BY <2>6 DEF Answered, CallInv
    <3>2. goal' # c /\ goal' \in {goal, NoCall}
      BY <2>6 DEF Answered, PopGoal, CallInv
    <3> QED BY <1>2, <2>6, <3>1, <3>2 DEF Answered
  <2> QED BY <1>3, <2>1, <2>2, <2>3, <2>4, <2>5, <2>6 DEF Coroutine
<1>13. ASSUME NEW c \in Calls, CallerGivesUp(c) PROVE LeakInv'
  <2>1. /\ Ends(c, "cancelled") /\ UNCHANGED <<conn, cancelled, robot>>
        /\ pc[c] # "idle" /\ goal' \in {goal, NoCall}
    BY <1>13 DEF CallerGivesUp
  <2> QED BY <1>2, <2>1
<1>4. ASSUME NEW c \in Calls, RobotDecides(c) PROVE LeakInv'
  BY <1>4 DEF RobotDecides
<1>5. CASE Connect
  BY <1>5, <1>c DEF Connect, ConnType
<1>6. ASSUME DisconnectBegins \/ CancelAction PROVE LeakInv'
  BY <1>6 DEF DisconnectBegins, CancelAction, CancelGoals
<1>7. CASE DisconnectEnds
  BY <1>7 DEF DisconnectEnds
<1>8. ASSUME UNCHANGED <<alive, on, kind, pc, outcome, owns, robot, cancelled, goal>> PROVE LeakInv'
  BY <1>8
<1>9. ASSUME NEW c \in Calls, OnMessage(c) \/ OnDone(c)
      PROVE  UNCHANGED <<alive, on, kind, pc, outcome, owns, robot, cancelled, goal>>
  BY <1>9 DEF OnMessage, OnDone
<1>10. ASSUME LoopRuns \/ Publish \/ UNCHANGED vars
      PROVE  UNCHANGED <<alive, on, kind, pc, outcome, owns, robot, cancelled, goal>>
  BY <1>10 DEF LoopRuns, Publish, vars
<1>11. ASSUME NEW n \in Nodes, Thread(n)
      PROVE  UNCHANGED <<alive, on, kind, pc, outcome, owns, robot, cancelled, goal>>
  BY <1>11 DEF Thread, ThreadEnds, CallbackBlocks, CallbackReturns, ThreadCrashes
<1>12. ASSUME NEW h \in Handles, Subscribe(h) \/ Unsubscribe(h)
      PROVE  UNCHANGED <<alive, on, kind, pc, outcome, owns, robot, cancelled, goal>>
  BY <1>12 DEF Subscribe, Unsubscribe
<1> QED
  BY <1>1, <1>3, <1>4, <1>5, <1>6, <1>7, <1>8, <1>9, <1>10, <1>11, <1>12, <1>13 DEF Next

LEMMA CallsHold == Spec => []CallInv
<1>1. TypeOK /\ CallInv /\ [Next]_vars => CallInv'
  BY CallStep
<1> QED BY <1>1, CallInit, DdsTypeCorrect, PTL DEF Spec

\* Whatever the order of calls, threads and disconnects, nothing is left behind
\* but the node of a connect() that failed, the client and the goal of a goal
\* call that timed out, failed or was cancelled by its caller, and in that last
\* case the entry of the goal.
THEOREM LeaksAreKnown == Spec => []OnlyKnownLeaks
<1>1. TypeOK /\ NodeInv /\ CallInv /\ LeakInv /\ [Next]_vars => LeakInv'
  BY LeakStep
<1>2. NodeInv /\ LeakInv => OnlyKnownLeaks
  BY DEF NodeInv, LeakInv, OnlyKnownLeaks
<1> QED BY <1>1, <1>2, CallInit, DdsTypeCorrect, NodesHold, CallsHold, PTL DEF Spec

-----------------------------------------------------------------------------
(* One-shot subscriptions *)

First(c) == <<c, "waiting", 1>>

\* The first message of a call was handed to the loop ahead of its others.
Ordered(c) ==
    /\ heard[c] > 0 => \E j \in DOMAIN ready : ready[j] = First(c)
    /\ \A i \in DOMAIN ready : ready[i][1] = c => \E j \in 1 .. i : ready[j] = First(c)

OnceInv(c) ==
    /\ pc[c] \in {"waiting", "done"}
    /\ fut[c] = "pending" => pc[c] = "waiting" /\ Ordered(c)
    /\ fut[c] = "set" => got[c] = 1
    /\ outcome[c] = "answer" => pc[c] = "done" /\ fut[c] = "none" /\ got[c] = 1
    /\ outcome[c] = "raised" => on[c] \notin alive

FirstInv ==
    \A c \in Calls :
      /\ pc[c] = "idle" => heard[c] = 0 /\ outcome[c] = "none"
      /\ kind[c] = "once" => OnceInv(c)

LEMMA FirstInit == Init => FirstInv
BY DEF Init, FirstInv

LEMMA FirstStep == TypeOK /\ NodeInv /\ CallInv /\ FirstInv /\ [Next]_vars => FirstInv'
<1> SUFFICES ASSUME ConnType, ReadyType, CallsType, NodeInv, CallInv, FirstInv, [Next]_vars
             PROVE FirstInv'
  BY Zenon DEF TypeOK
<1> USE DdsAssumption
<1> DEFINE E == Calls \X Stages \X (1 .. MaxHeard)
<1>r. ready \in Seq(E)
  BY DEF ReadyType
<1>e. \A i \in DOMAIN ready : ready[i][1] \in Calls /\ kind[ready[i][1]] # "none"
  BY DEF ReadyType, CallInv, Entries
<1>o. \A c \in Calls : pc[c] = "idle" => kind[c] = "none"
  BY DEF CallInv
<1>n. \A c \in Calls : on[c] \in 0 .. made /\ (on[c] \in alive => node # None)
  BY DEF NodeInv, ConnType
<1> HIDE DEF E
\* Of the calls a step does not touch.
<1>f. ASSUME NEW c \in Calls, on[c] \in alive' => on[c] \in alive,
             pc'[c] = pc[c], fut'[c] = fut[c], got'[c] = got[c], outcome'[c] = outcome[c],
             on'[c] = on[c], kind'[c] = kind[c], heard'[c] = heard[c], Ordered(c) => Ordered(c)'
      PROVE  /\ pc'[c] = "idle" => heard'[c] = 0 /\ outcome'[c] = "none"
             /\ kind'[c] = "once" => OnceInv(c)'
  BY <1>f DEF FirstInv, OnceInv
<1>s. ASSUME NEW c \in Calls, UNCHANGED ready, heard'[c] = heard[c] PROVE Ordered(c) => Ordered(c)'
  BY <1>s DEF Ordered, First
<1>1. ASSUME NEW c \in Calls, NEW k \in Kinds, Begin(c, k) PROVE FirstInv'
  <2>1. UNCHANGED <<ready, heard, got, outcome, alive>> /\ pc[c] = "idle"
    BY <1>1 DEF Begin
  <2>2. \A d \in Calls : d # c =>
          kind'[d] = kind[d] /\ on'[d] = on[d] /\ pc'[d] = pc[d] /\ fut'[d] = fut[d]
    BY <1>1 DEF Begin, CallsType
  <2>3. pc'[c] # "idle" /\ (kind'[c] = "once" => pc'[c] = "waiting" /\ fut'[c] = "pending")
    BY <1>1 DEF Begin, CallsType
  <2>4. heard[c] = 0 /\ outcome[c] = "none" /\ \A i \in DOMAIN ready : ready[i][1] # c
    BY <1>e, <1>o, <2>1 DEF FirstInv
  <2>5. kind'[c] = "once" => OnceInv(c)'
    BY <2>1, <2>3, <2>4 DEF OnceInv, Ordered
  <2> QED BY <2>1, <2>2, <2>3, <2>5, <1>f, <1>s DEF FirstInv
<1>2. ASSUME NEW c \in Calls, Coroutine(c) \/ CallerGivesUp(c) PROVE FirstInv'
  <2>1. /\ UNCHANGED <<ready, kind, on, got, alive>>
        /\ pc[c] # "idle" /\ pc'[c] # "idle" /\ (pc[c] = "waiting" => UNCHANGED heard)
    BY <1>2 DEF CallerGivesUp, Coroutine, Found, Expire, Accepted, Answered, Ends, CallsType
  <2>2. \A d \in Calls : d # c =>
          pc'[d] = pc[d] /\ fut'[d] = fut[d] /\ outcome'[d] = outcome[d] /\ heard'[d] = heard[d]
    BY <1>2 DEF CallerGivesUp, Coroutine, Found, Expire, Accepted, Answered, Ends, CallsType
  <2>3. kind[c] = "once" =>
          /\ pc'[c] = "done" /\ fut'[c] = "none"
          /\ outcome'[c] = "answer" => fut[c] = "set"
          /\ outcome'[c] = "raised" => node = None
    BY <1>2 DEF CallerGivesUp, Coroutine, Found, Expire, Accepted, Answered, Ends, CallsType, FirstInv, OnceInv
  <2>4. kind'[c] = "once" => OnceInv(c)'
    BY <2>1, <2>3, <1>n DEF OnceInv, FirstInv
  <2> QED BY <2>1, <2>2, <2>4, <1>f, <1>s DEF FirstInv
<1>3. ASSUME NEW c \in Calls, NEW st \in Stages, NEW m \in 1 .. MaxHeard,
             ready' = Append(ready, <<c, st, m>>),
             kind[c] = "once" => st = "waiting" /\ (m = 1 \/ heard[c] > 0),
             UNCHANGED <<kind, on, pc, fut, got, outcome, alive>>, pc[c] # "idle",
             \A d \in Calls : d # c => heard'[d] = heard[d]
      PROVE  FirstInv'
  <2>1. /\ DOMAIN ready' = 1 .. Len(ready) + 1 /\ ready'[Len(ready) + 1] = <<c, st, m>>
        /\ DOMAIN ready = 1 .. Len(ready) /\ Len(ready) \in Nat
        /\ \A i \in DOMAIN ready : ready'[i] = ready[i]
    BY <1>3, <1>r
  <2>2. ASSUME NEW d \in Calls, d # c, Ordered(d) PROVE Ordered(d)'
    <3>1. heard'[d] = heard[d] /\ \A j \in DOMAIN ready : j \in DOMAIN ready' /\ ready'[j] = ready[j]
      BY <2>1, <2>2, <1>3
    <3>2. heard'[d] > 0 => \E j \in DOMAIN ready' : ready'[j] = First(d)
      BY <3>1, <2>2 DEF Ordered
    <3>3. ASSUME NEW i \in DOMAIN ready', ready'[i][1] = d
          PROVE  \E j \in 1 .. i : ready'[j] = First(d)
      <4>1. i \in DOMAIN ready /\ ready[i][1] = d
        BY <3>3, <2>1, <2>2
      <4>2. PICK j \in 1 .. i : ready[j] = First(d)
        BY <4>1, <2>2 DEF Ordered
      <4>3. j \in DOMAIN ready
        BY <4>1, <2>1
      <4> QED BY <4>2, <4>3, <3>1
    <3> QED BY <3>2, <3>3 DEF Ordered, First
  <2>3. ASSUME kind[c] = "once", Ordered(c) PROVE Ordered(c)'
    <3>1. \E j \in DOMAIN ready' : ready'[j] = First(c)
      BY <2>1, <2>3, <1>3 DEF Ordered, First
    <3>2. \E j \in 1 .. Len(ready) + 1 : ready'[j] = First(c)
      BY <3>1, <2>1
    <3>3. \A i \in DOMAIN ready : ready'[i][1] = c => \E j \in 1 .. i : ready'[j] = First(c)
      <4> SUFFICES ASSUME NEW i \in DOMAIN ready, ready[i][1] = c
                   PROVE  \E j \in 1 .. i : ready'[j] = First(c)
        BY <2>1
      <4>1. PICK j \in 1 .. i : ready[j] = First(c)
        BY <2>3 DEF Ordered
      <4>2. j \in DOMAIN ready
        BY <2>1
      <4> QED BY <4>1, <4>2, <2>1
    <3>4. \A i \in DOMAIN ready' : i \in DOMAIN ready \/ i = Len(ready) + 1
      BY <2>1
    <3>5. \A i \in DOMAIN ready' : ready'[i][1] = c => \E j \in 1 .. i : ready'[j] = First(c)
      BY <3>2, <3>3, <3>4
    <3> QED BY <3>1, <3>5 DEF Ordered, First
  <2>4. kind[c] = "once" => OnceInv(c)'
    BY <1>3, <2>3 DEF FirstInv, OnceInv
  <2> QED BY <1>3, <2>2, <2>4, <1>f DEF FirstInv
<1>4. ASSUME NEW c \in Calls, OnMessage(c) PROVE FirstInv'
  <2>1. /\ UNCHANGED <<kind, on, pc, fut, got, outcome, alive>>
        /\ heard[c] + 1 \in 1 .. MaxHeard /\ kind[c] = "once" /\ pc[c] # "idle"
        /\ \A d \in Calls : d # c => heard'[d] = heard[d]
    BY <1>4, <1>o DEF OnMessage, CallsType
  <2>2. CASE fut[c] = "pending"
    <3>1. ready' = Append(ready, <<c, "waiting", heard[c] + 1>>)
      BY <1>4, <2>2 DEF OnMessage
    <3>2. heard[c] + 1 = 1 \/ heard[c] > 0
      BY DEF CallsType
    <3> QED BY <2>1, <3>1, <3>2, <1>3 DEF Stages
  <2>3. CASE fut[c] # "pending"
    <3>1. UNCHANGED ready
      BY <1>4, <2>3 DEF OnMessage
    <3>2. OnceInv(c)'
      BY <2>1, <2>3 DEF FirstInv, OnceInv
    <3> QED BY <2>1, <3>1, <3>2, <1>f, <1>s DEF FirstInv
  <2> QED BY <2>2, <2>3
<1>5. ASSUME NEW c \in Calls, OnDone(c) PROVE FirstInv'
  <2>1. /\ UNCHANGED <<kind, on, pc, fut, got, outcome, alive>>
        /\ ready' = Append(ready, <<c, pc[c], 1>>) /\ pc[c] \in Stages
        /\ kind[c] # "once" /\ pc[c] # "idle"
        /\ \A d \in Calls : d # c => heard'[d] = heard[d]
    BY <1>5 DEF OnDone, CallsType
  <2>2. 1 \in 1 .. MaxHeard
    OBVIOUS
  <2> QED BY <2>1, <2>2, <1>3
<1>6. CASE LoopRuns
  <2>h. PICK h \in Calls : h = Head(ready)[1]
    BY <1>6, <1>r DEF LoopRuns, E
  <2>1. /\ UNCHANGED <<kind, on, pc, heard, outcome, alive>>
        /\ \A d \in Calls : d # h => fut'[d] = fut[d] /\ got'[d] = got[d]
    BY <1>6, <2>h DEF LoopRuns, CallsType
  <2>2. /\ DOMAIN ready = 1 .. Len(ready) /\ Len(ready) \in Nat \ {0} /\ ready[1] = Head(ready)
        /\ DOMAIN ready' = 1 .. Len(ready) - 1
        /\ \A i \in DOMAIN ready' : ready'[i] = ready[i + 1]
    BY <1>6, <1>r DEF LoopRuns
  <2>3. ASSUME NEW d \in Calls, d # h, Ordered(d) PROVE Ordered(d)'
    <3>1. \A j \in DOMAIN ready : ready[j] = First(d) => j # 1
      BY <2>h, <2>2, <2>3 DEF First
    <3>2. \A j \in DOMAIN ready : j # 1 => j - 1 \in DOMAIN ready' /\ ready'[j - 1] = ready[j]
      BY <2>2
    <3>3. heard'[d] > 0 => \E j \in DOMAIN ready' : ready'[j] = First(d)
      BY <2>1, <2>3, <3>1, <3>2 DEF Ordered
    <3>4. ASSUME NEW i \in DOMAIN ready', ready'[i][1] = d
          PROVE  \E j \in 1 .. i : ready'[j] = First(d)
      <4>1. PICK j \in 1 .. i + 1 : ready[j] = First(d)
        BY <2>2, <2>3, <3>4 DEF Ordered
      <4>2. j - 1 \in 1 .. i /\ ready'[j - 1] = First(d)
        BY <4>1, <2>2, <3>1, <3>2
      <4> QED BY <4>2
    <3> QED BY <3>3, <3>4 DEF Ordered, First
  <2>4. kind[h] = "once" => OnceInv(h)'
    <3>1. CASE fut[h] = "pending" /\ kind[h] = "once"
      <4>1. OnceInv(h) /\ Ordered(h)
        BY <2>1, <3>1 DEF FirstInv, OnceInv
      <4>2. Head(ready) = First(h)
        BY <2>h, <4>1, <2>2 DEF Ordered
      <4>3. fut'[h] = "set" /\ got'[h] = 1
        BY <1>6, <2>h, <2>1, <3>1, <4>1, <4>2 DEF LoopRuns, SetResult, First, CallsType, OnceInv
      <4> QED BY <2>1, <3>1, <4>1, <4>3 DEF OnceInv
    <3>2. CASE fut[h] # "pending"
      <4>1. UNCHANGED <<fut, got>>
        BY <1>6, <2>h, <3>2 DEF LoopRuns, SetResult
      <4> QED BY <2>1, <3>2, <4>1 DEF FirstInv, OnceInv
    <3> QED BY <3>1, <3>2
  <2>5. pc'[h] = "idle" => heard'[h] = 0 /\ outcome'[h] = "none"
    BY <2>1 DEF FirstInv
  <2> QED BY <2>1, <2>3, <2>4, <2>5, <1>f DEF FirstInv
<1>7. ASSUME UNCHANGED <<ready, calls>>, alive' \subseteq alive \cup {made + 1} PROVE FirstInv'
  BY <1>7, <1>f, <1>s, <1>n DEF ConnType, FirstInv
<1>8. ASSUME Connect \/ DisconnectBegins \/ DisconnectEnds \/ CancelAction \/ Publish \/ UNCHANGED vars
      PROVE  UNCHANGED <<ready, calls>> /\ alive' \subseteq alive \cup {made + 1}
  BY <1>8 DEF Connect, DisconnectBegins, DisconnectEnds, CancelAction, Publish, vars
<1>9. ASSUME NEW n \in Nodes, Thread(n) PROVE UNCHANGED <<ready, calls, alive>>
  BY <1>9 DEF Thread, ThreadEnds, CallbackBlocks, CallbackReturns, ThreadCrashes
<1>10. ASSUME NEW h \in Handles, Subscribe(h) \/ Unsubscribe(h) PROVE UNCHANGED <<ready, calls, alive>>
  BY <1>10 DEF Subscribe, Unsubscribe
<1>11. ASSUME NEW c \in Calls, RobotDecides(c) PROVE UNCHANGED <<ready, calls, alive>>
  BY <1>11 DEF RobotDecides
<1> QED
  BY <1>1, <1>2, <1>4, <1>5, <1>6, <1>7, <1>8, <1>9, <1>10, <1>11 DEF Next

\* Whatever arrives while the loop is busy, subscribe_once() returns the first
\* message, and it raises only if its node is gone.
THEOREM FirstMessageIsReturned == Spec => []FirstMessageWins
<1>1. TypeOK /\ NodeInv /\ CallInv /\ FirstInv /\ [Next]_vars => FirstInv'
  BY FirstStep
<1>2. FirstInv => FirstMessageWins
  BY DEF FirstInv, OnceInv, FirstMessageWins
<1> QED BY <1>1, <1>2, FirstInit, DdsTypeCorrect, NodesHold, CallsHold, PTL DEF Spec


-----------------------------------------------------------------------------
(* Every call ends *)

\* A thread that is joined has been told to stop; a call that awaits has a
\* future.
AwaitInv ==
    /\ joining => stop
    /\ \A c \in Calls : pc[c] \in Stages => fut[c] # "none"

JoinsOn(n) == joining /\ node = n
HasEnded(n) == thread[n] \in {"ended", "crashed"}

\* disconnect() waits for one thread, which does not begin another callback.
LEMMA JoinStep ==
    ASSUME TypeOK, NodeInv, AwaitInv, [Next]_vars, NEW n \in Nodes, JoinsOn(n)
    PROVE  /\ ~joining' \/ (JoinsOn(n)' /\ stop')
           /\ HasEnded(n) => HasEnded(n)'
           /\ thread[n] = "running" => thread'[n] = "running" \/ HasEnded(n)'
           /\ thread[n] = "busy" => thread'[n] \in {"busy", "running"}
<1> USE DEF JoinsOn, HasEnded, AwaitInv
<1>1. ASSUME UNCHANGED <<joining, node, stop, thread>> PROVE thread' = thread /\ JoinsOn(n)' /\ stop'
  BY <1>1
<1>2. CASE Connect \/ DisconnectBegins
  BY <1>2 DEF Connect, DisconnectBegins
<1>3. CASE DisconnectEnds
  BY <1>3 DEF DisconnectEnds
<1>4. ASSUME NEW m \in Nodes, Thread(m)
      PROVE  /\ JoinsOn(n)' /\ stop'
             /\ HasEnded(n) => HasEnded(n)'
             /\ thread[n] = "running" => thread'[n] = "running" \/ HasEnded(n)'
             /\ thread[n] = "busy" => thread'[n] \in {"busy", "running"}
  <2>1. /\ thread \in [Nodes -> {"none", "running", "busy", "ended", "crashed"}]
        /\ UNCHANGED <<joining, node, stop>>
    BY <1>4 DEF TypeOK, SpinType, Thread, ThreadEnds, CallbackBlocks, CallbackReturns, ThreadCrashes
  <2>2. \/ m = n /\ ~stop
        \/ thread'[n] = thread[n]
        \/ thread[n] = "running" /\ HasEnded(n)'
        \/ thread[n] = "busy" /\ thread'[n] = "running"
    BY <1>4, <2>1 DEF Thread, ThreadEnds, CallbackBlocks, CallbackReturns, ThreadCrashes
  <2> QED BY <2>1, <2>2
<1>5. ASSUME LoopRuns \/ CancelAction \/ Publish PROVE UNCHANGED <<joining, node, stop, thread>>
  BY <1>5 DEF LoopRuns, CancelAction, Publish
<1>6. ASSUME NEW c \in Calls,
             \/ \E k \in Kinds : Begin(c, k)
             \/ Coroutine(c) \/ CallerGivesUp(c) \/ OnMessage(c) \/ OnDone(c) \/ RobotDecides(c)
      PROVE  UNCHANGED <<joining, node, stop, thread>>
  BY <1>6 DEF Begin, CallerGivesUp, Coroutine, Found, Expire, Accepted, Answered, OnMessage, OnDone, RobotDecides
<1>7. ASSUME NEW h \in Handles, Subscribe(h) \/ Unsubscribe(h)
      PROVE  UNCHANGED <<joining, node, stop, thread>>
  BY <1>7 DEF Subscribe, Unsubscribe
<1>8. CASE UNCHANGED vars
  BY <1>1, <1>8 DEF vars
<1> QED
  BY <1>1, <1>2, <1>3, <1>4, <1>5, <1>6, <1>7, <1>8 DEF Next

\* Call c awaits at p, its future is f.
At(c, p, f) == pc[c] = p /\ fut[c] = f

\* A call moves on, or its future is set, and it never moves back.
CallMove(c) ==
    /\ pc[c] = "finding" =>
          \/ pc'[c] \in {"finding", "done"}
          \/ At(c, "accepting", "pending")' \/ At(c, "waiting", "pending")'
    /\ At(c, "accepting", "pending") =>
          At(c, "accepting", "pending")' \/ At(c, "accepting", "set")' \/ pc'[c] = "done"
    /\ At(c, "accepting", "set") =>
          At(c, "accepting", "set")' \/ At(c, "waiting", "pending")' \/ pc'[c] = "done"
    /\ At(c, "waiting", "pending") =>
          At(c, "waiting", "pending")' \/ At(c, "waiting", "set")' \/ pc'[c] = "done"
    /\ At(c, "waiting", "set") => At(c, "waiting", "set")' \/ pc'[c] = "done"

\* A step of the call itself moves it on.
LEMMA CoroutineMoves ==
    ASSUME TypeOK, NEW c \in Calls, Coroutine(c)
    PROVE  /\ CallMove(c)
           /\ pc[c] = "finding" => pc'[c] # "finding"
           /\ pc[c] \in Stages => pc'[c] # pc[c]
           /\ pc'[c] \in Stages => fut'[c] = "pending"
           /\ \A d \in Calls \ {c} : pc'[d] = pc[d] /\ fut'[d] = fut[d]
<1> USE DEF TypeOK, CallsType, CallMove, At
<1>1. CASE Found(c)
  BY <1>1 DEF Found, Ends
<1>2. CASE Expire(c)
  BY <1>2 DEF Expire, Ends
<1>3. CASE Accepted(c)
  BY <1>3 DEF Accepted, Ends
<1>4. CASE Answered(c)
  BY <1>4 DEF Answered, Ends
<1> QED BY <1>1, <1>2, <1>3, <1>4 DEF Coroutine

LEMMA EveryCallMoves ==
    ASSUME TypeOK, [Next]_vars, NEW c \in Calls
    PROVE  /\ pc[c] # "idle" => CallMove(c)
           /\ pc'[c] \in Stages => fut'[c] # "none" \/ (pc'[c] = pc[c] /\ fut'[c] = fut[c])
<1> USE DEF CallMove, At
<1>0. pc \in [Calls -> PcState] /\ fut \in [Calls -> {"none", "pending", "set"}]
  BY DEF TypeOK, CallsType
<1>1. ASSUME pc'[c] = pc[c], fut'[c] = fut[c] PROVE CallMove(c)
  BY <1>1
<1>2. ASSUME NEW d \in Calls, NEW k \in Kinds, Begin(d, k)
      PROVE  \/ pc[c] = "idle" /\ (pc'[c] = "waiting" => fut'[c] = "pending") /\ pc'[c] # "accepting"
             \/ pc'[c] = pc[c] /\ fut'[c] = fut[c]
  BY <1>0, <1>2 DEF Begin
<1>3. ASSUME LoopRuns
      PROVE  /\ pc'[c] = pc[c]
             /\ fut'[c] = fut[c] \/ (fut[c] = "pending" /\ fut'[c] = "set")
  <2>1. UNCHANGED pc /\ (fut' = fut \/ \E d : SetResult(d, Head(ready)[2]) /\ fut' = [fut EXCEPT ![d] = "set"])
    BY <1>3 DEF LoopRuns
  <2> QED BY <1>0, <2>1 DEF SetResult
<1>4. ASSUME NEW d \in Calls, Coroutine(d)
      PROVE  /\ CallMove(c)
             /\ pc'[c] \in Stages => fut'[c] # "none" \/ (pc'[c] = pc[c] /\ fut'[c] = fut[c])
  BY <1>1, <1>4, CoroutineMoves
<1>11. ASSUME NEW d \in Calls, CallerGivesUp(d)
       PROVE  pc'[c] = "done" \/ (pc'[c] = pc[c] /\ fut'[c] = fut[c])
  BY <1>0, <1>11 DEF CallerGivesUp, Ends
<1>5. ASSUME NEW d \in Calls, OnMessage(d) \/ OnDone(d) \/ RobotDecides(d) PROVE UNCHANGED <<pc, fut>>
  BY <1>5 DEF OnMessage, OnDone, RobotDecides
<1>6. ASSUME Connect \/ DisconnectBegins \/ DisconnectEnds \/ CancelAction \/ Publish
      PROVE  UNCHANGED <<pc, fut>>
  BY <1>6 DEF Connect, DisconnectBegins, DisconnectEnds, CancelAction, Publish
<1>7. ASSUME NEW n \in Nodes, Thread(n) PROVE UNCHANGED <<pc, fut>>
  BY <1>7 DEF Thread, ThreadEnds, CallbackBlocks, CallbackReturns, ThreadCrashes
<1>8. ASSUME NEW h \in Handles, Subscribe(h) \/ Unsubscribe(h) PROVE UNCHANGED <<pc, fut>>
  BY <1>8 DEF Subscribe, Unsubscribe
<1>9. CASE UNCHANGED vars
  BY <1>1, <1>9 DEF vars
<1>10. CASE LoopRuns
  BY <1>3, <1>10
<1> QED
  BY <1>1, <1>2, <1>4, <1>5, <1>6, <1>7, <1>8, <1>9, <1>10, <1>11 DEF Next

LEMMA AwaitStep == TypeOK /\ AwaitInv /\ [Next]_vars => AwaitInv'
<1> SUFFICES ASSUME TypeOK, AwaitInv, [Next]_vars PROVE AwaitInv'
  OBVIOUS
<1>1. \A c \in Calls : pc'[c] \in Stages => fut'[c] # "none"
  BY EveryCallMoves DEF AwaitInv
<1>2. joining' => stop'
  <2>1. CASE Connect \/ DisconnectBegins \/ DisconnectEnds
    BY <2>1 DEF Connect, DisconnectBegins, DisconnectEnds
  <2>2. ASSUME UNCHANGED <<joining, stop>> PROVE joining' => stop'
    BY <2>2 DEF AwaitInv
  <2>3. ASSUME LoopRuns \/ CancelAction \/ Publish PROVE UNCHANGED <<joining, stop>>
    BY <2>3 DEF LoopRuns, CancelAction, Publish
  <2>4. ASSUME NEW n \in Nodes, Thread(n) PROVE UNCHANGED <<joining, stop>>
    BY <2>4 DEF Thread, ThreadEnds, CallbackBlocks, CallbackReturns, ThreadCrashes
  <2>5. ASSUME NEW c \in Calls,
               \/ \E k \in Kinds : Begin(c, k)
               \/ Coroutine(c) \/ CallerGivesUp(c) \/ OnMessage(c) \/ OnDone(c) \/ RobotDecides(c)
        PROVE  UNCHANGED <<joining, stop>>
    BY <2>5 DEF Begin, CallerGivesUp, Coroutine, Found, Expire, Accepted, Answered, OnMessage, OnDone, RobotDecides
  <2>6. ASSUME NEW h \in Handles, Subscribe(h) \/ Unsubscribe(h) PROVE UNCHANGED <<joining, stop>>
    BY <2>6 DEF Subscribe, Unsubscribe
  <2>7. CASE UNCHANGED vars
    BY <2>2, <2>7 DEF vars
  <2> QED
    BY <2>1, <2>2, <2>3, <2>4, <2>5, <2>6, <2>7 DEF Next
<1> QED BY <1>1, <1>2 DEF AwaitInv

EndsInv == TypeOK /\ NodeInv /\ AwaitInv

LEMMA EndsInvHolds == Spec => []EndsInv
<1>1. Init => AwaitInv
  BY DEF Init, AwaitInv
<1> QED
  BY <1>1, AwaitStep, DdsTypeCorrect, NodesHold, PTL DEF Spec, EndsInv

\* Nothing but its own guard keeps a thread, a disconnect() or a call from its
\* next step: each assigns every variable once.  The provers cannot expand
\* ENABLED, so the theorem has this as a hypothesis.
ThreadCanEnd(n) == thread[n] = "running" /\ stop => ENABLED <<ThreadEnds(n)>>_vars
JoinCanEnd == joining /\ Joined => ENABLED <<DisconnectEnds>>_vars
CallCanGoOn(c) ==
    /\ ~joining
    /\ pc[c] = "finding" \/ (pc[c] \in Stages /\ fut[c] # "none")
    => ENABLED <<Coroutine(c)>>_vars
LoopCanGoOn ==
    /\ JoinCanEnd
    /\ \A n \in Nodes : ThreadCanEnd(n)
    /\ \A c \in Calls : CallCanGoOn(c)

JoinIsOver == <>~joining

\* join() returns: a thread that runs sees the event, one that has crashed is
\* over, and one that a callback holds is given up.
LEMMA JoinEnds ==
    []EndsInv /\ [][Next]_vars /\ []Fairness /\ []LoopCanGoOn => []<>~joining
<1> SUFFICES ASSUME []EndsInv, [][Next]_vars, []Fairness, []LoopCanGoOn PROVE []<>~joining
  OBVIOUS
<1>0. EndsInv /\ Fairness /\ LoopCanGoOn
  BY PTL
<1>1. ASSUME NEW n \in Nodes PROVE JoinsOn(n) => JoinIsOver
  <2> DEFINE Runs == thread[n] = "running"
             Held == thread[n] = "busy"
             Gone == HasEnded(n)
  <2>1. ThreadIsFair(n) /\ LoopIsFair
    BY <1>0 DEF Fairness
  <2>2. ThreadCanEnd(n) /\ JoinCanEnd
    BY <1>0 DEF LoopCanGoOn
  <2>3. EndsInv /\ JoinsOn(n) => joining /\ stop /\ (Runs \/ Held \/ Gone)
    BY DEF EndsInv, TypeOK, SpinType, NodeInv, AwaitInv, JoinsOn, HasEnded
  <2>4. EndsInv /\ [Next]_vars /\ JoinsOn(n) =>
           /\ ~joining' \/ JoinsOn(n)'
           /\ Gone => Gone'
           /\ Runs => Runs' \/ Gone'
           /\ Held => Held' \/ Runs'
    BY JoinStep DEF EndsInv
  <2>5. JoinsOn(n) /\ (Held \/ Gone) => Joined
    BY DEF JoinsOn, HasEnded, Joined
  <2>6. EndsInv /\ <<ThreadEnds(n)>>_vars => ~Runs'
    BY DEF EndsInv, TypeOK, SpinType, ThreadEnds
  <2>7. <<DisconnectEnds>>_vars => ~joining'
    BY DEF DisconnectEnds
  <2>8. (Runs <=> thread[n] = "running") /\ (Runs => ~Held)
    OBVIOUS
  <2> HIDE DEF Runs, Held, Gone
  <2> QED
    BY <2>1, <2>2, <2>3, <2>4, <2>5, <2>6, <2>7, <2>8, PTL
    DEF ThreadIsFair, LoopIsFair, ThreadCanEnd, JoinCanEnd, JoinIsOver
<1>2. joining => JoinIsOver
  <2>1. joining => \E n \in Nodes : JoinsOn(n)
    BY <1>0 DEF EndsInv, TypeOK, ConnType, NodeInv, JoinsOn
  <2> QED BY <1>1, <2>1
<1> QED BY <1>2, PTL DEF JoinIsOver

LEMMA CallEnds ==
    ASSUME NEW c \in Calls
    PROVE  []EndsInv /\ [][Next]_vars /\ []Fairness /\ []LoopCanGoOn
              => (pc[c] # "idle" ~> pc[c] = "done")
<1> SUFFICES ASSUME []EndsInv, [][Next]_vars, []Fairness, []LoopCanGoOn
             PROVE  pc[c] # "idle" ~> pc[c] = "done"
  OBVIOUS
<1> DEFINE Finds   == pc[c] = "finding"
           Accepts == At(c, "accepting", "pending")
           Agreed  == At(c, "accepting", "set")
           Waits   == At(c, "waiting", "pending")
           Has     == At(c, "waiting", "set")
           Done    == pc[c] = "done"
           Begun   == pc[c] # "idle"
<1>0. Fairness /\ LoopCanGoOn
  BY PTL
<1>1. CallIsFair(c) /\ CallCanGoOn(c)
  BY <1>0 DEF Fairness, LoopCanGoOn
<1>2. []<>~joining
  BY JoinEnds, PTL
<1>3. EndsInv /\ Begun => Finds \/ Accepts \/ Agreed \/ Waits \/ Has \/ Done
  BY DEF EndsInv, TypeOK, CallsType, AwaitInv, At
<1>4. EndsInv /\ [Next]_vars =>
         /\ Finds => Finds' \/ Accepts' \/ Waits' \/ Done'
         /\ Accepts => Accepts' \/ Agreed' \/ Done'
         /\ Agreed => Agreed' \/ Waits' \/ Done'
         /\ Waits => Waits' \/ Has' \/ Done'
         /\ Has => Has' \/ Done'
  BY EveryCallMoves DEF EndsInv, CallMove, At
<1>5. EndsInv /\ <<Coroutine(c)>>_vars =>
         /\ Finds => ~Finds'
         /\ Accepts => ~Accepts'
         /\ Agreed => ~Agreed'
         /\ Waits => ~Waits'
         /\ Has => ~Has'
  BY CoroutineMoves DEF EndsInv, At
<1>6. Finds \/ Accepts \/ Agreed \/ Waits \/ Has
         => pc[c] = "finding" \/ (pc[c] \in Stages /\ fut[c] # "none")
  BY DEF At
<1>7. (Begun <=> pc[c] # "idle") /\ (Done <=> pc[c] = "done")
  OBVIOUS
<1> HIDE DEF Finds, Accepts, Agreed, Waits, Has, Done, Begun
<1> QED
  BY <1>1, <1>2, <1>3, <1>4, <1>5, <1>6, <1>7, PTL DEF CallIsFair, CallCanGoOn

\* Every call ends, though its thread has crashed or is held by a callback, its
\* node is gone and the robot never answers: its own timers move it from await
\* to await, and disconnect() does not block the loop for ever.  Fairness is
\* assumed of every suffix of the behaviour, which is the same, but the
\* provers do not move a box through a quantifier.
THEOREM CallsEnd == Spec /\ []Fairness /\ []LoopCanGoOn => EveryCallEnds
<1>1. Spec => []EndsInv /\ [][Next]_vars
  BY EndsInvHolds, PTL DEF Spec
<1>2. []EndsInv /\ [][Next]_vars /\ []Fairness /\ []LoopCanGoOn => EveryCallEnds
  <2> SUFFICES ASSUME NEW c \in Calls
               PROVE  []EndsInv /\ [][Next]_vars /\ []Fairness /\ []LoopCanGoOn
                         => (pc[c] # "idle" ~> pc[c] = "done")
    BY DEF EveryCallEnds
  <2> QED BY CallEnds
<1> QED BY <1>1, <1>2, PTL
=============================================================================
