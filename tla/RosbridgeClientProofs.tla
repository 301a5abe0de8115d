----------------------- MODULE RosbridgeClientProofs -----------------------
(***************************************************************************)
(* Theorems about RosbridgeClient, for every set of calls, every set of    *)
(* requests and every bound on connections and attempts.                   *)
(***************************************************************************)
EXTENDS RosbridgeClient, FiniteSetTheorems, TLAPS

-----------------------------------------------------------------------------
(* The inductive invariants *)

\* The request table: who waits is registered and timed, and only a request
\* that was sent has an answer under way, on the socket it was sent on.
LedgerInv ==
    /\ NoStrandedRequest
    /\ \A r \in Requests : sentOn[r] # NoConn => future[r] # "unissued"
    /\ \A s \in Conns : \A r \in inbox[s] : sentOn[r] = s

Dialing(u) == call[u] = "dialing"

\* Connections are numbered as they are established.
Numbered ==
    \A s \in Conns : s > opened =>
        loop[s] = "none" /\ socket[s] = "unused" /\ redial[s] = "none"

\* At most one owner.
Exclusive ==
    /\ \A u, v \in ConnectCalls : Dialing(u) /\ Dialing(v) => u = v
    /\ \A s, t \in Conns :
          (LoopIsLive(s) \/ RedialIsLive(s)) /\ (LoopIsLive(t) \/ RedialIsLive(t)) => s = t
    /\ \A s \in Conns : ~(LoopIsLive(s) /\ RedialIsLive(s))
    /\ \A s \in Conns : \A u \in ConnectCalls :
          LoopIsLive(s) \/ RedialIsLive(s) => ~Dialing(u)

\* A live loop works for the connection the client holds.
LoopHolds ==
    \A s \in Conns :
        /\ LoopIsLive(s) => ws = s /\ receiveTask = s /\ attempts = 0
        /\ loop[s] = "reading" => loopWs[s] = s
        /\ loop[s] # "crashed"

\* Whoever dials does it without a connection; a reconnect task is known to
\* disconnect(), which clears the way before it sets intentionalClose.
DialerHolds ==
    /\ \A u \in ConnectCalls : Dialing(u) => ws = NoConn
    /\ \A s \in Conns :
          RedialIsLive(s) => ws = NoConn /\ reconnectTask = s /\ ~intentionalClose

\* The client's connection is being read, or was until disconnect() came.
SocketHolds ==
    /\ status = "connected" <=> ws # NoConn
    /\ ws # NoConn => LoopIsLive(ws) \/ loop[ws] = "cancelled"
    /\ \A s \in Conns : socket[s] = "open" => s = ws \/ s \in poisoned

\* While disconnect() is under way nobody else works for the client, but for
\* the loop it has cancelled.
ByeHolds ==
    \A d \in DisconnectCalls :
        /\ ByeIsLive(d) =>
              /\ \A u \in ConnectCalls : ~Dialing(u)
              /\ \A s \in Conns : ~RedialIsLive(s)
        /\ bye[d] = "joining" =>
              \A s \in Conns : LoopIsLive(s) => loop[s] = "cancelling" /\ byeOn[d] = s
        /\ bye[d] = "closing" =>
              /\ \A s \in Conns : ~LoopIsLive(s)
              /\ ws # NoConn => socket[ws] = "closed"

OwnerInv ==
    /\ Numbered
    /\ Exclusive
    /\ LoopHolds
    /\ DialerHolds
    /\ SocketHolds
    /\ ByeHolds
    /\ attempts <= 1

-----------------------------------------------------------------------------
(* Types *)

USE DEF clientVars, taskVars, loopVars, netVars, userVars, requestVars, ledgerVars,
        Statuses, SocketState, LoopState, RedialState, CallState, ByeState, Outcome

\* A loop that reads, reads a socket: what the type invariant needs to be
\* inductive.
ReadsSocket == \A s \in Conns : loop[s] = "reading" => loopWs[s] # NoConn

TypeInv == TypeOK /\ ReadsSocket

LEMMA ConnsType == Conns \subseteq Nat \ {NoConn}
  BY ClientAssumption DEF Conns, NoConn

\* Rejecting every waiting request keeps the table well-typed.
LEMMA RejectTypes ==
  ASSUME TypeOK, RejectAllPending
  PROVE  /\ future' \in [Requests -> Outcome]
         /\ pending' \subseteq Requests
         /\ armed' \subseteq Requests
  BY DEF TypeOK, RejectAllPending

LEMMA LoopTailTypes ==
  ASSUME TypeOK, NEW s \in Conns, LoopTail(s)
  PROVE  /\ loop' \in [Conns -> LoopState]
         /\ ws' \in Conns \cup {NoConn}
         /\ status' \in Statuses
         /\ attempts' \in Nat
         /\ reconnectTask' \in Conns \cup {NoConn}
         /\ redial' \in [Conns -> RedialState]
         /\ future' \in [Requests -> Outcome]
         /\ pending' \subseteq Requests
         /\ armed' \subseteq Requests
  <1>1. /\ loop' \in [Conns -> LoopState]
        /\ ws' \in Conns \cup {NoConn}
        /\ status' \in Statuses
    BY DEF TypeOK, LoopTail, ForgetSocket
  <1>2. /\ attempts' \in Nat
        /\ reconnectTask' \in Conns \cup {NoConn}
        /\ redial' \in [Conns -> RedialState]
    BY DEF TypeOK, LoopTail, ScheduleReconnect
  <1>3. QED  BY <1>1, <1>2, RejectTypes DEF LoopTail

LEMMA ConnectSucceedsTypes ==
  ASSUME TypeOK, ConnectSucceeds
  PROVE  /\ opened + 1 \in Conns
         /\ opened' \in 0 .. MaxConns
         /\ socket' \in [Conns -> SocketState]
         /\ loop' \in [Conns -> LoopState]
         /\ ws' \in Conns \cup {NoConn}
         /\ receiveTask' \in Conns \cup {NoConn}
         /\ attempts' \in Nat
         /\ status' \in Statuses
  BY ClientAssumption DEF TypeOK, ConnectSucceeds, ResetAttempts, Conns

LEMMA TypeInductive ==
  ASSUME TypeInv, [Next]_vars
  PROVE  TypeInv'
  <1> USE DEF TypeInv, TypeOK, ReadsSocket
  <1>1. ASSUME NEW u \in ConnectCalls, UserConnect(u) PROVE TypeInv'
    BY <1>1 DEF UserConnect, ConnectBegins
  <1>2. ASSUME NEW u \in ConnectCalls, UserConnected(u) PROVE TypeInv'
    BY <1>2, ConnectSucceedsTypes DEF UserConnected, ConnectSucceeds
  <1>3. ASSUME NEW u \in ConnectCalls, UserRefused(u) PROVE TypeInv'
    BY <1>3 DEF UserRefused, ConnectFails
  <1>4. ASSUME NEW d \in DisconnectCalls, Disconnect(d) PROVE TypeInv'
    <2>1. /\ reconnectTask' \in Conns \cup {NoConn}
          /\ redial' \in [Conns -> RedialState]
          /\ intentionalClose' \in BOOLEAN
      BY <1>4 DEF Disconnect, CancelReconnect
    <2>2. /\ bye' \in [DisconnectCalls -> ByeState]
          /\ byeOn' \in [DisconnectCalls -> Conns \cup {NoConn}]
          /\ status' \in Statuses
          /\ receiveTask' \in Conns \cup {NoConn}
          /\ socket' \in [Conns -> SocketState]
          /\ loop' \in [Conns -> LoopState]
      BY <1>4 DEF Disconnect, JoinReceiveLoop, CloseSocket, CloseWs
    <2>3. ReadsSocket'
      BY <1>4 DEF Disconnect, JoinReceiveLoop
    <2>4. QED  BY <1>4, <2>1, <2>2, <2>3, RejectTypes DEF Disconnect
  <1>5. ASSUME NEW d \in DisconnectCalls, DisconnectJoined(d) PROVE TypeInv'
    BY <1>5 DEF DisconnectJoined, CloseSocket, CloseWs
  <1>6. ASSUME NEW d \in DisconnectCalls, DisconnectClosed(d) PROVE TypeInv'
    BY <1>6 DEF DisconnectClosed
  <1>7. ASSUME NEW r \in Requests, Request(r) PROVE TypeInv'
    BY <1>7 DEF Request, StartTimer
  <1>8. ASSUME NEW r \in Requests, Expire(r) PROVE TypeInv'
    BY <1>8 DEF Expire, Complete
  <1>9. ASSUME NEW r \in Requests, CallerGivesUp(r) PROVE TypeInv'
    BY <1>9 DEF CallerGivesUp
  <1>10. ASSUME NEW s \in Conns, LoopStarts(s) PROVE TypeInv'
    <2>1. ReadsSocket' /\ loop' \in [Conns -> LoopState]
      BY <1>10 DEF LoopStarts, LoopTail
    <2>2. QED  BY <1>10, <2>1, LoopTailTypes DEF LoopStarts
  <1>11. ASSUME NEW s \in Conns, LoopEnds(s) PROVE TypeInv'
    <2>1. ReadsSocket'
      BY <1>11 DEF LoopEnds, LoopTail
    <2>2. QED  BY <1>11, <2>1, LoopTailTypes DEF LoopEnds
  <1>12. ASSUME NEW s \in Conns, LoopChokes(s) PROVE TypeInv'
    <2>1. poisoned' \subseteq Conns /\ ReadsSocket'
      BY <1>12 DEF LoopChokes, LoopTail
    <2>2. QED  BY <1>12, <2>1, LoopTailTypes DEF LoopChokes
  <1>13. ASSUME NEW s \in Conns, LoopCancelled(s) PROVE TypeInv'
    BY <1>13 DEF LoopCancelled
  <1>14. ASSUME NEW s \in Conns, RedialWakes(s) PROVE TypeInv'
    BY <1>14 DEF RedialWakes, ConnectBegins
  <1>15. ASSUME NEW s \in Conns, RedialConnected(s) PROVE TypeInv'
    BY <1>15, ConnectSucceedsTypes DEF RedialConnected, ConnectSucceeds
  <1>16. ASSUME NEW s \in Conns, RedialRefused(s) PROVE TypeInv'
    BY <1>16 DEF RedialRefused, ConnectFails
  <1>17. ASSUME NEW s \in Conns, NEW r \in Requests, LoopReads(s, r) PROVE TypeInv'
    BY <1>17 DEF LoopReads, ResolvePending, Complete
  <1>18. ASSUME NEW s \in Conns, ConnectionDrops(s) PROVE TypeInv'
    BY <1>18 DEF ConnectionDrops
  <1>19. ASSUME NEW s \in Conns, NEW r \in Requests, ServerAnswers(s, r) PROVE TypeInv'
    BY <1>19 DEF ServerAnswers
  <1>20. CASE UNCHANGED vars
    BY <1>20 DEF vars
  <1>21. QED
    BY <1>1, <1>2, <1>3, <1>4, <1>5, <1>6, <1>7, <1>8, <1>9, <1>10, <1>11, <1>12, <1>13,
       <1>14, <1>15, <1>16, <1>17, <1>18, <1>19, <1>20
       DEF Next, UserStep, RequestStep, TaskStep, NetworkStep

LEMMA InitTypes ==
  ASSUME Init
  PROVE  TypeInv
  <1>1. opened \in 0 .. MaxConns /\ attempts \in Nat
    BY ClientAssumption DEF Init
  <1>2. QED  BY <1>1 DEF Init, TypeInv, TypeOK, ReadsSocket

\* The variables of the client keep their types: in particular the attempt
\* counter never leaves the naturals and a task handle always names a task
\* that was created, or none.
THEOREM TypeCorrect == Spec => []TypeOK
  <1>1. Init => TypeInv
    BY InitTypes
  <1>2. TypeInv => TypeOK
    BY DEF TypeInv
  <1>3. QED  BY <1>1, <1>2, TypeInductive, PTL DEF Spec

-----------------------------------------------------------------------------
(* Requests *)

\* What one step of the client can do to the request table.
LEMMA LedgerStep ==
  ASSUME [Next]_vars
  PROVE  \/ UNCHANGED requestVars
         \/ RejectAllPending /\ UNCHANGED <<sentOn, inbox>>
         \/ \E r \in Requests : Request(r) \/ Expire(r) \/ CallerGivesUp(r)
         \/ \E s \in Conns, r \in Requests : LoopReads(s, r) \/ ServerAnswers(s, r)
  <1>1. ASSUME UserStep PROVE \/ UNCHANGED requestVars
                              \/ RejectAllPending /\ UNCHANGED <<sentOn, inbox>>
    BY <1>1 DEF UserStep, UserConnect, UserConnected, UserRefused, ConnectSucceeds,
                ConnectFails, Disconnect, DisconnectJoined, DisconnectClosed
  <1>2. ASSUME NEW s \in Conns,
               \/ LoopStarts(s) \/ LoopEnds(s) \/ LoopChokes(s) \/ LoopCancelled(s)
               \/ RedialWakes(s) \/ RedialConnected(s) \/ RedialRefused(s)
        PROVE  \/ UNCHANGED requestVars
               \/ RejectAllPending /\ UNCHANGED <<sentOn, inbox>>
    BY <1>2 DEF LoopStarts, LoopEnds, LoopChokes, LoopCancelled, LoopTail, RedialWakes,
                RedialConnected, RedialRefused, ConnectSucceeds, ConnectFails
  <1>3. ASSUME NEW s \in Conns, ConnectionDrops(s) PROVE UNCHANGED requestVars
    BY <1>3 DEF ConnectionDrops
  <1>4. CASE UNCHANGED vars
    BY <1>4 DEF vars
  <1>5. QED  BY <1>1, <1>2, <1>3, <1>4 DEF Next, RequestStep, TaskStep, NetworkStep

LEMMA LedgerInductive ==
  ASSUME TypeInv, LedgerInv, [Next]_vars
  PROVE  LedgerInv'
  <1> USE DEF LedgerInv, NoStrandedRequest, TypeInv, TypeOK
  <1>1. CASE UNCHANGED requestVars
    BY <1>1
  <1>2. CASE RejectAllPending /\ UNCHANGED <<sentOn, inbox>>
    BY <1>2 DEF RejectAllPending
  <1>3. ASSUME NEW r \in Requests, Request(r) PROVE LedgerInv'
    BY <1>3, ConnsType DEF Request, StartTimer
  <1>4. ASSUME NEW r \in Requests, Expire(r) PROVE LedgerInv'
    BY <1>4 DEF Expire, Complete
  <1>5. ASSUME NEW r \in Requests, CallerGivesUp(r) PROVE LedgerInv'
    BY <1>5 DEF CallerGivesUp
  <1>6. ASSUME NEW s \in Conns, NEW r \in Requests, LoopReads(s, r) PROVE LedgerInv'
    BY <1>6 DEF LoopReads, ResolvePending, Complete
  <1>7. ASSUME NEW s \in Conns, NEW r \in Requests, ServerAnswers(s, r) PROVE LedgerInv'
    BY <1>7 DEF ServerAnswers
  <1>8. QED  BY <1>1, <1>2, <1>3, <1>4, <1>5, <1>6, <1>7, LedgerStep

LEMMA LedgerCorrect == Spec => [](TypeInv /\ LedgerInv)
  <1>1. Init => TypeInv /\ LedgerInv
    BY InitTypes DEF Init, LedgerInv, NoStrandedRequest
  <1>2. TypeInv /\ LedgerInv /\ [Next]_vars => (TypeInv /\ LedgerInv)'
    BY TypeInductive, LedgerInductive
  <1>3. QED  BY <1>1, <1>2, PTL DEF Spec

\* Whoever waits is in the table and timed, however connections come and go
\* and however often connect() and disconnect() are called.
THEOREM NobodyStranded == Spec => []NoStrandedRequest
  <1>1. LedgerInv => NoStrandedRequest
    BY DEF LedgerInv
  <1>2. QED  BY <1>1, LedgerCorrect, PTL

\* No future is completed twice.
THEOREM OutcomesAreFinal == Spec => ResolvedOnce
  <1> DEFINE Final == \A r \in Requests :
                 future[r] \notin {"unissued", "waiting"} => future'[r] = future[r]
  <1>1. ASSUME TypeInv, [Next]_vars PROVE Final
    <2> USE <1>1 DEF TypeInv, TypeOK
    <2>1. CASE UNCHANGED requestVars
      BY <2>1
    <2>2. CASE RejectAllPending
      BY <2>2 DEF RejectAllPending
    <2>3. ASSUME NEW r \in Requests, Request(r) \/ Expire(r) \/ CallerGivesUp(r)
          PROVE  Final
      BY <2>3 DEF Request, Expire, CallerGivesUp, Complete
    <2>4. ASSUME NEW s \in Conns, NEW r \in Requests, LoopReads(s, r) PROVE Final
      BY <2>4 DEF LoopReads, ResolvePending, Complete
    <2>5. ASSUME NEW s \in Conns, NEW r \in Requests, ServerAnswers(s, r) PROVE Final
      BY <2>5 DEF ServerAnswers
    <2>6. QED  BY <2>1, <2>2, <2>3, <2>4, <2>5, LedgerStep
  <1>2. TypeInv /\ [Next]_vars => [Final]_vars
    BY <1>1
  <1>3. QED  BY <1>2, LedgerCorrect, PTL DEF Spec, ResolvedOnce

-----------------------------------------------------------------------------
(* Every request settles *)

\* A timer that is armed can fire: Expire(r) has no other guard, and assigns
\* every variable once.  The provers cannot expand ENABLED, so the theorem has
\* this as a hypothesis.
TimerCanFire(r) == [](r \in armed => ENABLED <<Expire(r)>>_vars)

LEMMA TimerSettles ==
  ASSUME NEW r \in Requests
  PROVE  Spec /\ TimerIsFair(r) /\ TimerCanFire(r)
            => ((future[r] = "waiting") ~> (future[r] # "waiting"))
  <1>1. TypeInv /\ LedgerInv /\ future[r] = "waiting" => r \in armed
    BY DEF LedgerInv, NoStrandedRequest
  <1>2. TypeInv /\ LedgerInv /\ future[r] = "waiting" /\ <<Expire(r)>>_vars
           => (future[r] # "waiting")'
    BY DEF LedgerInv, NoStrandedRequest, Expire, Complete, TypeInv, TypeOK
  <1>3. (future[r] # "waiting") <=> ~(future[r] = "waiting")
    OBVIOUS
  <1>4. QED
    BY <1>1, <1>2, <1>3, LedgerCorrect, PTL DEF Spec, TimerIsFair, TimerCanFire

\* Whoever waits is released, though the connection is lost, the answer never
\* comes and nobody disconnects: the timer alone is enough, because whoever
\* waits has one that is armed.
THEOREM NobodyWaitsForever ==
  FairSpec /\ (\A r \in Requests : TimerCanFire(r)) => EveryRequestSettles
  <1>1. FairSpec => Spec /\ \A r \in Requests : TimerIsFair(r)
    BY PTL DEF FairSpec, Fairness
  <1>2. Spec /\ (\A r \in Requests : TimerIsFair(r)) /\ (\A r \in Requests : TimerCanFire(r))
           => EveryRequestSettles
    <2>1. SUFFICES ASSUME NEW r \in Requests
                   PROVE  Spec /\ TimerIsFair(r) /\ TimerCanFire(r)
                             => ((future[r] = "waiting") ~> (future[r] # "waiting"))
      BY DEF EveryRequestSettles
    <2>2. QED  BY TimerSettles
  <1>3. QED  BY <1>1, <1>2, PTL

-----------------------------------------------------------------------------
(* disconnect() returns *)

\* A disconnect() that joins, joins a loop that was told to end.
JoinInv ==
    /\ \A s \in Conns : s > opened => loop[s] = "none"
    /\ \A d \in DisconnectCalls :
          bye[d] = "joining" =>
            byeOn[d] \in Conns /\ loop[byeOn[d]] \in {"cancelling", "cancelled"}

\* disconnect() d waits for its loop; the loop is s; it has seen its loop end.
Joins(d)     == bye[d] = "joining" /\ LoopIsLive(byeOn[d])
JoinsOn(d, s) == Joins(d) /\ byeOn[d] = s
Joined(d)    == bye[d] = "joining" /\ ~LoopIsLive(byeOn[d])

\* What one step can do to the receive loop of connection s, and to a
\* disconnect() d.
LoopMove(s) ==
    \/ loop'[s] = loop[s]
    \/ loop[s] \in {"created", "reading"}
    \/ loop[s] = "cancelling" /\ loop'[s] = "cancelled"
    \/ s = opened + 1 /\ opened' = s

ByeMove(d) ==
    \/ bye'[d] = bye[d] /\ byeOn'[d] = byeOn[d]
    \/ /\ bye[d] = "idle"
       /\ bye'[d] = "joining" => byeOn'[d] \in Conns /\ loop'[byeOn'[d]] = "cancelling"
    \/ Joined(d) /\ bye'[d] \in {"closing", "done"}
    \/ bye[d] = "closing" /\ bye'[d] = "done"

Moves == /\ opened' >= opened
         /\ \A s \in Conns : LoopMove(s)
         /\ \A d \in DisconnectCalls : ByeMove(d)

LEMMA EveryStepMoves == ASSUME TypeInv, [Next]_vars PROVE Moves
  <1> USE ConnsType, ClientAssumption DEF TypeInv, TypeOK, LoopIsLive
  <1>1. ASSUME opened' = opened, UNCHANGED <<loop, bye, byeOn>> PROVE Moves
    BY <1>1 DEF Moves, LoopMove, ByeMove
  <1>2. ASSUME ConnectSucceeds PROVE Moves
    BY <1>2 DEF ConnectSucceeds, Moves, LoopMove, ByeMove
  <1>3. ASSUME NEW u \in ConnectCalls, UserConnect(u) \/ UserConnected(u) \/ UserRefused(u)
        PROVE  Moves
    <2>1. CASE UserConnected(u)
      BY <1>2, <2>1 DEF UserConnected
    <2>2. QED
      BY <1>1, <1>3, <2>1 DEF UserConnect, UserRefused, ConnectFails
  <1>4. ASSUME NEW e \in DisconnectCalls, Disconnect(e) PROVE Moves
    <2>1. opened' = opened /\ \A s \in Conns : LoopMove(s)
      BY <1>4 DEF Disconnect, JoinReceiveLoop, LoopMove
    <2>2. \A d \in DisconnectCalls : ByeMove(d)
      <3>1. ASSUME NEW d \in DisconnectCalls, d # e PROVE ByeMove(d)
        BY <1>4, <3>1 DEF Disconnect, JoinReceiveLoop, CloseSocket, ByeMove
      <3>2. ByeMove(e)
        BY <1>4 DEF Disconnect, JoinReceiveLoop, CloseSocket, ByeMove
      <3>3. QED  BY <3>1, <3>2
    <2>3. QED  BY <2>1, <2>2 DEF Moves
  <1>5. ASSUME NEW e \in DisconnectCalls, DisconnectJoined(e) PROVE Moves
    BY <1>5 DEF DisconnectJoined, CloseSocket, Moves, LoopMove, ByeMove, Joined
  <1>6. ASSUME NEW e \in DisconnectCalls, DisconnectClosed(e) PROVE Moves
    BY <1>6 DEF DisconnectClosed, Moves, LoopMove, ByeMove
  <1>7. ASSUME RequestStep \/ NetworkStep PROVE Moves
    BY <1>1, <1>7 DEF RequestStep, NetworkStep, Request, Expire, CallerGivesUp, ConnectionDrops,
                      ServerAnswers
  <1>8. ASSUME NEW s \in Conns,
               LoopStarts(s) \/ LoopEnds(s) \/ LoopChokes(s) \/ LoopCancelled(s)
        PROVE  Moves
    <2>1. opened' = opened /\ UNCHANGED <<bye, byeOn>>
      BY <1>8 DEF LoopStarts, LoopEnds, LoopChokes, LoopCancelled
    <2>2. \A t \in Conns : LoopMove(t)
      BY <1>8 DEF LoopStarts, LoopEnds, LoopChokes, LoopCancelled, LoopTail, LoopMove
    <2>3. QED  BY <2>1, <2>2 DEF Moves, ByeMove
  <1>9. ASSUME NEW s \in Conns, RedialWakes(s) \/ RedialConnected(s) \/ RedialRefused(s)
        PROVE  Moves
    <2>1. CASE RedialConnected(s)
      BY <1>2, <2>1 DEF RedialConnected
    <2>2. QED
      BY <1>1, <1>9, <2>1 DEF RedialWakes, RedialRefused, ConnectFails
  <1>10. ASSUME NEW s \in Conns, NEW r \in Requests, LoopReads(s, r) PROVE Moves
    BY <1>1, <1>10 DEF LoopReads
  <1>11. CASE UNCHANGED vars
    BY <1>1, <1>11 DEF vars
  <1>12. QED
    BY <1>3, <1>4, <1>5, <1>6, <1>7, <1>8, <1>9, <1>10, <1>11 DEF Next, UserStep, TaskStep

LEMMA JoinInductive ==
  ASSUME TypeInv, JoinInv, [Next]_vars
  PROVE  JoinInv'
  <1>1. Moves
    BY EveryStepMoves
  <1>2. opened \in Nat /\ opened' \in Nat /\ Conns \subseteq Nat
    BY TypeInductive, ConnsType, ClientAssumption DEF TypeInv, TypeOK
  <1>3. ASSUME NEW s \in Conns, s > opened' PROVE loop'[s] = "none"
    BY <1>1, <1>2, <1>3 DEF Moves, LoopMove, JoinInv
  <1>4. ASSUME NEW d \in DisconnectCalls, bye'[d] = "joining"
        PROVE  byeOn'[d] \in Conns /\ loop'[byeOn'[d]] \in {"cancelling", "cancelled"}
    <2>1. CASE bye[d] = "joining" /\ byeOn'[d] = byeOn[d]
      <3>1. byeOn[d] \in Conns /\ loop[byeOn[d]] \in {"cancelling", "cancelled"} /\ ~(byeOn[d] > opened)
        BY <2>1 DEF JoinInv
      <3>2. LoopMove(byeOn[d])
        BY <1>1, <3>1 DEF Moves
      <3>3. QED  BY <1>2, <2>1, <3>1, <3>2 DEF LoopMove
    <2>2. QED  BY <1>1, <1>4, <2>1 DEF Moves, ByeMove, Joined
  <1>5. QED  BY <1>3, <1>4 DEF JoinInv

LEMMA JoinCorrect == Spec => [](TypeInv /\ JoinInv)
  <1>1. Init => JoinInv
    BY DEF Init, JoinInv
  <1>2. QED  BY <1>1, InitTypes, TypeInductive, JoinInductive, PTL DEF Spec

LEMMA ByeStep ==
  ASSUME TypeInv, JoinInv, [Next]_vars, NEW d \in DisconnectCalls
  PROVE  /\ \A s \in Conns : JoinsOn(d, s) => JoinsOn(d, s)' \/ ~Joins(d)'
         /\ Joins(d) => Joins(d)' \/ Joined(d)'
         /\ Joined(d) => Joined(d)' \/ bye'[d] \in {"closing", "done"}
         /\ bye[d] = "closing" => bye'[d] \in {"closing", "done"}
  <1>1. ByeMove(d)
    BY EveryStepMoves DEF Moves
  <1>2. ASSUME bye[d] = "joining" PROVE loop'[byeOn[d]] \in {loop[byeOn[d]], "cancelled"}
    <2>1. byeOn[d] \in Conns /\ loop[byeOn[d]] \in {"cancelling", "cancelled"} /\ ~(byeOn[d] > opened)
      BY <1>2 DEF JoinInv
    <2>2. LoopMove(byeOn[d])
      BY <2>1, EveryStepMoves DEF Moves
    <2>3. opened \in Nat /\ Conns \subseteq Nat
      BY ConnsType, ClientAssumption DEF TypeInv, TypeOK
    <2>4. QED  BY <2>1, <2>2, <2>3 DEF LoopMove
  <1>3. QED  BY <1>1, <1>2 DEF ByeMove, Joins, JoinsOn, Joined, LoopIsLive

\* Nothing but its own guard keeps a disconnect(), or the loop it has told to
\* end, from its next step: each assigns every variable once.  The provers
\* cannot expand ENABLED, so the theorem has this as a hypothesis.
LoopCanEnd(s) == loop[s] = "cancelling" => ENABLED <<LoopCancelled(s)>>_vars
ByeCanGoOn(d) == /\ Joined(d) => ENABLED <<DisconnectJoined(d)>>_vars
                 /\ bye[d] = "closing" => ENABLED <<DisconnectClosed(d)>>_vars
DisconnectCanGoOn == /\ \A s \in Conns : LoopCanEnd(s)
                     /\ \A d \in DisconnectCalls : ByeCanGoOn(d)

HasJoined(d) == <>~Joins(d)

LEMMA ByeEnds ==
  ASSUME NEW d \in DisconnectCalls
  PROVE  /\ [](TypeInv /\ JoinInv) /\ [][Next]_vars
         /\ []Fairness /\ []DisconnectCanGoOn
         => (ByeIsLive(d) ~> ~ByeIsLive(d))
  <1> SUFFICES ASSUME [](TypeInv /\ JoinInv), [][Next]_vars, []Fairness, []DisconnectCanGoOn
               PROVE  ByeIsLive(d) ~> ~ByeIsLive(d)
    OBVIOUS
  <1>0. Fairness /\ DisconnectCanGoOn /\ TypeInv /\ JoinInv
    BY PTL
  <1>1. ASSUME NEW s \in Conns PROVE JoinsOn(d, s) => HasJoined(d)
    <2>1. LoopIsFair(s) /\ LoopCanEnd(s)
      BY <1>0 DEF Fairness, DisconnectCanGoOn
    <2>2. TypeInv /\ JoinInv /\ [Next]_vars /\ JoinsOn(d, s) => JoinsOn(d, s)' \/ ~Joins(d)'
      BY ByeStep
    <2>3. JoinInv /\ JoinsOn(d, s) => loop[s] = "cancelling"
      BY DEF JoinInv, JoinsOn, Joins, LoopIsLive
    <2>4. TypeInv /\ JoinsOn(d, s) /\ <<LoopCancelled(s)>>_vars => ~Joins(d)'
      BY DEF TypeInv, TypeOK, LoopCancelled, JoinsOn, Joins, LoopIsLive
    <2>5. JoinsOn(d, s) => Joins(d)
      BY DEF JoinsOn
    <2>6. QED
      BY <2>1, <2>2, <2>3, <2>4, <2>5, PTL DEF LoopIsFair, LoopCanEnd, HasJoined
  <1>2. Joins(d) => HasJoined(d)
    <2>1. Joins(d) => \E s \in Conns : JoinsOn(d, s)
      BY <1>0 DEF JoinInv, Joins, JoinsOn
    <2>2. QED  BY <1>1, <2>1
  <1>3. DisconnectIsFair(d) /\ ByeCanGoOn(d)
    BY <1>0 DEF Fairness, DisconnectCanGoOn
  <1>4. TypeInv /\ JoinInv /\ [Next]_vars =>
           /\ Joins(d) => Joins(d)' \/ Joined(d)'
           /\ Joined(d) => Joined(d)' \/ (bye[d] = "closing")' \/ (bye[d] = "done")'
           /\ bye[d] = "closing" => (bye[d] = "closing")' \/ (bye[d] = "done")'
    BY ByeStep
  <1>5. TypeInv /\ <<DisconnectJoined(d)>>_vars => ~Joined(d)'
    BY DEF TypeInv, TypeOK, DisconnectJoined, CloseSocket, Joined
  <1>6. TypeInv /\ <<DisconnectClosed(d)>>_vars => ~(bye[d] = "closing")'
    BY DEF TypeInv, TypeOK, DisconnectClosed
  <1>7. /\ ByeIsLive(d) <=> Joins(d) \/ Joined(d) \/ bye[d] = "closing"
        /\ bye[d] = "done" => ~ByeIsLive(d)
    BY DEF ByeIsLive, Joins, Joined
  <1>8. QED
    BY <1>2, <1>3, <1>4, <1>5, <1>6, <1>7, PTL DEF HasJoined, DisconnectIsFair, ByeCanGoOn

\* disconnect() returns, whoever else calls it or connects meanwhile: the loop
\* it has told to end ends, nobody revives it, and closing has an ending.
\* Fairness is assumed of every suffix of the behaviour, which is the same, but
\* the provers do not move a box through a quantifier.
THEOREM DisconnectsReturn ==
  Spec /\ []Fairness /\ []DisconnectCanGoOn => DisconnectReturns
  <1>1. Spec => [](TypeInv /\ JoinInv) /\ [][Next]_vars
    BY JoinCorrect, PTL DEF Spec
  <1>2. [](TypeInv /\ JoinInv) /\ [][Next]_vars /\ []Fairness /\ []DisconnectCanGoOn
           => DisconnectReturns
    <2>1. SUFFICES ASSUME NEW d \in DisconnectCalls
                   PROVE  /\ [](TypeInv /\ JoinInv) /\ [][Next]_vars
                          /\ []Fairness /\ []DisconnectCanGoOn
                          => (ByeIsLive(d) ~> ~ByeIsLive(d))
      BY DEF DisconnectReturns
    <2>2. QED  BY ByeEnds
  <1>3. QED  BY <1>1, <1>2, PTL

-----------------------------------------------------------------------------
(* A loss is noticed *)

Left(s)      == Cardinality(inbox[s])
Drains(t, s) == loop[t] = "reading" /\ loopWs[t] = s /\ socket[s] = "closed"
SomeByeIsLive == \E d \in DisconnectCalls : ByeIsLive(d)

\* The client's socket is read, or will be, or is about to be closed.
HeldInv ==
    /\ ws # NoConn =>
          \/ \E t \in Conns : loop[t] = "created"
          \/ \E t \in Conns : loop[t] = "reading" /\ loopWs[t] = ws
          \/ SomeByeIsLive
    /\ ws <= opened
    /\ \A s \in Conns : s > opened => socket[s] = "unused"
    /\ \A s \in Conns : IsFiniteSet(inbox[s])

\* What one step can do to a loop, to a socket and to what it has delivered.
LossMove(s) ==
    /\ ws' # NoConn => ws' = ws \/ (ws' = opened' /\ loop'[ws'] = "created")
    /\ opened' >= opened
    /\ socket[s] = "closed" => socket'[s] = "closed" /\ inbox'[s] \subseteq inbox[s]
    /\ \A t \in Conns :
          /\ loop[t] = "created" =>
                \/ loop'[t] = "created" \/ ws' = NoConn \/ SomeByeIsLive'
                \/ ws' = ws /\ loop'[t] = "reading" /\ loopWs'[t] = ws'
          /\ loop[t] = "reading" =>
                \/ loop'[t] = "reading" /\ loopWs'[t] = loopWs[t]
                \/ ws' = NoConn \/ SomeByeIsLive'
    /\ \A d \in DisconnectCalls : ByeIsLive(d) => ByeIsLive(d)' \/ ws' = NoConn

LEMMA EveryStepMovesLoss ==
  ASSUME TypeInv, JoinInv, HeldInv, [Next]_vars, NEW s \in Conns
  PROVE  LossMove(s)
  <1> USE ConnsType, ClientAssumption DEF TypeInv, TypeOK, LossMove, SomeByeIsLive
  <1>0. opened \in Nat /\ Conns \subseteq Nat
    OBVIOUS
  <1>1. ASSUME UNCHANGED <<loop, loopWs, ws, bye, opened>>,
               socket[s] = "closed" => socket'[s] = "closed" /\ inbox'[s] \subseteq inbox[s]
        PROVE  LossMove(s)
    BY <1>1 DEF ByeIsLive
  <1>2. ASSUME ConnectSucceeds PROVE LossMove(s)
    <2>1. opened + 1 \in Conns /\ loop[opened + 1] = "none" /\ socket[opened + 1] = "unused"
      BY <1>0, <1>2, ConnectSucceedsTypes DEF JoinInv, HeldInv
    <2>2. loop' = [loop EXCEPT ![opened + 1] = "created"] /\ ws' = opened + 1 /\ opened' = opened + 1
      BY <1>2 DEF ConnectSucceeds
    <2>3. UNCHANGED <<loopWs, bye, inbox>> /\ socket' = [socket EXCEPT ![opened + 1] = "open"]
      BY <1>2 DEF ConnectSucceeds
    <2>4. QED  BY <2>1, <2>2, <2>3 DEF ByeIsLive
  <1>3. ASSUME NEW u \in ConnectCalls, UserConnect(u) \/ UserConnected(u) \/ UserRefused(u)
        PROVE  LossMove(s)
    <2>1. CASE UserConnected(u)
      BY <1>2, <2>1 DEF UserConnected
    <2>2. QED
      BY <1>1, <1>3, <2>1 DEF UserConnect, UserRefused, ConnectFails
  <1>4. ASSUME NEW e \in DisconnectCalls, Disconnect(e) PROVE LossMove(s)
    <2>1. UNCHANGED <<ws, loopWs, inbox, opened>> /\ (socket[s] = "closed" => socket'[s] = "closed")
      BY <1>4 DEF Disconnect, JoinReceiveLoop, CloseSocket, CloseWs
    <2>2. loop' = loop \/ SomeByeIsLive'
      BY <1>4 DEF Disconnect, JoinReceiveLoop, ByeIsLive
    <2>3. \A d \in DisconnectCalls : ByeIsLive(d) => ByeIsLive(d)'
      BY <1>4 DEF Disconnect, JoinReceiveLoop, CloseSocket, ByeIsLive
    <2>4. QED  BY <2>1, <2>2, <2>3
  <1>5. ASSUME NEW e \in DisconnectCalls, DisconnectJoined(e) PROVE LossMove(s)
    <2>1. UNCHANGED <<ws, loop, loopWs, inbox, opened>> /\ (socket[s] = "closed" => socket'[s] = "closed")
      BY <1>5 DEF DisconnectJoined, CloseSocket, CloseWs
    <2>2. \A d \in DisconnectCalls : ByeIsLive(d) => ByeIsLive(d)' \/ ws' = NoConn
      BY <1>5 DEF DisconnectJoined, CloseSocket, ByeIsLive
    <2>3. QED  BY <2>1, <2>2
  <1>6. ASSUME NEW e \in DisconnectCalls, DisconnectClosed(e) PROVE LossMove(s)
    BY <1>6 DEF DisconnectClosed, ByeIsLive
  <1>7. ASSUME RequestStep PROVE LossMove(s)
    BY <1>1, <1>7 DEF RequestStep, Request, Expire, CallerGivesUp
  <1>8. ASSUME NEW t \in Conns, ConnectionDrops(t) PROVE LossMove(s)
    BY <1>1, <1>8 DEF ConnectionDrops
  <1>9. ASSUME NEW t \in Conns, NEW r \in Requests, ServerAnswers(t, r) PROVE LossMove(s)
    BY <1>1, <1>9 DEF ServerAnswers
  <1>10. ASSUME NEW t \in Conns, LoopTail(t), UNCHANGED <<loopWs, bye, inbox, socket, opened>>
         PROVE  LossMove(s)
    BY <1>10 DEF LoopTail, ForgetSocket, ByeIsLive
  <1>11. ASSUME NEW t \in Conns, LoopStarts(t) PROVE LossMove(s)
    <2>1. UNCHANGED <<bye, inbox, socket, opened>>
      BY <1>11 DEF LoopStarts
    <2>2. CASE ws = NoConn /\ loop' = [loop EXCEPT ![t] = "crashed"] /\ UNCHANGED <<ws, loopWs>>
      BY <2>1, <2>2 DEF ByeIsLive
    <2>3. CASE LoopTail(t) /\ UNCHANGED loopWs
      BY <1>10, <2>1, <2>3
    <2>4. CASE /\ loop' = [loop EXCEPT ![t] = "reading"]
               /\ loopWs' = [loopWs EXCEPT ![t] = ws]
               /\ ws' = ws
               /\ loop[t] = "created"
      BY <2>1, <2>4 DEF ByeIsLive
    <2>5. QED  BY <1>11, <2>2, <2>3, <2>4 DEF LoopStarts
  <1>12. ASSUME NEW t \in Conns, LoopEnds(t) \/ LoopChokes(t) PROVE LossMove(s)
    BY <1>10, <1>12 DEF LoopEnds, LoopChokes
  <1>13. ASSUME NEW t \in Conns, LoopCancelled(t) PROVE LossMove(s)
    BY <1>13 DEF LoopCancelled, ByeIsLive
  <1>14. ASSUME NEW t \in Conns, NEW r \in Requests, LoopReads(t, r) PROVE LossMove(s)
    BY <1>1, <1>14 DEF LoopReads
  <1>15. ASSUME NEW t \in Conns, RedialWakes(t) \/ RedialConnected(t) \/ RedialRefused(t)
         PROVE  LossMove(s)
    <2>1. CASE RedialConnected(t)
      BY <1>2, <2>1 DEF RedialConnected
    <2>2. QED
      BY <1>1, <1>15, <2>1 DEF RedialWakes, RedialRefused, ConnectFails
  <1>16. CASE UNCHANGED vars
    BY <1>1, <1>16 DEF vars
  <1>17. QED
    BY <1>3, <1>4, <1>5, <1>6, <1>7, <1>8, <1>9, <1>11, <1>12, <1>13, <1>14, <1>15, <1>16
       DEF Next, UserStep, TaskStep, NetworkStep

\* Sockets are used in order, and hold finitely many answers.
LEMMA SocketsStep ==
  ASSUME TypeInv, HeldInv, [Next]_vars, NEW s \in Conns
  PROVE  /\ s > opened' => socket'[s] = "unused"
         /\ IsFiniteSet(inbox'[s])
  <1> USE ConnsType, ClientAssumption DEF TypeInv, TypeOK
  <1>0. opened \in Nat /\ Conns \subseteq Nat /\ IsFiniteSet(inbox[s])
    BY DEF HeldInv
  <1>1. opened' \in Nat /\ opened' >= opened /\ (s > opened' => socket'[s] = socket[s])
    <2>1. CASE UNCHANGED <<opened, socket>>
      BY <1>0, <2>1
    <2>2. ASSUME ConnectSucceeds
          PROVE  opened' = opened + 1 /\ (s > opened' => socket'[s] = socket[s])
      BY <1>0, <2>2 DEF ConnectSucceeds
    <2>3. ASSUME NEW u \in ConnectCalls, UserConnect(u) \/ UserRefused(u)
          PROVE  UNCHANGED <<opened, socket>>
      BY <2>3 DEF UserConnect, UserRefused, ConnectFails
    <2>4. ASSUME NEW u \in ConnectCalls, UserConnected(u) PROVE ConnectSucceeds
      BY <2>4 DEF UserConnected
    <2>5. ASSUME NEW t \in Conns, RedialConnected(t) PROVE ConnectSucceeds
      BY <2>5 DEF RedialConnected
    <2>6. ASSUME NEW t \in Conns,
                 \/ RedialWakes(t) \/ RedialRefused(t) \/ LoopStarts(t) \/ LoopEnds(t)
                 \/ LoopChokes(t) \/ LoopCancelled(t)
                 \/ \E r \in Requests : LoopReads(t, r) \/ ServerAnswers(t, r)
          PROVE  UNCHANGED <<opened, socket>>
      BY <2>6 DEF RedialWakes, RedialRefused, ConnectFails, LoopStarts, LoopEnds, LoopChokes,
                  LoopCancelled, LoopReads, ServerAnswers
    <2>7. ASSUME RequestStep PROVE UNCHANGED <<opened, socket>>
      BY <2>7 DEF RequestStep, Request, Expire, CallerGivesUp
    <2>8. ASSUME NEW t \in Conns, ConnectionDrops(t)
          PROVE  opened' = opened /\ (socket'[s] = socket[s] \/ (s = t /\ socket[s] = "open"))
      BY <2>8 DEF ConnectionDrops
    <2>9. ASSUME NEW d \in DisconnectCalls,
                 Disconnect(d) \/ DisconnectJoined(d) \/ DisconnectClosed(d)
          PROVE  opened' = opened /\ (socket'[s] = socket[s] \/ (s = ws /\ ws # NoConn))
      BY <2>9 DEF Disconnect, JoinReceiveLoop, DisconnectJoined, DisconnectClosed, CloseSocket,
                  CloseWs
    <2>10. opened' \in {opened, opened + 1} /\ (s > opened => socket[s] = "unused") /\ ws <= opened
      BY <2>1, <2>2, <2>3, <2>4, <2>5, <2>6, <2>7, <2>8, <2>9
         DEF HeldInv, Next, UserStep, TaskStep, NetworkStep, vars
    <2>11. QED
      BY <1>0, <2>1, <2>2, <2>3, <2>4, <2>5, <2>6, <2>7, <2>8, <2>9, <2>10
         DEF Next, UserStep, TaskStep, NetworkStep, vars
  <1>2. \/ inbox' = inbox
        \/ \E r \in Requests : inbox'[s] \in {inbox[s], inbox[s] \ {r}, inbox[s] \cup {r}}
    <2>1. ASSUME NEW t \in Conns, NEW r \in Requests, LoopReads(t, r) \/ ServerAnswers(t, r)
          PROVE  inbox'[s] \in {inbox[s], inbox[s] \ {r}, inbox[s] \cup {r}}
      BY <2>1 DEF LoopReads, ServerAnswers
    <2>2. CASE UNCHANGED inbox
      BY <2>2
    <2>3. ASSUME ConnectSucceeds PROVE UNCHANGED inbox
      BY <2>3 DEF ConnectSucceeds
    <2>4. ASSUME UserStep \/ RequestStep PROVE UNCHANGED inbox
      BY <2>3, <2>4 DEF UserStep, UserConnect, UserConnected, UserRefused, ConnectFails, Disconnect,
         DisconnectJoined, DisconnectClosed, RequestStep, Request, Expire, CallerGivesUp
    <2>5. ASSUME NEW t \in Conns,
                 \/ LoopStarts(t) \/ LoopEnds(t) \/ LoopChokes(t) \/ LoopCancelled(t)
                 \/ RedialWakes(t) \/ RedialConnected(t) \/ RedialRefused(t)
                 \/ ConnectionDrops(t)
          PROVE  UNCHANGED inbox
      BY <2>3, <2>5 DEF LoopStarts, LoopEnds, LoopChokes, LoopCancelled, RedialWakes,
         RedialConnected, RedialRefused, ConnectFails, ConnectionDrops
    <2>6. QED
      BY <2>1, <2>2, <2>4, <2>5 DEF Next, TaskStep, NetworkStep, vars
  <1>3. s > opened' => socket'[s] = "unused"
    BY <1>0, <1>1 DEF HeldInv
  <1>4. IsFiniteSet(inbox'[s])
    <2>1. CASE inbox' = inbox
      BY <1>0, <2>1
    <2>2. ASSUME NEW r \in Requests, inbox'[s] \in {inbox[s], inbox[s] \ {r}, inbox[s] \cup {r}}
          PROVE  IsFiniteSet(inbox'[s])
      <3>1. IsFiniteSet(inbox[s] \ {r}) /\ IsFiniteSet(inbox[s] \cup {r})
        BY <1>0, FS_AddElement, FS_RemoveElement
      <3>2. QED  BY <1>0, <2>2, <3>1
    <2>3. QED  BY <1>2, <2>1, <2>2
  <1>5. QED  BY <1>3, <1>4

LEMMA HeldInductive ==
  ASSUME TypeInv, JoinInv, HeldInv, [Next]_vars
  PROVE  HeldInv'
  <1>1. ASSUME ws' # NoConn
        PROVE  \/ \E t \in Conns : loop'[t] = "created"
               \/ \E t \in Conns : loop'[t] = "reading" /\ loopWs'[t] = ws'
               \/ SomeByeIsLive'
    <2>1. ws' \in Conns
      BY <1>1, TypeInductive DEF TypeInv, TypeOK
    <2>2. LossMove(ws')
      BY <2>1, EveryStepMovesLoss
    <2>3. CASE ws' = ws
      BY <1>1, <2>2, <2>3 DEF LossMove, HeldInv, SomeByeIsLive
    <2>4. QED  BY <1>1, <2>1, <2>2, <2>3 DEF LossMove
  <1>2. ws' <= opened'
    <2>1. CASE ws' = NoConn
      BY <2>1, TypeInductive, ClientAssumption DEF TypeInv, TypeOK, NoConn
    <2>2. CASE ws' # NoConn
      <3>1. ws' \in Conns
        BY <2>2, TypeInductive DEF TypeInv, TypeOK
      <3>2. LossMove(ws')
        BY <3>1, EveryStepMovesLoss
      <3>3. ws <= opened /\ opened \in Nat /\ opened' \in Nat /\ ws' \in Nat
        BY <3>1, TypeInductive, ConnsType, ClientAssumption DEF TypeInv, TypeOK, HeldInv
      <3>4. QED  BY <2>2, <3>2, <3>3 DEF LossMove
    <2>3. QED  BY <2>1, <2>2
  <1>3. QED  BY <1>1, <1>2, SocketsStep DEF HeldInv

LEMMA HeldCorrect == Spec => [](TypeInv /\ JoinInv /\ HeldInv)
  <1>1. Init => HeldInv
    BY FS_EmptySet, ConnsType DEF Init, HeldInv, NoConn
  <1>2. QED  BY <1>1, JoinCorrect, HeldInductive, PTL DEF Spec

\* A loop that drains a dead socket goes on, or ends, or disconnect() has come;
\* it has never more to read, and one answer less after each.
LEMMA DrainStep ==
  ASSUME TypeInv, JoinInv, HeldInv, [Next]_vars, NEW s \in Conns, NEW t \in Conns, Drains(t, s)
  PROVE  /\ Drains(t, s)' \/ ws' = NoConn \/ SomeByeIsLive'
         /\ Left(s) \in Nat /\ Left(s)' \in Nat /\ Left(s)' <= Left(s)
         /\ (\E r \in Requests : LoopReads(t, r)) => Left(s)' < Left(s)
         /\ LoopEnds(t) => ~Drains(t, s)'
  <1>1. LossMove(s) /\ IsFiniteSet(inbox[s])
    BY EveryStepMovesLoss DEF HeldInv
  <1>2. inbox'[s] \subseteq inbox[s]
    BY <1>1 DEF LossMove, Drains
  <1>3. IsFiniteSet(inbox'[s]) /\ Left(s) \in Nat /\ Left(s)' \in Nat /\ Left(s)' <= Left(s)
    BY <1>1, <1>2, FS_Subset, FS_CardinalityType DEF Left
  <1>4. ASSUME NEW r \in Requests, LoopReads(t, r) PROVE Left(s)' < Left(s)
    <2>1. r \in inbox[s] /\ inbox'[s] = inbox[s] \ {r}
      BY <1>4 DEF LoopReads, Drains, TypeInv, TypeOK
    <2>2. Cardinality(inbox[s] \ {r}) = Cardinality(inbox[s]) - 1
      BY <1>1, <2>1, FS_RemoveElement
    <2>3. QED  BY <1>3, <2>1, <2>2 DEF Left
  <1>5. LoopEnds(t) => ~Drains(t, s)'
    BY DEF LoopEnds, LoopTail, Drains, TypeInv, TypeOK
  <1>6. Drains(t, s)' \/ ws' = NoConn \/ SomeByeIsLive'
    BY <1>1 DEF LossMove, Drains
  <1>7. QED  BY <1>3, <1>4, <1>5, <1>6

\* Nothing but its own guard keeps a loop from its next step: each assigns every
\* variable once.  The provers cannot expand ENABLED, so the theorem has this
\* as a hypothesis.
LoopCanGoOn(t) ==
    /\ loop[t] = "created" => ENABLED <<LoopStarts(t)>>_vars
    /\ \A s \in Conns :
          Drains(t, s) => IF Left(s) = 0
                          THEN ENABLED <<LoopEnds(t)>>_vars
                          ELSE ENABLED <<\E r \in Requests : LoopReads(t, r)>>_vars

\* The rule of well-founded induction for leads-to, of what a loop has left to
\* read.  Every behaviour satisfies it, whatever the program; the provers know
\* no rule of temporal logic that is not propositional.
CountsDown(t, s) ==
    /\ [](Left(s) \in Nat)
    /\ \A k \in Nat \ {0} : (Drains(t, s) /\ Left(s) = k) ~> (~Drains(t, s) \/ Left(s) < k)
    => (Drains(t, s) ~> (~Drains(t, s) \/ Left(s) = 0))

LossCanBeNoticed ==
    /\ DisconnectCanGoOn
    /\ \A t \in Conns : LoopCanGoOn(t)
    /\ \A s, t \in Conns : CountsDown(t, s)

Leaves(s) == <>(ws # s)

LEMMA LossEnds ==
  ASSUME NEW s \in Conns
  PROVE  /\ [](TypeInv /\ JoinInv /\ HeldInv) /\ [][Next]_vars
         /\ []Fairness /\ []LossCanBeNoticed
         => ((ws = s /\ socket[s] = "closed") ~> (ws # s))
  <1> DEFINE Inv == TypeInv /\ JoinInv /\ HeldInv
             Lost == ws = s /\ socket[s] = "closed"
             Gone == ws # s
  <1> SUFFICES ASSUME []Inv, [][Next]_vars, []Fairness, []LossCanBeNoticed
               PROVE  Lost ~> Gone
    OBVIOUS
  <1>0. Fairness /\ LossCanBeNoticed /\ Inv
    BY PTL
  <1>1. s # NoConn
    BY ConnsType
  <1>2. Inv /\ [Next]_vars => LossMove(s)
    BY EveryStepMovesLoss
  <1>3. ASSUME NEW d \in DisconnectCalls PROVE ByeIsLive(d) => Leaves(s)
    <2>1. [](TypeInv /\ JoinInv) /\ []DisconnectCanGoOn
      BY PTL DEF LossCanBeNoticed
    <2>2. ByeIsLive(d) ~> ~ByeIsLive(d)
      BY <2>1, ByeEnds, PTL
    <2>3. Inv /\ [Next]_vars /\ ByeIsLive(d) => ByeIsLive(d)' \/ Gone'
      BY <1>1, <1>2 DEF LossMove
    <2>4. QED  BY <2>2, <2>3, PTL DEF Leaves
  <1>4. SomeByeIsLive => Leaves(s)
    BY <1>3 DEF SomeByeIsLive
  <1>5. ASSUME NEW t \in Conns PROVE Drains(t, s) => Leaves(s)
    <2> DEFINE D == Drains(t, s)
               L == Left(s)
               Reads == \E r \in Requests : LoopReads(t, r)
    <2>1. LoopIsFair(t) /\ LoopCanGoOn(t) /\ CountsDown(t, s)
      BY <1>0 DEF Fairness, LossCanBeNoticed
    <2>2. Inv => L \in Nat
      BY FS_CardinalityType DEF HeldInv, Left
    <2>3. Inv /\ D /\ [Next]_vars => D' \/ Gone' \/ SomeByeIsLive'
      BY <1>1, DrainStep
    <2>4. ASSUME NEW k \in Nat \ {0} PROVE (D /\ L = k) ~> (~D \/ L < k)
      <3>1. Inv /\ D /\ L = k /\ [Next]_vars => (L = k)' \/ (L < k)'
        BY DrainStep
      <3>2. Inv /\ D /\ L = k /\ [Next]_vars /\ <<Reads>>_vars => (L < k)'
        BY DrainStep
      <3>3. D /\ L = k /\ LoopCanGoOn(t) => ENABLED <<Reads>>_vars
        BY DEF LoopCanGoOn
      <3>4. []LoopCanGoOn(t)
        BY <2>1, PTL
      <3> HIDE DEF D, L
      <3>5. QED
        BY <2>1, <3>1, <3>2, <3>3, <3>4, PTL DEF LoopIsFair, Reads
    <2>5. D ~> (~D \/ L = 0)
      <3>1. [](L \in Nat)
        BY <2>2, PTL
      <3>2. \A k \in Nat \ {0} : (D /\ L = k) ~> (~D \/ L < k)
        BY <2>4
      <3>3. QED  BY <2>1, <3>1, <3>2 DEF CountsDown
    <2>6. Inv /\ D /\ L = 0 /\ [Next]_vars => (L = 0)' /\ (LoopEnds(t) => ~D')
      BY DrainStep
    <2>7. D /\ L = 0 /\ LoopCanGoOn(t) => ENABLED <<LoopEnds(t)>>_vars
      BY DEF LoopCanGoOn
    <2> HIDE DEF D, L
    <2>8. D ~> ~D
      BY <2>1, <2>5, <2>6, <2>7, PTL DEF LoopIsFair
    <2>9. D => Leaves(s)
      BY <1>4, <2>3, <2>8, PTL DEF Leaves
    <2>10. QED  BY <2>9 DEF D
  <1>6. ASSUME NEW t \in Conns PROVE Lost /\ loop[t] = "created" => Leaves(s)
    <2> DEFINE C == loop[t] = "created"
    <2>1. LoopIsFair(t) /\ LoopCanGoOn(t)
      BY <1>0 DEF Fairness, LossCanBeNoticed
    <2>2. Inv /\ Lost /\ C /\ [Next]_vars
             => (Lost /\ C)' \/ Drains(t, s)' \/ Gone' \/ SomeByeIsLive'
      BY <1>1, <1>2 DEF LossMove, Drains
    <2>3. Inv /\ C /\ <<LoopStarts(t)>>_vars => ~C'
      BY DEF LoopStarts, LoopTail, TypeInv, TypeOK
    <2>4. C /\ LoopCanGoOn(t) => ENABLED <<LoopStarts(t)>>_vars
      BY DEF LoopCanGoOn
    <2>5. Drains(t, s) => Leaves(s)
      BY <1>5
    <2> HIDE DEF C
    <2>6. Lost /\ C => Leaves(s)
      BY <1>4, <2>1, <2>2, <2>3, <2>4, <2>5, PTL DEF LoopIsFair, Leaves
    <2>7. QED  BY <2>6 DEF C
  <1>7. Lost => Leaves(s)
    <2>1. Lost => \/ \E t \in Conns : loop[t] = "created"
                  \/ \E t \in Conns : Drains(t, s)
                  \/ SomeByeIsLive
      BY <1>0, <1>1 DEF HeldInv, Drains
    <2>2. QED  BY <1>4, <1>5, <1>6, <2>1
  <1>8. QED  BY <1>7, PTL DEF Leaves

\* A connection that is lost does not stay the client's, at any moment of a
\* connect(), a disconnect() or another loop: somebody reads it, or will, or is
\* about to close it, and a loop that reads a dead socket comes to its end.
THEOREM LossesAreNoticed ==
  Spec /\ []Fairness /\ []LossCanBeNoticed => LossIsNoticed
  <1>1. Spec => [](TypeInv /\ JoinInv /\ HeldInv) /\ [][Next]_vars
    BY HeldCorrect, PTL DEF Spec
  <1>2. /\ [](TypeInv /\ JoinInv /\ HeldInv) /\ [][Next]_vars
        /\ []Fairness /\ []LossCanBeNoticed
        => LossIsNoticed
    <2>1. SUFFICES ASSUME NEW s \in Conns
                   PROVE  /\ [](TypeInv /\ JoinInv /\ HeldInv) /\ [][Next]_vars
                          /\ []Fairness /\ []LossCanBeNoticed
                          => ((ws = s /\ socket[s] = "closed") ~> (ws # s))
      BY DEF LossIsNoticed
    <2>2. QED  BY LossEnds
  <1>3. QED  BY <1>1, <1>2, PTL

-----------------------------------------------------------------------------
(* The client implements RequestContract *)

LEMMA ContractStep ==
  ASSUME TypeInv, LedgerInv, [Next]_vars
  PROVE  [Contract!Next]_(Contract!vars)
  <1> USE DEF TypeInv, TypeOK, Contract!Settle
  <1>0. ASSUME UNCHANGED inbox PROVE UNCHANGED Replies
    BY <1>0 DEF Replies
  <1>1. ASSUME UNCHANGED requestVars PROVE UNCHANGED Contract!vars
    BY <1>1, <1>0 DEF Contract!vars
  <1>2. ASSUME RejectAllPending, UNCHANGED inbox PROVE Contract!RejectAll
    BY <1>2, <1>0 DEF RejectAllPending, Contract!RejectAll, LedgerInv, NoStrandedRequest
  <1>3. ASSUME NEW r \in Requests, Request(r) PROVE Contract!Issue(r)
    BY <1>3, <1>0 DEF Request, Contract!Issue
  <1>4. ASSUME NEW r \in Requests, Expire(r)
        PROVE  Contract!TimeOut(r) \/ UNCHANGED Contract!vars
    BY <1>4, <1>0 DEF Expire, Complete, Contract!TimeOut, Contract!vars
  <1>5. ASSUME NEW r \in Requests, CallerGivesUp(r) PROVE Contract!GiveUp(r)
    BY <1>5, <1>0 DEF CallerGivesUp, Contract!GiveUp
  <1>6. ASSUME NEW s \in Conns, NEW r \in Requests, LoopReads(s, r)
        PROVE  Contract!Take(r)
    <2>1. loopWs[s] \in Conns
      BY <1>6 DEF LoopReads, ReadsSocket
    <2>2. r \in Replies /\ Replies' = Replies \ {r}
      <3>1. r \in Replies
        BY <1>6, <2>1 DEF LoopReads, Replies
      <3>2. \A c \in Conns : inbox'[c] = inbox[c] \ {r}
        BY <1>6, <2>1 DEF LoopReads, LedgerInv
      <3>3. QED  BY <3>1, <3>2 DEF Replies
    <2>3. \/ future[r] = "waiting" /\ future' = [future EXCEPT ![r] = "result"]
          \/ future[r] # "waiting" /\ future' = future
      BY <1>6 DEF LoopReads, ResolvePending, Complete, LedgerInv, NoStrandedRequest
    <2>4. QED  BY <2>2, <2>3 DEF Contract!Take
  <1>7. ASSUME NEW s \in Conns, NEW r \in Requests, ServerAnswers(s, r)
        PROVE  Contract!Reply(r)
    <2>1. Replies' = Replies \cup {r}
      <3>1. /\ inbox'[s] = inbox[s] \cup {r}
            /\ \A c \in Conns \ {s} : inbox'[c] = inbox[c]
        BY <1>7 DEF ServerAnswers
      <3>2. QED  BY <3>1 DEF Replies
    <2>2. future[r] # "unissued" /\ UNCHANGED future
      BY <1>7, ConnsType DEF ServerAnswers, LedgerInv
    <2>3. QED  BY <2>1, <2>2 DEF Contract!Reply
  <1>8. QED
    BY <1>1, <1>2, <1>3, <1>4, <1>5, <1>6, <1>7, LedgerStep DEF Contract!Next

\* Every behaviour of the client, seen through the outcomes of its requests
\* and the answers under way, is one the contract allows.
THEOREM ClientImplementsContract == Spec => Contract!Spec
  <1>1. Init => Contract!Init
    BY DEF Init, Contract!Init, Replies
  <1>2. TypeInv /\ LedgerInv /\ [Next]_vars => [Contract!Next]_(Contract!vars)
    BY ContractStep
  <1>3. QED  BY <1>1, <1>2, LedgerCorrect, PTL DEF Spec, Contract!Spec

\* The contract's timer is fair: nobody keeps it waiting for ever, because the
\* client's own timer settles who waits.
LEMMA ContractTimer ==
  ASSUME NEW r \in Requests
  PROVE  /\ Spec /\ TimerIsFair(r)
         /\ TimerCanFire(r) /\ Contract!TimesOutWaiting(r)
         => Contract!TimerIsFair(r)
  <1>1. Spec /\ TimerIsFair(r) /\ TimerCanFire(r)
           => ((future[r] = "waiting") ~> (future[r] # "waiting"))
    BY TimerSettles
  <1>2. (future[r] # "waiting") <=> ~(future[r] = "waiting")
    OBVIOUS
  <1>3. QED  BY <1>1, <1>2, PTL DEF Contract!TimesOutWaiting, Contract!TimerIsFair

\* ... and with it the contract's promise that every request is answered.
THEOREM ClientKeepsTheContract ==
  /\ FairSpec
  /\ \A r \in Requests : TimerCanFire(r)
  /\ \A r \in Requests : Contract!TimesOutWaiting(r)
  => ImplementsRequestContract
  <1>1. FairSpec => Spec /\ \A r \in Requests : TimerIsFair(r)
    BY PTL DEF FairSpec, Fairness
  <1>2. /\ Spec /\ \A r \in Requests : TimerIsFair(r)
        /\ \A r \in Requests : TimerCanFire(r)
        /\ \A r \in Requests : Contract!TimesOutWaiting(r)
        => \A r \in Requests : Contract!TimerIsFair(r)
    BY ContractTimer
  <1>3. QED
    BY <1>1, <1>2, ClientImplementsContract, PTL DEF Contract!FairSpec, ImplementsRequestContract

-----------------------------------------------------------------------------
(* Ownership, when connect() is used serially *)

\* What one step of the client can do to the owners of its connection.
LEMMA OwnerInductive ==
  ASSUME SerialUse, TypeInv, OwnerInv, [Next]_vars
  PROVE  OwnerInv'
  <1> USE ConnsType, ClientAssumption
      DEF OwnerInv, TypeInv, TypeOK, Dialing, LoopIsLive, RedialIsLive, ByeIsLive
  <1>1. ASSUME NEW u \in ConnectCalls, UserConnect(u) PROVE OwnerInv'
    <2> USE <1>1 DEF UserConnect, ConnectBegins, Idle
    <2>1. Numbered' /\ LoopHolds' /\ SocketHolds' /\ ByeHolds' /\ (attempts <= 1)'
      BY DEF Numbered, LoopHolds, SocketHolds, ByeHolds
    <2>2. Exclusive'
      BY DEF Exclusive, LoopHolds, SocketHolds
    <2>3. DialerHolds'
      BY DEF DialerHolds, SocketHolds
    <2>4. QED  BY <2>1, <2>2, <2>3
  <1>2. ASSUME NEW u \in ConnectCalls, UserConnected(u) PROVE OwnerInv'
    <2> USE <1>2 DEF UserConnected, ConnectSucceeds, ResetAttempts
    <2>0. opened + 1 \in Conns
      BY ConnectSucceedsTypes
    <2>1. Numbered' /\ Exclusive' /\ ByeHolds' /\ (attempts <= 1)'
      BY DEF Numbered, Exclusive, ByeHolds
    <2>2. LoopHolds'
      BY DEF LoopHolds, DialerHolds
    <2>3. DialerHolds'
      BY DEF Exclusive, DialerHolds
    <2>4. SocketHolds'
      BY <2>0 DEF DialerHolds, SocketHolds
    <2>5. QED  BY <2>1, <2>2, <2>3, <2>4
  <1>3. ASSUME NEW u \in ConnectCalls, UserRefused(u) PROVE OwnerInv'
    <2> USE <1>3 DEF UserRefused, ConnectFails
    <2>1. /\ Numbered' /\ Exclusive' /\ LoopHolds' /\ DialerHolds'
          /\ ByeHolds' /\ (attempts <= 1)'
      BY DEF Numbered, Exclusive, LoopHolds, DialerHolds, ByeHolds
    <2>2. SocketHolds'
      BY DEF DialerHolds, SocketHolds
    <2>3. QED  BY <2>1, <2>2
  <1>4. ASSUME NEW d \in DisconnectCalls, Disconnect(d) PROVE OwnerInv'
    <2> USE <1>4 DEF Disconnect, CancelReconnect, JoinReceiveLoop,
               CloseSocket, CloseWs
    <2>1. Exclusive' /\ LoopHolds' /\ DialerHolds' /\ SocketHolds' /\ (attempts <= 1)'
      BY DEF Exclusive, LoopHolds, DialerHolds, SocketHolds
    <2>2. Numbered'
      BY DEF Numbered, SocketHolds
    <2>3. ByeHolds'
      BY DEF LoopHolds, DialerHolds, ByeHolds
    <2>4. QED  BY <2>1, <2>2, <2>3
  <1>5. ASSUME NEW d \in DisconnectCalls, DisconnectJoined(d) PROVE OwnerInv'
    <2> USE <1>5 DEF DisconnectJoined, CloseSocket, CloseWs
    <2>1. Exclusive' /\ DialerHolds' /\ SocketHolds' /\ ByeHolds' /\ (attempts <= 1)'
      BY DEF Exclusive, DialerHolds, SocketHolds, ByeHolds
    <2>2. Numbered'
      BY DEF Numbered, SocketHolds
    <2>3. LoopHolds'
      BY DEF LoopHolds, ByeHolds
    <2>4. QED  BY <2>1, <2>2, <2>3
  <1>6. ASSUME NEW d \in DisconnectCalls, DisconnectClosed(d) PROVE OwnerInv'
    <2> USE <1>6 DEF DisconnectClosed
    <2>1. Numbered' /\ Exclusive' /\ DialerHolds' /\ ByeHolds' /\ (attempts <= 1)'
      BY DEF Numbered, Exclusive, DialerHolds, ByeHolds
    <2>2. LoopHolds'
      BY DEF LoopHolds, ByeHolds
    <2>3. SocketHolds'
      BY DEF SocketHolds, ByeHolds
    <2>4. QED  BY <2>1, <2>2, <2>3
  <1>7. ASSUME NEW s \in Conns, LoopStarts(s) PROVE OwnerInv'
    <2> USE <1>7 DEF LoopStarts, LoopTail, ForgetSocket, ScheduleReconnect
    <2>1. Numbered' /\ Exclusive' /\ LoopHolds' /\ DialerHolds' /\ ByeHolds'
      BY DEF Numbered, Exclusive, LoopHolds, DialerHolds, ByeHolds
    <2>2. SocketHolds'
      BY DEF LoopHolds, SocketHolds
    <2>3. (attempts <= 1)'
      BY DEF LoopHolds
    <2>4. QED  BY <2>1, <2>2, <2>3
  <1>8. ASSUME NEW s \in Conns, LoopEnds(s) PROVE OwnerInv'
    <2> USE <1>8 DEF LoopEnds, LoopTail, ForgetSocket, ScheduleReconnect
    <2>1. Numbered' /\ Exclusive' /\ LoopHolds' /\ ByeHolds'
      BY DEF Numbered, Exclusive, LoopHolds, ByeHolds
    <2>2. DialerHolds'
      BY DEF LoopHolds, DialerHolds
    <2>3. SocketHolds'
      BY DEF LoopHolds, SocketHolds
    <2>4. (attempts <= 1)'
      BY DEF LoopHolds
    <2>5. QED  BY <2>1, <2>2, <2>3, <2>4
  <1>9. ASSUME NEW s \in Conns, LoopChokes(s) PROVE OwnerInv'
    <2> USE <1>9 DEF LoopChokes, LoopTail, ForgetSocket, ScheduleReconnect
    <2>1. Numbered' /\ Exclusive' /\ LoopHolds' /\ ByeHolds'
      BY DEF Numbered, Exclusive, LoopHolds, ByeHolds
    <2>2. DialerHolds'
      BY DEF LoopHolds, DialerHolds
    <2>3. SocketHolds'
      BY DEF LoopHolds, SocketHolds
    <2>4. (attempts <= 1)'
      BY DEF LoopHolds
    <2>5. QED  BY <2>1, <2>2, <2>3, <2>4
  <1>10. ASSUME NEW s \in Conns, LoopCancelled(s) PROVE OwnerInv'
    <2> USE <1>10 DEF LoopCancelled
    <2>1. /\ Numbered' /\ Exclusive' /\ LoopHolds' /\ DialerHolds'
          /\ SocketHolds' /\ ByeHolds' /\ (attempts <= 1)'
      BY DEF Numbered, Exclusive, LoopHolds, DialerHolds, SocketHolds, ByeHolds
    <2>2. QED  BY <2>1
  <1>11. ASSUME NEW s \in Conns, RedialWakes(s) PROVE OwnerInv'
    <2> USE <1>11 DEF RedialWakes, ConnectBegins
    <2>1. /\ Numbered' /\ Exclusive' /\ LoopHolds' /\ DialerHolds'
          /\ SocketHolds' /\ ByeHolds' /\ (attempts <= 1)'
      BY DEF Numbered, Exclusive, LoopHolds, DialerHolds, SocketHolds, ByeHolds
    <2>2. QED  BY <2>1
  <1>12. ASSUME NEW s \in Conns, RedialConnected(s) PROVE OwnerInv'
    <2> USE <1>12 DEF RedialConnected, ConnectSucceeds, ResetAttempts
    <2>0. opened + 1 \in Conns
      BY ConnectSucceedsTypes
    <2>1. Numbered' /\ Exclusive' /\ ByeHolds' /\ (attempts <= 1)'
      BY DEF Numbered, Exclusive, ByeHolds
    <2>2. LoopHolds'
      BY DEF LoopHolds, DialerHolds
    <2>3. DialerHolds'
      BY DEF Exclusive, DialerHolds
    <2>4. SocketHolds'
      BY <2>0 DEF DialerHolds, SocketHolds
    <2>5. QED  BY <2>1, <2>2, <2>3, <2>4
  <1>13. ASSUME NEW s \in Conns, RedialRefused(s) PROVE OwnerInv'
    <2> USE <1>13 DEF RedialRefused, ConnectFails
    <2>1. /\ Numbered' /\ Exclusive' /\ LoopHolds' /\ DialerHolds'
          /\ ByeHolds' /\ (attempts <= 1)'
      BY DEF Numbered, Exclusive, LoopHolds, DialerHolds, ByeHolds
    <2>2. SocketHolds'
      BY DEF DialerHolds, SocketHolds
    <2>3. QED  BY <2>1, <2>2
  <1>14. ASSUME NEW s \in Conns, ConnectionDrops(s) PROVE OwnerInv'
    <2> USE <1>14 DEF ConnectionDrops
    <2>1. /\ Numbered' /\ Exclusive' /\ LoopHolds' /\ DialerHolds'
          /\ SocketHolds' /\ ByeHolds' /\ (attempts <= 1)'
      BY DEF Numbered, Exclusive, LoopHolds, DialerHolds, SocketHolds, ByeHolds
    <2>2. QED  BY <2>1
  <1>15. ASSUME UNCHANGED <<clientVars, taskVars, loopVars, netVars, userVars>>
         PROVE  OwnerInv'
    BY <1>15 DEF Numbered, Exclusive, LoopHolds, DialerHolds, SocketHolds, ByeHolds
  <1>16. ASSUME NEW r \in Requests, Request(r) \/ Expire(r) \/ CallerGivesUp(r)
         PROVE  OwnerInv'
    BY <1>15, <1>16 DEF Request, Expire, CallerGivesUp
  <1>17. ASSUME NEW s \in Conns, NEW r \in Requests, LoopReads(s, r) \/ ServerAnswers(s, r)
         PROVE  OwnerInv'
    BY <1>15, <1>17 DEF LoopReads, ServerAnswers
  <1>18. CASE UNCHANGED vars
    BY <1>15, <1>18 DEF vars
  <1>19. QED
    BY <1>1, <1>2, <1>3, <1>4, <1>5, <1>6, <1>7, <1>8, <1>9, <1>10, <1>11, <1>12, <1>13,
       <1>14, <1>16, <1>17, <1>18
       DEF Next, UserStep, RequestStep, TaskStep, NetworkStep

LEMMA OwnerCorrect ==
  ASSUME SerialUse
  PROVE  Spec => [](TypeInv /\ LedgerInv /\ OwnerInv)
  <1>1. Init => OwnerInv
    BY ConnsType DEF Init, OwnerInv, Numbered, Exclusive, LoopHolds, DialerHolds,
           SocketHolds, ByeHolds, Dialing, LoopIsLive, RedialIsLive, ByeIsLive
  <1>2. TypeInv /\ OwnerInv /\ [Next]_vars => OwnerInv'
    BY OwnerInductive
  <1>3. QED  BY <1>1, <1>2, LedgerCorrect, PTL DEF Spec

LEMMA WaitsInductive ==
  ASSUME SerialUse, TypeInv, LedgerInv, OwnerInv, WaitsOnlyAcrossClose, [Next]_vars
  PROVE  WaitsOnlyAcrossClose'
  <1> USE ConnsType DEF TypeInv, TypeOK, WaitsOnlyAcrossClose
  <1>1. ASSUME RejectAllPending PROVE WaitsOnlyAcrossClose'
    BY <1>1 DEF RejectAllPending, LedgerInv, NoStrandedRequest
  <1>2. ASSUME ConnectSucceeds, ws = NoConn PROVE WaitsOnlyAcrossClose'
    <2>1. opened + 1 \in Conns /\ loop[opened + 1] = "none"
      BY <1>2, ConnectSucceedsTypes DEF OwnerInv, Numbered, Conns
    <2>2. QED  BY <1>2, <2>1 DEF ConnectSucceeds
  <1>3. ASSUME NEW u \in ConnectCalls,
               UserConnect(u) \/ UserConnected(u) \/ UserRefused(u)
        PROVE  WaitsOnlyAcrossClose'
    BY <1>2, <1>3 DEF UserConnect, UserConnected, UserRefused, ConnectFails, OwnerInv,
                      DialerHolds, Dialing
  <1>4. ASSUME NEW s \in Conns,
               RedialWakes(s) \/ RedialConnected(s) \/ RedialRefused(s)
        PROVE  WaitsOnlyAcrossClose'
    BY <1>2, <1>4 DEF RedialWakes, RedialConnected, RedialRefused, ConnectFails, OwnerInv,
                      DialerHolds, RedialIsLive
  <1>5. ASSUME NEW s \in Conns, LoopStarts(s) \/ LoopEnds(s) \/ LoopChokes(s)
        PROVE  WaitsOnlyAcrossClose'
    <2>1. CASE RejectAllPending
      BY <1>1, <2>1
    <2>2. CASE ~RejectAllPending
      <3>1. /\ loop[s] = "created" /\ UNCHANGED <<ws, future, sentOn>>
            /\ \E l \in LoopState : loop' = [loop EXCEPT ![s] = l]
        BY <1>5, <2>2 DEF LoopStarts, LoopEnds, LoopChokes, LoopTail
      <3>2. QED  BY <3>1
    <2>3. QED  BY <2>1, <2>2
  <1>6. ASSUME NEW s \in Conns, LoopCancelled(s) PROVE WaitsOnlyAcrossClose'
    BY <1>6 DEF LoopCancelled
  <1>7. ASSUME NEW d \in DisconnectCalls, Disconnect(d) \/ DisconnectJoined(d)
        PROVE  WaitsOnlyAcrossClose'
    BY <1>1, <1>7 DEF Disconnect, DisconnectJoined
  <1>8. ASSUME NEW d \in DisconnectCalls, DisconnectClosed(d)
        PROVE  WaitsOnlyAcrossClose'
    <2>1. ws # NoConn => loop[ws] = "cancelled"
      BY <1>8 DEF DisconnectClosed, OwnerInv, SocketHolds, ByeHolds
    <2>2. QED  BY <1>8, <2>1 DEF DisconnectClosed
  <1>9. ASSUME NEW r \in Requests, Request(r) \/ Expire(r) \/ CallerGivesUp(r)
        PROVE  WaitsOnlyAcrossClose'
    BY <1>9 DEF Request, Expire, CallerGivesUp, Complete, OwnerInv, SocketHolds
  <1>10. ASSUME NEW s \in Conns, NEW r \in Requests, LoopReads(s, r) \/ ServerAnswers(s, r)
         PROVE  WaitsOnlyAcrossClose'
    BY <1>10 DEF LoopReads, ResolvePending, Complete, ServerAnswers
  <1>11. ASSUME NEW s \in Conns, ConnectionDrops(s) PROVE WaitsOnlyAcrossClose'
    BY <1>11 DEF ConnectionDrops
  <1>12. CASE UNCHANGED vars
    BY <1>12 DEF vars
  <1>13. QED
    BY <1>3, <1>4, <1>5, <1>6, <1>7, <1>8, <1>9, <1>10, <1>11, <1>12
       DEF Next, UserStep, RequestStep, TaskStep, NetworkStep

\* A lost connection leaves nobody waiting for an answer that cannot come, unless
\* a disconnect() had cancelled its receive loop.
THEOREM LossReachesEveryCaller == ASSUME SerialUse PROVE Spec => []WaitsOnlyAcrossClose
  <1>1. Init => WaitsOnlyAcrossClose
    BY DEF Init, WaitsOnlyAcrossClose
  <1>2. TypeInv /\ LedgerInv /\ OwnerInv /\ WaitsOnlyAcrossClose /\ [Next]_vars
           => WaitsOnlyAcrossClose'
    BY WaitsInductive
  <1>3. QED  BY <1>1, <1>2, OwnerCorrect, PTL DEF Spec

\* At most one connect(), receive loop or reconnect task is alive.
THEOREM OneOwnerAtATime == ASSUME SerialUse PROVE Spec => []OneOwner
  <1>1. OwnerInv => OneOwner
    BY DEF OwnerInv, Exclusive, OneOwner, Dialing
  <1>2. QED  BY <1>1, OwnerCorrect, PTL

\* No connection to the robot is left open that the client does not hold.
THEOREM NoSocketOrphaned == ASSUME SerialUse PROVE Spec => []NoOrphanSocket
  <1>1. OwnerInv => NoOrphanSocket
    BY DEF OwnerInv, SocketHolds, NoOrphanSocket
  <1>2. QED  BY <1>1, OwnerCorrect, PTL

\* "connected" is what is_connected() may be trusted to mean.
THEOREM StatusIsTruthful == ASSUME SerialUse PROVE Spec => []ConnectedMeansSocket
  <1>1. OwnerInv => ConnectedMeansSocket
    BY DEF OwnerInv, SocketHolds, ConnectedMeansSocket
  <1>2. QED  BY <1>1, OwnerCorrect, PTL

\* The counter the backoff is computed from is never more than one.
THEOREM BackoffIsFlat == ASSUME SerialUse PROVE Spec => []BackoffNeverGrows
  <1>1. OwnerInv => BackoffNeverGrows
    BY DEF OwnerInv, BackoffNeverGrows
  <1>2. QED  BY <1>1, OwnerCorrect, PTL

\* After disconnect() no reconnect task brings the client up again.
THEOREM DisconnectSticks == ASSUME SerialUse PROVE Spec => ClosedStaysClosed
  <1> DEFINE Down == /\ SerialUse
                     /\ intentionalClose
                     /\ status = "disconnected"
                     /\ \A u \in ConnectCalls : call[u] # "dialing"
             Stays == Down => status' = "disconnected" \/ ~intentionalClose'
  <1>1. ASSUME TypeInv, OwnerInv, [Next]_vars PROVE Stays
    <2> SUFFICES ASSUME Down, status' # "disconnected"
                 PROVE  ~intentionalClose'
      OBVIOUS
    <2>1. ASSUME NEW u \in ConnectCalls,
                 UserConnect(u) \/ UserConnected(u) \/ UserRefused(u)
          PROVE  ~intentionalClose'
      BY <2>1 DEF UserConnect, ConnectBegins, UserConnected, UserRefused
    <2>2. ASSUME NEW s \in Conns,
                 RedialWakes(s) \/ RedialConnected(s) \/ RedialRefused(s)
          PROVE  FALSE
      <3>1. redial[s] # "dialing"
        BY <1>1 DEF OwnerInv, DialerHolds, RedialIsLive
      <3>2. QED
        BY <2>2, <3>1 DEF RedialWakes, RedialConnected, RedialRefused
    <2>3. ASSUME NEW s \in Conns,
                 LoopStarts(s) \/ LoopEnds(s) \/ LoopChokes(s) \/ LoopCancelled(s)
          PROVE  FALSE
      BY <2>3 DEF LoopStarts, LoopEnds, LoopChokes, LoopCancelled, LoopTail
    <2>4. ASSUME NEW d \in DisconnectCalls,
                 Disconnect(d) \/ DisconnectJoined(d) \/ DisconnectClosed(d)
          PROVE  FALSE
      BY <2>4 DEF Disconnect, DisconnectJoined, DisconnectClosed, JoinReceiveLoop,
                  CloseSocket
    <2>5. ASSUME NEW r \in Requests, Request(r) \/ Expire(r) \/ CallerGivesUp(r)
          PROVE  FALSE
      BY <2>5 DEF Request, Expire, CallerGivesUp
    <2>6. ASSUME NEW s \in Conns, NEW r \in Requests,
                 LoopReads(s, r) \/ ServerAnswers(s, r)
          PROVE  FALSE
      BY <2>6 DEF LoopReads, ServerAnswers
    <2>7. ASSUME NEW s \in Conns, ConnectionDrops(s) PROVE FALSE
      BY <2>7 DEF ConnectionDrops
    <2>8. CASE UNCHANGED vars
      BY <2>8 DEF vars
    <2>9. QED
      BY <1>1, <2>1, <2>2, <2>3, <2>4, <2>5, <2>6, <2>7, <2>8
         DEF Next, UserStep, RequestStep, TaskStep, NetworkStep
  <1>2. TypeInv /\ OwnerInv /\ [Next]_vars => [Stays]_vars
    BY <1>1
  <1>3. QED  BY <1>2, OwnerCorrect, PTL DEF Spec, ClosedStaysClosed
-----------------------------------------------------------------------------
(* The client implements TransportLife *)

\* What the client's user sees of one step.
LEMMA LifeStep ==
  ASSUME SerialUse, TypeInv, OwnerInv, [Next]_vars
  PROVE  [Life!Next]_ClientLife
  <1> USE ConnsType
      DEF TypeInv, TypeOK, OwnerInv, Dialing, LoopIsLive, RedialIsLive, ByeIsLive
  <1> DEFINE Goes(from, to) == ClientLife \in from /\ ClientLife' \in to
  <1>0. /\ Goes({"down"}, {"dialing"}) => Life!Dials
        /\ Goes({"dialing"}, {"up"}) => Life!Connects
        /\ Goes({"dialing"}, {"down"}) => Life!Refused
        /\ Goes({"up"}, {"lost", "down"}) => Life!Loses
        /\ Goes({"lost"}, {"up"}) => Life!Recovers
        /\ Goes({"lost"}, {"down"}) => Life!GivesUp
        /\ Goes({"up"}, {"closing"}) => Life!Closes
        /\ Goes({"closing"}, {"down"}) => Life!Closed
    BY DEF Life!Dials, Life!Connects, Life!Refused, Life!Loses, Life!Recovers,
           Life!GivesUp, Life!Closes, Life!Closed, Life!Moves
  <1>1. ASSUME NEW u \in ConnectCalls, UserConnect(u)
        PROVE  Goes({"down"}, {"dialing"})
    BY <1>1 DEF UserConnect, ConnectBegins, Idle, ClientLife
  <1>2. ASSUME NEW u \in ConnectCalls, UserConnected(u)
        PROVE  Goes({"dialing"}, {"up"})
    BY <1>2 DEF UserConnected, ConnectSucceeds, ClientLife, Exclusive, ByeHolds
  <1>3. ASSUME NEW u \in ConnectCalls, UserRefused(u)
        PROVE  Goes({"dialing"}, {"down"})
    BY <1>3 DEF UserRefused, ConnectFails, ClientLife, Exclusive
  <1>4. ASSUME NEW d \in DisconnectCalls, Disconnect(d)
        PROVE  \/ UNCHANGED ClientLife
               \/ Goes({"up"}, {"closing"})
               \/ Goes({"lost"}, {"down"})
    <2> USE <1>4 DEF Disconnect
    <2>1. ASSUME NEW u \in ConnectCalls, Dialing(u) PROVE UNCHANGED ClientLife
      BY <2>1 DEF ClientLife
    <2>2. ASSUME \A u \in ConnectCalls : ~Dialing(u), status = "connected"
          PROVE  UNCHANGED ClientLife \/ Goes({"up"}, {"closing"})
      <3>1. ws # NoConn
        BY <2>2 DEF SocketHolds
      <3>2. bye'[d] \in {"joining", "closing"} /\ status' = "connected"
        BY <2>2, <3>1 DEF JoinReceiveLoop, CloseSocket, LoopHolds
      <3>3. QED  BY <2>2, <3>2 DEF ClientLife
    <2>3. ASSUME \A u \in ConnectCalls : ~Dialing(u), status # "connected"
          PROVE  UNCHANGED ClientLife \/ Goes({"lost"}, {"down"})
      <3>1. ws = NoConn
        BY <2>3 DEF SocketHolds
      <3>2. status' = "disconnected"
        BY <3>1 DEF JoinReceiveLoop, CloseSocket, LoopHolds
      <3>3. \A s \in Conns : ~RedialIsLive(s)'
        BY DEF CancelReconnect, DialerHolds
      <3>4. QED  BY <2>3, <3>2, <3>3 DEF ClientLife
    <2>4. QED  BY <2>1, <2>2, <2>3
  <1>5. ASSUME NEW d \in DisconnectCalls, DisconnectJoined(d) PROVE UNCHANGED ClientLife
    BY <1>5 DEF DisconnectJoined, CloseSocket, ClientLife, SocketHolds
  <1>6. ASSUME NEW d \in DisconnectCalls, DisconnectClosed(d)
        PROVE  UNCHANGED ClientLife \/ Goes({"closing"}, {"down"})
    BY <1>6 DEF DisconnectClosed, ClientLife, ByeHolds
  <1>7. ASSUME NEW s \in Conns, LoopTail(s), LoopIsLive(s), loop[s] # "cancelling",
               UNCHANGED userVars
        PROVE  Goes({"up"}, {"lost", "down"})
    <2>1. status = "connected" /\ \A u \in ConnectCalls : ~Dialing(u)
      BY <1>7 DEF LoopHolds, SocketHolds, Exclusive
    <2>2. \A d \in DisconnectCalls : ~ByeIsLive(d)
      BY <1>7 DEF ByeHolds
    <2>3. QED  BY <1>7, <2>1, <2>2 DEF LoopTail, ClientLife
  <1>8. ASSUME UNCHANGED <<status, intentionalClose, redial, userVars>>
        PROVE  UNCHANGED ClientLife
    BY <1>8 DEF ClientLife
  <1>9. ASSUME NEW s \in Conns, LoopStarts(s) \/ LoopEnds(s) \/ LoopChokes(s)
        PROVE  UNCHANGED ClientLife \/ Goes({"up"}, {"lost", "down"})
    <2>1. CASE LoopTail(s)
      BY <1>7, <1>9, <2>1 DEF LoopStarts, LoopEnds, LoopChokes
    <2>2. CASE ~LoopTail(s)
      BY <1>8, <1>9, <2>2 DEF LoopStarts, LoopEnds, LoopChokes
    <2>3. QED  BY <2>1, <2>2
  <1>10. ASSUME NEW s \in Conns, RedialWakes(s)
         PROVE  UNCHANGED ClientLife \/ Goes({"lost"}, {"down"})
    <2>1. /\ status # "connected" /\ \A u \in ConnectCalls : ~Dialing(u)
          /\ \A t \in Conns : RedialIsLive(t) => t = s
      BY <1>10 DEF RedialWakes, DialerHolds, SocketHolds, Exclusive
    <2>2. QED  BY <1>10, <2>1 DEF RedialWakes, ConnectBegins, ClientLife
  <1>11. ASSUME NEW s \in Conns, RedialConnected(s) PROVE Goes({"lost"}, {"up"})
    <2>1. /\ status # "connected" /\ \A u \in ConnectCalls : ~Dialing(u)
          /\ ~intentionalClose /\ \A d \in DisconnectCalls : ~ByeIsLive(d)
      BY <1>11 DEF RedialConnected, DialerHolds, SocketHolds, Exclusive, ByeHolds
    <2>2. QED  BY <1>11, <2>1 DEF RedialConnected, ConnectSucceeds, ClientLife
  <1>12. ASSUME NEW s \in Conns, RedialRefused(s) PROVE Goes({"lost"}, {"down"})
    <2>1. /\ status # "connected" /\ \A u \in ConnectCalls : ~Dialing(u)
          /\ ~intentionalClose /\ \A t \in Conns : RedialIsLive(t) => t = s
      BY <1>12 DEF RedialRefused, DialerHolds, SocketHolds, Exclusive
    <2>2. QED  BY <1>12, <2>1 DEF RedialRefused, ConnectFails, ClientLife
  <1>13. ASSUME NEW s \in Conns, LoopCancelled(s) \/ ConnectionDrops(s)
         PROVE  UNCHANGED ClientLife
    BY <1>8, <1>13 DEF LoopCancelled, ConnectionDrops
  <1>14. ASSUME NEW r \in Requests, Request(r) \/ Expire(r) \/ CallerGivesUp(r)
         PROVE  UNCHANGED ClientLife
    BY <1>8, <1>14 DEF Request, Expire, CallerGivesUp
  <1>15. ASSUME NEW s \in Conns, NEW r \in Requests, LoopReads(s, r) \/ ServerAnswers(s, r)
         PROVE  UNCHANGED ClientLife
    BY <1>8, <1>15 DEF LoopReads, ServerAnswers
  <1>16. CASE UNCHANGED vars
    BY <1>8, <1>16 DEF vars
  <1> HIDE DEF Goes
  <1>17. QED
    BY <1>0, <1>1, <1>2, <1>3, <1>4, <1>5, <1>6, <1>9, <1>10, <1>11, <1>12, <1>13, <1>14,
       <1>15, <1>16
       DEF Next, UserStep, RequestStep, TaskStep, NetworkStep, Life!Next

\* Used serially, the client is the transport its holder supposes: it comes up
\* by a dial only, wins a lost connection back only while nobody closed it,
\* and once closing goes down whatever its server does.
THEOREM ClientLivesTheLife == ASSUME SerialUse PROVE Spec => ImplementsTransportLife
  <1>1. Init => Life!Init
    BY DEF Init, Life!Init, ClientLife, RedialIsLive
  <1>2. TypeInv /\ OwnerInv /\ [Next]_vars => [Life!Next]_ClientLife
    BY LifeStep
  <1>3. QED  BY <1>1, <1>2, OwnerCorrect, PTL DEF Spec, Life!Spec, ImplementsTransportLife
=============================================================================
