-------------------------- MODULE RosbridgeClient --------------------------
(***************************************************************************)
(* The WebSocket client of the rosbridge transport                         *)
(* (anima_bridge/transport/rosbridge/client.py): one asyncio object whose  *)
(* connect(), disconnect(), receive loop, reconnect task, request timers   *)
(* and callers interleave at every await.                                  *)
(*                                                                         *)
(* A step of the model is the code between two awaits.  Connections are    *)
(* numbered in the order they are established; connection s names its      *)
(* socket, the receive loop created for it and the reconnect task that     *)
(* this loop schedules when it ends.  Requests stand for message ids,      *)
(* which next_id() never issues twice.                                     *)
(***************************************************************************)
EXTENDS Naturals

CONSTANTS
    ConnectCalls,      \* calls of connect() made by users of the client
    DisconnectCalls,   \* calls of disconnect()
    Requests,          \* ids of service calls and action goals
    MaxConns,          \* BOUND: connections the server ever accepts
    MaxAttempts,       \* max_reconnect_attempts
    Reconnect,         \* reconnect: is auto-reconnect enabled?
    SerialUse,         \* connect() is called only on an idle client
    OddFrames          \* may the server send a frame _route() cannot handle?

ASSUME ClientAssumption ==
    /\ MaxConns \in Nat
    /\ MaxAttempts \in Nat
    /\ Reconnect \in BOOLEAN
    /\ SerialUse \in BOOLEAN
    /\ OddFrames \in BOOLEAN

Conns  == 1 .. MaxConns
NoConn == 0

VARIABLES
    status, ws, intentionalClose, attempts,  \* fields of the client
    receiveTask, reconnectTask,              \* the task handles it keeps
    opened,     \* number of connections established so far
    socket,     \* the network's view of each connection
    loop,       \* the receive loop of each connection
    loopWs,     \* the socket that loop iterates over
    redial,     \* the reconnect task scheduled by each loop
    poisoned,   \* sockets abandoned while open after an undecodable frame
    call, bye,  \* progress of the connect() and disconnect() calls
    byeOn,      \* the receive loop a disconnect() waits for
    pending, armed, future, sentOn, inbox    \* requests and answers

clientVars  == <<status, ws, intentionalClose, attempts>>
taskVars    == <<receiveTask, reconnectTask, redial>>
loopVars    == <<loop, loopWs>>
netVars     == <<opened, socket, poisoned>>
userVars    == <<call, bye, byeOn>>
ledgerVars  == <<pending, armed, future>>
requestVars == <<pending, armed, future, sentOn, inbox>>
vars == <<clientVars, taskVars, loopVars, netVars, userVars, requestVars>>

-----------------------------------------------------------------------------
(* Types *)

Statuses    == {"disconnected", "connecting", "connected"}
SocketState == {"unused", "open", "closed"}
LoopState   == {"none", "created", "reading", "cancelling", "cancelled",
                "ended", "crashed"}
RedialState == {"none", "sleeping", "dialing", "done"}
CallState   == {"idle", "dialing", "ok", "failed"}
ByeState    == {"idle", "joining", "closing", "done", "failed"}
Outcome     == {"unissued", "waiting", "result", "timeout", "rejected", "cancelled"}

TypeOK ==
    /\ status \in Statuses
    /\ ws \in Conns \cup {NoConn}
    /\ intentionalClose \in BOOLEAN
    /\ attempts \in Nat
    /\ receiveTask \in Conns \cup {NoConn}
    /\ reconnectTask \in Conns \cup {NoConn}
    /\ opened \in 0 .. MaxConns
    /\ socket \in [Conns -> SocketState]
    /\ loop \in [Conns -> LoopState]
    /\ loopWs \in [Conns -> Conns \cup {NoConn}]
    /\ redial \in [Conns -> RedialState]
    /\ poisoned \subseteq Conns
    /\ call \in [ConnectCalls -> CallState]
    /\ bye \in [DisconnectCalls -> ByeState]
    /\ byeOn \in [DisconnectCalls -> Conns \cup {NoConn}]
    /\ pending \subseteq Requests
    /\ armed \subseteq Requests
    /\ future \in [Requests -> Outcome]
    /\ sentOn \in [Requests -> Conns \cup {NoConn}]
    /\ inbox \in [Conns -> SUBSET Requests]

Init ==
    /\ status = "disconnected"
    /\ ws = NoConn
    /\ intentionalClose = FALSE
    /\ attempts = 0
    /\ receiveTask = NoConn
    /\ reconnectTask = NoConn
    /\ opened = 0
    /\ socket = [s \in Conns |-> "unused"]
    /\ loop = [s \in Conns |-> "none"]
    /\ loopWs = [s \in Conns |-> NoConn]
    /\ redial = [s \in Conns |-> "none"]
    /\ poisoned = {}
    /\ call = [u \in ConnectCalls |-> "idle"]
    /\ bye = [d \in DisconnectCalls |-> "idle"]
    /\ byeOn = [d \in DisconnectCalls |-> NoConn]
    /\ pending = {}
    /\ armed = {}
    /\ future = [r \in Requests |-> "unissued"]
    /\ sentOn = [r \in Requests |-> NoConn]
    /\ inbox = [s \in Conns |-> {}]

-----------------------------------------------------------------------------
(* Who is at work *)

LoopIsLive(s)   == loop[s] \in {"created", "reading", "cancelling"}
RedialIsLive(s) == redial[s] \in {"sleeping", "dialing"}
ByeIsLive(d)    == bye[d] \in {"joining", "closing"}

Idle ==
    /\ status = "disconnected"
    /\ \A u \in ConnectCalls : call[u] # "dialing"
    /\ \A d \in DisconnectCalls : ~ByeIsLive(d)
    /\ \A s \in Conns : ~RedialIsLive(s)

-----------------------------------------------------------------------------
(* The request table *)

\* Mutants: nobody is told, or the table is cleared before anybody is.
RejectAllPending_Nobody == UNCHANGED <<pending, armed, future>>

RejectAllPending_ClearedFirst ==
    /\ armed' = armed \ pending
    /\ pending' = {}
    /\ UNCHANGED future

RejectAllPending ==
    /\ future' = [r \in Requests |->
                    IF r \in pending /\ future[r] = "waiting"
                    THEN "rejected" ELSE future[r]]
    /\ armed' = armed \ pending
    /\ pending' = {}

StartTimer_Not(r) == UNCHANGED armed                          \* mutant
StartTimer(r) == armed' = armed \cup {r}

\* Mutant: the future is completed without asking whether it is done.
Complete_Unguarded(r, how) == future' = [future EXCEPT ![r] = how]

Complete(r, how) ==
    future' = IF future[r] = "waiting" THEN [future EXCEPT ![r] = how] ELSE future

\* call_service() and send_action_goal(): register the id, then send.
Request(r) ==
    /\ future[r] = "unissued"
    /\ status = "connected"
    /\ future' = [future EXCEPT ![r] = "waiting"]
    /\ pending' = pending \cup {r}
    /\ StartTimer(r)
    /\ sentOn' = [sentOn EXCEPT ![r] = ws]
    /\ UNCHANGED <<clientVars, taskVars, loopVars, netVars, userVars, inbox>>

\* The timer of a request fires (_expire).
Expire(r) ==
    /\ r \in armed
    /\ armed' = armed \ {r}
    /\ pending' = pending \ {r}
    /\ IF r \in pending THEN Complete(r, "timeout") ELSE UNCHANGED future
    /\ UNCHANGED <<clientVars, taskVars, loopVars, netVars, userVars, sentOn, inbox>>

\* The task awaiting the answer is cancelled, and with it the future.
CallerGivesUp(r) ==
    /\ future[r] = "waiting"
    /\ future' = [future EXCEPT ![r] = "cancelled"]
    /\ UNCHANGED <<clientVars, taskVars, loopVars, netVars, userVars,
                   pending, armed, sentOn, inbox>>

ResolvePending(r) ==
    IF r \in pending
    THEN /\ pending' = pending \ {r}
         /\ armed' = IF future[r] = "waiting" THEN armed \ {r} ELSE armed
         /\ Complete(r, "result")
    ELSE UNCHANGED ledgerVars

-----------------------------------------------------------------------------
(* connect(): up to the handshake, and its two outcomes *)

ConnectBegins ==
    /\ intentionalClose' = FALSE
    /\ status' = "connecting"

ResetAttempts == attempts' = 0

ConnectSucceeds ==
    /\ opened < MaxConns                                      \* BOUND
    /\ opened' = opened + 1
    /\ socket' = [socket EXCEPT ![opened + 1] = "open"]
    /\ loop' = [loop EXCEPT ![opened + 1] = "created"]
    /\ ws' = opened + 1
    /\ receiveTask' = opened + 1
    /\ ResetAttempts
    /\ status' = "connected"
    /\ UNCHANGED <<intentionalClose, reconnectTask, loopWs, poisoned, bye, byeOn,
                   requestVars>>

ConnectFails ==
    /\ status' = "disconnected"
    /\ UNCHANGED <<ws, intentionalClose, attempts, receiveTask, reconnectTask,
                   loopVars, netVars, bye, byeOn, requestVars>>

UserConnect(u) ==
    /\ call[u] = "idle"
    /\ SerialUse => Idle
    /\ IF status = "connected"
       THEN /\ call' = [call EXCEPT ![u] = "ok"]
            /\ UNCHANGED <<status, intentionalClose>>
       ELSE /\ call' = [call EXCEPT ![u] = "dialing"]
            /\ ConnectBegins
    /\ UNCHANGED <<ws, attempts, taskVars, loopVars, netVars, bye, byeOn, requestVars>>

UserConnected(u) ==
    /\ call[u] = "dialing"
    /\ call' = [call EXCEPT ![u] = "ok"]
    /\ ConnectSucceeds
    /\ UNCHANGED redial

UserRefused(u) ==
    /\ call[u] = "dialing"
    /\ call' = [call EXCEPT ![u] = "failed"]
    /\ ConnectFails
    /\ UNCHANGED redial

-----------------------------------------------------------------------------
(* The receive loop *)

ScheduleReconnect(s) ==
    IF attempts >= MaxAttempts
    THEN UNCHANGED <<attempts, reconnectTask, redial>>
    ELSE /\ attempts' = attempts + 1
         /\ reconnectTask' = s
         /\ redial' = [redial EXCEPT ![s] = "sleeping"]

ForgetSocket_Keeps == UNCHANGED ws                            \* mutant
ForgetSocket == ws' = NoConn

LoopTail(s) ==
    /\ loop' = [loop EXCEPT ![s] = "ended"]
    /\ ForgetSocket
    /\ status' = "disconnected"
    /\ RejectAllPending
    /\ IF ~intentionalClose /\ Reconnect
       THEN ScheduleReconnect(s)
       ELSE UNCHANGED <<attempts, reconnectTask, redial>>

\* The task's first step reads the field _ws, whatever it is by then; the
\* library refuses a second reader on one socket.
LoopStarts(s) ==
    /\ loop[s] = "created"
    /\ \/ /\ ws = NoConn                                      \* the assert
          /\ loop' = [loop EXCEPT ![s] = "crashed"]
          /\ UNCHANGED <<clientVars, taskVars, loopWs, ledgerVars>>
       \/ /\ ws # NoConn
          /\ \E t \in Conns : loop[t] = "reading" /\ loopWs[t] = ws
          /\ LoopTail(s)
          /\ UNCHANGED <<intentionalClose, receiveTask, loopWs>>
       \/ /\ ws # NoConn
          /\ \A t \in Conns : ~(loop[t] = "reading" /\ loopWs[t] = ws)
          /\ loop' = [loop EXCEPT ![s] = "reading"]
          /\ loopWs' = [loopWs EXCEPT ![s] = ws]
          /\ UNCHANGED <<clientVars, taskVars, ledgerVars>>
    /\ UNCHANGED <<netVars, userVars, sentOn, inbox>>

\* A service_response or action_result frame is read and routed.
LoopReads(s, r) ==
    /\ loop[s] = "reading"
    /\ r \in inbox[loopWs[s]]
    /\ inbox' = [inbox EXCEPT ![loopWs[s]] = @ \ {r}]
    /\ ResolvePending(r)
    /\ UNCHANGED <<clientVars, taskVars, loopVars, netVars, userVars, sentOn>>

\* The socket is closed and drained.
LoopEnds(s) ==
    /\ loop[s] = "reading"
    /\ socket[loopWs[s]] = "closed"
    /\ inbox[loopWs[s]] = {}
    /\ LoopTail(s)
    /\ UNCHANGED <<intentionalClose, receiveTask, loopWs, netVars, userVars, sentOn, inbox>>

\* A frame that decodes to no JSON object raises out of _route: the loop ends
\* as if the connection were lost, and nobody closes the socket.
LoopChokes(s) ==
    /\ OddFrames
    /\ loop[s] = "reading"
    /\ socket[loopWs[s]] = "open"
    /\ poisoned' = poisoned \cup {loopWs[s]}
    /\ LoopTail(s)
    /\ UNCHANGED <<intentionalClose, receiveTask, loopWs, opened, socket, userVars,
                   sentOn, inbox>>

\* Mutant: a loop that reads swallows the CancelledError and reads on.
LoopCancelled_Swallowed(s) ==
    /\ loop[s] = "cancelling"
    /\ loop' = [loop EXCEPT ![s] = IF loopWs[s] = NoConn THEN "cancelled" ELSE "reading"]
    /\ UNCHANGED <<clientVars, taskVars, loopWs, netVars, userVars, requestVars>>

\* The CancelledError asked for by disconnect() is delivered.
LoopCancelled(s) ==
    /\ loop[s] = "cancelling"
    /\ loop' = [loop EXCEPT ![s] = "cancelled"]
    /\ UNCHANGED <<clientVars, taskVars, loopWs, netVars, userVars, requestVars>>

-----------------------------------------------------------------------------
(* The reconnect task *)

RedialWakes(s) ==
    /\ redial[s] = "sleeping"
    /\ IF intentionalClose \/ status = "connected"
       THEN /\ redial' = [redial EXCEPT ![s] = "done"]
            /\ UNCHANGED <<status, intentionalClose>>
       ELSE /\ redial' = [redial EXCEPT ![s] = "dialing"]
            /\ ConnectBegins
    /\ UNCHANGED <<ws, attempts, receiveTask, reconnectTask, loopVars, netVars,
                   userVars, requestVars>>

RedialConnected(s) ==
    /\ redial[s] = "dialing"
    /\ redial' = [redial EXCEPT ![s] = "done"]
    /\ ConnectSucceeds
    /\ UNCHANGED call

\* The exception is logged and the task ends: nothing schedules another.
RedialRefused(s) ==
    /\ redial[s] = "dialing"
    /\ redial' = [redial EXCEPT ![s] = "done"]
    /\ ConnectFails
    /\ UNCHANGED call

-----------------------------------------------------------------------------
(* disconnect(): cancel, join the receive loop, close the socket *)

\* Mutant: disconnect() forgets the reconnect task instead of cancelling it.
CancelReconnect_Forgets ==
    /\ reconnectTask' = NoConn
    /\ UNCHANGED redial

CancelReconnect ==
    /\ redial' = [s \in Conns |-> IF s = reconnectTask /\ RedialIsLive(s)
                                  THEN "done" ELSE redial[s]]
    /\ reconnectTask' = NoConn

CloseWs_LeavesOpen == UNCHANGED socket                        \* mutant
CloseWs == socket' = [socket EXCEPT ![ws] = "closed"]

\* What follows the join, up to the next await or the return.
CloseSocket(d) ==
    /\ receiveTask' = NoConn
    /\ \/ /\ ws # NoConn
          /\ bye' = [bye EXCEPT ![d] = "closing"]
          /\ CloseWs
          /\ UNCHANGED status
       \/ /\ ws = NoConn
          /\ bye' = [bye EXCEPT ![d] = "done"]
          /\ status' = "disconnected"
          /\ UNCHANGED socket

\* Mutant: the receive loop is neither cancelled nor awaited.
JoinReceiveLoop_Skipped(d) ==
    /\ CloseSocket(d)
    /\ UNCHANGED <<loop, byeOn>>

\* The await of the receive task: it is cancelled and waited for, or it raises
\* the AssertionError it died of, or it has ended and costs nothing.
JoinReceiveLoop(d) ==
    \/ /\ receiveTask # NoConn /\ LoopIsLive(receiveTask)
       /\ loop' = [loop EXCEPT ![receiveTask] = "cancelling"]
       /\ bye' = [bye EXCEPT ![d] = "joining"]
       /\ byeOn' = [byeOn EXCEPT ![d] = receiveTask]
       /\ UNCHANGED <<status, receiveTask, socket>>
    \/ /\ receiveTask # NoConn /\ loop[receiveTask] = "crashed"
       /\ bye' = [bye EXCEPT ![d] = "failed"]
       /\ UNCHANGED <<status, receiveTask, socket, loop, byeOn>>
    \/ /\ receiveTask # NoConn => loop[receiveTask] \in {"ended", "cancelled"}
       /\ CloseSocket(d)
       /\ UNCHANGED <<loop, byeOn>>

Disconnect(d) ==
    /\ bye[d] = "idle"
    /\ intentionalClose' = TRUE
    /\ CancelReconnect
    /\ RejectAllPending
    /\ JoinReceiveLoop(d)
    /\ UNCHANGED <<ws, attempts, opened, loopWs, poisoned, call, sentOn, inbox>>

DisconnectJoined(d) ==
    /\ bye[d] = "joining"
    /\ ~LoopIsLive(byeOn[d])
    /\ CloseSocket(d)
    /\ UNCHANGED <<ws, intentionalClose, attempts, reconnectTask, redial, loopVars,
                   opened, poisoned, call, byeOn, requestVars>>

DisconnectClosed(d) ==
    /\ bye[d] = "closing"
    /\ bye' = [bye EXCEPT ![d] = "done"]
    /\ ws' = NoConn
    /\ status' = "disconnected"
    /\ UNCHANGED <<intentionalClose, attempts, taskVars, loopVars, netVars, call, byeOn,
                   requestVars>>

-----------------------------------------------------------------------------
(* The server and the network *)

ServerAnswers(s, r) ==
    /\ socket[s] = "open"
    /\ sentOn[r] = s
    /\ inbox' = [inbox EXCEPT ![s] = @ \cup {r}]
    /\ UNCHANGED <<clientVars, taskVars, loopVars, netVars, userVars, ledgerVars, sentOn>>

ConnectionDrops(s) ==
    /\ socket[s] = "open"
    /\ socket' = [socket EXCEPT ![s] = "closed"]
    /\ UNCHANGED <<clientVars, taskVars, loopVars, opened, poisoned, userVars, requestVars>>

-----------------------------------------------------------------------------

UserStep ==
    \/ \E u \in ConnectCalls : UserConnect(u) \/ UserConnected(u) \/ UserRefused(u)
    \/ \E d \in DisconnectCalls :
          Disconnect(d) \/ DisconnectJoined(d) \/ DisconnectClosed(d)

RequestStep ==
    \E r \in Requests : Request(r) \/ Expire(r) \/ CallerGivesUp(r)

TaskStep ==
    \E s \in Conns :
        \/ LoopStarts(s) \/ LoopEnds(s) \/ LoopChokes(s) \/ LoopCancelled(s)
        \/ RedialWakes(s) \/ RedialConnected(s) \/ RedialRefused(s)
        \/ \E r \in Requests : LoopReads(s, r)

NetworkStep ==
    \E s \in Conns : ConnectionDrops(s) \/ \E r \in Requests : ServerAnswers(s, r)

Next == UserStep \/ RequestStep \/ TaskStep \/ NetworkStep

Spec == Init /\ [][Next]_vars

TimerIsFair(r) == WF_vars(Expire(r))
DialIsFair(u) == WF_vars(UserConnected(u) \/ UserRefused(u))
DisconnectIsFair(d) == WF_vars(DisconnectJoined(d)) /\ WF_vars(DisconnectClosed(d))
LoopIsFair(s) ==
    /\ WF_vars(LoopStarts(s)) /\ WF_vars(LoopEnds(s)) /\ WF_vars(LoopCancelled(s))
    /\ WF_vars(\E r \in Requests : LoopReads(s, r))
RedialIsFair(s) == WF_vars(RedialWakes(s)) /\ WF_vars(RedialConnected(s) \/ RedialRefused(s))

\* The event loop runs every task that is ready, wait_for bounds every dial,
\* and every timer fires.  Nothing is assumed of users, server or network.
Fairness ==
    /\ \A u \in ConnectCalls : DialIsFair(u)
    /\ \A d \in DisconnectCalls : DisconnectIsFair(d)
    /\ \A r \in Requests : TimerIsFair(r)
    /\ \A s \in Conns : LoopIsFair(s) /\ RedialIsFair(s)

FairSpec == Spec /\ Fairness

-----------------------------------------------------------------------------
(* Safety *)

\* Whatever the order of answer, timeout, loss, close and cancellation, a
\* request whose outcome is set keeps it: no future is completed twice
\* (which asyncio answers with InvalidStateError in the receive loop).
ResolvedOnce ==
    [][\A r \in Requests :
          future[r] \notin {"unissued", "waiting"} => future'[r] = future[r]]_vars

\* A caller that waits is in the table, where an answer or a loss finds it,
\* and has a timer that will end the wait if neither comes.
NoStrandedRequest ==
    \A r \in Requests : future[r] = "waiting" => r \in pending /\ r \in armed

\* A lost connection leaves nobody waiting: a request outlives the connection
\* it was sent on only if a disconnect() cancelled the receive loop of that
\* connection.  Of what a disconnect() owes its requests nothing is said here.
WaitsOnlyAcrossClose ==
    SerialUse =>
        \A r \in Requests :
            future[r] = "waiting" =>
                sentOn[r] # NoConn /\ (sentOn[r] = ws \/ loop[sentOn[r]] = "cancelled")

\* Used serially, the client has one owner: of the connect() in flight, the
\* receive loop and the reconnect task, at most one is alive.
OneOwner ==
    SerialUse =>
        /\ \A u, v \in ConnectCalls : call[u] = "dialing" /\ call[v] = "dialing" => u = v
        /\ \A s, t \in Conns : /\ LoopIsLive(s) \/ RedialIsLive(s)
                               /\ LoopIsLive(t) \/ RedialIsLive(t)
                               => s = t
        /\ \A s \in Conns :
              /\ ~(LoopIsLive(s) /\ RedialIsLive(s))
              /\ LoopIsLive(s) \/ RedialIsLive(s)
                    => \A u \in ConnectCalls : call[u] # "dialing"

\* ... so no connection to the robot is left open behind the client's back,
\* except one whose receive loop died of a frame it could not route.
NoOrphanSocket ==
    SerialUse => \A s \in Conns : socket[s] = "open" => s = ws \/ s \in poisoned

\* The status users read agrees with the field send() writes to.
ConnectedMeansSocket ==
    SerialUse => (status = "connected" <=> ws # NoConn)

\* After disconnect() has brought the client down, with no connect() of a user
\* in flight, only a later connect() brings it up again: no reconnect task
\* that was asleep or dialing does.
ClosedStaysClosed ==
    [][(/\ SerialUse
        /\ intentionalClose
        /\ status = "disconnected"
        /\ \A u \in ConnectCalls : call[u] # "dialing")
          => status' = "disconnected" \/ ~intentionalClose']_vars

\* The exponential backoff never leaves its first step: every accepted
\* connection resets the counter and a refused one is not tried again.
BackoffNeverGrows == SerialUse => attempts <= 1

-----------------------------------------------------------------------------
(* Liveness *)

\* Every call that waits is answered, one way or another.
EveryRequestSettles ==
    \A r \in Requests : (future[r] = "waiting") ~> (future[r] # "waiting")

\* disconnect() returns: nothing it waits for waits for it.
DisconnectReturns ==
    \A d \in DisconnectCalls : ByeIsLive(d) ~> ~ByeIsLive(d)

\* A closed socket does not stay the client's socket.
LossIsNoticed ==
    \A s \in Conns : (ws = s /\ socket[s] = "closed") ~> (ws # s)

\* The client implements the contract its callers rely on.
Replies == UNION {inbox[s] : s \in Conns}

Contract == INSTANCE RequestContract WITH outcome <- future, replies <- Replies

ImplementsRequestContract == Contract!FairSpec

\* The client as its user sees it: whoever is at work decides, and what
\* disconnect() has closed is not coming back.
ClientLife ==
    IF \E u \in ConnectCalls : call[u] = "dialing" THEN "dialing"
    ELSE IF status = "connected"
         THEN IF \E d \in DisconnectCalls : ByeIsLive(d) THEN "closing" ELSE "up"
         ELSE IF ~intentionalClose /\ \E s \in Conns : RedialIsLive(s)
              THEN "lost" ELSE "down"

Life == INSTANCE TransportLife WITH state <- ClientLife

\* Used serially, the client lives the life the transport manager supposes:
\* it comes up by a dial of its user, or by itself after a loss that no
\* disconnect() followed; one that is closing goes down and stays down until
\* somebody dials, whatever became of its socket and its reconnect task.
ImplementsTransportLife == Life!Spec
=============================================================================
