----------------------------- MODULE DirectDds -----------------------------
(***************************************************************************)
(* DirectDdsTransport (anima_bridge/transport/direct_dds.py) with its      *)
(* EntityCache (entity_cache.py): an event loop that runs the coroutines,  *)
(* one spin thread per connect() that runs the callbacks of rclpy, and     *)
(* call_soon_threadsafe() as the only way from the thread to the loop.     *)
(* connect() and disconnect() never suspend: disconnect() blocks the loop  *)
(* while it joins the thread, and only the threads run meanwhile.          *)
(*                                                                         *)
(* A call is one execution of subscribe_once(), call_service(),            *)
(* get_parameters() or set_parameters(), send_action_goal().  The goals    *)
(* are all of one action: _active_goals has one entry.  The subscriptions  *)
(* are all of one topic: an id is the address in topic:id(sub).            *)
(***************************************************************************)
EXTENDS Naturals, Sequences

CONSTANTS
    Calls, Handles, Ids,
    NoCall, NoHandle, NoId,
    MaxNodes,   \* BOUND: nodes ever created
    MaxHeard,   \* BOUND: messages a one-shot subscription receives
    Slow,       \* settings considered: may a callback last for more than 5 s?
    Overlap,    \* may goals of one action overlap?
    Operations, \* BOUND: in each setting, the operations each call may be
    Cancellable, \* BOUND: the calls whose caller may be cancelled
    Focus       \* BOUND: a behaviour has calls, or it has subscriptions

Nodes == 1 .. MaxNodes
None  == 0
Kinds == {"once", "service", "param", "goal"}

ASSUME DdsAssumption ==
    /\ MaxNodes \in Nat /\ MaxHeard \in Nat \ {0}
    /\ Slow \subseteq BOOLEAN /\ Overlap \in BOOLEAN
    /\ Operations \in [BOOLEAN -> [Calls -> SUBSET Kinds]] /\ Cancellable \subseteq Calls
    /\ Focus \subseteq {"calls", "subscriptions"}
    /\ NoCall \notin Calls /\ NoHandle \notin Handles /\ NoId \notin Ids


VARIABLES
    slow, focus, \* the setting, chosen once
    connected,  \* _status
    node,       \* _node
    made,       \* nodes created so far
    alive,      \* nodes not destroyed
    cached,     \* publishers and service clients of the cache, with their node
    thread,     \* the spin thread of each node
    stop,       \* _spin_stop, shared by all of them
    joining,    \* is disconnect() in join(), the loop blocked?
    ready,      \* callbacks handed to call_soon_threadsafe()
    kind, on,   \* of each call: which operation, begun on which node
    pc, fut,    \* of each call: the await it is at, the future awaited
    heard, got, \* messages received by a one-shot subscription, and the one returned
    outcome,
    owns,       \* calls whose own subscription or client is not destroyed
    goal,       \* _active_goals
    robot,      \* what became of each goal on the robot
    cancelled,  \* goals that were asked to stop
    subId,      \* the id each _unsubscribe closes over
    tracked,    \* _subscribers of the cache
    open, held, \* handles not unsubscribed; those subscribed since connect()
    strays      \* HISTORY: ids unsubscribed since connect() by handles from before it

conn  == <<slow, focus, connected, node, made, alive, cached>>
spin  == <<thread, stop, joining>>
calls == <<kind, on, pc, fut, heard, got, outcome, owns>>
goals == <<goal, robot, cancelled>>
subs  == <<subId, tracked, open, held, strays>>
vars  == <<conn, spin, ready, calls, goals, subs>>

PcState == {"idle", "finding", "accepting", "waiting", "done"}
Stages  == {"accepting", "waiting"}

ConnType ==
    /\ slow \in Slow /\ focus \in Focus /\ connected \in BOOLEAN
    /\ node \in Nodes \cup {None} /\ made \in 0 .. MaxNodes /\ alive \subseteq Nodes
    /\ cached \subseteq {"publisher", "client"} \X (Nodes \cup {None})

SpinType ==
    /\ thread \in [Nodes -> {"none", "running", "busy", "ended", "crashed"}]
    /\ stop \in BOOLEAN /\ joining \in BOOLEAN

ReadyType == ready \in Seq(Calls \X Stages \X (1 .. MaxHeard))

CallsType ==
    /\ kind \in [Calls -> Kinds \cup {"none"}] /\ on \in [Calls -> Nodes \cup {None}]
    /\ pc \in [Calls -> PcState] /\ fut \in [Calls -> {"none", "pending", "set"}]
    /\ heard \in [Calls -> 0 .. MaxHeard] /\ got \in [Calls -> 0 .. MaxHeard]
    /\ outcome \in [Calls -> {"none", "answer", "failed", "aborted", "cancelled", "raised"}]
    /\ owns \subseteq Calls

GoalsType ==
    /\ goal \in Calls \cup {NoCall} /\ cancelled \subseteq Calls
    /\ robot \in [Calls -> {"none", "asked", "rejected", "executing", "over"}]

SubsType ==
    /\ subId \in [Handles -> Ids \cup {NoId}]
    /\ tracked \in [Ids -> Handles \cup {NoHandle}]
    /\ open \subseteq Handles /\ held \subseteq Handles /\ strays \subseteq Ids \cup {NoId}

TypeOK == ConnType /\ SpinType /\ ReadyType /\ CallsType /\ GoalsType /\ SubsType

Init ==
    /\ slow \in Slow /\ focus \in Focus
    /\ connected = FALSE /\ node = None /\ made = 0 /\ alive = {} /\ cached = {}
    /\ thread = [n \in Nodes |-> "none"] /\ stop = FALSE /\ joining = FALSE
    /\ ready = <<>>
    /\ kind = [c \in Calls |-> "none"] /\ on = [c \in Calls |-> None]
    /\ pc = [c \in Calls |-> "idle"] /\ fut = [c \in Calls |-> "none"]
    /\ heard = [c \in Calls |-> 0] /\ got = [c \in Calls |-> 0]
    /\ outcome = [c \in Calls |-> "none"] /\ owns = {}
    /\ goal = NoCall /\ robot = [c \in Calls |-> "none"] /\ cancelled = {}
    /\ subId = [h \in Handles |-> NoId]
    /\ tracked = [i \in Ids |-> NoHandle] /\ open = {} /\ held = {} /\ strays = {}

-----------------------------------------------------------------------------
(* connect() and disconnect() *)

\* connect() that raises before it has a node changes nothing; one that raises
\* afterwards leaves the node and its cache, without a thread.
Connect ==
    /\ ~connected /\ ~joining /\ made < MaxNodes
    /\ made' = made + 1 /\ node' = made + 1
    /\ alive' = alive \cup {made + 1}
    /\ cached' = {} /\ tracked' = [i \in Ids |-> NoHandle] /\ strays' = {}
    /\ stop' = FALSE
    /\ \/ connected' = TRUE /\ thread' = [thread EXCEPT ![made + 1] = "running"]
       \/ UNCHANGED <<connected, thread>>
    /\ UNCHANGED <<slow, focus, joining, ready, calls, goals, subId, open, held>>

\* Mutant: _active_goals is cleared before the goals are cancelled.
CancelGoals_ClearedFirst == goal' = NoCall /\ UNCHANGED cancelled

CancelGoals ==
    /\ goal' = NoCall
    /\ cancelled' = cancelled \cup ({goal} \ {NoCall})

DisconnectBegins ==
    /\ connected /\ ~joining
    /\ CancelGoals
    /\ stop' = TRUE /\ joining' = TRUE
    /\ UNCHANGED <<conn, thread, ready, calls, robot, subs>>

Joined_NotWaited == TRUE                                      \* mutant
\* join() returns when the thread has ended, or after 5 s.
Joined == thread[node] \in {"ended", "crashed", "busy"}

\* destroy_all(), then destroy_node().
DestroyAll ==
    /\ cached' = {}
    /\ tracked' = [i \in Ids |-> NoHandle]

DisconnectEnds ==
    /\ joining /\ Joined
    /\ joining' = FALSE /\ connected' = FALSE
    /\ DestroyAll
    /\ alive' = alive \ {node} /\ node' = None
    /\ held' = {}
    /\ UNCHANGED <<slow, focus, made, thread, stop, ready, calls, goals, subId, open, strays>>

-----------------------------------------------------------------------------
(* The spin threads *)

ThreadEnds(n) ==
    /\ thread[n] = "running" /\ stop
    /\ thread' = [thread EXCEPT ![n] = "ended"]
    /\ UNCHANGED <<conn, stop, joining, ready, calls, goals, subs>>

\* A callback takes its time, and returns.
CallbackBlocks(n) ==
    /\ slow /\ thread[n] = "running" /\ ~stop
    /\ thread' = [thread EXCEPT ![n] = "busy"]
    /\ UNCHANGED <<conn, stop, joining, ready, calls, goals, subs>>

CallbackReturns(n) ==
    /\ thread[n] = "busy"
    /\ thread' = [thread EXCEPT ![n] = "running"]
    /\ UNCHANGED <<conn, stop, joining, ready, calls, goals, subs>>

\* The message of a one-shot subscription or the feedback of a goal raises in
\* its callback: spin_once() raises and the worker has no handler.  A worker
\* whose node was destroyed under it may end so too.
ThreadCrashes(n) ==
    /\ thread[n] = "running"
    /\ \/ n \notin alive
       \/ \E c \in Calls : kind[c] \in {"once", "goal"} /\ on[c] = n /\ fut[c] = "pending"
    /\ thread' = [thread EXCEPT ![n] = "crashed"]
    /\ UNCHANGED <<conn, stop, joining, ready, calls, goals, subs>>

Spins(c) == on[c] \in alive /\ thread[on[c]] = "running"

\* _on_message of subscribe_once(): done() is asked here, set_result() runs on
\* the loop, later.
OnMessage(c) ==
    /\ kind[c] = "once" /\ c \in owns /\ Spins(c) /\ heard[c] < MaxHeard
    /\ heard' = [heard EXCEPT ![c] = @ + 1]
    /\ ready' = IF fut[c] = "pending"
                THEN Append(ready, <<c, "waiting", heard[c] + 1>>) ELSE ready
    /\ UNCHANGED <<conn, spin, kind, on, pc, fut, got, outcome, owns, goals, subs>>

\* _on_done of bridge_rclpy_future(): once for each request, even if nobody
\* waits any more.  A goal is answered when the server has decided on it, and
\* its result comes when it is over.
OnDone(c) ==
    /\ kind[c] \in {"service", "param", "goal"} /\ pc[c] \in Stages /\ Spins(c)
    /\ fut[c] = "pending" /\ heard[c] = 0
    /\ kind[c] = "goal" =>
         robot[c] \in (IF pc[c] = "accepting" THEN {"rejected", "executing", "over"} ELSE {"over"})
    /\ heard' = [heard EXCEPT ![c] = 1]
    /\ ready' = Append(ready, <<c, pc[c], 1>>)
    /\ UNCHANGED <<conn, spin, kind, on, pc, fut, got, outcome, owns, goals, subs>>

RobotDecides(c) ==
    /\ \/ robot[c] = "asked" /\ \E r \in {"rejected", "executing"} : robot' = [robot EXCEPT ![c] = r]
       \/ robot[c] = "executing" /\ robot' = [robot EXCEPT ![c] = "over"]
    /\ UNCHANGED <<conn, spin, ready, calls, goal, cancelled, subs>>

-----------------------------------------------------------------------------
(* The calls, on the loop *)

\* Mutant: the last message wins.
SetResult_Overwrites(c, stage) == fut[c] # "none" /\ pc[c] = stage

\* Does set_result() find its future undone?  Else it raises InvalidStateError,
\* which the loop logs.
SetResult(c, stage) == fut[c] = "pending" /\ pc[c] = stage

LoopRuns ==
    /\ ~joining /\ ready # <<>>
    /\ ready' = Tail(ready)
    /\ LET c == Head(ready)[1] IN
         IF SetResult(c, Head(ready)[2])
         THEN /\ fut' = [fut EXCEPT ![c] = "set"]
              /\ got' = [got EXCEPT ![c] = Head(ready)[3]]
         ELSE UNCHANGED <<fut, got>>
    /\ UNCHANGED <<conn, spin, kind, on, pc, heard, outcome, owns, goals, subs>>

\* Up to the first await.  A goal, a parameter call and a one-shot subscription
\* have an entity of their own, a service call one of the cache.
Begin(c, k) ==
    /\ focus = "calls" /\ k \in Operations[slow][c]
    /\ connected /\ ~joining /\ pc[c] = "idle"
    /\ k = "goal" /\ ~Overlap =>
         \A d \in Calls : kind[d] = "goal" => pc[d] \in {"idle", "done"}
    /\ kind' = [kind EXCEPT ![c] = k]
    /\ on' = [on EXCEPT ![c] = node]
    /\ pc' = [pc EXCEPT ![c] = IF k = "once" THEN "waiting" ELSE "finding"]
    /\ fut' = [fut EXCEPT ![c] = IF k = "once" THEN "pending" ELSE "none"]
    /\ owns' = IF k = "service" THEN owns ELSE owns \cup {c}
    /\ cached' = IF k = "service" THEN cached \cup {<<"client", node>>} ELSE cached
    /\ UNCHANGED <<slow, focus, connected, node, made, alive, spin, ready, heard, got, outcome, goals, subs>>

\* A call has its answer, is refused ("failed"), ends in an except clause
\* ("aborted"), or its caller is cancelled, which no except clause catches; a
\* goal leaves its client in the last two.
\* finally: self._node.destroy_...(): of no use if the node is another by then,
\* and an AttributeError if there is none.
DestroysOwn_Not(c) == FALSE                                   \* mutant
DestroysOwn(c) == node # None

Ends(c, how) ==
    LET cleanup == kind[c] \in {"once", "param"} IN
    /\ pc' = [pc EXCEPT ![c] = "done"]
    /\ fut' = [fut EXCEPT ![c] = "none"]
    /\ outcome' = [outcome EXCEPT ![c] =
         IF cleanup /\ (node = None \/ (kind[c] = "param" /\ how \in {"failed", "aborted"}))
         THEN "raised" ELSE how]
    /\ owns' = IF (cleanup /\ DestroysOwn(c)) \/ (kind[c] = "goal" /\ how \in {"answer", "failed"})
               THEN owns \ {c} ELSE owns
    /\ UNCHANGED <<kind, on, heard>>

\* _active_goals.pop(): the entry of the action, whose ever it is.
PopGoal(c) == goal' = IF kind[c] = "goal" THEN NoCall ELSE goal

\* wait_for_service() or wait_for_server() is back from the executor: after
\* 5 s without success, or the request is sent, or something raised; nothing can
\* be sent if the node is gone.
Found(c) ==
    /\ ~joining /\ pc[c] = "finding"
    /\ \/ /\ on[c] \in alive
          /\ pc' = [pc EXCEPT ![c] = IF kind[c] = "goal" THEN "accepting" ELSE "waiting"]
          /\ fut' = [fut EXCEPT ![c] = "pending"]
          /\ robot' = IF kind[c] = "goal" THEN [robot EXCEPT ![c] = "asked"] ELSE robot
          /\ UNCHANGED <<kind, on, heard, outcome, owns, goal>>
       \/ Ends(c, "failed") /\ UNCHANGED <<robot, goal>>
       \/ Ends(c, "aborted") /\ PopGoal(c) /\ UNCHANGED robot
    /\ UNCHANGED <<conn, spin, ready, got, cancelled, subs>>

\* Mutant: the result of a goal is awaited without a limit.
Timed_NotResults(c) == pc[c] = "accepting" \/ kind[c] # "goal"
Timed(c) == TRUE

\* wait_for() gives up.
Expire(c) ==
    /\ ~joining /\ pc[c] \in Stages /\ fut[c] = "pending" /\ Timed(c)
    /\ Ends(c, "aborted")
    /\ PopGoal(c)
    /\ UNCHANGED <<conn, spin, ready, got, robot, cancelled, subs>>

\* The goal handle: rejected, or registered and its result requested, which
\* raises if the node is gone.
Accepted(c) ==
    /\ ~joining /\ pc[c] = "accepting" /\ fut[c] = "set"
    /\ \/ /\ robot[c] = "rejected" /\ Ends(c, "failed") /\ UNCHANGED goal
       \/ /\ robot[c] # "rejected" /\ on[c] \in alive
          /\ goal' = c
          /\ pc' = [pc EXCEPT ![c] = "waiting"]
          /\ fut' = [fut EXCEPT ![c] = "pending"]
          /\ heard' = [heard EXCEPT ![c] = 0]
          /\ UNCHANGED <<kind, on, outcome, owns>>
       \/ /\ robot[c] # "rejected" /\ on[c] \notin alive
          /\ Ends(c, "aborted") /\ PopGoal(c)
    /\ UNCHANGED <<conn, spin, ready, got, robot, cancelled, subs>>

Answered(c) ==
    /\ ~joining /\ pc[c] = "waiting" /\ fut[c] = "set"
    /\ Ends(c, "answer")
    /\ PopGoal(c)
    /\ UNCHANGED <<conn, spin, ready, got, robot, cancelled, subs>>

\* The caller's task is cancelled at an await: CancelledError passes by the
\* except clauses, so that a goal stays in _active_goals and goes on.
CallerGivesUp(c) ==
    /\ c \in Cancellable /\ ~joining /\ pc[c] \in {"finding"} \cup Stages
    /\ Ends(c, "cancelled")
    /\ UNCHANGED <<conn, spin, ready, got, goals, subs>>

CancelAction ==
    /\ connected /\ ~joining /\ goal # NoCall
    /\ CancelGoals
    /\ UNCHANGED <<conn, spin, ready, calls, robot, subs>>

-----------------------------------------------------------------------------
(* publish(), subscribe() *)

Publish ==
    /\ focus = "subscriptions"
    /\ connected /\ ~joining
    /\ cached' = cached \cup {<<"publisher", node>>}
    /\ UNCHANGED <<slow, focus, connected, node, made, alive, spin, ready, calls, goals, subs>>

FreshId_TopicOnly(i) == TRUE                                  \* mutant: sub_id = topic
\* id(sub): the address of no live subscription, perhaps that of one that was
\* freed.
FreshId(i) == tracked[i] = NoHandle

Subscribe(h) ==
    /\ focus = "subscriptions"
    /\ connected /\ ~joining /\ subId[h] = NoId
    /\ \E i \in Ids :
         /\ FreshId(i)
         /\ subId' = [subId EXCEPT ![h] = i]
         /\ tracked' = [tracked EXCEPT ![i] = h]
    /\ open' = open \cup {h} /\ held' = held \cup {h}
    /\ UNCHANGED <<conn, spin, ready, calls, goals, strays>>

\* Whatever the current cache tracks under the id is destroyed.
Unsubscribe(h) ==
    /\ ~joining /\ h \in open
    /\ tracked' = [tracked EXCEPT ![subId[h]] = NoHandle]
    /\ open' = open \ {h} /\ held' = held \ {h}
    /\ strays' = IF h \in held THEN strays ELSE strays \cup {subId[h]}
    /\ UNCHANGED <<conn, spin, ready, calls, goals, subId>>

-----------------------------------------------------------------------------

Coroutine(c) == Found(c) \/ Expire(c) \/ Accepted(c) \/ Answered(c)

Thread(n) == ThreadEnds(n) \/ CallbackBlocks(n) \/ CallbackReturns(n) \/ ThreadCrashes(n)

Next ==
    \/ Connect \/ DisconnectBegins \/ DisconnectEnds
    \/ LoopRuns \/ CancelAction \/ Publish
    \/ \E n \in Nodes : Thread(n)
    \/ \E c \in Calls :
         \/ \E k \in Kinds : Begin(c, k)
         \/ Coroutine(c) \/ CallerGivesUp(c)
         \/ OnMessage(c) \/ OnDone(c) \/ RobotDecides(c)
    \/ \E h \in Handles : Subscribe(h) \/ Unsubscribe(h)

Spec == Init /\ [][Next]_vars

LoopIsFair == WF_vars(LoopRuns) /\ WF_vars(DisconnectEnds)
ThreadIsFair(n) == WF_vars(ThreadEnds(n))
CallIsFair(c) == SF_vars(Coroutine(c))

\* The loop runs what is ready, timers and executor jobs come back, also when
\* disconnect() blocks the loop again and again, and a thread asked to stop
\* looks at the event.  Nothing is assumed of the robot.
Fairness ==
    /\ LoopIsFair
    /\ \A n \in Nodes : ThreadIsFair(n)
    /\ \A c \in Calls : CallIsFair(c)

FairSpec == Spec /\ Fairness

-----------------------------------------------------------------------------
(* Properties *)

\* While connected, the node is alive and it alone is spun, unless a callback
\* raised (then nobody spins it) or one held an older thread for more than 5 s
\* (then a later connect() cleared the event that thread was to see).
SpinnerServesItsNode ==
    /\ connected => node \in alive /\ thread[node] # "none"
    /\ \A n \in Nodes : thread[n] = "running" /\ n # node => slow

\* What is left behind is known: a node from a connect() that failed, the
\* client of a goal that timed out, failed or lost its caller, the goal itself
\* on the robot and, if its caller was cancelled, its entry in _active_goals.
\* Everything else ends with its call, or with its node.
OnlyKnownLeaks ==
    /\ \A n \in alive : n # node => thread[n] = "none"
    /\ \A e \in cached : e[2] = node /\ node \in alive
    /\ \A c \in owns : pc[c] = "done" /\ on[c] \in alive =>
         kind[c] = "goal" /\ outcome[c] \in {"aborted", "cancelled"}
    /\ \A c \in Calls : pc[c] = "done" /\ robot[c] \in {"asked", "executing"} =>
         c \in cancelled \/ outcome[c] \in {"aborted", "cancelled"}
    /\ goal # NoCall /\ pc[goal] = "done" => outcome[goal] = "cancelled"

\* subscribe_once() returns the first message, whatever arrives while the loop
\* is busy, and raises only if the transport was disconnected under it.
FirstMessageWins ==
    \A c \in Calls : kind[c] = "once" /\ pc[c] = "done" =>
      /\ outcome[c] = "answer" => got[c] = 1
      /\ outcome[c] = "raised" => on[c] \notin alive

\* With one goal of an action at a time, a goal in progress is one that
\* cancel_action() finds, or it was asked to stop already.
InProgressIsKnown ==
    ~Overlap => \A c \in Calls :
      kind[c] = "goal" /\ pc[c] = "waiting" => goal = c \/ c \in cancelled

\* A subscription of this connection is removed by its own handle only, unless
\* a handle kept over a disconnect() was unsubscribed whose address it has: the
\* address of a destroyed subscription is given out again, and
\* remove_subscriber() goes by it.
HandlesKeepTheirOwn ==
    \A h \in held :
      /\ subId[h] # NoId
      /\ tracked[subId[h]] = h \/ subId[h] \in strays

\* Every call ends, even if the spin thread has crashed or is stuck and the
\* transport comes and goes.
EveryCallEnds == \A c \in Calls : pc[c] # "idle" ~> pc[c] = "done"

=============================================================================
