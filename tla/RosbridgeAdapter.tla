-------------------------- MODULE RosbridgeAdapter --------------------------
(***************************************************************************)
(* What the rosbridge transport remembers for its users across             *)
(* reconnects (anima_bridge/transport/rosbridge/adapter.py, with the       *)
(* message handlers of client.py): who listens to which topic, which       *)
(* topics were advertised, and the last goal of each action.               *)
(*                                                                         *)
(* The client is seen as a link: off, up, stale (connected by its own      *)
(* account, the socket is dead), closing (so too, while disconnect() is    *)
(* under way) or closed for good: the manager connects a transport once.   *)
(* Messages are delivered in order and die with their session, so what the *)
(* server holds is written down when the message is sent.                  *)
(***************************************************************************)
EXTENDS Naturals

CONSTANTS
    Subs,         \* calls of subscribe()
    Onces,        \* calls of subscribe_once()
    Topics,
    Goals,        \* calls of send_action_goal()
    Actions,
    Nothing,      \* stands for Python's None
    Resub,        \* the id a topic is subscribed under by a reconnect
    MaxSessions,  \* BOUND: connections ever made
    Twice,        \* may unsubscribe() be called again on the same handle?
    Overlap       \* may two goals of one action be in progress?

Users == Subs \cup Onces

ASSUME AdapterAssumption ==
    /\ MaxSessions \in Nat
    /\ Twice \in BOOLEAN /\ Overlap \in BOOLEAN
    /\ Subs \cap Onces = {}
    /\ Nothing \notin Users \cup Topics \cup Goals \cup Actions
    /\ Resub \notin Users

VARIABLES
    link, session,
    topic, state,     \* what each user listens to, and how far it has come
    table,            \* _msg_handlers: topic -> handler set, named by its creator
    members,          \* the handlers in each set
    held,             \* the set each user's remove() closes over
    server,           \* the ids each topic is subscribed under, this session
    advertised,       \* _advertised
    heralded,         \* topics advertised to the server in this session
    blind,            \* sessions in which a publish came before its advertise
    goal, goalAction, \* the goals and their actions
    activeGoal,       \* _active_action_ids
    feedback,         \* goals whose feedback handler is registered
    cancelled         \* goals a cancel was sent for

linkVars == <<link, session>>
subVars  == <<topic, state, table, members, held, server>>
pubVars  == <<advertised, heralded, blind>>
goalVars == <<goal, goalAction, activeGoal, feedback, cancelled>>
vars == <<linkVars, subVars, pubVars, goalVars>>

LinkState == {"off", "up", "stale", "closing", "closed"}
UserState == {"idle", "listening", "answered", "gone"}
GoalState == {"idle", "running", "settled", "done"}

TypeOK ==
    /\ link \in LinkState
    /\ session \in 0 .. MaxSessions
    /\ topic \in [Users -> Topics \cup {Nothing}]
    /\ state \in [Users -> UserState]
    /\ table \in [Topics -> Users \cup {Nothing}]
    /\ members \in [Users -> SUBSET Users]
    /\ held \in [Users -> Users \cup {Nothing}]
    /\ server \in [Topics -> SUBSET (Users \cup {Resub})]
    /\ advertised \subseteq Topics
    /\ heralded \subseteq Topics
    /\ blind \subseteq 1 .. MaxSessions
    /\ goal \in [Goals -> GoalState]
    /\ goalAction \in [Goals -> Actions \cup {Nothing}]
    /\ activeGoal \in [Actions -> Goals \cup {Nothing}]
    /\ feedback \subseteq Goals
    /\ cancelled \subseteq Goals

Init ==
    /\ link = "off"
    /\ session = 0
    /\ topic = [u \in Users |-> Nothing]
    /\ state = [u \in Users |-> "idle"]
    /\ table = [t \in Topics |-> Nothing]
    /\ members = [u \in Users |-> {}]
    /\ held = [u \in Users |-> Nothing]
    /\ server = [t \in Topics |-> {}]
    /\ advertised = {}
    /\ heralded = {}
    /\ blind = {}
    /\ goal = [g \in Goals |-> "idle"]
    /\ goalAction = [g \in Goals |-> Nothing]
    /\ activeGoal = [a \in Actions |-> Nothing]
    /\ feedback = {}
    /\ cancelled = {}

\* is_connected(), which _ensure_connected() and send() insist on.
Connected == link \in {"up", "stale", "closing"}

-----------------------------------------------------------------------------
(* Sessions *)

\* What is left of a session on the server.
SessionLost == server' = [t \in Topics |-> {}] /\ heralded' = {}

\* The topics a reconnect subscribes again: the keys of the handler table.
Resubscribe ==
    server' = [t \in Topics |-> IF table[t] = Nothing THEN {} ELSE {Resub}]

\* The first connection, and every one a reconnect task makes.
Connects ==
    /\ link = "off"
    /\ session < MaxSessions                                  \* BOUND
    /\ link' = "up"
    /\ session' = session + 1
    /\ IF session = 0 THEN UNCHANGED server ELSE Resubscribe
    /\ UNCHANGED <<topic, state, table, members, held, pubVars, goalVars>>

SocketDies ==
    /\ link = "up"
    /\ link' = "stale"
    /\ SessionLost
    /\ UNCHANGED <<session, topic, state, table, members, held, advertised, blind, goalVars>>

\* The receive loop ends: every pending goal is rejected.
LossNoticed ==
    /\ link = "stale"
    /\ link' = "off"
    /\ goal' = [g \in Goals |-> IF goal[g] = "running" THEN "settled" ELSE goal[g]]
    /\ UNCHANGED <<session, subVars, pubVars, goalAction, activeGoal, feedback, cancelled>>

\* disconnect() up to its first await, which there is when the client is
\* connected: whoever runs before it returns still finds it so.
Disconnect ==
    /\ link \notin {"closing", "closed"}
    /\ link' = IF Connected THEN "closing" ELSE "closed"
    /\ SessionLost
    /\ advertised' = {}
    /\ activeGoal' = [a \in Actions |-> Nothing]
    /\ goal' = [g \in Goals |-> IF goal[g] = "running" THEN "settled" ELSE goal[g]]
    /\ UNCHANGED <<session, topic, state, table, members, held, blind, goalAction,
                   feedback, cancelled>>

DisconnectReturns ==
    /\ link = "closing"
    /\ link' = "closed"
    /\ UNCHANGED <<session, subVars, pubVars, goalVars>>

-----------------------------------------------------------------------------
(* Subscriptions *)

\* on_message(): the topic's handler set, or a new one.
SetOf(u, t) == IF table[t] = Nothing THEN u ELSE table[t]

\* Mutant: a topic the server sends already is not subscribed again.
SendSubscribe_OncePerTopic(u, t) ==
    server' = IF link = "up" /\ server[t] = {} THEN [server EXCEPT ![t] = {u}] ELSE server

SendSubscribe(u, t) ==
    server' = IF link = "up" THEN [server EXCEPT ![t] = @ \cup {u}] ELSE server

\* subscribe() and the first half of subscribe_once().
Listen(u, t) ==
    /\ Connected
    /\ state[u] = "idle"
    /\ state' = [state EXCEPT ![u] = "listening"]
    /\ topic' = [topic EXCEPT ![u] = t]
    /\ table' = [table EXCEPT ![t] = SetOf(u, t)]
    /\ members' = [members EXCEPT ![SetOf(u, t)] = @ \cup {u}]
    /\ held' = [held EXCEPT ![u] = SetOf(u, t)]
    /\ SendSubscribe(u, t)
    /\ UNCHANGED <<linkVars, pubVars, goalVars>>

\* remove(): when the set it closes over is empty, the topic's entry goes,
\* whichever set that is by now.
Remove(u) ==
    /\ members' = [members EXCEPT ![held[u]] = @ \ {u}]
    /\ table' = IF members[held[u]] \ {u} = {}
                THEN [table EXCEPT ![topic[u]] = Nothing] ELSE table

SendUnsubscribe_Never(u) == UNCHANGED server                  \* mutant
SendUnsubscribe(u) ==
    server' = IF link = "up" THEN [server EXCEPT ![topic[u]] = @ \ {u}] ELSE server

Unsubscribe(u) ==
    /\ u \in Subs
    /\ state[u] = "listening" \/ (Twice /\ state[u] = "gone")
    /\ state' = [state EXCEPT ![u] = "gone"]
    /\ Remove(u)
    /\ SendUnsubscribe(u)
    /\ UNCHANGED <<linkVars, topic, held, pubVars, goalVars>>

\* A message arrives: the one-shot listeners of its topic have their answer.
Delivers(t) ==
    /\ link = "up"
    /\ server[t] # {}
    /\ table[t] # Nothing
    /\ state' = [u \in Users |->
                    IF u \in Onces \cap members[table[t]] /\ state[u] = "listening"
                    THEN "answered" ELSE state[u]]
    /\ UNCHANGED <<linkVars, topic, table, members, held, server, pubVars, goalVars>>

\* subscribe_once() resumes: answered, timed out or cancelled.
OnceEnds(u) ==
    /\ u \in Onces
    /\ state[u] \in {"listening", "answered"}
    /\ state' = [state EXCEPT ![u] = "gone"]
    /\ Remove(u)
    /\ SendUnsubscribe(u)
    /\ UNCHANGED <<linkVars, topic, held, pubVars, goalVars>>

-----------------------------------------------------------------------------
(* publish() *)

\* The topics the server knows when the message arrives.
Announce(t) ==
    IF link = "up" /\ t \notin advertised THEN heralded \cup {t} ELSE heralded

Publish(t) ==
    /\ Connected
    /\ advertised' = advertised \cup {t}
    /\ heralded' = Announce(t)
    /\ blind' = IF link = "up" /\ t \notin Announce(t) THEN blind \cup {session} ELSE blind
    /\ UNCHANGED <<linkVars, subVars, goalVars>>

-----------------------------------------------------------------------------
(* Goals *)

SendGoal(g, a) ==
    /\ Connected
    /\ goal[g] = "idle"
    /\ Overlap \/ \A h \in Goals : goalAction[h] = a => goal[h] = "done"
    /\ goal' = [goal EXCEPT ![g] = "running"]
    /\ goalAction' = [goalAction EXCEPT ![g] = a]
    /\ activeGoal' = [activeGoal EXCEPT ![a] = g]
    /\ feedback' = feedback \cup {g}
    /\ UNCHANGED <<linkVars, subVars, pubVars, cancelled>>

\* The result arrives, the timer fires or the caller is cancelled.
GoalSettles(g) ==
    /\ goal[g] = "running"
    /\ goal' = [goal EXCEPT ![g] = "settled"]
    /\ UNCHANGED <<linkVars, subVars, pubVars, goalAction, activeGoal, feedback, cancelled>>

\* Mutant: the entries of all actions go.
ForgetGoal_All(a) == activeGoal' = [b \in Actions |-> Nothing]

\* The entry of the action goes, whichever goal it names.
ForgetGoal(a) == activeGoal' = [activeGoal EXCEPT ![a] = Nothing]

GoalReturns(g) ==
    /\ goal[g] = "settled"
    /\ goal' = [goal EXCEPT ![g] = "done"]
    /\ ForgetGoal(goalAction[g])
    /\ feedback' = feedback \ {g}
    /\ UNCHANGED <<linkVars, subVars, pubVars, goalAction, cancelled>>

CancelAction(a) ==
    /\ activeGoal[a] # Nothing
    /\ activeGoal' = [activeGoal EXCEPT ![a] = Nothing]
    /\ cancelled' = IF Connected THEN cancelled \cup {activeGoal[a]} ELSE cancelled
    /\ UNCHANGED <<linkVars, subVars, pubVars, goal, goalAction, feedback>>

-----------------------------------------------------------------------------

LinkStep == Connects \/ SocketDies \/ LossNoticed \/ Disconnect \/ DisconnectReturns

TopicStep ==
    \/ \E u \in Users : OnceEnds(u) \/ Unsubscribe(u) \/ \E t \in Topics : Listen(u, t)
    \/ \E t \in Topics : Delivers(t) \/ Publish(t)

GoalStep ==
    \/ \E g \in Goals : GoalSettles(g) \/ GoalReturns(g) \/ \E a \in Actions : SendGoal(g, a)
    \/ \E a \in Actions : CancelAction(a)

Next == LinkStep \/ TopicStep \/ GoalStep

Spec == Init /\ [][Next]_vars

-----------------------------------------------------------------------------
(* Properties *)

Listening(u) == state[u] \in {"listening", "answered"}

\* Whoever listens is heard of: its handler is in the table, and while the
\* connection is up the server sends the topic, after any number of losses
\* and whatever other listeners of the topic come and go.
EveryListenerIsServed ==
    ~Twice =>
        \A u \in Users : Listening(u) =>
            /\ table[topic[u]] # Nothing /\ u \in members[table[topic[u]]]
            /\ link = "up" => server[topic[u]] # {}

\* The handler table has a key only for a topic somebody listens to, so a
\* reconnect asks for no other.
TableIsTidy ==
    \A t \in Topics : table[t] # Nothing =>
        \E u \in Users : Listening(u) /\ topic[u] = t

\* "Stop receiving messages and release the subscription" holds until the first
\* reconnect; what the server sends to nobody is what a reconnect subscribed.
LeaksOnlyReconnects ==
    \A t \in Topics :
        \A id \in server[t] :
            \/ id = Resub /\ session > 1
            \/ id \in Users /\ Listening(id) /\ topic[id] = t

\* In the first session a topic is advertised before anything is published.
AdvertisedFirst == 1 \notin blind

\* cancel_action() never names a goal that has returned, nor one of another
\* action.
CancelNamesItsGoal ==
    \A a \in Actions : activeGoal[a] # Nothing =>
        goalAction[activeGoal[a]] = a /\ goal[activeGoal[a]] \in {"running", "settled"}

\* "Cancel an in-progress action goal": as long as one goal of an action is in
\* progress at a time and the transport is not closed, cancel_action() finds it.
CancelFindsTheGoal ==
    ~Overlap /\ link # "closed" =>
        \A g \in Goals : goal[g] = "running" /\ g \notin cancelled =>
            activeGoal[goalAction[g]] = g
=============================================================================
