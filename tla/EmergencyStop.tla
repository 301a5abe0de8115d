--------------------------- MODULE EmergencyStop ---------------------------
(***************************************************************************)
(* emergency_stop() (anima_bridge/commands/estop.py) over a transport that *)
(* comes and goes, called by the MCP server or by the command line, which  *)
(* connects first (anima_bridge/cli.py).                                   *)
(*                                                                         *)
(* What is left of the transport is the link: is there an active transport *)
(* (TransportManager), does it say it is connected and is its connection   *)
(* alive (RosbridgeClient).  A rosbridge publish only starts a task that   *)
(* sends; a DDS publish is done when it returns.                           *)
(***************************************************************************)
CONSTANTS
    Calls,      \* calls of emergency_stop()
    Arms,       \* topics that look like joint commands
    CmdVel,     \* {namespace}/cmd_vel
    Kinds,      \* transports considered: rosbridge, dds
    Entries,    \* callers considered: server, cli
    RclpyWorks  \* may a raw rclpy publisher work on this machine, may it not?

ASSUME StopAssumption ==
    /\ CmdVel \notin Arms
    /\ Kinds \subseteq {"rosbridge", "dds"}
    /\ Entries \subseteq {"server", "cli"}
    /\ RclpyWorks \subseteq BOOLEAN

Topics == Arms \cup {CmdVel}

VARIABLES
    kind, entry, rclpy,  \* the setting, chosen once
    link,       \* none: no active transport; down: not connected; up;
                \* stale: connected by its own account, the socket is dead
    pc,         \* where each call is
    outcome,    \* how it ended
    stopped,    \* its stopped_topics
    sending,    \* zero messages whose send task has not run
    sent,       \* zero messages put on a live connection
    dropped     \* zero messages lost with theirs

messages == <<sending, sent, dropped>>
setting == <<kind, entry, rclpy>>
vars == <<setting, link, pc, outcome, stopped, messages>>

LinkState == {"none", "down", "up", "stale"}
PcState   == {"idle", "connecting", "ready", "listing", "done"}
Ending    == {"pending", "success", "fallback", "raised", "refused"}

TypeOK ==
    /\ kind \in Kinds /\ entry \in Entries /\ rclpy \in RclpyWorks
    /\ link \in LinkState
    /\ pc \in [Calls -> PcState]
    /\ outcome \in [Calls -> Ending]
    /\ stopped \in [Calls -> SUBSET Topics]
    /\ \A m \in {sending, sent, dropped} : m \subseteq Calls \X Topics

Init ==
    /\ kind \in Kinds /\ entry \in Entries /\ rclpy \in RclpyWorks
    /\ link \in {"none", "down", "up"}
    /\ link = "down" => kind = "rosbridge"
    /\ entry = "cli" => link = "none"
    /\ pc = [c \in Calls |-> IF entry = "cli" THEN "idle" ELSE "ready"]
    /\ outcome = [c \in Calls |-> "pending"]
    /\ stopped = [c \in Calls |-> {}]
    /\ sending = {}
    /\ sent = {}
    /\ dropped = {}

-----------------------------------------------------------------------------

Ends(c, how) ==
    /\ pc' = [pc EXCEPT ![c] = "done"]
    /\ outcome' = [outcome EXCEPT ![c] = how]

Base(c) == <<c, CmdVel>>

\* _ensure_connected() passes.
Usable == link \in {"up", "stale"}

\* publish() of a zero message to each of the topics, on a usable transport.
Publish(c, topics) ==
    IF kind = "rosbridge"
    THEN sending' = sending \cup ({c} \X topics) /\ UNCHANGED <<sent, dropped>>
    ELSE sent' = sent \cup ({c} \X topics) /\ UNCHANGED <<sending, dropped>>

-----------------------------------------------------------------------------
(* The command line: connect() comes first, outside of any try *)

CliConnect(c) ==
    /\ \A d \in Calls : pc[d] = "idle"          \* one call per process
    /\ pc' = [pc EXCEPT ![c] = "connecting"]
    /\ UNCHANGED <<setting, link, outcome, stopped, messages>>

CliConnected(c) ==
    /\ pc[c] = "connecting"
    /\ link' = "up"
    /\ pc' = [pc EXCEPT ![c] = "ready"]
    /\ UNCHANGED <<setting, outcome, stopped, messages>>

CliRefused(c) ==
    /\ pc[c] = "connecting"
    /\ Ends(c, "refused")
    /\ UNCHANGED <<setting, link, stopped, messages>>

-----------------------------------------------------------------------------
(* emergency_stop() *)

\* Mutant: the topics are listed before anything is stopped.
StopOverRosbridge_ListsFirst(c) ==
    /\ pc[c] = "ready"
    /\ kind = "rosbridge"
    /\ Usable
    /\ pc' = [pc EXCEPT ![c] = "listing"]
    /\ UNCHANGED <<setting, link, outcome, stopped, messages>>

\* Rosbridge: zero velocity is handed over, then the call waits for the list
\* of topics.
StopOverRosbridge(c) ==
    /\ pc[c] = "ready"
    /\ kind = "rosbridge"
    /\ Usable
    /\ Publish(c, {CmdVel})
    /\ stopped' = [stopped EXCEPT ![c] = @ \cup {CmdVel}]
    /\ pc' = [pc EXCEPT ![c] = "listing"]
    /\ UNCHANGED <<setting, link, outcome>>

\* Mutant: the request for the list has no timer and is not rejected.
TopicsListed_WaitsForAnswer(c) ==
    /\ pc[c] = "listing"
    /\ link = "up"
    /\ Base(c) \notin sending
    /\ Publish(c, Arms)
    /\ stopped' = [stopped EXCEPT ![c] = @ \cup Arms]
    /\ Ends(c, "success")
    /\ UNCHANGED <<setting, link>>

\* The list comes back, or it is empty because the request failed, or the
\* connection is gone when the call resumes and publish() raises.  The send
\* task of the velocity message was created before, and has run.
TopicsListed(c) ==
    /\ pc[c] = "listing"
    /\ Base(c) \notin sending
    /\ \E arms \in {{}} \cup (IF Usable THEN {Arms} ELSE {}) :
          /\ Publish(c, arms)
          /\ stopped' = [stopped EXCEPT ![c] = @ \cup arms]
    /\ Ends(c, "success")
    /\ UNCHANGED <<setting, link>>

\* DDS: nothing suspends.  publish() may report a failure, which only keeps
\* the topic off the list; one of an arm topic does not even do that.
StopOverDds(c) ==
    /\ pc[c] = "ready"
    /\ kind = "dds"
    /\ Usable
    /\ \E base \in SUBSET {CmdVel}, arms \in {{}, Arms} :
          /\ \E lost \in SUBSET arms : Publish(c, base \cup (arms \ lost))
          /\ stopped' = [stopped EXCEPT ![c] = @ \cup base \cup arms]
    /\ Ends(c, "success")
    /\ UNCHANGED <<setting, link>>

\* Mutant: the fallback node is destroyed before it has published.
FallbackStops_DestroyedFirst(c) ==
    /\ pc[c] = "ready"
    /\ ~Usable
    /\ rclpy
    /\ stopped' = [stopped EXCEPT ![c] = @ \cup {CmdVel}]
    /\ Ends(c, "fallback")
    /\ UNCHANGED <<setting, link, messages>>

\* A raw rclpy publisher of its own.
FallbackStops(c) ==
    /\ pc[c] = "ready"
    /\ ~Usable
    /\ rclpy
    /\ sent' = sent \cup {Base(c)}
    /\ stopped' = [stopped EXCEPT ![c] = @ \cup {CmdVel}]
    /\ Ends(c, "fallback")
    /\ UNCHANGED <<setting, link, sending, dropped>>

\* The handler of the second failure names the first exception, which Python
\* has deleted by then: the call raises instead of returning success=False.
FallbackFails(c) ==
    /\ pc[c] = "ready"
    /\ ~Usable
    /\ ~rclpy
    /\ Ends(c, "raised")
    /\ UNCHANGED <<setting, link, stopped, messages>>

-----------------------------------------------------------------------------
(* Send tasks and the transport *)

\* The send task of a message runs; messages go out in the order of publish().
Sends(c, t) ==
    /\ <<c, t>> \in sending
    /\ t # CmdVel => Base(c) \notin sending
    /\ sending' = sending \ {<<c, t>>}
    /\ IF link = "up"
       THEN sent' = sent \cup {<<c, t>>} /\ UNCHANGED dropped
       ELSE dropped' = dropped \cup {<<c, t>>} /\ UNCHANGED sent
    /\ UNCHANGED <<setting, link, pc, outcome, stopped>>

\* The connection dies, the client notices, the transport is closed, or it is
\* connected again, which takes longer than a send task waits.
LinkChanges(l) ==
    /\ \/ l = "stale" /\ link = "up" /\ kind = "rosbridge"
       \/ l = "down" /\ link \in {"up", "stale"} /\ kind = "rosbridge"
       \/ l = "none" /\ link # "none" /\ entry = "server"
       \/ l = "up" /\ link = "none" /\ entry = "server" /\ sending = {}
       \/ l = "up" /\ link = "down" /\ sending = {}
    /\ link' = l
    /\ UNCHANGED <<setting, pc, outcome, stopped, messages>>

CallStep(c) ==
    \/ CliConnected(c) \/ CliRefused(c)
    \/ StopOverRosbridge(c) \/ StopOverDds(c) \/ TopicsListed(c)
    \/ FallbackStops(c) \/ FallbackFails(c)
    \/ \E t \in Topics : Sends(c, t)

Next ==
    \/ \E c \in Calls : CliConnect(c) \/ CallStep(c)
    \/ \E l \in LinkState : LinkChanges(l)

Spec == Init /\ [][Next]_vars

\* Tasks that are ready run; the request for the topic list has a timer.
CallIsFair(c) == WF_vars(CallStep(c))

FairSpec == Spec /\ \A c \in Calls : CallIsFair(c)

-----------------------------------------------------------------------------
(* Properties *)

\* "... a dedicated rclpy fallback path that works even when the main
\* transport is down": where rclpy works, no call ends without having handed
\* zero velocity to a connection, the transport's or its own.
EveryCallSendsZero ==
    rclpy => \A c \in Calls :
                pc[c] = "done" => Base(c) \in sent \cup dropped

\* Over rosbridge the promise holds of every call that gets as far as
\* emergency_stop(), whatever happens to the link before or while the call
\* waits for the list of topics.
RosbridgeStopSendsZero ==
    kind = "rosbridge" /\ rclpy =>
        \A c \in Calls :
            pc[c] = "done" /\ outcome[c] # "refused" => Base(c) \in sent \cup dropped

\* "Arm discovery is best-effort; velocity stop already sent": no arm topic is
\* zeroed before the message to the base left, or was lost with the connection
\* it was handed to, however the send tasks and calls interleave.
BaseGoesFirst ==
    kind = "rosbridge" =>
        \A c \in Calls : \A t \in Arms :
            <<c, t>> \in sent => Base(c) \in sent \cup dropped

\* A stop that has begun ends.
StopEnds == \A c \in Calls : (pc[c] = "listing") ~> (pc[c] = "done")
=============================================================================
