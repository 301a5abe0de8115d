-------------------------- MODULE TransportManager --------------------------
(***************************************************************************)
(* The module-level singleton of anima_bridge/transport_manager.py: the    *)
(* global _transport and _current_mode, the lock of switch_transport(),    *)
(* and the transport instances that connect() and switch_transport()       *)
(* create.  Callers interleave wherever a transport's connect() or         *)
(* disconnect() suspends.                                                  *)
(*                                                                         *)
(* An instance is seen through AnimaTransport only.  A rosbridge transport *)
(* (SlowModes) suspends while it dials and while it closes, may lose its   *)
(* server and may win it back (module RosbridgeClient); a DDS transport    *)
(* (FastModes) does neither; the zenoh backend (MissingModes) cannot be    *)
(* imported.  Calls that change nothing (connect() on a live transport,    *)
(* disconnect() of none, a switch refused because another runs) are        *)
(* stuttering steps.                                                       *)
(***************************************************************************)
EXTENDS Naturals

CONSTANTS
    Callers,
    FastModes, SlowModes, MissingModes,
    NoMode, NoCaller,
    MaxInsts,   \* BOUND: transport instances ever created
    Settings    \* the values of <<serial, retry>> considered

ASSUME ManagerAssumption ==
    /\ MaxInsts \in Nat
    /\ Settings \subseteq BOOLEAN \X BOOLEAN
    /\ NoCaller \notin Callers
    /\ NoMode \notin FastModes \cup SlowModes \cup MissingModes
    /\ FastModes \cap SlowModes = {}

Modes == FastModes \cup SlowModes \cup MissingModes
Insts == 1 .. MaxInsts
None  == 0

VARIABLES
    serial,     \* do callers wait for each other's calls to return?
    retry,      \* do lost rosbridge connections reconnect by themselves?
    active,     \* _transport
    mode,       \* _current_mode
    lock,       \* who holds _switch_lock
    made,       \* instances created so far
    inst,       \* what each instance is doing
    instMode,   \* the backend of each instance
    pc,         \* the await each caller is suspended at
    mine,       \* the instance that await is about, or was last
    target      \* the mode a switch was asked for

setting == <<serial, retry>>
globals == <<active, mode>>
vars == <<setting, globals, lock, made, inst, instMode, pc, mine, target>>

InstState == {"none", "dialing", "up", "lost", "dead", "closing", "closed"}
PcState   == {"idle", "connecting", "disconnecting", "switch_closing", "switch_dialing"}

TypeOK ==
    /\ active \in Insts \cup {None}
    /\ mode \in Modes \cup {NoMode}
    /\ lock \in Callers \cup {NoCaller}
    /\ made \in 0 .. MaxInsts
    /\ inst \in [Insts -> InstState]
    /\ instMode \in [Insts -> Modes \cup {NoMode}]
    /\ pc \in [Callers -> PcState]
    /\ mine \in [Callers -> Insts \cup {None}]
    /\ target \in [Callers -> Modes \cup {NoMode}]

Init ==
    /\ \E s \in Settings : serial = s[1] /\ retry = s[2]
    /\ active = None
    /\ mode = NoMode
    /\ lock = NoCaller
    /\ made = 0
    /\ inst = [i \in Insts |-> "none"]
    /\ instMode = [i \in Insts |-> NoMode]
    /\ pc = [c \in Callers |-> "idle"]
    /\ mine = [c \in Callers |-> None]
    /\ target = [c \in Callers |-> NoMode]

-----------------------------------------------------------------------------

\* is_connected(): a rosbridge client says "connected" until its disconnect()
\* has returned.
IsConnected(i) == inst[i] \in {"up", "closing"}

\* Does disconnect() of instance i suspend?
ClosesSlowly(i) == instMode[i] \in SlowModes /\ IsConnected(i)

MayCall(c) == pc[c] = "idle" /\ (serial => \A d \in Callers : pc[d] = "idle")

\* BOUND: no call begins that would need an instance too many.
Promised == IF \E c \in Callers : pc[c] = "switch_closing" THEN 1 ELSE 0
Room == made + Promised < MaxInsts

\* A new transport of backend m is created and becomes st; others is what the
\* other instances are by then.
Create(m, st, others) ==
    /\ made' = made + 1
    /\ instMode' = [instMode EXCEPT ![made + 1] = m]
    /\ inst' = [others EXCEPT ![made + 1] = st]

SetActive(i, m) == active' = i /\ mode' = m

ClearActive == active' = None /\ mode' = NoMode

-----------------------------------------------------------------------------
(* connect() *)

Reusable_Never == FALSE                                       \* mutant
Reusable == active # None /\ IsConnected(active)

Connect(c, m) ==
    /\ MayCall(c)
    /\ ~Reusable
    /\ Room
    /\ \/ /\ m \in FastModes                                  \* connected
          /\ Create(m, "up", inst)
          /\ SetActive(made + 1, m)
          /\ UNCHANGED <<pc, mine>>
       \/ /\ m \in FastModes                                  \* raised
          /\ Create(m, "dead", inst)
          /\ UNCHANGED <<globals, pc, mine>>
       \/ /\ m \in SlowModes                                  \* suspended
          /\ Create(m, "dialing", inst)
          /\ pc' = [pc EXCEPT ![c] = "connecting"]
          /\ mine' = [mine EXCEPT ![c] = made + 1]
          /\ UNCHANGED globals
    /\ UNCHANGED <<lock, target>>

ConnectReturns(c) ==
    /\ pc[c] = "connecting"
    /\ inst' = [inst EXCEPT ![mine[c]] = "up"]
    /\ SetActive(mine[c], instMode[mine[c]])
    /\ pc' = [pc EXCEPT ![c] = "idle"]
    /\ UNCHANGED <<lock, made, instMode, mine, target>>

ConnectRefused(c) ==
    /\ pc[c] = "connecting"
    /\ inst' = [inst EXCEPT ![mine[c]] = "dead"]
    /\ pc' = [pc EXCEPT ![c] = "idle"]
    /\ UNCHANGED <<globals, lock, made, instMode, mine, target>>

-----------------------------------------------------------------------------
(* disconnect() *)

Disconnect(c) ==
    /\ MayCall(c)
    /\ active # None
    /\ IF ClosesSlowly(active)
       THEN /\ inst' = [inst EXCEPT ![active] = "closing"]
            /\ pc' = [pc EXCEPT ![c] = "disconnecting"]
            /\ mine' = [mine EXCEPT ![c] = active]
            /\ UNCHANGED globals
       ELSE /\ inst' = [inst EXCEPT ![active] = "closed"]
            /\ ClearActive
            /\ UNCHANGED <<pc, mine>>
    /\ UNCHANGED <<lock, made, instMode, target>>

\* Mutant: the closed transport stays the active one.
DisconnectReturns_KeepsActive(c) ==
    /\ pc[c] = "disconnecting"
    /\ inst' = [inst EXCEPT ![mine[c]] = "closed"]
    /\ pc' = [pc EXCEPT ![c] = "idle"]
    /\ UNCHANGED <<globals, lock, made, instMode, mine, target>>

\* Whatever the active transport is by now, the globals are cleared.
DisconnectReturns(c) ==
    /\ pc[c] = "disconnecting"
    /\ inst' = [inst EXCEPT ![mine[c]] = "closed"]
    /\ ClearActive
    /\ pc' = [pc EXCEPT ![c] = "idle"]
    /\ UNCHANGED <<lock, made, instMode, mine, target>>

-----------------------------------------------------------------------------
(* switch_transport() *)

LockIsFree_Unchecked == TRUE                                  \* mutant
LockIsFree == lock = NoCaller

Release_Not == UNCHANGED lock                                 \* mutant
Release == lock' = NoCaller

\* The end of the call, normal or by an exception: the lock is released.
SwitchEnded(c) ==
    /\ pc' = [pc EXCEPT ![c] = "idle"]
    /\ Release

\* Mutant: the globals still name the transport that was closed.
DialNew_KeepsOld(c, m, others) ==
    /\ m \in SlowModes
    /\ Create(m, "dialing", others)
    /\ mine' = [mine EXCEPT ![c] = made + 1]
    /\ UNCHANGED globals
    /\ pc' = [pc EXCEPT ![c] = "switch_dialing"]
    /\ lock' = c

\* The old transport is gone (others is what became of the instances): create
\* and connect the new one, up to the next await or the end of the call.
DialNew(c, m, others) ==
    \/ /\ m \in MissingModes                                  \* ImportError
       /\ inst' = others
       /\ ClearActive
       /\ SwitchEnded(c)
       /\ UNCHANGED <<made, instMode, mine>>
    \/ /\ m \in FastModes                                     \* connected
       /\ Create(m, "up", others)
       /\ SetActive(made + 1, m)
       /\ mine' = [mine EXCEPT ![c] = made + 1]
       /\ SwitchEnded(c)
    \/ /\ m \in FastModes                                     \* raised
       /\ Create(m, "dead", others)
       /\ ClearActive
       /\ mine' = [mine EXCEPT ![c] = made + 1]
       /\ SwitchEnded(c)
    \/ /\ m \in SlowModes                                     \* suspended
       /\ Create(m, "dialing", others)
       /\ mine' = [mine EXCEPT ![c] = made + 1]
       /\ ClearActive
       /\ pc' = [pc EXCEPT ![c] = "switch_dialing"]
       /\ lock' = c

Switch(c, m) ==
    /\ MayCall(c)
    /\ LockIsFree
    /\ Room
    /\ target' = [target EXCEPT ![c] = m]
    /\ \/ /\ active # None /\ ClosesSlowly(active)
          /\ inst' = [inst EXCEPT ![active] = "closing"]
          /\ pc' = [pc EXCEPT ![c] = "switch_closing"]
          /\ mine' = [mine EXCEPT ![c] = active]
          /\ lock' = c
          /\ UNCHANGED <<globals, made, instMode>>
       \/ /\ active # None /\ ~ClosesSlowly(active)
          /\ DialNew(c, m, [inst EXCEPT ![active] = "closed"])
       \/ /\ active = None
          /\ DialNew(c, m, inst)

SwitchClosed(c) ==
    /\ pc[c] = "switch_closing"
    /\ DialNew(c, target[c], [inst EXCEPT ![mine[c]] = "closed"])
    /\ UNCHANGED target

SwitchReturns(c) ==
    /\ pc[c] = "switch_dialing"
    /\ inst' = [inst EXCEPT ![mine[c]] = "up"]
    /\ SetActive(mine[c], instMode[mine[c]])
    /\ SwitchEnded(c)
    /\ UNCHANGED <<made, instMode, mine, target>>

SwitchRefused(c) ==
    /\ pc[c] = "switch_dialing"
    /\ inst' = [inst EXCEPT ![mine[c]] = "dead"]
    /\ SwitchEnded(c)
    /\ UNCHANGED <<globals, made, instMode, mine, target>>

-----------------------------------------------------------------------------
(* The connection of a rosbridge transport comes and goes *)

Loses(i) ==
    /\ inst[i] = "up"
    /\ instMode[i] \in SlowModes
    /\ inst' = [inst EXCEPT ![i] = IF retry THEN "lost" ELSE "dead"]
    /\ UNCHANGED <<globals, lock, made, instMode, pc, mine, target>>

Recovers(i) ==
    /\ inst[i] = "lost"
    /\ inst' = [inst EXCEPT ![i] = "up"]
    /\ UNCHANGED <<globals, lock, made, instMode, pc, mine, target>>

GivesUp(i) ==
    /\ inst[i] = "lost"
    /\ inst' = [inst EXCEPT ![i] = "dead"]
    /\ UNCHANGED <<globals, lock, made, instMode, pc, mine, target>>

-----------------------------------------------------------------------------

Returns(c) ==
    \/ ConnectReturns(c) \/ ConnectRefused(c) \/ DisconnectReturns(c)
    \/ SwitchClosed(c) \/ SwitchReturns(c) \/ SwitchRefused(c)

Next ==
    /\ \/ \E c \in Callers :
             \/ \E m \in Modes : Connect(c, m) \/ Switch(c, m)
             \/ Disconnect(c)
             \/ Returns(c)
       \/ \E i \in Insts : Loses(i) \/ Recovers(i) \/ GivesUp(i)
    /\ UNCHANGED setting

Spec == Init /\ [][Next]_vars

\* Every dial and every close ends: connect() has a timeout, and so has the
\* closing handshake of the WebSocket.
CallIsFair(c) == WF_vars(Returns(c) /\ UNCHANGED setting)

FairSpec == Spec /\ \A c \in Callers : CallIsFair(c)

-----------------------------------------------------------------------------
(* Properties *)

Live(i) == inst[i] \in {"dialing", "up", "lost"}

\* get_transport() never hands out a transport whose disconnect() has
\* returned, whoever closed it.
ActiveIsNotClosed == active # None => inst[active] # "closed"

\* The lock lets one switch at a time close and dial.
OneSwitchAtATime ==
    \A c, d \in Callers :
        /\ pc[c] \in {"switch_closing", "switch_dialing"}
        /\ pc[d] \in {"switch_closing", "switch_dialing"}
        => c = d

\* A live transport is the one get_transport() returns, or somebody is about
\* to make it so: nothing else holds a connection to the robot.
NoOrphanTransport ==
    \A i \in Insts : Live(i) =>
        \/ i = active
        \/ \E c \in Callers : /\ pc[c] \in {"connecting", "switch_dialing"}
                              /\ mine[c] = i

\* With callers that wait for each other and connections that stay lost, the
\* manager is the single point of access it claims to be.
NoOrphanUnlessRetried == serial /\ ~retry => NoOrphanTransport

\* When callers wait for each other, a switch ends with its own transport
\* active, or with none, as its documentation says.
SwitchLeavesItsOwnOrNone ==
    [][serial => \A c \in Callers :
          lock = c /\ lock' # c => active' = mine'[c] \/ active' = None]_vars

\* A switch that has begun ends and releases the lock.
SwitchEnds == \A c \in Callers : (lock = c) ~> (lock # c)

-----------------------------------------------------------------------------
\* What the manager takes a rosbridge instance to do (TransportLife, which
\* RosbridgeClient implements); the others never keep anybody waiting.
InstLife(i) ==
    IF instMode[i] \notin SlowModes \/ inst[i] \in {"none", "dead", "closed"}
    THEN "down" ELSE inst[i]

Life(i) == INSTANCE TransportLife WITH state <- InstLife(i)
=============================================================================
