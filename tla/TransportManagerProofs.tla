----------------------- MODULE TransportManagerProofs -----------------------
(***************************************************************************)
(* Theorems about TransportManager, for every set of callers, every set of *)
(* backends and every bound on the instances.                              *)
(***************************************************************************)
EXTENDS TransportManager, TLAPS

-----------------------------------------------------------------------------
(* The inductive invariants *)

Switching == {"switch_closing", "switch_dialing"}

\* The lock is held exactly by the caller that is in the middle of a switch.
LockHeld == \A c \in Callers : pc[c] \in Switching <=> lock = c

\* A suspended caller is suspended on an instance, and a switch still has the
\* instance to make that it promised.
Located ==
    \A c \in Callers :
        /\ pc[c] # "idle" => mine[c] \in Insts
        /\ pc[c] = "switch_closing" => target[c] \in Modes /\ made < MaxInsts

LockInv == TypeOK /\ LockHeld /\ Located

Suspended(c) == pc[c] # "idle"

\* Serial callers: one call at a time, and a switch dials with no transport.
SerialInv ==
    /\ \A c, d \in Callers : Suspended(c) /\ Suspended(d) => c = d
    /\ \A c \in Callers : pc[c] = "switch_dialing" => active = None

\* What the instances can be while one call at a time runs and a lost
\* connection stays lost.
InstancesInv ==
    /\ \A i \in Insts :
          /\ inst[i] # "lost"
          /\ inst[i] = "closing" => i = active
          /\ i > made => inst[i] = "none"
    /\ active # None => inst[active] \in {"up", "closing", "dead"}
    /\ \A c \in Callers :
          /\ pc[c] = "connecting" /\ active # None => inst[active] = "dead"
          /\ pc[c] \in {"connecting", "switch_dialing"} => inst[mine[c]] = "dialing"
          /\ pc[c] \in {"disconnecting", "switch_closing"} =>
                mine[c] = active /\ active # None /\ inst[active] = "closing"

-----------------------------------------------------------------------------
(* Type correctness and the lock *)

LEMMA LockInit == Init => LockInv
BY ManagerAssumption DEF Init, LockInv, TypeOK, LockHeld, Located, Switching, Insts, None,
    InstState, PcState

\* Making a new instance is well typed while there is room for one.
LEMMA CreateTyped ==
    ASSUME LockInv, made < MaxInsts, NEW m \in Modes, NEW st \in InstState,
           NEW others \in [Insts -> InstState], Create(m, st, others)
    PROVE  /\ made' = made + 1 /\ made' \in 0 .. MaxInsts /\ made + 1 \in Insts
           /\ inst' \in [Insts -> InstState]
           /\ instMode' \in [Insts -> Modes \cup {NoMode}]
BY ManagerAssumption DEF LockInv, TypeOK, Create, Insts

\* Dialing keeps the lock with its caller, or ends the switch.
LEMMA DialTyped ==
    ASSUME LockInv, NEW c \in Callers, NEW m \in Modes,
           NEW others \in [Insts -> InstState],
           made < MaxInsts, lock \in {NoCaller, c},
           pc[c] \in {"idle", "switch_closing"},
           target' \in [Callers -> Modes \cup {NoMode}],
           DialNew(c, m, others)
    PROVE  LockInv'
<1>0. \A d \in Callers : d # c => pc[d] # "switch_closing" /\ pc[d] # "switch_dialing"
  BY ManagerAssumption DEF LockInv, LockHeld, Switching
<1>1. CASE m \in MissingModes /\ inst' = others /\ ClearActive /\ SwitchEnded(c)
           /\ UNCHANGED <<made, instMode, mine>>
  BY <1>0, <1>1, ManagerAssumption DEF LockInv, TypeOK, LockHeld, Located, Switching,
     ClearActive, SwitchEnded, Release, None, PcState
<1>2. CASE /\ m \in FastModes /\ Create(m, "up", others) /\ SetActive(made + 1, m)
           /\ mine' = [mine EXCEPT ![c] = made + 1] /\ SwitchEnded(c)
  <2>1. /\ made' = made + 1 /\ made' \in 0 .. MaxInsts /\ made + 1 \in Insts
        /\ inst' \in [Insts -> InstState]
        /\ instMode' \in [Insts -> Modes \cup {NoMode}]
    BY <1>2, CreateTyped DEF InstState
  <2> QED
    BY <1>0, <1>2, <2>1, ManagerAssumption DEF LockInv, TypeOK, LockHeld, Located, Switching,
       SetActive, SwitchEnded, Release, PcState
<1>3. CASE /\ m \in FastModes /\ Create(m, "dead", others) /\ ClearActive
           /\ mine' = [mine EXCEPT ![c] = made + 1] /\ SwitchEnded(c)
  <2>1. /\ made' = made + 1 /\ made' \in 0 .. MaxInsts /\ made + 1 \in Insts
        /\ inst' \in [Insts -> InstState]
        /\ instMode' \in [Insts -> Modes \cup {NoMode}]
    BY <1>3, CreateTyped DEF InstState
  <2> QED
    BY <1>0, <1>3, <2>1, ManagerAssumption DEF LockInv, TypeOK, LockHeld, Located, Switching,
       ClearActive, SwitchEnded, Release, None, PcState
<1>4. CASE /\ m \in SlowModes /\ Create(m, "dialing", others)
           /\ mine' = [mine EXCEPT ![c] = made + 1] /\ ClearActive
           /\ pc' = [pc EXCEPT ![c] = "switch_dialing"] /\ lock' = c
  <2>1. /\ made' = made + 1 /\ made' \in 0 .. MaxInsts /\ made + 1 \in Insts
        /\ inst' \in [Insts -> InstState]
        /\ instMode' \in [Insts -> Modes \cup {NoMode}]
    BY <1>4, CreateTyped DEF InstState
  <2> QED
    BY <1>0, <1>4, <2>1, ManagerAssumption DEF LockInv, TypeOK, LockHeld, Located, Switching,
       ClearActive, None, PcState
<1> QED
  BY <1>1, <1>2, <1>3, <1>4 DEF DialNew

\* There is room for one more instance, and for the promised one too.
LEMMA RoomMeans ==
    ASSUME LockInv, Room
    PROVE  /\ made < MaxInsts
           /\ (\E c \in Callers : pc[c] = "switch_closing") => made + 1 < MaxInsts
BY ManagerAssumption DEF LockInv, TypeOK, Room, Promised

LEMMA LockStep == LockInv /\ [Next]_vars => LockInv'
<1> SUFFICES ASSUME LockInv, [Next]_vars PROVE LockInv'
  OBVIOUS
<1> USE DEF LockInv
<1>1. ASSUME NEW c \in Callers, NEW m \in Modes, Connect(c, m) PROVE LockInv'
  <2>1. made < MaxInsts /\ ((\E d \in Callers : pc[d] = "switch_closing") => made + 1 < MaxInsts)
    BY <1>1, RoomMeans DEF Connect
  <2>2. inst \in [Insts -> InstState] /\ pc[c] = "idle"
    BY <1>1 DEF TypeOK, Connect, MayCall
  <2>3. /\ made' = made + 1 /\ made' \in 0 .. MaxInsts /\ made + 1 \in Insts
        /\ inst' \in [Insts -> InstState]
        /\ instMode' \in [Insts -> Modes \cup {NoMode}]
    BY <1>1, <2>1, <2>2, CreateTyped DEF Connect, InstState
  <2>4. TypeOK'
    BY <1>1, <2>3, ManagerAssumption DEF TypeOK, Connect, SetActive, globals, PcState
  <2>5. LockHeld' /\ Located'
    BY <1>1, <2>1, <2>2, <2>3, ManagerAssumption
    DEF TypeOK, LockHeld, Located, Connect, SetActive, globals, Switching
  <2> QED
    BY <2>4, <2>5
<1>2. ASSUME NEW c \in Callers, NEW m \in Modes, Switch(c, m) PROVE LockInv'
  <2>1. made < MaxInsts /\ lock = NoCaller /\ pc[c] = "idle"
    BY <1>2, RoomMeans DEF Switch, LockIsFree, MayCall
  <2>2. target' \in [Callers -> Modes \cup {NoMode}] /\ target'[c] = m
    BY <1>2 DEF Switch, TypeOK
  <2>3. CASE /\ active # None /\ ClosesSlowly(active)
             /\ inst' = [inst EXCEPT ![active] = "closing"]
             /\ pc' = [pc EXCEPT ![c] = "switch_closing"]
             /\ mine' = [mine EXCEPT ![c] = active]
             /\ lock' = c
             /\ UNCHANGED <<globals, made, instMode>>
    <3>1. active \in Insts
      BY <2>3 DEF TypeOK
    <3>2. \A d \in Callers : pc[d] \notin Switching
      BY <2>1, ManagerAssumption DEF LockHeld
    <3> QED
      BY <2>1, <2>2, <2>3, <3>1, <3>2, ManagerAssumption
      DEF TypeOK, LockHeld, Located, globals, Switching, InstState, PcState
  <2>4. ASSUME active # None, DialNew(c, m, [inst EXCEPT ![active] = "closed"]) PROVE LockInv'
    <3>1. [inst EXCEPT ![active] = "closed"] \in [Insts -> InstState]
      BY DEF TypeOK, InstState
    <3> HIDE DEF LockInv
    <3> QED
      BY <2>1, <2>2, <2>4, <3>1, DialTyped
  <2>5. ASSUME DialNew(c, m, inst) PROVE LockInv'
    <3>1. inst \in [Insts -> InstState]
      BY DEF TypeOK
    <3> HIDE DEF LockInv
    <3> QED
      BY <2>1, <2>2, <2>5, <3>1, DialTyped
  <2> QED
    BY <1>2, <2>3, <2>4, <2>5 DEF Switch
<1>3. ASSUME NEW c \in Callers, SwitchClosed(c) PROVE LockInv'
  <2>1. /\ made < MaxInsts /\ lock = c /\ target[c] \in Modes
        /\ pc[c] = "switch_closing" /\ target' \in [Callers -> Modes \cup {NoMode}]
    BY <1>3 DEF SwitchClosed, LockHeld, Located, Switching, TypeOK
  <2>2. [inst EXCEPT ![mine[c]] = "closed"] \in [Insts -> InstState]
    BY DEF TypeOK, InstState
  <2>3. DialNew(c, target[c], [inst EXCEPT ![mine[c]] = "closed"])
    BY <1>3 DEF SwitchClosed
  <2> HIDE DEF LockInv
  <2> QED
    BY <2>1, <2>2, <2>3, DialTyped
<1>4. ASSUME NEW c \in Callers,
             ConnectReturns(c) \/ ConnectRefused(c) \/ DisconnectReturns(c)
             \/ SwitchReturns(c) \/ SwitchRefused(c)
      PROVE  LockInv'
  <2>1. mine[c] \in Insts
    BY <1>4 DEF Located, ConnectReturns, ConnectRefused, DisconnectReturns, SwitchReturns,
        SwitchRefused
  <2>2. TypeOK'
    BY <1>4, <2>1, ManagerAssumption DEF TypeOK, ConnectReturns, ConnectRefused,
       DisconnectReturns, SwitchReturns, SwitchRefused, SwitchEnded, Release, SetActive,
       ClearActive, globals, InstState, PcState, None
  <2>3. LockHeld' /\ Located'
    BY <1>4, <2>1, ManagerAssumption DEF TypeOK, LockHeld, Located, Switching, ConnectReturns,
       ConnectRefused, DisconnectReturns, SwitchReturns, SwitchRefused, SwitchEnded, Release
  <2> QED
    BY <2>2, <2>3
<1>5. ASSUME NEW c \in Callers, Disconnect(c) PROVE LockInv'
  <2>1. active \in Insts
    BY <1>5 DEF TypeOK, Disconnect
  <2>2. TypeOK'
    BY <1>5, <2>1 DEF TypeOK, Disconnect, ClearActive, globals, InstState, PcState, None
  <2>3. LockHeld' /\ Located'
    BY <1>5, <2>1 DEF TypeOK, LockHeld, Located, Switching, Disconnect, MayCall
  <2> QED
    BY <2>2, <2>3
<1>6. ASSUME NEW i \in Insts, Loses(i) \/ Recovers(i) \/ GivesUp(i) PROVE LockInv'
  BY <1>6 DEF TypeOK, LockHeld, Located, Loses, Recovers, GivesUp, globals, InstState
<1>7. CASE UNCHANGED vars
  BY <1>7 DEF vars, globals, TypeOK, LockHeld, Located
<1> QED
  BY <1>1, <1>2, <1>3, <1>4, <1>5, <1>6, <1>7 DEF Next, Returns

LEMMA LockAlways == Spec => []LockInv
<1>1. Init => LockInv
  BY LockInit
<1>2. LockInv /\ [Next]_vars => LockInv'
  BY LockStep
<1> QED
  BY <1>1, <1>2, PTL DEF Spec

\* The manager's globals, lock and instances keep their types.
THEOREM ManagerTypeCorrect == Spec => []TypeOK
<1>1. LockInv => TypeOK
  BY DEF LockInv
<1> QED
  BY <1>1, LockAlways, PTL

\* switch_transport() never runs twice at once, whatever connect() and
\* disconnect() do meanwhile.
THEOREM OneSwitch == Spec => []OneSwitchAtATime
<1>1. LockInv => OneSwitchAtATime
  BY DEF LockInv, LockHeld, OneSwitchAtATime, Switching
<1> QED
  BY <1>1, LockAlways, PTL

-----------------------------------------------------------------------------
(* No closed transport is handed out *)

LEMMA NotClosedDial ==
    ASSUME LockInv, NEW c \in Callers, NEW m \in Modes,
           NEW others \in [Insts -> InstState], made < MaxInsts, DialNew(c, m, others)
    PROVE  ActiveIsNotClosed'
<1>1. made + 1 \in Insts
  BY ManagerAssumption DEF LockInv, TypeOK, Insts
<1> QED
  BY <1>1 DEF DialNew, Create, SetActive, ClearActive, ActiveIsNotClosed, None

LEMMA NotClosedStep == LockInv /\ ActiveIsNotClosed /\ [Next]_vars => ActiveIsNotClosed'
<1> SUFFICES ASSUME LockInv, ActiveIsNotClosed, [Next]_vars PROVE ActiveIsNotClosed'
  OBVIOUS
<1>1. ASSUME NEW c \in Callers, NEW m \in Modes, Connect(c, m) PROVE ActiveIsNotClosed'
  <2>1. made < MaxInsts
    BY <1>1, RoomMeans DEF Connect
  <2>2. made + 1 \in Insts
    BY <2>1, ManagerAssumption DEF LockInv, TypeOK, Insts
  <2> QED
    BY <1>1, <2>2 DEF Connect, Create, SetActive, ActiveIsNotClosed, globals, LockInv, TypeOK
<1>2. ASSUME NEW c \in Callers, NEW m \in Modes, Switch(c, m) PROVE ActiveIsNotClosed'
  <2>1. made < MaxInsts
    BY <1>2, RoomMeans DEF Switch
  <2>2. inst \in [Insts -> InstState] /\ [inst EXCEPT ![active] = "closed"] \in [Insts -> InstState]
    BY DEF LockInv, TypeOK, InstState
  <2>3. CASE inst' = [inst EXCEPT ![active] = "closing"] /\ UNCHANGED <<globals, made, instMode>>
    BY <2>2, <2>3 DEF ActiveIsNotClosed, globals, LockInv, TypeOK
  <2>4. CASE DialNew(c, m, inst) \/ DialNew(c, m, [inst EXCEPT ![active] = "closed"])
    BY <2>1, <2>2, <2>4, NotClosedDial
  <2> QED
    BY <1>2, <2>3, <2>4 DEF Switch
<1>3. ASSUME NEW c \in Callers, SwitchClosed(c) PROVE ActiveIsNotClosed'
  <2>1. made < MaxInsts /\ target[c] \in Modes
    BY <1>3 DEF SwitchClosed, LockInv, Located
  <2>2. [inst EXCEPT ![mine[c]] = "closed"] \in [Insts -> InstState]
    BY DEF LockInv, TypeOK, InstState
  <2> QED
    BY <1>3, <2>1, <2>2, NotClosedDial DEF SwitchClosed
<1>4. ASSUME NEW c \in Callers, Disconnect(c) \/ ConnectReturns(c) \/ ConnectRefused(c)
             \/ DisconnectReturns(c) \/ SwitchReturns(c) \/ SwitchRefused(c)
      PROVE  ActiveIsNotClosed'
  BY <1>4 DEF LockInv, TypeOK, Located, ActiveIsNotClosed, Disconnect, ConnectReturns,
     ConnectRefused, DisconnectReturns, SwitchReturns, SwitchRefused, SetActive, ClearActive,
     globals
<1>5. ASSUME NEW i \in Insts, Loses(i) \/ Recovers(i) \/ GivesUp(i) PROVE ActiveIsNotClosed'
  BY <1>5 DEF LockInv, TypeOK, ActiveIsNotClosed, Loses, Recovers, GivesUp, globals
<1>6. CASE UNCHANGED vars
  BY <1>6 DEF vars, globals, ActiveIsNotClosed
<1> QED
  BY <1>1, <1>2, <1>3, <1>4, <1>5, <1>6 DEF Next, Returns

\* get_transport() never returns a transport whose disconnect() has returned,
\* whoever closed it and whatever ran at the same time.
THEOREM NeverHandsOutClosed == Spec => []ActiveIsNotClosed
<1>1. Init => ActiveIsNotClosed
  BY DEF Init, ActiveIsNotClosed
<1>2. LockInv /\ ActiveIsNotClosed /\ [Next]_vars => ActiveIsNotClosed'
  BY NotClosedStep
<1> QED
  BY <1>1, <1>2, LockAlways, PTL DEF Spec

-----------------------------------------------------------------------------
(* Callers that wait for each other *)

\* A behaviour keeps its setting.
LEMMA SettingKept == [Next]_vars => serial' = serial /\ retry' = retry
BY DEF Next, vars, setting

LEMMA SerialStep == serial /\ LockInv /\ SerialInv /\ [Next]_vars => SerialInv'
<1> SUFFICES ASSUME serial, LockInv, SerialInv, [Next]_vars PROVE SerialInv'
  OBVIOUS
<1> USE DEF SerialInv, Suspended
<1>1. ASSUME NEW c \in Callers, MayCall(c) PROVE \A d \in Callers : pc[d] = "idle"
  BY <1>1 DEF MayCall
<1>2. ASSUME NEW c \in Callers, NEW m \in Modes, NEW others, DialNew(c, m, others),
             \A d \in Callers : pc[d] # "idle" => d = c
      PROVE  SerialInv'
  BY <1>2 DEF DialNew, SwitchEnded, ClearActive, LockInv, TypeOK
<1>3. ASSUME NEW c \in Callers, NEW m \in Modes, Connect(c, m) PROVE SerialInv'
  BY <1>1, <1>3 DEF Connect, LockInv, TypeOK
<1>4. ASSUME NEW c \in Callers, NEW m \in Modes, Switch(c, m) PROVE SerialInv'
  <2>1. \A d \in Callers : pc[d] = "idle"
    BY <1>1, <1>4 DEF Switch
  <2> QED
    BY <1>2, <1>4, <2>1 DEF Switch, LockInv, TypeOK
<1>5. ASSUME NEW c \in Callers, SwitchClosed(c) PROVE SerialInv'
  <2>1. target[c] \in Modes
    BY <1>5 DEF SwitchClosed, LockInv, Located
  <2> QED
    BY <1>2, <1>5, <2>1 DEF SwitchClosed
<1>6. ASSUME NEW c \in Callers, Disconnect(c) PROVE SerialInv'
  BY <1>1, <1>6 DEF Disconnect, LockInv, TypeOK
<1>7. ASSUME NEW c \in Callers, ConnectReturns(c) \/ ConnectRefused(c) \/ DisconnectReturns(c)
             \/ SwitchReturns(c) \/ SwitchRefused(c)
      PROVE  SerialInv'
  BY <1>7 DEF LockInv, TypeOK, ConnectReturns, ConnectRefused, DisconnectReturns,
     SwitchReturns, SwitchRefused, SwitchEnded
<1>8. ASSUME NEW i \in Insts, Loses(i) \/ Recovers(i) \/ GivesUp(i) PROVE SerialInv'
  BY <1>8 DEF Loses, Recovers, GivesUp, globals
<1>9. CASE UNCHANGED vars
  BY <1>9 DEF vars, globals
<1> QED
  BY <1>3, <1>4, <1>5, <1>6, <1>7, <1>8, <1>9 DEF Next, Returns

WhenSerial == serial => SerialInv

LEMMA SerialAlways == Spec => [](LockInv /\ WhenSerial)
<1>1. Init => WhenSerial
  BY DEF Init, WhenSerial, SerialInv, Suspended
<1>2. LockInv /\ WhenSerial /\ [Next]_vars => WhenSerial'
  BY SerialStep, SettingKept DEF WhenSerial
<1> QED
  BY <1>1, <1>2, LockAlways, PTL DEF Spec

\* When callers wait for each other, a switch ends with its own transport
\* active or with none, as its documentation says.
THEOREM SwitchKeepsItsWord == Spec => SwitchLeavesItsOwnOrNone
<1> DEFINE Kept == serial => \A c \in Callers :
                     lock = c /\ lock' # c => active' = mine'[c] \/ active' = None
<1>1. ASSUME LockInv, WhenSerial, [Next]_vars PROVE Kept
  <2> SUFFICES ASSUME serial, NEW c \in Callers, lock = c, lock' # c
               PROVE  active' = mine'[c] \/ active' = None
    OBVIOUS
  <2>0. SerialInv
    BY <1>1 DEF WhenSerial
  <2>1. pc[c] \in Switching
    BY <1>1 DEF LockInv, LockHeld
  <2>2. \A d \in Callers : ~MayCall(d)
    BY <2>1 DEF MayCall, Switching
  <2>3. CASE SwitchClosed(c)
    BY <1>1, <2>3 DEF SwitchClosed, DialNew, SetActive, ClearActive, LockInv, TypeOK
  <2>4. CASE SwitchReturns(c)
    BY <2>4 DEF SwitchReturns, SetActive
  <2>5. CASE SwitchRefused(c)
    BY <2>0, <2>5 DEF SwitchRefused, SerialInv, globals
  <2>6. ASSUME NEW d \in Callers, SwitchClosed(d) \/ SwitchReturns(d) \/ SwitchRefused(d)
        PROVE  d = c
    BY <2>0, <2>1, <2>6 DEF SerialInv, Suspended, Switching, SwitchClosed, SwitchReturns,
       SwitchRefused
  <2>7. ASSUME NEW d \in Callers,
               ConnectReturns(d) \/ ConnectRefused(d) \/ DisconnectReturns(d)
        PROVE  FALSE
    BY <2>7 DEF ConnectReturns, ConnectRefused, DisconnectReturns
  <2>8. ASSUME NEW d \in Callers,
               Disconnect(d) \/ \E m \in Modes : Connect(d, m) \/ Switch(d, m)
        PROVE  FALSE
    BY <2>2, <2>8 DEF Connect, Switch, Disconnect
  <2>9. ASSUME NEW i \in Insts, Loses(i) \/ Recovers(i) \/ GivesUp(i) PROVE FALSE
    BY <2>9 DEF Loses, Recovers, GivesUp
  <2>10. ~UNCHANGED vars
    BY DEF vars
  <2>11. ASSUME NEW d \in Callers, Returns(d) PROVE active' = mine'[c] \/ active' = None
    <3>1. CASE SwitchClosed(d) \/ SwitchReturns(d) \/ SwitchRefused(d)
      <4>1. d = c
        BY <2>6, <3>1
      <4> QED
        BY <2>3, <2>4, <2>5, <3>1, <4>1
    <3> QED
      BY <2>7, <2>11, <3>1 DEF Returns
  <2>12. Next
    BY <1>1, <2>10
  <2> QED
    BY <2>8, <2>9, <2>11, <2>12 DEF Next
<1>2. LockInv /\ WhenSerial /\ [Next]_vars => [Kept]_vars
  BY <1>1
<1> QED
  BY <1>2, SerialAlways, PTL DEF Spec, SwitchLeavesItsOwnOrNone

-----------------------------------------------------------------------------
(* Nobody else holds the robot *)

OrphanInv == LockInv /\ SerialInv /\ InstancesInv /\ NoOrphanTransport

LEMMA OrphanDial ==
    ASSUME OrphanInv, NEW c \in Callers, NEW m \in Modes, NEW others,
           made < MaxInsts,
           \A d \in Callers : pc[d] # "idle" => d = c,
           others \in [Insts -> InstState],
           \A i \in Insts : others[i] \in {"none", "dead", "closed"},
           \A i \in Insts : i > made => others[i] = "none",
           DialNew(c, m, others)
    PROVE  (InstancesInv /\ NoOrphanTransport)'
<1>1. /\ made + 1 \in Insts /\ made \in Nat /\ pc \in [Callers -> PcState]
      /\ mine \in [Callers -> Insts \cup {None}] /\ 0 \notin Insts
  BY ManagerAssumption DEF OrphanInv, LockInv, TypeOK, Insts
<1>2. \A i \in Insts : i \in Nat
  BY ManagerAssumption DEF Insts
<1>3. CASE m \in MissingModes /\ inst' = others /\ ClearActive /\ SwitchEnded(c)
           /\ UNCHANGED <<made, instMode, mine>>
  BY <1>1, <1>3 DEF InstancesInv, NoOrphanTransport, Live, ClearActive, SwitchEnded
<1>4. CASE /\ m \in FastModes /\ Create(m, "up", others) /\ SetActive(made + 1, m)
           /\ mine' = [mine EXCEPT ![c] = made + 1] /\ SwitchEnded(c)
  BY <1>1, <1>2, <1>4
  DEF InstancesInv, NoOrphanTransport, Live, SetActive, SwitchEnded, Create
<1>5. CASE /\ m \in FastModes /\ Create(m, "dead", others) /\ ClearActive
           /\ mine' = [mine EXCEPT ![c] = made + 1] /\ SwitchEnded(c)
  BY <1>1, <1>2, <1>5
  DEF InstancesInv, NoOrphanTransport, Live, ClearActive, SwitchEnded, Create
<1>6. CASE /\ m \in SlowModes /\ Create(m, "dialing", others)
           /\ mine' = [mine EXCEPT ![c] = made + 1] /\ ClearActive
           /\ pc' = [pc EXCEPT ![c] = "switch_dialing"] /\ lock' = c
  <2>1. InstancesInv'
    BY <1>1, <1>2, <1>6 DEF InstancesInv, ClearActive, Create
  <2>2. pc'[c] = "switch_dialing" /\ mine'[c] = made + 1
    BY <1>1, <1>6
  <2>3. \A i \in Insts : Live(i)' => i = made + 1
    BY <1>1, <1>6 DEF Live, Create
  <2> QED
    BY <2>1, <2>2, <2>3 DEF NoOrphanTransport
<1> QED
  BY <1>3, <1>4, <1>5, <1>6 DEF DialNew

LEMMA OrphanStep ==
    serial /\ ~retry /\ OrphanInv /\ [Next]_vars => (InstancesInv /\ NoOrphanTransport)'
<1> SUFFICES ASSUME serial, ~retry, OrphanInv, [Next]_vars
             PROVE  (InstancesInv /\ NoOrphanTransport)'
  OBVIOUS
<1> DEFINE Goal == InstancesInv' /\ NoOrphanTransport'
<1>1. /\ LockInv /\ SerialInv /\ InstancesInv /\ NoOrphanTransport
      /\ made \in Nat /\ pc \in [Callers -> PcState] /\ 0 \notin Insts
      /\ mine \in [Callers -> Insts \cup {None}] /\ inst \in [Insts -> InstState]
      /\ active \in Insts \cup {None} /\ \A i \in Insts : i \in Nat
  BY ManagerAssumption DEF OrphanInv, LockInv, TypeOK, Insts
<1>2. ASSUME NEW c \in Callers, MayCall(c)
      PROVE  /\ \A d \in Callers : pc[d] = "idle"
             /\ \A i \in Insts : Live(i) => i = active
  BY <1>1, <1>2 DEF MayCall, NoOrphanTransport
<1>3. ASSUME NEW c \in Callers, NEW m \in Modes, Connect(c, m) PROVE Goal
  <2>1. made < MaxInsts
    BY <1>1, <1>3, RoomMeans DEF Connect
  <2>2. made + 1 \in Insts /\ inst[made + 1] = "none"
    BY <1>1, <2>1, ManagerAssumption DEF Insts, InstancesInv
  <2>3. \A i \in Insts : inst[i] \notin {"dialing", "up", "lost"}
    BY <1>1, <1>2, <1>3 DEF Connect, Reusable, IsConnected, InstancesInv, Live, None
  <2>4. active # None => inst[active] = "dead"
    BY <1>1, <1>3 DEF Connect, Reusable, IsConnected, InstancesInv
  <2>5. \A d \in Callers : pc[d] = "idle"
    BY <1>2, <1>3 DEF Connect
  <2>6. CASE /\ m \in FastModes /\ Create(m, "up", inst) /\ SetActive(made + 1, m)
             /\ UNCHANGED <<pc, mine>>
    BY <1>1, <2>2, <2>3, <2>4, <2>5, <2>6, ManagerAssumption
    DEF Create, SetActive, InstancesInv, NoOrphanTransport, Live, None
  <2>7. CASE m \in FastModes /\ Create(m, "dead", inst) /\ UNCHANGED <<globals, pc, mine>>
    BY <1>1, <2>2, <2>3, <2>4, <2>5, <2>7
    DEF Create, globals, InstancesInv, NoOrphanTransport, Live
  <2>8. CASE /\ m \in SlowModes /\ Create(m, "dialing", inst)
             /\ pc' = [pc EXCEPT ![c] = "connecting"]
             /\ mine' = [mine EXCEPT ![c] = made + 1] /\ UNCHANGED globals
    <3>1. InstancesInv'
      BY <1>1, <2>2, <2>3, <2>4, <2>5, <2>8 DEF Create, globals, InstancesInv
    <3>2. pc'[c] = "connecting" /\ mine'[c] = made + 1
      BY <1>1, <2>8
    <3>3. \A i \in Insts : Live(i)' => i = made + 1
      BY <1>1, <2>2, <2>3, <2>8 DEF Live, Create
    <3> QED
      BY <3>1, <3>2, <3>3 DEF NoOrphanTransport
  <2> QED
    BY <1>3, <2>6, <2>7, <2>8 DEF Connect
<1>4. ASSUME NEW c \in Callers, NEW m \in Modes, Switch(c, m) PROVE Goal
  <2>1. made < MaxInsts
    BY <1>1, <1>4, RoomMeans DEF Switch
  <2>2. \A d \in Callers : pc[d] = "idle"
    BY <1>2, <1>4 DEF Switch
  <2>3. \A i \in Insts : Live(i) => i = active
    BY <1>2, <1>4 DEF Switch
  <2>4. CASE /\ active # None /\ ClosesSlowly(active)
             /\ inst' = [inst EXCEPT ![active] = "closing"]
             /\ pc' = [pc EXCEPT ![c] = "switch_closing"]
             /\ mine' = [mine EXCEPT ![c] = active]
             /\ UNCHANGED <<globals, made, instMode>>
    BY <1>1, <2>2, <2>3, <2>4 DEF globals, InstancesInv, NoOrphanTransport, Live
  <2>5. ASSUME active # None, ~ClosesSlowly(active),
               DialNew(c, m, [inst EXCEPT ![active] = "closed"])
        PROVE  Goal
    <3> DEFINE others == [inst EXCEPT ![active] = "closed"]
    <3>1. /\ others \in [Insts -> InstState]
          /\ \A i \in Insts : i # active => others[i] = inst[i]
          /\ others[active] = "closed" /\ active \in Insts
      BY <1>1, <2>5 DEF InstState
    <3>2. \A i \in Insts : others[i] \in {"none", "dead", "closed"}
      <4> SUFFICES ASSUME NEW i \in Insts, i # active
                   PROVE  inst[i] \in {"none", "dead", "closed"}
        BY <3>1
      <4>1. inst[i] # "closing"
        BY <1>1, <3>1 DEF InstancesInv
      <4> QED
        BY <1>1, <2>3, <4>1 DEF Live, InstState
    <3>3. \A i \in Insts : i > made => others[i] = "none"
      BY <1>1, <2>5, <3>1 DEF InstancesInv
    <3>4. \A d \in Callers : pc[d] # "idle" => d = c
      BY <2>2
    <3> QED
      BY <2>1, <2>5, <3>1, <3>2, <3>3, <3>4, OrphanDial
  <2>6. ASSUME active = None, DialNew(c, m, inst) PROVE Goal
    <3>1. \A i \in Insts : inst[i] \in {"none", "dead", "closed"}
      BY <1>1, <2>3, <2>6 DEF Live, InstState, None, InstancesInv
    <3>2. \A i \in Insts : i > made => inst[i] = "none"
      BY <1>1 DEF InstancesInv
    <3> QED
      BY <1>1, <2>1, <2>2, <2>6, <3>1, <3>2, OrphanDial
  <2> QED
    BY <1>4, <2>4, <2>5, <2>6 DEF Switch
<1>5. ASSUME NEW c \in Callers, SwitchClosed(c) PROVE Goal
  <2> DEFINE others == [inst EXCEPT ![mine[c]] = "closed"]
  <2>1. /\ made < MaxInsts /\ target[c] \in Modes /\ pc[c] = "switch_closing"
        /\ DialNew(c, target[c], others)
    BY <1>1, <1>5 DEF SwitchClosed, LockInv, Located
  <2>2. /\ mine[c] = active /\ active \in Insts /\ inst[active] = "closing"
        /\ \A d \in Callers : pc[d] # "idle" => d = c
    BY <1>1, <2>1 DEF InstancesInv, SerialInv, Suspended
  <2>3. others \in [Insts -> InstState]
    BY <1>1 DEF InstState
  <2>4. \A i \in Insts : others[i] \in {"none", "dead", "closed"}
    <3> SUFFICES ASSUME NEW i \in Insts, i # active
                 PROVE  inst[i] \in {"none", "dead", "closed"}
      BY <1>1, <2>2
    <3>1. ~Live(i) /\ inst[i] # "closing"
      BY <1>1, <2>1, <2>2 DEF NoOrphanTransport, InstancesInv
    <3> QED
      BY <1>1, <3>1 DEF Live, InstState
  <2>5. \A i \in Insts : i > made => others[i] = "none"
    BY <1>1, <2>2 DEF InstancesInv
  <2> HIDE DEF others
  <2> QED
    BY <2>1, <2>2, <2>3, <2>4, <2>5, OrphanDial
<1>6. ASSUME NEW c \in Callers, Disconnect(c) PROVE Goal
  <2>1. /\ active \in Insts /\ \A d \in Callers : pc[d] = "idle"
        /\ \A i \in Insts : Live(i) => i = active
    BY <1>1, <1>2, <1>6 DEF Disconnect
  <2>2. CASE ClosesSlowly(active)
    BY <1>1, <1>6, <2>1, <2>2 DEF Disconnect, globals, InstancesInv, NoOrphanTransport, Live
  <2>3. CASE ~ClosesSlowly(active)
    BY <1>1, <1>6, <2>1, <2>3 DEF Disconnect, ClearActive, InstancesInv, NoOrphanTransport,
       Live
  <2> QED
    BY <2>2, <2>3
<1>7. ASSUME NEW c \in Callers, pc[c] # "idle"
      PROVE  /\ mine[c] \in Insts /\ \A d \in Callers : pc[d] # "idle" => d = c
  BY <1>1, <1>7 DEF LockInv, Located, SerialInv, Suspended
<1>8. ASSUME NEW c \in Callers, DisconnectReturns(c) PROVE Goal
  BY <1>1, <1>7, <1>8
  DEF DisconnectReturns, ClearActive, InstancesInv, NoOrphanTransport, Live
<1>9. ASSUME NEW c \in Callers, ConnectReturns(c) \/ SwitchReturns(c) PROVE Goal
  <2>1. /\ mine[c] \in Insts /\ pc[c] \in {"connecting", "switch_dialing"}
        /\ \A d \in Callers : d # c => pc[d] = "idle"
        /\ inst' = [inst EXCEPT ![mine[c]] = "up"] /\ active' = mine[c] /\ made' = made
        /\ pc' = [pc EXCEPT ![c] = "idle"] /\ mine' = mine
    BY <1>7, <1>9 DEF ConnectReturns, SwitchReturns, SwitchEnded, SetActive
  <2>2. \A i \in Insts : i # mine[c] => inst[i] \notin {"dialing", "up", "lost", "closing"}
    BY <1>1, <2>1 DEF NoOrphanTransport, Live, InstancesInv, SerialInv, None
  <2>3. mine[c] <= made
    BY <1>1, <2>1 DEF InstancesInv
  <2> QED
    BY <1>1, <2>1, <2>2, <2>3 DEF InstancesInv, NoOrphanTransport, Live
<1>10. ASSUME NEW c \in Callers, ConnectRefused(c) \/ SwitchRefused(c) PROVE Goal
  <2>1. /\ mine[c] \in Insts /\ pc[c] \in {"connecting", "switch_dialing"}
        /\ \A d \in Callers : d # c => pc[d] = "idle"
        /\ inst' = [inst EXCEPT ![mine[c]] = "dead"] /\ active' = active /\ made' = made
        /\ pc' = [pc EXCEPT ![c] = "idle"] /\ mine' = mine
    BY <1>7, <1>10 DEF ConnectRefused, SwitchRefused, SwitchEnded, globals
  <2> QED
    BY <1>1, <2>1 DEF InstancesInv, NoOrphanTransport, Live
<1>11. ASSUME NEW i \in Insts, Loses(i) \/ Recovers(i) \/ GivesUp(i) PROVE Goal
  <2>1. /\ inst[i] = "up" /\ inst' = [inst EXCEPT ![i] = "dead"]
        /\ UNCHANGED <<active, made, pc, mine>>
    BY <1>1, <1>11 DEF Loses, Recovers, GivesUp, globals, InstancesInv
  <2> QED
    BY <1>1, <2>1 DEF InstancesInv, NoOrphanTransport, Live
<1>12. CASE UNCHANGED vars
  BY <1>1, <1>12 DEF vars, globals, InstancesInv, NoOrphanTransport, Live
<1> QED
  BY <1>3, <1>4, <1>5, <1>6, <1>8, <1>9, <1>10, <1>11, <1>12 DEF Next, Returns

\* When callers wait for each other and a lost connection stays lost, every
\* live transport is the active one or the one being dialed: the manager is
\* the single point of access it claims to be.
THEOREM NoTransportOrphaned == Spec => []NoOrphanUnlessRetried
<1> DEFINE Kept == serial /\ ~retry => InstancesInv /\ NoOrphanTransport
<1>1. Init => Kept
  BY DEF Init, InstancesInv, NoOrphanTransport, Live
<1>2. LockInv /\ WhenSerial /\ Kept /\ [Next]_vars => Kept'
  BY OrphanStep, SettingKept DEF WhenSerial, OrphanInv
<1>3. Kept => NoOrphanUnlessRetried
  BY DEF NoOrphanUnlessRetried
<1> QED
  BY <1>1, <1>2, <1>3, SerialAlways, PTL DEF Spec
-----------------------------------------------------------------------------
(* Every instance lives the life of a transport *)

\* A caller suspended in a dial holds a dialing instance that nobody else
\* dials and nobody can reach; one suspended in a close, an instance that only
\* goes down.
HolderInv ==
    /\ \A i \in Insts : i > made => inst[i] = "none"
    /\ active # None => inst[active] \notin {"none", "dialing"}
    /\ \A c \in Callers :
          /\ pc[c] \in {"connecting", "switch_dialing"} => inst[mine[c]] = "dialing"
          /\ pc[c] \in {"disconnecting", "switch_closing"} =>
                inst[mine[c]] \in {"closing", "closed"}
    /\ \A c, d \in Callers :
          /\ pc[c] \in {"connecting", "switch_dialing"}
          /\ pc[d] \in {"connecting", "switch_dialing"}
          /\ mine[c] = mine[d]
          => c = d

\* The moves of an instance that its life allows.
MayGo(from, to) ==
    \/ from = to
    \/ from = "down" /\ to = "dialing"
    \/ from = "dialing" /\ to \in {"up", "down"}
    \/ from = "up" /\ to \in {"lost", "closing", "down"}
    \/ from = "lost" /\ to \in {"up", "down"}
    \/ from = "closing" /\ to = "down"

InstancesMove == \A i \in Insts : MayGo(InstLife(i), InstLife(i)')

LEMMA MovesAreLife ==
    ASSUME InstancesMove, NEW i \in Insts
    PROVE  [Life(i)!Next]_(InstLife(i))
BY DEF InstancesMove, MayGo, Life!Next, Life!Dials, Life!Connects, Life!Refused,
   Life!Loses, Life!Recovers, Life!GivesUp, Life!Closes, Life!Closed, Life!Moves

\* One instance changes.
LEMMA OneMoves ==
    ASSUME LockInv, NEW i \in Insts, NEW st \in InstState,
           inst' = [inst EXCEPT ![i] = st], UNCHANGED instMode,
           \/ inst[i] = "dialing" /\ st \in {"up", "dead"}
           \/ inst[i] \in {"up", "closing"} /\ st = "closing"
           \/ inst[i] \in {"closing", "closed"} /\ st = "closed"
           \/ inst[i] = "up" /\ st \in {"lost", "dead"}
           \/ inst[i] = "lost" /\ st \in {"up", "dead"}
           \/ ~ClosesSlowly(i) /\ inst[i] # "dialing" /\ st = "closed"
    PROVE  InstancesMove
BY DEF LockInv, TypeOK, InstState, InstancesMove, InstLife, MayGo, ClosesSlowly, IsConnected

\* An old instance may have gone down; the new one is dialed, or suspends nobody.
LEMMA HolderDial ==
    ASSUME LockInv, HolderInv, NEW c \in Callers, NEW m \in Modes,
           NEW others \in [Insts -> InstState], made < MaxInsts,
           pc[c] \in {"idle", "switch_closing"},
           \A i \in Insts : others[i] # inst[i] =>
               /\ others[i] = "closed" /\ inst[i] \notin {"none", "dialing"}
               /\ ClosesSlowly(i) => inst[i] = "closing",
           DialNew(c, m, others)
    PROVE  HolderInv' /\ InstancesMove
<1>1. /\ made + 1 \in Insts /\ made \in Nat /\ \A i \in Insts : i \in Nat /\ i # None
      /\ inst \in [Insts -> InstState] /\ instMode \in [Insts -> Modes \cup {NoMode}]
      /\ pc \in [Callers -> PcState] /\ mine \in [Callers -> Insts \cup {None}]
      /\ active \in Insts \cup {None}
  BY ManagerAssumption DEF LockInv, TypeOK, Insts, None
<1>2. \A d \in Callers : pc[d] # "idle" => mine[d] \in Insts
  BY DEF LockInv, Located
<1>3. inst[made + 1] = "none" /\ others[made + 1] = "none"
  BY <1>1 DEF HolderInv
<1>4. \A d \in Callers : pc[d] # "idle" => mine[d] # made + 1
  BY <1>2, <1>3 DEF HolderInv, LockInv, TypeOK, PcState
<1>5. CASE m \in MissingModes /\ inst' = others /\ ClearActive /\ SwitchEnded(c)
           /\ UNCHANGED <<made, instMode, mine>>
  <2>1. HolderInv'
    BY <1>1, <1>2, <1>5 DEF HolderInv, ClearActive, SwitchEnded
  <2>2. InstancesMove
    BY <1>1, <1>5 DEF InstancesMove, InstLife, MayGo, ClosesSlowly, IsConnected, InstState
  <2> QED
    BY <2>1, <2>2
<1>6. ASSUME NEW st \in {"up", "dead", "dialing"}, Create(m, st, others),
             st # "dialing" => m \in FastModes
      PROVE  InstancesMove
  BY <1>1, <1>3, <1>6, ManagerAssumption
  DEF Create, InstancesMove, InstLife, MayGo, ClosesSlowly, IsConnected, InstState
<1>7. CASE /\ m \in FastModes /\ Create(m, "up", others) /\ SetActive(made + 1, m)
           /\ mine' = [mine EXCEPT ![c] = made + 1] /\ SwitchEnded(c)
  <2>1. HolderInv'
    BY <1>1, <1>2, <1>3, <1>4, <1>7 DEF HolderInv, SetActive, SwitchEnded, Create
  <2> QED
    BY <1>6, <1>7, <2>1
<1>8. CASE /\ m \in FastModes /\ Create(m, "dead", others) /\ ClearActive
           /\ mine' = [mine EXCEPT ![c] = made + 1] /\ SwitchEnded(c)
  <2>1. HolderInv'
    BY <1>1, <1>2, <1>3, <1>4, <1>8 DEF HolderInv, ClearActive, SwitchEnded, Create
  <2> QED
    BY <1>6, <1>8, <2>1
<1>9. CASE /\ m \in SlowModes /\ Create(m, "dialing", others)
           /\ mine' = [mine EXCEPT ![c] = made + 1] /\ ClearActive
           /\ pc' = [pc EXCEPT ![c] = "switch_dialing"] /\ lock' = c
  <2>1. HolderInv'
    BY <1>1, <1>2, <1>3, <1>4, <1>9 DEF HolderInv, ClearActive, Create
  <2> QED
    BY <1>6, <1>9, <2>1
<1> QED
  BY <1>5, <1>7, <1>8, <1>9 DEF DialNew

LEMMA HolderStep ==
    LockInv /\ HolderInv /\ [Next]_vars => HolderInv' /\ InstancesMove
<1> SUFFICES ASSUME LockInv, HolderInv, [Next]_vars PROVE HolderInv' /\ InstancesMove
  OBVIOUS
<1>1. /\ made \in Nat /\ \A i \in Insts : i \in Nat /\ i # None
      /\ inst \in [Insts -> InstState] /\ instMode \in [Insts -> Modes \cup {NoMode}]
      /\ pc \in [Callers -> PcState] /\ mine \in [Callers -> Insts \cup {None}]
      /\ active \in Insts \cup {None} /\ target \in [Callers -> Modes \cup {NoMode}]
  BY ManagerAssumption DEF LockInv, TypeOK, Insts, None
<1>2. \A d \in Callers : pc[d] # "idle" => mine[d] \in Insts
  BY DEF LockInv, Located
<1>3. ASSUME NEW c \in Callers, NEW m \in Modes, Connect(c, m)
      PROVE  HolderInv' /\ InstancesMove
  <2>1. made < MaxInsts /\ pc[c] = "idle"
    BY <1>3, RoomMeans DEF Connect, MayCall
  <2>2. made + 1 \in Insts
    BY <1>1, <2>1, ManagerAssumption DEF Insts
  <2>3. inst[made + 1] = "none"
    BY <1>1, <2>2 DEF HolderInv
  <2>4. \A d \in Callers : pc[d] # "idle" => mine[d] # made + 1
    BY <1>2, <2>3 DEF HolderInv, LockInv, TypeOK, PcState
  <2>5. HolderInv'
    BY <1>1, <1>2, <1>3, <2>1, <2>2, <2>3, <2>4
    DEF HolderInv, Connect, Create, SetActive, globals
  <2>6. InstancesMove
    BY <1>1, <1>3, <2>2, <2>3, ManagerAssumption
    DEF Connect, Create, InstancesMove, InstLife, MayGo
  <2> QED
    BY <2>5, <2>6
<1>4. ASSUME NEW c \in Callers,
             ConnectReturns(c) \/ ConnectRefused(c) \/ SwitchReturns(c) \/ SwitchRefused(c)
      PROVE  HolderInv' /\ InstancesMove
  <2>1. /\ pc[c] \in {"connecting", "switch_dialing"} /\ mine[c] \in Insts
        /\ inst[mine[c]] = "dialing"
    BY <1>2, <1>4 DEF HolderInv, ConnectReturns, ConnectRefused, SwitchReturns, SwitchRefused
  <2>2. \E st \in {"up", "dead"} : inst' = [inst EXCEPT ![mine[c]] = st]
    BY <1>4 DEF ConnectReturns, ConnectRefused, SwitchReturns, SwitchRefused
  <2>3. HolderInv'
    BY <1>1, <1>2, <1>4, <2>1
    DEF HolderInv, ConnectReturns, ConnectRefused, SwitchReturns, SwitchRefused, SwitchEnded,
        SetActive, globals
  <2>4. UNCHANGED instMode
    BY <1>4 DEF ConnectReturns, ConnectRefused, SwitchReturns, SwitchRefused
  <2>5. InstancesMove
    BY <2>1, <2>2, <2>4, OneMoves DEF InstState
  <2> QED
    BY <2>3, <2>5
<1>5. ASSUME NEW c \in Callers, Disconnect(c) PROVE HolderInv' /\ InstancesMove
  <2>1. active \in Insts /\ inst[active] \notin {"none", "dialing"} /\ pc[c] = "idle"
    BY <1>1, <1>5 DEF Disconnect, MayCall, HolderInv
  <2>2. HolderInv'
    BY <1>1, <1>2, <1>5, <2>1 DEF HolderInv, Disconnect, ClearActive, globals
  <2>3. InstancesMove
    BY <1>5, <2>1, OneMoves DEF Disconnect, InstState, ClosesSlowly, IsConnected
  <2> QED
    BY <2>2, <2>3
<1>6. ASSUME NEW c \in Callers, DisconnectReturns(c) PROVE HolderInv' /\ InstancesMove
  <2>1. mine[c] \in Insts /\ inst[mine[c]] \in {"closing", "closed"}
    BY <1>2, <1>6 DEF DisconnectReturns, HolderInv
  <2>2. HolderInv'
    BY <1>1, <1>2, <1>6, <2>1 DEF HolderInv, DisconnectReturns, ClearActive
  <2>3. InstancesMove
    BY <1>6, <2>1, OneMoves DEF DisconnectReturns, InstState
  <2> QED
    BY <2>2, <2>3
<1>7. ASSUME NEW c \in Callers, NEW m \in Modes, Switch(c, m)
      PROVE  HolderInv' /\ InstancesMove
  <2>1. made < MaxInsts /\ pc[c] = "idle"
    BY <1>7, RoomMeans DEF Switch, MayCall
  <2>2. CASE /\ active # None /\ ClosesSlowly(active)
             /\ inst' = [inst EXCEPT ![active] = "closing"]
             /\ pc' = [pc EXCEPT ![c] = "switch_closing"]
             /\ mine' = [mine EXCEPT ![c] = active]
             /\ lock' = c
             /\ UNCHANGED <<globals, made, instMode>>
    <3>1. active \in Insts /\ inst[active] \in {"up", "closing"}
      BY <1>1, <2>2 DEF ClosesSlowly, IsConnected
    <3>2. HolderInv'
      BY <1>1, <1>2, <2>1, <2>2, <3>1 DEF HolderInv, globals
    <3>3. InstancesMove
      BY <2>2, <3>1, OneMoves DEF InstState
    <3> QED
      BY <3>2, <3>3
  <2>3. ASSUME active # None, ~ClosesSlowly(active),
               DialNew(c, m, [inst EXCEPT ![active] = "closed"])
        PROVE  HolderInv' /\ InstancesMove
    <3> DEFINE others == [inst EXCEPT ![active] = "closed"]
    <3>1. /\ others \in [Insts -> InstState]
          /\ \A i \in Insts : others[i] # inst[i] =>
                /\ others[i] = "closed" /\ inst[i] \notin {"none", "dialing"}
                /\ ClosesSlowly(i) => inst[i] = "closing"
      BY <1>1, <2>3 DEF HolderInv, InstState
    <3>2. DialNew(c, m, others)
      BY <2>3
    <3> HIDE DEF others
    <3> QED
      BY <2>1, <3>1, <3>2, HolderDial
  <2>4. ASSUME DialNew(c, m, inst) PROVE HolderInv' /\ InstancesMove
    BY <1>1, <2>1, <2>4, HolderDial
  <2> QED
    BY <1>7, <2>2, <2>3, <2>4 DEF Switch
<1>8. ASSUME NEW c \in Callers, SwitchClosed(c) PROVE HolderInv' /\ InstancesMove
  <2> DEFINE others == [inst EXCEPT ![mine[c]] = "closed"]
  <2>1. /\ pc[c] = "switch_closing" /\ made < MaxInsts /\ target[c] \in Modes
        /\ DialNew(c, target[c], others)
    BY <1>8 DEF SwitchClosed, LockInv, Located
  <2>2. /\ others \in [Insts -> InstState]
        /\ \A i \in Insts : others[i] # inst[i] =>
              /\ others[i] = "closed" /\ inst[i] \notin {"none", "dialing"}
              /\ ClosesSlowly(i) => inst[i] = "closing"
    BY <1>1, <1>2, <2>1 DEF HolderInv, InstState
  <2> HIDE DEF others
  <2> QED
    BY <2>1, <2>2, HolderDial
<1>9. ASSUME NEW i \in Insts, Loses(i) \/ Recovers(i) \/ GivesUp(i)
      PROVE  HolderInv' /\ InstancesMove
  <2>1. HolderInv'
    BY <1>1, <1>2, <1>9 DEF HolderInv, Loses, Recovers, GivesUp, globals
  <2>2. InstancesMove
    BY <1>9, OneMoves DEF Loses, Recovers, GivesUp, InstState
  <2> QED
    BY <2>1, <2>2
<1>10. CASE UNCHANGED vars
  BY <1>10 DEF vars, globals, HolderInv, InstancesMove, InstLife, MayGo
<1> QED
  BY <1>3, <1>4, <1>5, <1>6, <1>7, <1>8, <1>9, <1>10 DEF Next, Returns

\* Whoever calls and in whatever order, what the manager supposes of each of
\* its instances is the life of a transport: it comes up by the dial it was
\* made for or by winning back a connection nobody has closed, and what is
\* closing, or closed, never comes up again.
THEOREM InstancesLiveTheLife == ASSUME NEW i \in Insts PROVE Spec => Life(i)!Spec
<1>1. Init => HolderInv /\ Life(i)!Init
  BY ManagerAssumption DEF Init, HolderInv, InstLife, Life!Init
<1>2. LockInv /\ HolderInv /\ [Next]_vars => HolderInv'
  BY HolderStep
<1>3. LockInv /\ HolderInv /\ [Next]_vars => [Life(i)!Next]_(InstLife(i))
  BY HolderStep, MovesAreLife
<1> QED
  BY <1>1, <1>2, <1>3, LockAlways, PTL DEF Spec, Life!Spec

-----------------------------------------------------------------------------
(* A switch ends *)

\* A call that is suspended can return: each of the awaits has an ending that
\* asks for nothing but room, which was promised, and that assigns every
\* variable once.  The provers cannot expand ENABLED, so the theorem has this
\* as a hypothesis.
CallCanReturn(c) == [](pc[c] # "idle" => ENABLED <<Returns(c) /\ UNCHANGED setting>>_vars)

\* Only its own return moves a caller that is suspended.
LEMMA OnlyReturns ==
    ASSUME LockInv, [Next]_vars, NEW c \in Callers, pc[c] # "idle"
    PROVE  pc'[c] = pc[c] \/ Returns(c)
<1>0. pc \in [Callers -> PcState]
  BY DEF LockInv, TypeOK
<1>1. ASSUME NEW d \in Callers, NEW m \in Modes, Connect(d, m) PROVE pc'[c] = pc[c]
  BY <1>0, <1>1 DEF Connect, MayCall
<1>2. ASSUME NEW d \in Callers, NEW m \in Modes, Switch(d, m) PROVE pc'[c] = pc[c]
  BY <1>0, <1>2 DEF Switch, MayCall, DialNew, SwitchEnded
<1>3. ASSUME NEW d \in Callers, Disconnect(d) PROVE pc'[c] = pc[c]
  BY <1>0, <1>3 DEF Disconnect, MayCall
<1>4. ASSUME NEW d \in Callers, d # c, Returns(d) PROVE pc'[c] = pc[c]
  BY <1>0, <1>4 DEF Returns, ConnectReturns, ConnectRefused, DisconnectReturns, SwitchClosed,
     SwitchReturns, SwitchRefused, DialNew, SwitchEnded
<1>5. ASSUME NEW i \in Insts, Loses(i) \/ Recovers(i) \/ GivesUp(i) PROVE pc'[c] = pc[c]
  BY <1>5 DEF Loses, Recovers, GivesUp
<1>6. CASE UNCHANGED vars
  BY <1>6 DEF vars
<1> QED
  BY <1>1, <1>2, <1>3, <1>4, <1>5, <1>6 DEF Next

LEMMA SwitchLeavesItsAwaits ==
    ASSUME NEW c \in Callers
    PROVE  Spec /\ CallIsFair(c) /\ CallCanReturn(c) => ((lock = c) ~> (lock # c))
<1> DEFINE Closing == pc[c] = "switch_closing"
           Dialing == pc[c] = "switch_dialing"
           Fair == Returns(c) /\ UNCHANGED setting
<1>1. LockInv => ((lock = c) <=> Closing \/ Dialing)
  BY DEF LockInv, LockHeld, Switching
<1>2. LockInv /\ Closing /\ [Next]_vars => Closing' \/ Dialing' \/ (lock # c)'
  <2> SUFFICES ASSUME LockInv, Closing, [Next]_vars, ~Closing'
               PROVE  Dialing' \/ (lock # c)'
    OBVIOUS
  <2>1. SwitchClosed(c)
    BY OnlyReturns DEF Returns, ConnectReturns, ConnectRefused, DisconnectReturns,
       SwitchReturns, SwitchRefused
  <2> QED
    BY <2>1, ManagerAssumption DEF LockInv, TypeOK, SwitchClosed, DialNew, SwitchEnded, Release
<1>3. LockInv /\ Dialing /\ [Next]_vars => Dialing' \/ (lock # c)'
  <2> SUFFICES ASSUME LockInv, Dialing, [Next]_vars, ~Dialing'
               PROVE  (lock # c)'
    OBVIOUS
  <2>1. SwitchReturns(c) \/ SwitchRefused(c)
    BY OnlyReturns DEF Returns, ConnectReturns, ConnectRefused, DisconnectReturns, SwitchClosed
  <2> QED
    BY <2>1, ManagerAssumption DEF SwitchReturns, SwitchRefused, SwitchEnded, Release
<1>4. LockInv /\ Closing /\ <<Fair>>_vars => ~Closing'
  BY DEF LockInv, TypeOK, Returns, ConnectReturns, ConnectRefused, DisconnectReturns,
     SwitchClosed, SwitchReturns, SwitchRefused, DialNew, SwitchEnded
<1>5. LockInv /\ Dialing /\ <<Fair>>_vars => ~Dialing'
  BY DEF LockInv, TypeOK, Returns, ConnectReturns, ConnectRefused, DisconnectReturns,
     SwitchClosed, SwitchReturns, SwitchRefused, DialNew, SwitchEnded
<1>6. (Closing => pc[c] # "idle") /\ (Dialing => pc[c] # "idle")
  OBVIOUS
<1>7. (lock # c) <=> ~(lock = c)
  OBVIOUS
<1> HIDE DEF Closing, Dialing, Fair
<1>8. CallIsFair(c) <=> WF_vars(Fair)
  BY PTL DEF CallIsFair, Fair
<1>9. CallCanReturn(c) <=> [](pc[c] # "idle" => ENABLED <<Fair>>_vars)
  BY PTL DEF CallCanReturn, Fair
<1> QED
  BY <1>1, <1>2, <1>3, <1>4, <1>5, <1>6, <1>7, <1>8, <1>9, LockAlways, PTL DEF Spec

\* A switch that has begun ends and releases the lock, if calls that can
\* return do: closing leads to dialing or to the end, dialing to the end, and
\* nothing leads back.
THEOREM SwitchesEnd ==
    FairSpec /\ (\A c \in Callers : CallCanReturn(c)) => SwitchEnds
<1>1. FairSpec => Spec /\ \A c \in Callers : CallIsFair(c)
  BY PTL DEF FairSpec
<1>2. Spec /\ (\A c \in Callers : CallIsFair(c)) /\ (\A c \in Callers : CallCanReturn(c))
         => SwitchEnds
  <2>1. SUFFICES ASSUME NEW c \in Callers
                 PROVE  Spec /\ CallIsFair(c) /\ CallCanReturn(c) => ((lock = c) ~> (lock # c))
    BY DEF SwitchEnds
  <2> QED
    BY SwitchLeavesItsAwaits
<1> QED
  BY <1>1, <1>2, PTL
=============================================================================
