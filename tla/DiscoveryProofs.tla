--------------------------- MODULE DiscoveryProofs ---------------------------
(***************************************************************************)
(* Theorems about Discovery, for any number of overlapping discoveries,    *)
(* any time the lists take, any TTL and any stale threshold.               *)
(***************************************************************************)
EXTENDS Discovery, TLAPS

USE DEF setting, world, health

-----------------------------------------------------------------------------
(* Types *)

WorldType ==
    /\ focus \in Focus /\ switchedAt \in Time
    /\ clock \in Time /\ gen \in 0 .. gens /\ gens \in Gens /\ graph \subseteq Own
    /\ mark \in Time

AskType == ask \in [Calls -> Asked]

CacheType == cache \in Snapshot \cup {NoCache} /\ lastScan \in Snapshot \cup {NoCache}

HealthType == seen \in [Own -> Time] /\ status \in [Own -> Statuses] /\ sighted \in [Own -> Time]

LEMMA TypeParts == TypeOK <=> WorldType /\ AskType /\ CacheType /\ HealthType
BY DEF TypeOK, WorldType, AskType, CacheType, HealthType

LEMMA Constants ==
    /\ Time \subseteq Nat /\ Gens \subseteq Nat /\ 0 \in Time /\ 0 \in Gens
    /\ \A k \in {ContextTTL, ScanTTL, Threshold, ListTime, MaxClock, MaxGen} : k \in Nat
BY DiscoveryAssumption DEF Time, Gens

\* What a call's step may do to its entry of ask.
LEMMA AskSteps ==
    ASSUME AskType, WorldType, NEW c \in Calls
    PROVE  /\ Idle \in Asked
           /\ [pc |-> "asking", gen |-> gen, since |-> clock, topics |-> {}, at |-> clock, failed |-> FALSE] \in Asked
           /\ [ask[c] EXCEPT !.pc = "answered", !.topics = graph \cup (Topics \ Own), !.at = clock] \in Asked
           /\ [ask[c] EXCEPT !.pc = "answered", !.at = clock, !.failed = TRUE] \in Asked
<1>1. gen \in Gens
  BY Constants DEF WorldType, Gens
<1>2. graph \cup (Topics \ Own) \in SUBSET Topics
  BY DiscoveryAssumption DEF WorldType
<1>3. ask[c] \in Asked
  BY DEF AskType
<1> QED BY <1>1, <1>2, <1>3, Constants DEF Asked, Idle, NoTransport, WorldType

LEMMA TypeInit == Init => TypeOK
<1> SUFFICES ASSUME Init PROVE WorldType /\ AskType /\ CacheType /\ HealthType
  BY TypeParts
<1>1. WorldType
  <2>2. focus \in Focus /\ switchedAt \in Time
    BY Constants DEF Init
  <2>3. gens = 0 /\ gen = 0
    BY DEF Init, NoTransport
  <2>4. clock \in Time /\ gens \in Gens /\ mark \in Time /\ graph \subseteq Own
    BY Constants DEF Init
  <2>5. gen \in 0 .. gens
    BY <2>3
  <2> QED BY <2>2, <2>4, <2>5, Zenon DEF WorldType
<1>2. AskType
  BY Constants DEF Init, AskType, Asked, Idle, NoTransport
<1>3. CacheType
  BY DEF Init, CacheType
<1>4. HealthType
  BY Constants DEF Init, HealthType, Statuses
<1> QED BY <1>1, <1>2, <1>3, <1>4

LEMMA SnapshotTypes ==
    ASSUME WorldType, AskType, NEW c \in Calls
    PROVE  /\ Failure \in Snapshot
           /\ Store(c) \in Snapshot
           /\ \A topics \in SUBSET Own :
                [topics |-> topics, gen |-> NoTransport, at |-> ask[c].at,
                 stamp |-> StampOf(c), failed |-> FALSE] \in Snapshot
           /\ Filter(ask[c].topics) \in SUBSET Own
<1>1. ask[c] \in Asked
  BY DEF AskType
<1> QED BY <1>1, Constants DEF Snapshot, Failure, Store, StampOf, Filter, NoTransport, Asked, WorldType

LEMMA TypeStep == TypeOK /\ [Next]_vars => TypeOK'
<1> SUFFICES ASSUME WorldType, AskType, CacheType, HealthType, [Next]_vars
             PROVE  WorldType' /\ AskType' /\ CacheType' /\ HealthType'
  BY TypeParts, PTL
<1>1. WorldType'
  <2>1. CASE Tick
    BY <2>1, Constants DEF Tick, WorldType, Time
  <2>2. CASE GraphChanges
    BY <2>2 DEF GraphChanges, WorldType
  <2>3. CASE SwitchSucceeds
    BY <2>3, Constants, DiscoveryAssumption DEF SwitchSucceeds, WorldType, Gens
  <2>4. CASE SwitchFails
    BY <2>4, Constants DEF SwitchFails, WorldType, NoTransport, Gens
  <2>5. CASE InvalidateContext \/ InvalidateScan \/ UNCHANGED vars
    BY <2>5 DEF InvalidateContext, InvalidateScan, vars, WorldType
  <2>6. ASSUME NEW c \in Calls,
               Answered(c) \/ ListsGiveUp(c) \/ DiscoverCapabilities(c) \/ Discovered(c) \/ DiscoveryFails(c)
                 \/ \E force \in BOOLEAN : Scan(c, force)
        PROVE  WorldType'
    BY <2>6 DEF Answered, ListsGiveUp, DiscoverCapabilities, Discovered, DiscoveryFails, Scan, WorldType
  <2>7. ASSUME NEW c \in Calls, NEW topics, Scanned(c, topics) PROVE WorldType'
    <3>1. ask[c].since \in Time
      BY DEF AskType, Asked
    <3> QED BY <2>7, <3>1 DEF Scanned, WorldType
  <2> QED BY <2>1, <2>2, <2>3, <2>4, <2>5, <2>6, <2>7 DEF Next, ScanDone, ScanFindsNothing
<1>2. AskType'
  <2>1. ASSUME NEW c \in Calls, NEW a \in Asked, ask' = [ask EXCEPT ![c] = a] PROVE AskType'
    BY <2>1 DEF AskType
  <2>2. ASSUME NEW c \in Calls, Answered(c) PROVE AskType'
    <3>1. ask' = [ask EXCEPT ![c] = [ask[c] EXCEPT !.pc = "answered",
                    !.topics = graph \cup (Topics \ Own), !.at = clock]]
      BY <2>2 DEF Answered, AskType, Asked
    <3> QED BY <3>1, <2>1, AskSteps
  <2>6. ASSUME NEW c \in Calls, ListsGiveUp(c) PROVE AskType'
    <3>1. ask' = [ask EXCEPT ![c] = [ask[c] EXCEPT !.pc = "answered", !.at = clock, !.failed = TRUE]]
      BY <2>6 DEF ListsGiveUp, AskType, Asked
    <3> QED BY <3>1, <2>1, AskSteps
  <2>3. ASSUME NEW c \in Calls, Asks(c) \/ UNCHANGED ask \/ ask' = [ask EXCEPT ![c] = Idle] PROVE AskType'
    BY <2>1, <2>3, AskSteps DEF Asks, AskType
  <2>4. ASSUME NEW c \in Calls,
               \/ DiscoverCapabilities(c) \/ Discovered(c) \/ DiscoveryFails(c)
               \/ \E force \in BOOLEAN : Scan(c, force)
               \/ ScanDone(c) \/ ScanFindsNothing(c)
        PROVE  Asks(c) \/ UNCHANGED ask \/ ask' = [ask EXCEPT ![c] = Idle]
    BY <2>4 DEF DiscoverCapabilities, Discovered, DiscoveryFails, Scan, ScanDone, ScanFindsNothing, Scanned
  <2>5. ASSUME \/ Tick \/ GraphChanges \/ SwitchSucceeds \/ SwitchFails
               \/ InvalidateContext \/ InvalidateScan \/ UNCHANGED vars
        PROVE  AskType'
    BY <2>5 DEF Tick, GraphChanges, SwitchSucceeds, SwitchFails, InvalidateContext, InvalidateScan, vars, AskType
  <2> QED BY <2>2, <2>3, <2>4, <2>5, <2>6 DEF Next
<1>3. CacheType'
  <2>1. ASSUME NEW c \in Calls,
               DiscoverCapabilities(c) \/ Discovered(c) \/ DiscoveryFails(c)
        PROVE  CacheType'
    BY <2>1, SnapshotTypes DEF DiscoverCapabilities, Discovered, DiscoveryFails, CacheType
  <2>2. ASSUME NEW c \in Calls, ScanDone(c) \/ ScanFindsNothing(c) PROVE CacheType'
    BY <2>2, SnapshotTypes DEF ScanDone, ScanFindsNothing, Scanned, CacheType
  <2>3. ASSUME NEW c \in Calls, Answered(c) \/ ListsGiveUp(c) \/ \E force \in BOOLEAN : Scan(c, force)
        PROVE  CacheType'
    BY <2>3 DEF Answered, ListsGiveUp, Scan, CacheType
  <2>4. ASSUME \/ Tick \/ GraphChanges \/ SwitchSucceeds \/ SwitchFails
               \/ InvalidateContext \/ InvalidateScan \/ UNCHANGED vars
        PROVE  CacheType'
    BY <2>4 DEF Tick, GraphChanges, SwitchSucceeds, SwitchFails, InvalidateContext, InvalidateScan,
                vars, CacheType, InvalidatesAfterSwitch
  <2> QED BY <2>1, <2>2, <2>3, <2>4 DEF Next
<1>4. HealthType'
  <2>1. ASSUME NEW c \in Calls, NEW topics, Scanned(c, topics) PROVE HealthType'
    <3>1. ask[c].since \in Time /\ ask[c].at \in Time
      BY DEF AskType, Asked
    <3>2. \A age, old : Grade(age, old) \in {"dead", "stale", "degraded", old}
      BY DEF Grade
    <3>3. seen' \in [Own -> Time] /\ sighted' \in [Own -> Time]
      BY <2>1, <3>1 DEF Scanned, HealthType
    <3>4. status' \in [Own -> Statuses]
      BY <2>1, <3>2 DEF Scanned, HealthType, Statuses
    <3> QED BY <3>3, <3>4 DEF HealthType
  <2>2. ASSUME NEW c \in Calls,
               Answered(c) \/ ListsGiveUp(c) \/ DiscoverCapabilities(c) \/ Discovered(c) \/ DiscoveryFails(c)
                 \/ \E force \in BOOLEAN : Scan(c, force)
        PROVE  HealthType'
    BY <2>2 DEF Answered, ListsGiveUp, DiscoverCapabilities, Discovered, DiscoveryFails, Scan, HealthType
  <2>3. ASSUME \/ Tick \/ GraphChanges \/ SwitchSucceeds \/ SwitchFails
               \/ InvalidateContext \/ InvalidateScan \/ UNCHANGED vars
        PROVE  HealthType'
    BY <2>3 DEF Tick, GraphChanges, SwitchSucceeds, SwitchFails, InvalidateContext, InvalidateScan, vars, HealthType
  <2> QED BY <2>1, <2>2, <2>3 DEF Next, ScanDone, ScanFindsNothing
<1> QED BY <1>1, <1>2, <1>3, <1>4

\* The variables keep their types, for any calls, topics and bounds.
THEOREM DiscoveryTypeCorrect == Spec => []TypeOK
BY TypeInit, TypeStep, PTL DEF Spec

-----------------------------------------------------------------------------
(* Times *)

\* The lists are no older than their discovery, which began no longer ago than
\* the lists may take; so are what it stores.
TimesInv ==
    /\ \A c \in Calls : ask[c].pc # "idle" =>
         /\ ask[c].since <= ask[c].at /\ ask[c].at <= clock /\ clock <= ask[c].since + ListTime
         /\ ask[c].gen # NoTransport
         /\ ask[c].failed => ModeOf[ask[c].gen] = "rosbridge"
    /\ cache # NoCache =>
         IF cache.gen = NoTransport THEN cache.stamp = 0
         ELSE /\ cache.stamp <= cache.at + ListTime
              /\ cache.failed => ModeOf[cache.gen] = "rosbridge"
    /\ lastScan # NoCache => lastScan.stamp <= lastScan.at

LEMMA TimesInit == Init => TimesInv
BY DEF Init, TimesInv, Idle

\* A step that leaves the clock and the calls alone, but for one.
LEMMA OneCall ==
    ASSUME AskType, NEW c \in Calls, NEW a, ask' = [ask EXCEPT ![c] = a]
    PROVE  ask'[c] = a /\ \A d \in Calls : d # c => ask'[d] = ask[d]
BY DEF AskType

LEMMA AnsweredIs ==
    ASSUME AskType, NEW c \in Calls, Answered(c) \/ ListsGiveUp(c)
    PROVE  /\ ask'[c].gen = ask[c].gen /\ ask'[c].since = ask[c].since /\ ask'[c].at = clock
           /\ ask'[c].failed => ask[c].failed \/ ModeOf[ask[c].gen] = "rosbridge"
           /\ ask[c].pc = "asking"
           /\ \A d \in Calls : d # c => ask'[d] = ask[d]
           /\ UNCHANGED <<focus, switchedAt, clock, gen, gens, cache, lastScan>>
<1>1. CASE Answered(c)
  <2>1. ask' = [ask EXCEPT ![c] = [ask[c] EXCEPT !.pc = "answered",
                 !.topics = graph \cup (Topics \ Own), !.at = clock]]
    BY <1>1 DEF Answered, AskType, Asked
  <2>2. /\ ask'[c] = [ask[c] EXCEPT !.pc = "answered", !.topics = graph \cup (Topics \ Own), !.at = clock]
        /\ \A d \in Calls : d # c => ask'[d] = ask[d]
    BY <2>1, OneCall
  <2>3. ask[c].pc = "asking" /\ UNCHANGED <<focus, switchedAt, clock, gen, gens, cache, lastScan>>
    BY <1>1 DEF Answered
  <2>4. ask[c] \in Asked
    BY DEF AskType
  <2>5. /\ ask'[c].gen = ask[c].gen /\ ask'[c].since = ask[c].since /\ ask'[c].at = clock
        /\ ask'[c].failed = ask[c].failed
    BY <2>2, <2>4 DEF Asked
  <2>6. ask'[c].failed => ask[c].failed
    BY <2>5, Zenon
  <2> QED BY <2>2, <2>3, <2>5, <2>6, Zenon
<1>2. CASE ListsGiveUp(c)
  <2>1. ask' = [ask EXCEPT ![c] = [ask[c] EXCEPT !.pc = "answered", !.at = clock, !.failed = TRUE]]
    BY <1>2 DEF ListsGiveUp, AskType, Asked
  <2>2. /\ ask'[c] = [ask[c] EXCEPT !.pc = "answered", !.at = clock, !.failed = TRUE]
        /\ \A d \in Calls : d # c => ask'[d] = ask[d]
    BY <2>1, OneCall
  <2>3. /\ ask[c].pc = "asking" /\ ModeOf[ask[c].gen] = "rosbridge"
        /\ UNCHANGED <<focus, switchedAt, clock, gen, gens, cache, lastScan>>
    BY <1>2 DEF ListsGiveUp
  <2>4. ask[c] \in Asked
    BY DEF AskType
  <2>5. ask'[c].gen = ask[c].gen /\ ask'[c].since = ask[c].since /\ ask'[c].at = clock
    BY <2>2, <2>4 DEF Asked
  <2> QED BY <2>2, <2>3, <2>5, Zenon
<1> QED BY <1>1, <1>2

LEMMA TimesStep == TypeOK /\ TimesInv /\ [Next]_vars => TimesInv'
<1> SUFFICES ASSUME WorldType, AskType, CacheType, TimesInv, [Next]_vars PROVE TimesInv'
  BY TypeParts
<1> USE Constants
<1>t. /\ clock \in Nat /\ \A c \in Calls : ask[c].since \in Nat /\ ask[c].at \in Nat
      /\ NoCache \notin Snapshot
  BY NoCacheAssumption DEF WorldType, AskType, Asked
<1>1. CASE Tick
  <2>1. \A c \in Calls : ask[c].pc # "idle" => clock < ask[c].since + ListTime
    BY <1>1 DEF Tick
  <2> QED BY <1>1, <1>t, <2>1 DEF Tick, TimesInv
<1>2. ASSUME NEW c \in Calls, Answered(c) \/ ListsGiveUp(c) PROVE TimesInv'
  <2>1. /\ \A d \in Calls : d # c => ask'[d] = ask[d]
        /\ ask'[c].gen = ask[c].gen /\ ask'[c].since = ask[c].since /\ ask'[c].at = clock
        /\ ask'[c].failed => ask[c].failed \/ ModeOf[ask[c].gen] = "rosbridge"
        /\ ask[c].pc # "idle" /\ UNCHANGED <<clock, cache, lastScan>>
    BY <1>2, AnsweredIs
  <2>2. \A d \in Calls : ask'[d].pc # "idle" =>
          /\ ask'[d].since <= ask'[d].at /\ ask'[d].at <= clock' /\ clock' <= ask'[d].since + ListTime
          /\ ask'[d].gen # NoTransport
          /\ ask'[d].failed => ModeOf[ask'[d].gen] = "rosbridge"
    BY <1>t, <2>1 DEF TimesInv
  <2> QED BY <2>1, <2>2 DEF TimesInv
<1>3. ASSUME NEW c \in Calls, Asks(c), gen # NoTransport, UNCHANGED <<clock, cache, lastScan>>
      PROVE  TimesInv'
  <2>1. /\ ask'[c] = [pc |-> "asking", gen |-> gen, since |-> clock, topics |-> {}, at |-> clock, failed |-> FALSE]
        /\ \A d \in Calls : d # c => ask'[d] = ask[d]
    BY <1>3, OneCall DEF Asks
  <2> QED BY <1>3, <1>t, <2>1 DEF TimesInv
<1>4. ASSUME NEW c \in Calls, ask' = [ask EXCEPT ![c] = Idle], UNCHANGED clock,
             cache' \in {cache, Failure, NoCache} \/ (ask[c].pc # "idle" /\ cache' = Store(c)),
             \/ UNCHANGED lastScan
             \/ /\ ask[c].pc # "idle"
                /\ lastScan'.stamp = ask[c].since /\ lastScan'.at = ask[c].at
      PROVE  TimesInv'
  <2>1. \A d \in Calls : ask'[d] = ask[d] \/ ask'[d].pc = "idle"
    BY <1>4, OneCall DEF Idle
  <2>2. \A d \in Calls : ask'[d].pc # "idle" =>
          /\ ask'[d].since <= ask'[d].at /\ ask'[d].at <= clock' /\ clock' <= ask'[d].since + ListTime
          /\ ask'[d].gen # NoTransport
          /\ ask'[d].failed => ModeOf[ask'[d].gen] = "rosbridge"
    BY <1>4, <2>1 DEF TimesInv
  <2>3. cache' # NoCache =>
         IF cache'.gen = NoTransport THEN cache'.stamp = 0
         ELSE /\ cache'.stamp <= cache'.at + ListTime
              /\ cache'.failed => ModeOf[cache'.gen] = "rosbridge"
    BY <1>4, <1>t DEF TimesInv, Failure, Store
  <2>4. lastScan' # NoCache => lastScan'.stamp <= lastScan'.at
    BY <1>4 DEF TimesInv
  <2> QED BY <2>2, <2>3, <2>4 DEF TimesInv
<1>5. ASSUME UNCHANGED <<clock, ask>>, cache' \in {cache, Failure, NoCache}, lastScan' \in {lastScan, NoCache}
      PROVE  TimesInv'
  BY <1>5 DEF TimesInv, Failure
<1>6. ASSUME NEW c \in Calls, DiscoverCapabilities(c) PROVE TimesInv'
  BY <1>3, <1>5, <1>6 DEF DiscoverCapabilities
<1>7. ASSUME NEW c \in Calls, Discovered(c) \/ DiscoveryFails(c) PROVE TimesInv'
  BY <1>4, <1>7 DEF Discovered, DiscoveryFails
<1>8. ASSUME NEW c \in Calls, NEW force \in BOOLEAN, Scan(c, force) PROVE TimesInv'
  BY <1>3, <1>8 DEF Scan
<1>9. ASSUME NEW c \in Calls, ScanDone(c) \/ ScanFindsNothing(c) PROVE TimesInv'
  BY <1>4, <1>9 DEF ScanDone, ScanFindsNothing, Scanned, StampOf
<1>10. ASSUME \/ GraphChanges \/ SwitchSucceeds \/ SwitchFails
              \/ InvalidateContext \/ InvalidateScan \/ UNCHANGED vars
       PROVE  TimesInv'
  BY <1>5, <1>10 DEF GraphChanges, SwitchSucceeds, SwitchFails, InvalidateContext, InvalidateScan,
                     vars, InvalidatesAfterSwitch
<1> QED
  BY <1>1, <1>2, <1>6, <1>7, <1>8, <1>9, <1>10 DEF Next

LEMMA TimesHold == Spec => []TimesInv
<1>1. TypeOK /\ TimesInv /\ [Next]_vars => TimesInv'
  BY TimesStep
<1> QED BY <1>1, TimesInit, DiscoveryTypeCorrect, PTL DEF Spec

LEMMA CachedTypes ==
    ASSUME TypeOK
    PROVE  /\ cache # NoCache => cache.stamp \in Nat /\ cache.at \in Nat
           /\ lastScan # NoCache => lastScan.stamp \in Nat /\ lastScan.at \in Nat
           /\ clock \in Nat
BY TypeParts, Constants DEF CacheType, WorldType, Snapshot

\* A context that is served was listed no longer ago than the TTL and the time
\* the lists may take, in whatever order discoveries finish.
THEOREM ServedContextIsRecent == Spec => []ContextIsRecent
<1>1. TypeOK /\ TimesInv => ContextIsRecent
  BY CachedTypes, Constants DEF TimesInv, ContextIsRecent, Fresh
<1> QED BY <1>1, DiscoveryTypeCorrect, TimesHold, PTL

\* A failure in the cache does not keep the next prompt from asking again,
\* unless the machine has been up for less than the TTL or the lists were given
\* up over rosbridge.
THEOREM FailuresAreRetried == Spec => []FailureIsRetried
<1>1. TypeOK /\ TimesInv => FailureIsRetried
  BY CachedTypes, Constants DEF TimesInv, FailureIsRetried, Fresh
<1> QED BY <1>1, DiscoveryTypeCorrect, TimesHold, PTL

\* A scan that is served lists what was there less than the TTL ago, in whatever
\* order scans finish.
THEOREM ServedScanIsRecent == Spec => []ScanIsRecent
<1>1. TypeOK /\ TimesInv => ScanIsRecent
  BY CachedTypes, Constants DEF TimesInv, ScanIsRecent, ScanFresh
<1> QED BY <1>1, DiscoveryTypeCorrect, TimesHold, PTL

-----------------------------------------------------------------------------
(* Switching the transport *)

\* What is not of the latest transport was asked for before the last switch.
SwitchInv ==
    /\ focus # "context" => cache = NoCache
    /\ focus = "context" =>
      /\ gen \in {gens, NoTransport} /\ switchedAt <= clock
      /\ \A c \in Calls : ask[c].pc # "idle" /\ ask[c].gen # gens => ask[c].since <= switchedAt
      /\ cache # NoCache => cache.stamp <= clock
      /\ cache # NoCache /\ cache.gen \notin {gens, NoTransport} =>
           cache.stamp <= switchedAt + ListTime

LEMMA SwitchInit == Init => SwitchInv
BY DEF Init, SwitchInv, Idle

\* Only a behaviour of the builder touches the builder's cache.
LEMMA FocusStays ==
    ASSUME [Next]_vars
    PROVE  focus' = focus /\ (focus # "context" => cache' \in {cache, NoCache})
<1>1. ASSUME NEW c \in Calls,
             \/ Answered(c) \/ ListsGiveUp(c)
             \/ DiscoverCapabilities(c) \/ Discovered(c) \/ DiscoveryFails(c)
      PROVE  focus' = focus /\ (focus # "context" => cache' \in {cache, NoCache})
  BY <1>1 DEF Answered, ListsGiveUp, DiscoverCapabilities, Discovered, DiscoveryFails
<1>2. ASSUME NEW c \in Calls,
             (\E force \in BOOLEAN : Scan(c, force)) \/ ScanDone(c) \/ ScanFindsNothing(c)
      PROVE  focus' = focus /\ cache' = cache
  BY <1>2 DEF Scan, ScanDone, ScanFindsNothing, Scanned
<1>3. ASSUME \/ Tick \/ GraphChanges \/ SwitchSucceeds \/ SwitchFails
             \/ InvalidateContext \/ InvalidateScan \/ UNCHANGED vars
      PROVE  focus' = focus /\ cache' \in {cache, NoCache}
  BY <1>3 DEF Tick, GraphChanges, SwitchSucceeds, SwitchFails, InvalidateContext, InvalidateScan,
              vars, InvalidatesAfterSwitch
<1> QED BY <1>1, <1>2, <1>3 DEF Next

LEMMA SwitchStep == TypeOK /\ TimesInv /\ SwitchInv /\ [Next]_vars => SwitchInv'
<1> SUFFICES ASSUME TypeOK, TimesInv, SwitchInv, [Next]_vars PROVE SwitchInv'
  OBVIOUS
<1>f. focus' = focus /\ (focus # "context" /\ cache = NoCache => cache' = NoCache)
  BY FocusStays
<1> SUFFICES ASSUME focus = "context" PROVE SwitchInv'
  BY <1>f DEF SwitchInv
<1>p. WorldType /\ AskType /\ CacheType
  BY TypeParts
<1> USE Constants
<1>t. /\ clock \in Nat /\ switchedAt \in Nat
      /\ \A c \in Calls : ask[c].since \in Nat /\ ask[c].at \in Nat
      /\ cache # NoCache => cache.stamp \in Nat
      /\ NoCache \notin Snapshot
  BY <1>p, NoCacheAssumption, CachedTypes DEF WorldType, AskType, Asked
<1>1. CASE SwitchSucceeds
  <2>1. switchedAt' = clock /\ gen' = gens' /\ UNCHANGED <<focus, clock, ask, cache>>
    BY <1>1 DEF SwitchSucceeds, InvalidatesAfterSwitch
  <2>2. \A c \in Calls : ask[c].pc # "idle" => ask[c].since <= clock
    BY <1>t DEF TimesInv
  <2> QED BY <1>t, <2>1, <2>2 DEF SwitchInv
<1>2. CASE SwitchFails
  BY <1>2 DEF SwitchFails, SwitchInv
<1>3. ASSUME NEW c \in Calls, Answered(c) \/ ListsGiveUp(c) PROVE SwitchInv'
  <2>1. /\ \A d \in Calls : d # c => ask'[d] = ask[d]
        /\ ask'[c].gen = ask[c].gen /\ ask'[c].since = ask[c].since /\ ask[c].pc # "idle"
        /\ UNCHANGED <<focus, switchedAt, clock, gen, gens, cache>>
    BY <1>3, <1>p, AnsweredIs
  <2> QED BY <2>1 DEF SwitchInv
<1>4. ASSUME NEW c \in Calls, Asks(c), gen # NoTransport,
             UNCHANGED <<setting, clock, gen, gens, cache>>
      PROVE  SwitchInv'
  <2>0. /\ ask'[c] = [pc |-> "asking", gen |-> gen, since |-> clock, topics |-> {}, at |-> clock, failed |-> FALSE]
        /\ \A d \in Calls : d # c => ask'[d] = ask[d]
    BY <1>4, <1>p, OneCall DEF Asks
  <2>1. ask'[c].gen = gen /\ \A d \in Calls : d # c => ask'[d] = ask[d]
    BY <2>0
  <2> QED BY <1>4, <2>1 DEF SwitchInv
<1>5. ASSUME NEW c \in Calls, ask' = [ask EXCEPT ![c] = Idle], UNCHANGED <<setting, clock, gen, gens>>,
             cache' \in {cache, Failure, NoCache} \/ (ask[c].pc # "idle" /\ cache' = Store(c))
      PROVE  SwitchInv'
  <2>1. \A d \in Calls : ask'[d] = ask[d] \/ ask'[d].pc = "idle"
    BY <1>5, <1>p, OneCall DEF Idle
  <2>2. CASE ask[c].pc # "idle" /\ cache' = Store(c)
    <3>1. cache'.stamp = clock /\ cache'.gen = ask[c].gen
      BY <2>2 DEF Store
    <3>2. clock <= ask[c].since + ListTime
      BY <2>2 DEF TimesInv
    <3>3. cache'.gen # gens => cache'.stamp <= switchedAt + ListTime
      BY <1>t, <2>2, <3>1, <3>2 DEF SwitchInv
    <3> QED BY <1>5, <1>t, <2>1, <3>1, <3>3 DEF SwitchInv
  <2>3. CASE cache' \in {cache, Failure, NoCache}
    <3>1. cache' # cache /\ cache' # NoCache => cache'.stamp = 0 /\ cache'.gen = NoTransport
      BY <2>3 DEF Failure
    <3> QED BY <1>5, <1>t, <2>1, <2>3, <3>1 DEF SwitchInv
  <2> QED BY <1>5, <2>2, <2>3
<1>6. ASSUME UNCHANGED <<setting, gen, gens, ask>>, clock' \in {clock, clock + 1},
             cache' \in {cache, Failure, NoCache}
      PROVE  SwitchInv'
  <2>1. cache' # cache /\ cache' # NoCache => cache'.stamp = 0 /\ cache'.gen = NoTransport
    BY <1>6 DEF Failure
  <2> QED BY <1>6, <1>t, <2>1 DEF SwitchInv
<1>7. ASSUME NEW c \in Calls, DiscoverCapabilities(c) PROVE SwitchInv'
  BY <1>4, <1>6, <1>7 DEF DiscoverCapabilities
<1>8. ASSUME NEW c \in Calls, Discovered(c) \/ DiscoveryFails(c) PROVE SwitchInv'
  BY <1>5, <1>8 DEF Discovered, DiscoveryFails
<1>9. ASSUME NEW c \in Calls, NEW force \in BOOLEAN, Scan(c, force) PROVE SwitchInv'
  BY <1>4, <1>9 DEF Scan
<1>10. ASSUME NEW c \in Calls, ScanDone(c) \/ ScanFindsNothing(c) PROVE SwitchInv'
  BY <1>5, <1>10 DEF ScanDone, ScanFindsNothing, Scanned
<1>11. ASSUME Tick \/ GraphChanges \/ InvalidateContext \/ InvalidateScan \/ UNCHANGED vars
       PROVE  SwitchInv'
  BY <1>6, <1>11 DEF Tick, GraphChanges, InvalidateContext, InvalidateScan, vars
<1> QED
  BY <1>1, <1>2, <1>3, <1>7, <1>8, <1>9, <1>10, <1>11 DEF Next

\* Nobody invalidates the cache, and yet the context of an older transport is
\* served for no longer after a switch than the TTL and the time lists may take.
THEOREM OldContextsFade == Spec => []OldContextFades
<1>1. TypeOK /\ TimesInv /\ SwitchInv /\ [Next]_vars => SwitchInv'
  BY SwitchStep
<1>2. TypeOK /\ TimesInv /\ SwitchInv => OldContextFades
  <2> SUFFICES ASSUME TypeOK, TimesInv, SwitchInv, Fresh, gen # NoTransport,
                      cache.gen \notin {gen, NoTransport}
               PROVE  clock < switchedAt + ContextTTL + ListTime
    BY DEF OldContextFades
  <2>1. clock \in Nat /\ switchedAt \in Nat /\ cache.stamp \in Nat /\ cache # NoCache
    BY TypeParts, CachedTypes, Constants DEF WorldType, Fresh
  <2>2. CASE focus = "context"
    <3>1. cache.stamp <= switchedAt + ListTime
      BY <2>1, <2>2 DEF SwitchInv
    <3> QED BY <2>1, <3>1, Constants DEF Fresh
  <2>3. CASE focus # "context"
    BY <2>1, <2>3 DEF SwitchInv
  <2> QED BY <2>2, <2>3
<1> QED BY <1>1, <1>2, SwitchInit, DiscoveryTypeCorrect, TimesHold, PTL DEF Spec

-----------------------------------------------------------------------------
(* Topic health *)

\* last_seen may go back when an older scan finishes last, but never by more
\* than the time the lists may take.
Sighting(t) ==
    /\ seen[t] <= sighted[t] /\ sighted[t] <= clock /\ sighted[t] <= seen[t] + ListTime
    /\ status[t] = "dead" => clock + ListTime > sighted[t] + 3 * Threshold
    /\ status[t] = "healthy" => mark <= sighted[t] + Threshold \div 2

HealthInv == \A t \in Own : Sighting(t)

LEMMA HealthInit == Init => HealthInv
BY Constants DEF Init, HealthInv, Sighting

\* A healthy topic stays so for half a threshold, and none dies before three.
LEMMA Grades ==
    ASSUME NEW age \in Nat, NEW old \in Statuses
    PROVE  /\ Grade(age, old) = "healthy" => old = "healthy" /\ age <= Threshold \div 2
           /\ Grade(age, old) = "dead" => old = "dead" \/ age > 3 * Threshold
<1>1. Threshold \in Nat /\ Threshold \div 2 \in Nat /\ Threshold \div 2 <= Threshold
  BY Constants
<1>2. CASE age > Threshold * 3
  BY <1>1, <1>2 DEF Grade
<1>3. CASE age > Threshold /\ age <= Threshold * 3
  BY <1>1, <1>3 DEF Grade
<1>4. CASE age > Threshold \div 2 /\ age <= Threshold
  BY <1>1, <1>4 DEF Grade
<1>5. CASE age <= Threshold \div 2
  <2>1. Grade(age, old) = old
    BY <1>1, <1>5 DEF Grade
  <2> QED BY <2>1, <1>5
<1> QED BY <1>1, <1>2, <1>3, <1>4, <1>5

LEMMA HealthStep == TypeOK /\ TimesInv /\ HealthInv /\ [Next]_vars => HealthInv'
<1> SUFFICES ASSUME WorldType, AskType, HealthType, TimesInv, HealthInv, [Next]_vars PROVE HealthInv'
  BY TypeParts
<1> USE Constants
<1>1. ASSUME NEW c \in Calls, ask[c].pc # "idle", NEW topics \in SUBSET ask[c].topics,
             Scanned(c, topics), NEW t \in Own
      PROVE  Sighting(t)'
  <2> DEFINE since == ask[c].since
             at == ask[c].at
  <2>1. /\ since \in Nat /\ at \in Nat /\ clock \in Nat
        /\ seen[t] \in Nat /\ sighted[t] \in Nat /\ status[t] \in Statuses /\ mark \in Nat
    BY DEF WorldType, AskType, Asked, HealthType
  <2>2. since <= at /\ at <= clock /\ clock <= since + ListTime
    BY <1>1 DEF TimesInv
  <2>3. clock' = clock /\ mark' = since
    BY <1>1 DEF Scanned
  <2>4. Sighting(t)
    BY DEF HealthInv
  <2>5. CASE t \in topics
    <3>1. /\ seen'[t] = since /\ status'[t] = "healthy"
          /\ sighted'[t] = IF at > sighted[t] THEN at ELSE sighted[t]
      BY <1>1, <2>5 DEF Scanned, Sees
    <3>2. sighted'[t] \in Nat /\ since <= sighted'[t] /\ sighted'[t] <= clock
      BY <2>1, <2>2, <2>4, <3>1 DEF Sighting
    <3>3. Threshold \div 2 \in Nat
      OBVIOUS
    <3> QED BY <2>1, <2>2, <2>3, <3>1, <3>2, <3>3 DEF Sighting
  <2>6. CASE t \notin topics
    <3> DEFINE age == IF since > seen[t] THEN since - seen[t] ELSE 0
    <3>1. seen'[t] = seen[t] /\ sighted'[t] = sighted[t]
      BY <1>1, <2>6 DEF Scanned
    <3>2. status'[t] = IF status[t] = "unknown" THEN "unknown" ELSE Grade(age, status[t])
      BY <1>1, <2>6 DEF Scanned
    <3>3. age \in Nat /\ Threshold \div 2 \in Nat /\ since <= seen[t] + age
          /\ (age > 0 => seen[t] + age = since)
      BY <2>1
    <3> HIDE DEF age
    <3>4. status'[t] = "healthy" => age <= Threshold \div 2
      BY <2>1, <3>2, <3>3, Grades
    <3>5. status'[t] = "dead" => status[t] = "dead" \/ age > 3 * Threshold
      BY <2>1, <3>2, <3>3, Grades
    <3>6. status'[t] = "healthy" => mark' <= sighted'[t] + Threshold \div 2
      BY <2>1, <2>3, <2>4, <3>1, <3>3, <3>4 DEF Sighting
    <3>7. status'[t] = "dead" => clock' + ListTime > sighted'[t] + 3 * Threshold
      BY <2>1, <2>2, <2>3, <2>4, <3>1, <3>3, <3>5 DEF Sighting
    <3> QED BY <2>3, <2>4, <3>1, <3>6, <3>7 DEF Sighting
  <2> QED BY <2>5, <2>6
<1>2. ASSUME NEW c \in Calls, ScanDone(c) \/ ScanFindsNothing(c) PROVE HealthInv'
  <2>1. CASE ScanDone(c)
    <3>1. Filter(ask[c].topics) \in SUBSET ask[c].topics /\ ask[c].pc # "idle"
      BY <2>1 DEF Filter, ScanDone
    <3> QED BY <1>1, <2>1, <3>1 DEF ScanDone, HealthInv
  <2>2. CASE ScanFindsNothing(c)
    BY <1>1, <2>2 DEF ScanFindsNothing, HealthInv
  <2> QED BY <1>2, <2>1, <2>2
<1>3. CASE Tick
  <2>1. clock' = clock + 1 /\ clock \in Nat /\ UNCHANGED <<seen, sighted, status, mark>>
    BY <1>3 DEF Tick, WorldType
  <2>2. ASSUME NEW t \in Own PROVE Sighting(t)'
    <3>1. Sighting(t) /\ sighted[t] \in Nat /\ seen[t] \in Nat
      BY DEF HealthInv, HealthType
    <3> QED BY <2>1, <3>1 DEF Sighting
  <2> QED BY <2>2 DEF HealthInv
<1>4. ASSUME UNCHANGED <<clock, seen, sighted, status, mark>> PROVE HealthInv'
  BY <1>4 DEF HealthInv, Sighting
<1>5. ASSUME NEW c \in Calls,
             Answered(c) \/ ListsGiveUp(c) \/ DiscoverCapabilities(c) \/ Discovered(c) \/ DiscoveryFails(c)
               \/ \E force \in BOOLEAN : Scan(c, force)
      PROVE  HealthInv'
  BY <1>4, <1>5 DEF Answered, ListsGiveUp, DiscoverCapabilities, Discovered, DiscoveryFails, Scan
<1>6. ASSUME \/ GraphChanges \/ SwitchSucceeds \/ SwitchFails
             \/ InvalidateContext \/ InvalidateScan \/ UNCHANGED vars
      PROVE  HealthInv'
  BY <1>4, <1>6 DEF GraphChanges, SwitchSucceeds, SwitchFails, InvalidateContext, InvalidateScan, vars
<1> QED BY <1>2, <1>3, <1>5, <1>6 DEF Next

\* In whatever order scans finish, the health of a topic follows when it was
\* last in a list, up to the time the lists may take.
THEOREM HealthIsOfSightings == Spec => []HealthTracksSightings
<1>1. TypeOK /\ TimesInv /\ HealthInv /\ [Next]_vars => HealthInv'
  BY HealthStep
<1>2. HealthInv => HealthTracksSightings
  BY DEF HealthInv, Sighting, HealthTracksSightings
<1> QED BY <1>1, <1>2, HealthInit, DiscoveryTypeCorrect, TimesHold, PTL DEF Spec

=============================================================================
