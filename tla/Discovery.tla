----------------------------- MODULE Discovery -----------------------------
(***************************************************************************)
(* What the bridge remembers of the robot's graph while the transport and  *)
(* the graph change under it:                                              *)
(*   - RobotContextBuilder (anima_bridge/context/robot_context.py), whose  *)
(*     cached capabilities go into the agent's prompt;                     *)
(*   - CapabilityScanner (anima_bridge/discovery/scanner.py), with its     *)
(*     cached scan and its table of topic health;                          *)
(*   - switch_transport_mode() (anima_bridge/commands/transport_cmd.py).   *)
(*                                                                         *)
(* Both ask the transport for three lists and await them together, so a    *)
(* discovery is three steps: the transport is taken, the lists are         *)
(* answered, the result is stored.  Lists of topics stand for all three.   *)
(* Other discoveries, invalidations and a switch come in between.  A list  *)
(* that cannot be had raises over DDS, and is empty over rosbridge.        *)
(***************************************************************************)
EXTENDS Integers

CONSTANTS
    Calls,        \* discoveries that may be under way at once
    Topics, Own,  \* what robots publish; the part neither internal nor foreign
    ContextTTL, ScanTTL,
    Threshold,    \* _stale_threshold
    ListTime,     \* BOUND, of the transport's timeouts: the lists take no longer
    MaxClock,     \* BOUND
    MaxGen,       \* BOUND: transports ever active
    ModeOf,       \* the mode of each transport
    Focus,        \* BOUND: a behaviour uses the builder, or the scanner
    NoCache

ASSUME DiscoveryAssumption ==
    /\ Own \subseteq Topics
    /\ {ContextTTL, ScanTTL, Threshold, ListTime, MaxClock, MaxGen} \subseteq Nat
    /\ Threshold % 2 = 0
    /\ ModeOf \in [1 .. MaxGen -> {"rosbridge", "direct_dds"}]
    /\ Focus \subseteq {"context", "scanner"}

Time == 0 .. MaxClock
Gens == 0 .. MaxGen
NoTransport == 0

\* failed is history: the lists could not be had.
Snapshot == [topics : SUBSET Own, gen : Gens, at : Time, stamp : Time, failed : BOOLEAN]

ASSUME NoCacheAssumption == NoCache \notin Snapshot

VARIABLES
    focus,         \* the setting, chosen once
    clock,         \* time.monotonic()
    gen, gens,     \* the active transport, and how many there have been
    graph,         \* what the robot behind it publishes beside the topics that
                   \* are filtered out
    ask,           \* the discovery each call is at
    cache,         \* _cache of the builder
    lastScan,      \* _last_scan and _last_scan_time of the scanner
    seen, status,  \* _topic_health: last_seen and status
    mark,          \* history: start of the scan that finished last
    sighted,       \* history: newest answer that listed each topic
    switchedAt     \* history, for contexts: when the transport changed last

setting == <<focus, switchedAt>>
world   == <<clock, gen, gens, graph>>
health  == <<seen, status, mark, sighted>>
vars    == <<setting, world, ask, cache, lastScan, health>>

Asked == [pc : {"idle", "asking", "answered"}, gen : Gens, since : Time,
          topics : SUBSET Topics, at : Time, failed : BOOLEAN]

Idle == [pc |-> "idle", gen |-> NoTransport, since |-> 0, topics |-> {},
         at |-> 0, failed |-> FALSE]

Statuses == {"unknown", "healthy", "degraded", "stale", "dead"}

TypeOK ==
    /\ focus \in Focus /\ switchedAt \in Time
    /\ clock \in Time /\ gen \in 0 .. gens /\ gens \in Gens /\ graph \subseteq Own
    /\ ask \in [Calls -> Asked]
    /\ cache \in Snapshot \cup {NoCache} /\ lastScan \in Snapshot \cup {NoCache}
    /\ seen \in [Own -> Time] /\ status \in [Own -> Statuses]
    /\ mark \in Time /\ sighted \in [Own -> Time]

Init ==
    /\ focus \in Focus /\ switchedAt = 0
    /\ clock = 0 /\ gen = NoTransport /\ gens = 0 /\ graph = {}
    /\ ask = [c \in Calls |-> Idle]
    /\ cache = NoCache /\ lastScan = NoCache
    /\ seen = [t \in Own |-> 0] /\ status = [t \in Own |-> "unknown"]
    /\ mark = 0 /\ sighted = [t \in Own |-> 0]

-----------------------------------------------------------------------------
(* Time, the robot, and the lists *)

Tick ==
    /\ clock < MaxClock
    /\ \A c \in Calls : ask[c].pc = "idle" \/ clock < ask[c].since + ListTime
    /\ clock' = clock + 1
    /\ UNCHANGED <<setting, gen, gens, graph, ask, cache, lastScan, health>>

GraphChanges ==
    /\ gen # NoTransport
    /\ graph' \in SUBSET Own
    /\ UNCHANGED <<setting, clock, gen, gens, ask, cache, lastScan, health>>

\* get_transport(), and the three list calls are started.
Asks(c) ==
    ask' = [ask EXCEPT ![c] =
      [pc |-> "asking", gen |-> gen, since |-> clock,
       topics |-> {}, at |-> clock, failed |-> FALSE]]

\* The transport that was taken answers, if it is still the active one: the
\* robot's own topics and the others.
Answered(c) ==
    /\ ask[c].pc = "asking" /\ ask[c].gen = gen
    /\ ask' = [ask EXCEPT ![c].pc = "answered", ![c].topics = graph \cup (Topics \ Own), ![c].at = clock]
    /\ UNCHANGED <<setting, world, cache, lastScan, health>>

\* Over rosbridge a list that times out, or loses its connection, is empty: the
\* calls that wait for it see no difference to a robot that has nothing.
ListsGiveUp(c) ==
    /\ focus = "context" /\ ask[c].pc = "asking" /\ ModeOf[ask[c].gen] = "rosbridge"
    /\ ask' = [ask EXCEPT ![c].pc = "answered", ![c].at = clock, ![c].failed = TRUE]
    /\ UNCHANGED <<setting, world, cache, lastScan, health>>

\* _filter_topics(), _filter_by_namespace(); _is_internal() and the namespace of
\* scan().
Filter(topics) == topics \cap Own

-----------------------------------------------------------------------------
(* RobotContextBuilder *)

Fresh_Forever == cache # NoCache                              \* mutant
Fresh_Inclusive == cache # NoCache /\ clock - cache.stamp <= ContextTTL    \* mutant
Fresh == cache # NoCache /\ clock - cache.stamp < ContextTTL

\* Mutant: a failure is dated like a success.
Failure_Stamped == [topics |-> {}, gen |-> NoTransport, at |-> 0,
                    stamp |-> clock, failed |-> TRUE]
\* A list that raised is cached too, with the timestamp 0.0.
Failure == [topics |-> {}, gen |-> NoTransport, at |-> 0, stamp |-> 0, failed |-> TRUE]

DiscoverCapabilities(c) ==
    /\ focus = "context" /\ ask[c].pc = "idle" /\ ~Fresh
    /\ \/ gen = NoTransport /\ cache' = Failure /\ UNCHANGED ask
       \/ gen # NoTransport /\ Asks(c) /\ UNCHANGED cache
    /\ UNCHANGED <<setting, world, lastScan, health>>

Store(c) == [topics |-> Filter(ask[c].topics), gen |-> ask[c].gen, at |-> ask[c].at,
             stamp |-> clock, failed |-> ask[c].failed]

Discovered(c) ==
    /\ focus = "context" /\ ask[c].pc = "answered"
    /\ cache' = Store(c)
    /\ ask' = [ask EXCEPT ![c] = Idle]
    /\ UNCHANGED <<setting, world, lastScan, health>>

\* A list raised: the transport is not connected or, over DDS, its node failed.
DiscoveryFails(c) ==
    /\ focus = "context" /\ ask[c].pc = "asking"
    /\ cache' = Failure
    /\ ask' = [ask EXCEPT ![c] = Idle]
    /\ UNCHANGED <<setting, world, lastScan, health>>

\* invalidate_cache(), which the orchestrator may call at any time; the bridge
\* itself never does.
InvalidateContext ==
    /\ focus = "context"
    /\ cache' = NoCache
    /\ UNCHANGED <<setting, world, ask, lastScan, health>>

-----------------------------------------------------------------------------
(* switch_transport_mode() *)

\* _try_invalidate_context_cache() only logs that somebody should.
InvalidatesAfterSwitch == UNCHANGED cache

\* Another robot may be behind another transport.
SwitchSucceeds ==
    /\ gens < MaxGen
    /\ gens' = gens + 1 /\ gen' = gens + 1
    /\ graph' \in SUBSET Own
    /\ InvalidatesAfterSwitch
    /\ switchedAt' = IF focus = "context" THEN clock ELSE switchedAt
    /\ UNCHANGED <<focus, clock, ask, lastScan, health>>

\* The old transport is closed, the new one not to be had.
SwitchFails ==
    /\ gen' = NoTransport
    /\ UNCHANGED <<setting, clock, gens, graph, ask, cache, lastScan, health>>

-----------------------------------------------------------------------------
(* CapabilityScanner *)

ScanFresh == lastScan # NoCache /\ clock - lastScan.stamp < ScanTTL

\* scan(), forced or not; without a transport it raises and changes nothing.
Scan(c, force) ==
    /\ focus = "scanner" /\ ask[c].pc = "idle" /\ gen # NoTransport
    /\ ~force => ~ScanFresh
    /\ Asks(c)
    /\ UNCHANGED <<setting, world, cache, lastScan, health>>

Grade(age, old) ==
    CASE age > Threshold * 3 -> "dead"
      [] age > Threshold /\ age <= Threshold * 3 -> "stale"
      [] age > Threshold \div 2 /\ age <= Threshold -> "degraded"
      [] OTHER -> old

\* Mutant: the scan is dated by its end.
StampOf_End(c) == clock
StampOf(c) == ask[c].since

\* Mutant: a topic that is known already is not seen again.
Sees_OnlyNew(c, t) == t \in ask[c].topics /\ status[t] = "unknown"
Sees(c, t) == t \in ask[c].topics

\* topics is {} if that list raised, or came back empty because it was given up.
\* An age below zero, of a topic that a later scan has seen, is below every bound.
Scanned(c, topics) ==
    LET now == ask[c].since
        listed == {t \in topics : Sees(c, t)}
        seen2 == [t \in Own |-> IF t \in listed THEN now ELSE seen[t]]
        Age(t) == IF now > seen2[t] THEN now - seen2[t] ELSE 0
    IN
    /\ focus = "scanner"
    /\ seen' = seen2
    /\ status' = [t \in Own |->
         CASE t \in listed -> "healthy"
           [] t \notin listed /\ status[t] = "unknown" -> "unknown"
           [] OTHER -> Grade(Age(t), status[t])]
    /\ lastScan' = [topics |-> topics, gen |-> NoTransport, at |-> ask[c].at,
                     stamp |-> StampOf(c), failed |-> FALSE]
    /\ mark' = now
    /\ sighted' = [t \in Own |->
         IF t \in topics /\ ask[c].at > sighted[t] THEN ask[c].at ELSE sighted[t]]
    /\ ask' = [ask EXCEPT ![c] = Idle]
    /\ UNCHANGED <<setting, world, cache>>

ScanDone(c) == ask[c].pc = "answered" /\ Scanned(c, Filter(ask[c].topics))

ScanFindsNothing(c) == ask[c].pc = "asking" /\ Scanned(c, {})

InvalidateScan ==
    /\ focus = "scanner"
    /\ lastScan' = NoCache
    /\ UNCHANGED <<setting, world, ask, cache, health>>

-----------------------------------------------------------------------------

Next ==
    \/ Tick \/ GraphChanges \/ SwitchSucceeds \/ SwitchFails
    \/ InvalidateContext \/ InvalidateScan
    \/ \E c \in Calls :
         \/ Answered(c) \/ ListsGiveUp(c)
         \/ DiscoverCapabilities(c) \/ Discovered(c) \/ DiscoveryFails(c)
         \/ \E force \in BOOLEAN : Scan(c, force)
         \/ ScanDone(c) \/ ScanFindsNothing(c)

Spec == Init /\ [][Next]_vars

-----------------------------------------------------------------------------
(* Properties *)

\* However discoveries overlap and finish, a context served from the cache was
\* listed, or over rosbridge given up, no longer ago than the TTL and the time
\* the lists may take.
ContextIsRecent ==
    Fresh /\ cache.gen # NoTransport => clock - cache.at < ContextTTL + ListTime

\* A failed discovery is tried again at the next prompt, unless the machine has
\* been up for less than the TTL, or the lists were given up over rosbridge:
\* that is cached as a robot with nothing, and served for the TTL.
FailureIsRetried ==
    Fresh /\ cache.failed => clock < ContextTTL \/ (cache.gen # NoTransport /\ ModeOf[cache.gen] = "rosbridge")

\* Nobody invalidates the cache after a switch, and a discovery on the closed
\* transport may still end and be stored; the context of an older transport is
\* served for no longer than the TTL and the time the lists take all the same.
OldContextFades ==
    Fresh /\ gen # NoTransport /\ cache.gen \notin {gen, NoTransport} =>
        clock < switchedAt + ContextTTL + ListTime

\* "After a successful switch the robot context cache is invalidated": the switch
\* command leaves no context of the old transport in the cache.
SwitchClearsContext ==
    [][gen' \notin {gen, NoTransport} /\ cache' # NoCache => cache'.gen = NoTransport]_vars

\* However scans overlap and finish, a scan served from the cache lists what was
\* there less than the TTL ago: an older scan that ends last expires first.
ScanIsRecent == ScanFresh /\ lastScan.topics # {} => clock - lastScan.at < ScanTTL

\* However scans overlap: a topic called dead was in no list for three
\* thresholds, less the time lists may take; one called healthy was in a list
\* at most half a threshold before the last scan began.
HealthTracksSightings ==
    \A t \in Own :
      /\ status[t] = "dead" => clock + ListTime > sighted[t] + 3 * Threshold
      /\ status[t] = "healthy" => mark <= sighted[t] + Threshold \div 2

=============================================================================
