# Verification of anima-ros2-bridge

TLA+ modules of the bridge between a tool host (an MCP server or the command
line) and a ROS 2 robot, the TLC configurations that check them on small
instances, and TLAPS proofs for every value of the constants. Paths below are
relative to `src/anima_bridge/` unless they start with `src/`.

## 1. The system

A host calls a *tool*; the tool passes the safety gate and calls the active
*transport*; a transport speaks rosbridge (WebSocket) or DDS (rclpy). Everything
but the DDS spin thread runs on one asyncio event loop, so the interleavings
that matter are those at `await`.

| Part | State | Operations | Talks to |
|---|---|---|---|
| Rosbridge client, `transport/rosbridge/client.py` | status, socket, receive task, reconnect task, attempt counter, `_intentional_close`; pending requests and timers; message and status handlers | `connect`, `disconnect`, `call_service`, `send_action_goal`, receive loop, `_do_reconnect`, `_expire` | the server; the adapter's callbacks |
| Rosbridge adapter, `transport/rosbridge/adapter.py` | topics advertised, subscriptions, active goals | the `AnimaTransport` methods | the client |
| Direct DDS transport, `transport/direct_dds.py` | node, executor, spin thread, stop event, active goals | the `AnimaTransport` methods | rclpy from two threads; the entity cache |
| Entity cache, `transport/entity_cache.py` | publishers, clients, action clients, type classes, a lock | get-or-create, destroy | rclpy |
| Transport manager, `transport_manager.py`, `transport/factory.py` | `_transport`, `_current_mode`, `_switch_lock` | `connect`, `disconnect`, `switch_transport`, `get_transport` | every transport; called by all tools |
| Emergency stop, `commands/estop.py` | none between calls | `emergency_stop` | the manager; rclpy of its own |
| Transport commands, `commands/transport_cmd.py` | none | status, switch | the manager |
| Robot context, `context/robot_context.py` | cached capabilities and their time | discover, build, invalidate | the manager's transport |
| Capability scanner, `discovery/scanner.py` | last result, topic set, health table | scan, diff, health | a transport |
| Fingerprinter, `discovery/fingerprint.py` | none | category, module recommendation | the scanner's result |
| Safety validator, `safety/validator.py` | limits | checks of publish, service, goal and parameter payloads | - |
| MCP server, `mcp_server.py` | validator, configuration | `_dispatch_tool` | validator, tools |
| Plugin, `openclaw_plugin.py` | a singleton: configuration and validator | load, two hooks | validator, tools |
| Command line, `cli.py`, and entry point, `__main__.py` | none | connect, one command or a wait for a signal, disconnect | the manager, the tools |
| Tools, `tools/` | none | one transport call each | the manager |
| Discovery node, `src/anima_discovery/` | manifest, rate windows, telemetry | timer, service, setters | rclpy |
| Configuration and types; simulation, docker, assets | none of the program's | - | - |

What is hard in it:

* **Awaits in the middle of an update.** `connect()` awaits the handshake
  between its guard and its assignments; `disconnect()` awaits the receive task
  it has cancelled; `switch_transport()` suspends twice with the globals half
  updated; `emergency_stop()` awaits the topic list; a discovery awaits three
  lists and then stores them.
* **Tasks that outlive their cause**: a receive loop that reads a field assigned
  by somebody else, a reconnect task asleep when `disconnect()` runs, timers of
  answered requests, send tasks of a dead socket, results already handed to the
  loop by a thread.
* **Failure**: refused connections, lost sockets, frames that cannot be routed,
  backends that cannot be imported, a publish that reports its failure by value,
  a callback that raises on the spin thread.
* **One thread against the loop** in the DDS transport, which a blocked callback
  may keep alive beyond the node it spins.
* **Caches**: robot context, scanner, health table, entity cache.
* **Payloads at a limit**: NaN, numerals, missing and malformed parts; four
  tables that must agree on the parameters of a tool.
* **A graph that changes** between the queries of one manifest.

What makes each part correct: the client answers every request once and in the
end, has one owner and leaks no socket, and stays closed when closed; the
manager is the only holder of a live transport and a switch leaves its own
transport or none; the emergency stop delivers zero velocity whatever the
transport does, base first; the adapter resubscribes what is subscribed and
nothing else; the DDS transport ends every call, returns the first message and
leaks nothing but what is named; a cache serves nothing older than it promises,
of an earlier transport no longer than that; the gate lets no value beyond a
limit through and refuses only what is beyond one, as far as its checks can read
a call; a fingerprint does not depend on the order
of the graph; a manifest holds what was in the graph and nothing foreign.
`PROJECT.json` lists the hazards line by line.

## 2. The modules

### RosbridgeClient

A step is the code between two awaits. Connection *s* is the *s*-th handshake
the server accepted; it names the socket, the receive loop created for it
(`loop[s]`) and the reconnect task that this loop schedules when it ends
(`redial[s]`).

| Model | Code |
|---|---|
| `status`, `ws`, `intentionalClose`, `attempts`, `receiveTask`, `reconnectTask` | the fields of the same name |
| `pending`, `armed`, `future` | `_pending`, the timer handles in it, the futures callers await |
| `call[u]`, `bye[d]` | where a `connect()` or `disconnect()` is suspended |
| `UserConnect`, `UserConnected`, `UserRefused` | `connect()` up to `wait_for`, and its two outcomes |
| `LoopStarts`, `LoopReads`, `LoopEnds`, `LoopChokes`, `LoopCancelled` | the receive loop: first step, a frame routed, the tail, a frame `_route` raises on, the cancellation |
| `RedialWakes`, `RedialConnected`, `RedialRefused` | `_schedule_reconnect` and `_do_reconnect` |
| `Disconnect`, `DisconnectJoined`, `DisconnectClosed` | `disconnect()`, cut at its two awaits |
| `Request`, `Expire`, `CallerGivesUp` | a request registered and sent; its timer; its caller cancelled |
| `ServerAnswers`, `ConnectionDrops` | the environment |

The constant `SerialUse` says that `connect()` is called on an idle client only,
which is how `transport_manager.py` uses it (one `connect()` per instance).
Properties about ownership hold under it and are stated so; `SerialUse = FALSE`
drops the restriction. Unlike the code, which has no such guard, properties
about ownership then fail; no document promises otherwise.

`RequestContract` is the abstract view of callers: a request is issued, may be
answered while it waits, and ends once. `Contract` in RosbridgeClient
instantiates it with `outcome <- future` and `replies` the union of all inboxes;
`ImplementsRequestContract` includes the contract's fairness (what waits ends).

`TransportLife` is the abstract view of whoever holds a transport: it is down,
dialing, up, lost or closing, and only certain moves lead from one to the other.
A client refines it under `ClientLife`, which computes its place in that life
from the call that dials, `status`, `intentionalClose`, the reconnect tasks and
the `disconnect()` under way: `ImplementsTransportLife`. Each instance of the manager refines it too.

### TransportManager

The two globals, the lock and the instances that `connect()` and
`switch_transport()` create. A caller is suspended only where a transport's
`connect()` or `disconnect()` suspends (`pc`). A rosbridge instance dials and
closes slowly, may lose its server and win it back; a DDS instance does its
work in one step; the zenoh backend is missing. `inst[i]` is what module
RosbridgeClient says of one client, reduced to what `is_connected()` and the
callers can tell apart (`lost` is disconnected and reconnecting). `DialNew` is
the part of a switch from the old transport's end to the next await; it is used
by the switch that suspends on closing and by the one that does not. `Settings`
is the set of pairs *(serial, retry)* `Init` chooses from: do callers wait for
each other, and do clients reconnect by themselves?

### EmergencyStop

`emergency_stop()` with the `estop` command in front of it. The transport is a
`link`: no active one, not connected, connected, or connected by its own account
over a dead socket. A rosbridge publish adds to `sending`, and a send task moves
the message to `sent` or, on a link that has died, to `dropped`; send tasks of
one call run in the order of `publish()`. A DDS publish is sent or reported as
failed at once. `Kinds`, `Entries` and `RclpyWorks` are the transports, callers
and machines `Init` chooses from. Each process of the command line runs one
call.

### RosbridgeAdapter

What a transport remembers for its users across reconnects. The client is a
`link`: `off`, `up`, `stale` (connected by its own account over a dead socket),
`closing` (a `disconnect()` suspended) or `closed`. Messages are delivered in
order and die with their session, so what the server holds is written down when
a message is sent.

| Model | Code |
|---|---|
| `table`, `members` | `_msg_handlers` of the client: topic to handler set. A set is named by the user whose call created it |
| `held`, `topic`, `state` | the set and topic a `remove()` closes over; how far the user's call has come |
| `server`, `heralded` | the subscription ids and advertisements the server holds in this session; a reconnect subscribes under an id of its own, `Resub` |
| `advertised`, `activeGoal` | `_advertised`, `_active_action_ids` |
| `goal`, `goalAction`, `feedback`, `cancelled` | calls of `send_action_goal()`, the feedback handlers, the cancels sent |
| `Connects`, `SocketDies`, `LossNoticed` | `connect()`, with the resubscription of `_do_reconnect()`; the network; the tail of the receive loop |
| `Disconnect`, `DisconnectReturns` | the adapter's `disconnect()`, cut at its await |
| `Listen`, `Unsubscribe`, `Delivers`, `OnceEnds` | `subscribe()`, its handle, a routed message, the `finally` of `subscribe_once()` |
| `Publish` | `publish()`, advertising first |
| `SendGoal`, `GoalSettles`, `GoalReturns`, `CancelAction` | `send_action_goal()` to its await, its end, its `finally`; `cancel_action()` |

Two constants widen the use of the interface beyond what the properties
promise: `Twice` lets a handle be unsubscribed again, `Overlap` lets two goals
of one action be in progress. `blind` is a history variable: the sessions in
which a publish reached the server before an advertisement of its topic.

### DirectDds

`direct_dds.py` with `entity_cache.py`. Two sorts of actor: the event loop, one
coroutine step at a time, and a spin thread per `connect()`, which runs the
callbacks. The only way from a thread to the loop is `call_soon_threadsafe()`,
the queue `ready`. `disconnect()` blocks the loop while it joins the thread
(`joining`), so then only threads move; it goes on when the thread has ended or
when 5 s are over, which is the case exactly if a callback holds the thread
(`busy`).

| Model | Code |
|---|---|
| `node`, `connected`, `stop`, `thread[n]` | `_node`, `_status`, `_spin_stop`, the thread that spins node *n* |
| `cached`, `tracked` | what the entity cache would destroy: publishers and clients; subscriptions by address |
| `pc`, `fut`, `heard`, `got` | of a call: its await, its future, the messages received and the one returned |
| `goal`, `robot`, `cancelled` | `_active_goals` of one action; what the robot makes of each goal |
| `Connect`, `DisconnectBegins`, `DisconnectEnds` | `connect()`; `disconnect()` up to `join()` and after it |
| `ThreadEnds`, `CallbackBlocks`, `CallbackReturns`, `ThreadCrashes` | the spin loop and the callbacks it is in |
| `OnMessage`, `OnDone`, `RobotDecides`, `LoopRuns` | a callback that hands a result to the loop, and the loop that sets the future |
| `Begin`, `Found`, `Accepted`, `Answered`, `Expire`, `Ends` | the coroutines of `subscribe_once()`, `call_service()`, parameters and goals, cut at their awaits; their timeouts; their `finally` |
| `CallerGivesUp` | the caller's task is cancelled at an await: `CancelledError` passes by the `except` clauses, the `finally` runs |
| `Subscribe`, `Unsubscribe`, `Publish`, `CancelAction` | the operations that do not suspend |

`Slow` says whether a callback may last more than 5 s; `Overlap` widens the use
beyond what the properties promise: two goals of one action may overlap. A
subscription's id is an address, and `FreshId` gives out every address that no
live subscription has, those of freed ones included. `strays` is a history
variable: the ids that handles from before the present connection unsubscribed.

### Discovery

What the bridge remembers of the graph: the context builder, the scanner, and
the switch command in between. A discovery or a scan is three steps: it takes
the transport (`Asks`), the lists are answered (`Answered`), the result is
stored (`Discovered`, `Scanned`) or is a failure. A failure depends on the mode
of the transport (`ModeOf`): a list that raises is cached with timestamp 0.0
(`DiscoveryFails`); over rosbridge a list that times out or loses its connection
does not raise but is empty, and is stored like any other (`ListsGiveUp`). `gen`
numbers the transports and stands for the manager's globals. The switch leaves
the cache as it is; `InvalidateContext` is the orchestrator's, at any time or
never, since nothing under `src/` calls `invalidate_cache()`. `mark`, `sighted`,
`switchedAt` and the field `failed` are history: the start of the scan that ended
last, the newest answer that listed a topic, when the transport changed last,
and whether the lists could not be had.

### Fingerprint

`fingerprint()`, its patterns, vendor table and module table, as operators over
sequences of entities; an entity is the set of keywords found in its name, and
its type. The code's loops over a list, and over the rows of a table, are
functions recursive in the length of the list. The state machine
(`FingerprintSpec`) lets the robot publish one more topic or action and
fingerprints it again.

### SafetyValidator and ToolServer

`SafetyValidator` translates `validate()` and every check behind it. A value is
a number, a numeral, NaN, text or missing; a vector is a dictionary of values, or
something else. The norm is compared by squares. `WithinLimits` is the
reference: what a payload may ask for, said without the order and the early
returns of the checks, with the Euclidean magnitude `docs/safety.md` gives for a
velocity. `Legible` says which payloads the checks can judge at all: `float()`
reads every value they look at, and a message whose type is that of a pose has
its position where they look for it.

`ToolServer` is the process around it, one of five hosts: `serve` and `mcp` (the
server, started by the command line or as a program of its own), `plugin`, `cli`
and `bridge` (`__main__.py`, which connects and waits). The
server checks a call and hands it over in one step. The plugin answers the hook
and its runtime runs the tool later, perhaps after a reload. The command line
checks nothing. The parameters of a tool are stated four times in the code
(signatures, MCP schemas, plugin definitions, command line) and four times in
the model; `Binds` is Python's rule for keyword arguments. `Meets` is what the
schemas accept: none sets `additionalProperties`, so that a call may have names
of `Extras` besides; `Listed` are the names a host tells its callers of.

### DiscoveryNode

The node on the robot. Its executor has one thread, so a manifest is built in
three steps, one for each query of the graph, for the timer (`OnTimer`) or a request
(`HandleGetCapabilities`), while the graph changes. Arrivals go into a window
per topic (`Recent`), from which `Hz` takes the rate.

### How the modules meet

`inst` (manager) stands for a RosbridgeClient or a DirectDds; `link` (emergency
stop, adapter, tool server) for the manager and its transport; `gen` (discovery)
for the manager's transport and its switches. ToolServer includes
SafetyValidator. Manager and client meet in TransportLife: the client is proved
to live it, and what the manager supposes of an instance is proved to be no more
than it. Each other abstraction leaves more behaviours than the module it
stands for: a link may die, and a transport may fail, at any step.

## 3. The runs

| Run | Question | Result |
|---|---|---|
| `client_serial` | Used as the manager uses it, does the client have one owner, no orphan socket, no waiting across a loss, and does it live the life of a transport? | holds |
| `client_concurrent` | With `connect()` at any moment: are requests completed once and in the end, does `disconnect()` return, is a loss noticed, is the contract implemented? | holds |
| `manager` | Overlapping callers, reconnecting transports: one switch at a time, no closed transport handed out, the lock released; for serial callers, does a switch end as documented, and is only the active transport live if none reconnects? | holds |
| `estop` | Over every transport, caller and machine: does each stop over rosbridge hand zero velocity over, base first, and end? | holds |
| `estop_dds` | Does a failed DDS publish lead to the fallback? | violated |
| `adapter` | Across losses and reconnects, is every listener served, does nothing leak but what a reconnect subscribed, does a cancel find its goal? | holds |
| `dds` | Threads against the loop, callbacks that block or raise, connects and disconnects: is a node spun by its own thread, are leaks the known ones, is the first message returned, is a goal known, do handles keep their subscription but from stale ones, does every call end, with callers cancelled at any await? | holds |
| `discovery` | Discoveries and scans that overlap, lists that fail over either mode, invalidations and switches: is what a cache serves recent, does an old transport's context fade, are failures tried again but over rosbridge, and is health what was sighted? | holds |
| `discovery_switch` | Does the switch command clear the context? | violated |
| `fingerprint` | Is the result the same in any order, and never less for more? | holds |
| `gate` | Every host and tool, loads and reloads: is what passes within the limits, what is refused beyond them or illegible, are the limits the latest, do calls bind but for unlisted arguments? | holds |
| `node` | Are rates those of the last gaps, manifests without strangers, and is what stays published in the end? | holds |

`CHECK_DEADLOCK FALSE` everywhere: calls, connections, time and changes are
finite and every module stops when they are used up.

**Bounds.** *Client*: two connections accepted, two attempts, two `connect()`,
one or two `disconnect()`, one or two requests. Two connections are the least
with a reconnect and an old loop beside a new one; two requests the least with an
answered one beside a lost one; a second `disconnect()` meets the first while it
joins or closes. The concurrent run has one request and one `disconnect()`
because it checks liveness. *Manager*: two callers, one mode of each sort, four
instances: one active, one closing, one dialing and one more switch after that;
serial callers with and without reconnects, overlapping ones with. *Emergency
stop*: two calls, two arm topics, every kind, entry and machine. *Adapter*: two
sessions (one reconnect), two subscriptions and a one-shot one over two topics,
so that a handler set can be emptied, replaced and shared while another topic is
listened to; two goals and two actions, the least with a goal that returns while
another runs. *DDS*: two nodes (an old thread beside a new one), a call of any
kind, whose caller may be cancelled, beside a goal, two messages for a one-shot
subscription (the second while the first is on its way), three handles and three
addresses, all of which are free again after a disconnect; where callbacks may
last, one goal; a behaviour has calls or subscriptions, which share no state but
the node. *Discovery*: two
overlapping calls, TTL and threshold of two ticks, lists that take up to two, a
clock up to eight, which is past three thresholds and a list; two transports, one
of each mode; a topic of the robot and one that is filtered out. *Fingerprint*: nine topics and
two actions that meet every branch of the classification, in lists of up to four
and two. *Gate*: a loose and a strict setting, payloads below, on and beyond each
limit, malformed and NaN, nested poses among them; one argument no table
lists; two loads; two calls, of which one may be any and the other matters for the
schedule. *Node*: window of three, four arrivals (one more than the
window) at up to five instants, two changes of the graph, one request; a
behaviour has arrivals or a changing graph, since rates do not depend on it.
Symmetry is used in runs without liveness only.

**Fairness** is what the event loop and the timers give: a ready task runs, a
dial ends (`wait_for` bounds it; the closing handshake of the WebSocket has a
timeout), a timer fires, a join ends after 5 s, a thread asked to stop looks at
the event. In the node, a callback runs to its end, and the timer, which comes due
again and again while requests take the thread in turn, is served (SF). So is a
coroutine of the DDS transport, which `disconnect()` keeps from running again and
again: asyncio runs what is ready whenever the loop is free. Nothing
is assumed of users, of the server, the robot or the network: answers may never
come, callbacks may never return and a refused dial may always be refused.

## 4. Where the code and its documents disagree

Shown by a run:

1. *A failed DDS publish counts as success* (`estop_dds`, `commands/estop.py:65`):
   `publish()` reports by its result, the stop leaves the topic out of its list
   and does not try the fallback that `estop.py:36` describes.
2. *A switch leaves the old context* (`discovery_switch`,
   `commands/transport_cmd.py:140`): the function only logs, and nobody else
   calls `invalidate_cache()`; `transport_cmd.py:58` says that the cache is
   invalidated.

Seen while modelling; no run is kept for them. In the transports:

* Reconnecting ends at the first refused attempt (`rosbridge/client.py:271`),
  so the backoff never leaves its first step (`BackoffIsFlat`, proved).
* 0 attempts disables reconnecting (`client.py:247`), `config.py:53` says
  unlimited.
* `connect()` takes a reconnecting transport for absent and replaces it without
  closing it; the old one comes back (`transport_manager.py:73`). Hence
  `NoOrphanUnlessRetried`. With overlapping callers a `connect()`, which does not
  take the lock, may also leave its transport beside a switch's
  (`transport_manager.py:143`).
* A reconnect subscribes under a fresh id and the user's handle unsubscribes the
  old one, so the server goes on sending the topic (`client.py:270`);
  `LeaksOnlyReconnects` says that nothing else leaks.
* A second `unsubscribe()` of a handle whose set is empty deletes the topic's
  entry, which may by then be another listener's (`client.py:153`);
  `EveryListenerIsServed` is checked with `Twice = FALSE`.
* A topic advertised once is not advertised again after a reconnect
  (`adapter.py:120`).
* With two goals of one action the end of the first removes the other's entry,
  and `cancel_action()` no longer finds it (`adapter.py:226`,
  `direct_dds.py:345`); the properties speak of one goal at a time.
* A handle from before a `disconnect()` destroys the subscription that has its
  address now (`direct_dds.py:241`): addresses are given out again, and
  `HandlesKeepTheirOwn` excepts those of such handles.
* A goal whose caller is cancelled (awaits at `direct_dds.py:309`, `330`, `341`)
  passes by the `except` clauses: its action client stays, the goal goes on, and
  if it was accepted so does its entry in `_active_goals` (`OnlyKnownLeaks` names
  them).

In the commands and hosts:

* `anima-bridge estop` connects first, outside of any `try` (`cli.py:157`), and
  so never reaches the fallback when the transport is down.
* The last error path of the stop names an exception variable Python has deleted
  and raises instead of answering (`estop.py:119`).
* A switch, failed or not, leaves the context of the transport it closed in the
  cache, and a discovery that overlaps it stores the old context afterwards;
  `OldContextFades` bounds how long either is served.
* Over rosbridge a list that times out or loses its connection comes back empty
  (`adapter.py:204-209`, `272-273`, `289-291`), so that the prompt shows a robot
  with nothing for a whole TTL (`robot_context.py:114`), where a list that raises
  would be tried again; `FailureIsRetried` excepts it by name.
* `src/README.md:66-72` draws the command line through the safety layer;
  `cli.py` calls the tools directly.
* `python -m anima_bridge.mcp_server` (`mcp_server.py:313-339`) never connects a
  transport and ignores the limits of the environment; the plugin never connects
  one either. The handler of the plugin's `/transport` command is
  `get_transport_status` alone (`openclaw_plugin.py:241-245`).
* A first load of the plugin that fails leaves an instance with default limits
  (`openclaw_plugin.py:359-360`), and a call allowed by the hook runs later,
  perhaps under a newer configuration.
* A `PoseWithCovarianceStamped` has its position one level deeper than the check
  looks (`validator.py:86-91`) and is judged as the origin: blocked where the
  origin is outside of the workspace, let through where the pose is. The force of
  a `Wrench` is a dictionary, and `float()` raises (`validator.py:269`), outside of
  the server's `try`. `BlockedForCause` excepts both through `Legible`.
* The schemas do not forbid further properties, so a call that meets its schema may
  still be a `TypeError` at the tool (`mcp_server.py:249`); `AcceptedCallsBind` says
  that this is the only way to one.
* NaN passes every `value > limit` (`validator.py:206`), and the search for
  positions in a goal does not enter lists (`validator.py:134`): `GateIsSound`
  excepts both by name.

In discovery:

* The vendor table has `unitree` before `b2`, `h1` and `g1`, so a name with both
  never gets its model.
* A namespace is matched as a prefix of characters: `/r1` takes in `/r10`.
* The rate of a topic that fell silent never ages.

## 5. The proofs

Eight modules hold the theorems; each `EXTENDS` its component. The assumptions
are those named in the component (`ClientAssumption`, `ManagerAssumption`,
`StopAssumption`, `AdapterAssumption`, `DdsAssumption`, `DiscoveryAssumption`,
`NoCacheAssumption`, `ToolServerAssumption`, `NodeAssumption`: types, distinct
names, an even threshold); TLC evaluates them on every run.

**RosbridgeClientProofs.** These invariants are each proved to hold initially and
to be preserved by every action, with one step per action:

* `TypeInv`: the types, and that a loop that reads, reads a socket. Without the
  second part a loop's step could index the inbox of no connection.
* `LedgerInv`: whoever waits is registered and timed, and an answer is under way
  only for a request that was sent, on the socket it was sent on. It needs no
  assumption on use. From it follow `NobodyStranded`, `OutcomesAreFinal` and,
  action by action (each is a step of the contract or a stutter),
  `ClientImplementsContract`, the contract's safety part.
* `OwnerInv` (under `SerialUse`): connections are numbered as established; at
  most one of dialing call, live loop and live reconnect task exists; a live loop
  works for the connection the client holds; a reconnect task is known to
  `disconnect()` and exists only without a connection; the socket is being read
  or its loop was cancelled; while a `disconnect()` is under way nobody else
  works for the client. None of the properties is inductive alone: that no
  second loop starts depends on what each dialer may assume of `ws` and on what
  each `disconnect()` in flight has already stopped. From it follow
  `OneOwnerAtATime`, `NoSocketOrphaned`, `StatusIsTruthful`, `BackoffIsFlat`,
  `DisconnectSticks` and, with the ledger, `LossReachesEveryCaller`. It also gives
  the refinement of TransportLife (`ClientLivesTheLife`), one step per action: a
  client that is closed or closing and comes back without a dial makes no move
  of that life, and what excludes it is that nobody else works for the
  client then.
* `JoinInv`, without any condition on use: the loop a `disconnect()` joins is one
  that exists and is cancelled, or has been. `LoopMove` and `ByeMove` say that such
  a loop ends and is not revived and that a `disconnect()` never goes back to an
  await, whatever the step. This gives `DisconnectsReturn`. From `LedgerInv` follow
  `NobodyWaitsForever` (whoever waits has an armed timer) and with it the whole
  contract, fairness included: `ClientKeepsTheContract`.
* `HeldInv`, also without any condition on use: the socket the client holds is being
  read, or its loop is about to start, or a `disconnect()` is about to let go of
  it; sockets are used in order and hold finitely many answers. `LossMove` says of
  every step that a socket once closed stays so and receives nothing more, and that
  a loop reads on unless the client lets go. So what the loop of a dead socket has
  left to read only shrinks (`DrainStep`), by one answer with each of its steps,
  and at the end the loop forgets the socket: `LossesAreNoticed`, where a
  `disconnect()` that gets there first is a case of its own.

**TransportManagerProofs.** `LockInv` (the lock is held exactly by the caller in
the middle of a switch; a suspended caller is suspended on an instance) gives
`OneSwitch` and, with one more induction, `NeverHandsOutClosed`, both for any
number of overlapping callers. `SerialInv` (one call at a time, and a switch
dials with no active transport) gives `SwitchKeepsItsWord` for serial callers.
A further invariant says what the instances can be in each state of the one call
in progress; with it `NoTransportOrphaned` is inductive for serial callers
without reconnects. Neither condition can be dropped: a reconnecting client
comes back after it was replaced, and two overlapping `connect()` leave one
transport behind. `HolderInv` (a suspended caller dials or closes its own
instance, and no two dial one) gives `InstancesLiveTheLife`, and `OnlyReturns`
(its own return alone moves a suspended caller) gives `SwitchesEnd`, both for
overlapping callers.

**EmergencyStopProofs.** `StopInv`: over rosbridge, a call hands the velocity
message over before it waits and no message of an arm topic is older. It gives
`ZeroIsAlwaysSent` and `BaseIsFirst` for any number of calls and arm topics.
`QuietInv` (a call that lists topics has handed over no message but the velocity
message) is why its steps are that message and the list, and nothing else puts
them off: `StopsEnd`.

**RosbridgeAdapterProofs.** `TypeInv` adds to the types that a link is up only
in a session. `SubsInv` is why the properties about listeners are not inductive
alone: a `remove()` deletes the topic's entry whichever set that is by now, so
one needs that the set a listener holds *is* the entry of its topic, that a set
serves one topic and has listeners of that topic only, that a set nobody
created is empty, and under which id the server serves each listener. It gives
`ListenersAreServed`, `TableStaysTidy` and `OnlyReconnectsLeak`, for handles that
are unsubscribed once. `GoalsInv` gives `CancelIsNotStale`, for overlapping goals
too, and `CancelReaches`; `HeraldInv` gives `FirstSessionAdvertises`.

**DirectDdsProofs.** For any number of calls, nodes, messages and handles:

* `NodeInv`: a node that is not the transport's was never spun; a thread that
  lives on was held by a callback; the node of a call is alive only while the
  transport that began it stays connected. `SpinnerServesItsNode` alone says
  nothing of why an old node has no thread, which is what a failed `connect()`
  relies on. It gives `TheSpinnerIsItsOwn` and the part of `LeaksAreKnown` that is
  about nodes.
* `CallInv`: a result on its way in `ready` belongs to a goal that is over. Without
  it a goal that ends with an answer might still run on the robot. It gives,
  through `LeakInv`, `LeaksAreKnown`, callers cancelled at any await included.
* `FirstInv`: as long as a future is pending, the first message of its call is
  in the queue ahead of all others of that call. The lemma `EntriesAfter` says what
  `Append` and `Tail` do to the queue. It gives `FirstMessageIsReturned`.
* `HandlesInv` gives `SubscriptionsStay`, with addresses that are used again: an
  address no live subscription has is given out, so of the handles of this
  connection the one that is tracked there is its owner until it, or a stray of an
  earlier connection, unsubscribes. `GoalInv` (one goal at a time) gives
  `GoalInProgressIsKnown`.
* `AwaitInv` (whoever awaits has a future; a loop that joins has told the thread to
  stop) makes the awaits of a call a chain: `CallMove` says that no step leads
  back, and a blocked loop is released, since the thread it joins ends or
  the join expires. This gives `CallsEnd`.

**DiscoveryProofs.** For any TTL, threshold, time the lists take and number of
overlapping discoveries. `TimesInv`: what a call was answered is no older than
the call, the call no older than the lists may take, and what it stored is dated
so; it gives the three theorems about freshness. `SwitchInv`: a call at work on an
older transport began before the last switch, so what it stores is stored at most
the time the lists take after that; it gives `OldContextsFade`, although nobody
invalidates the cache.
`HealthInv`: `last_seen` may go back when an older scan ends last, but never by
more than the lists may take; the lemma `Grades` says what each grade means for
the age. Without that bound between `seen` and `sighted`, which the property does
not mention, no step of a scan preserves it.

**ToolServerProofs.** For every payload, not only the small ones of the run, all
limits and any number of calls and reloads. `FirstOfDecides` says that a chain of checks passes exactly when each
does. On it rest verdict lemmas, one per check, from `SpeedVerdict` up to
`ValidateVerdict`: what `Validate` allows is `WithinLimits`, and what it refuses,
by blocking or by raising, is not, if it is `Legible`. `TablesAgree` compares the
tables of tools, and `AskedBinds` concludes that a call binds exactly if its
arguments are listed. `GateInv` is then inductive: the
validator has the limits of the latest configuration wherever it is asked, and a
call the hook allowed was checked and binds, which is needed because the plugin
runs it in a later step. It gives the four theorems.

**GraphProofs** is about the node on the robot and the fingerprint, which both
work on lists of the graph.

* `BuildInv` (the manifest being built is proper, of the namespace it was begun
  for, and lists what was in the graph meanwhile) and `DeliveredInv` give
  `ManifestsListNoStrangers`, for any names, namespaces and number of requests.
* `RateInv` (the window of a topic is the end of its arrivals, and arrivals are in
  order) gives `RatesAreRecent`: the rate's mean lies between the shortest and the
  longest gap, because the gaps of the window sum up to its span.
* `ManifestsCatchUp`: the executor is idle again and again, so the timer is served,
  and a run of the timer that begins after a name came lists it.
* `OrderIsIrrelevant` and `FingerprintsOnlyGrow`: a detecting loop visits the
  positions of a list where something matches, so what it has found, and how
  much, is the image and the number of those positions (`LoopExists`,
  `LoopCollects`, `LoopCounts`, `DetectResult`); a fingerprint depends on its lists
  through these and the set of their entities only (`FingerprintParts`). A
  reordering keeps them, a continuation does not shrink them.

The rates and the fingerprint need induction over the length of a list. The
library's induction theorems take the predicate as an operator, which the provers
do not instantiate; here it is a set instead, the numbers for which it holds, and
`NatIsInductive` says that a set with 0 and every successor has all of `Nat` (from
`WFMin`, since `<` is well-founded).

**What happens in the end.** Eight theorems are about liveness. The provers know
the rules of fairness but cannot expand `ENABLED`, so each theorem has as
hypothesis what it needs of that: `TimerCanFire`, `DisconnectCanGoOn`,
`LossCanBeNoticed`, `CallCanReturn`, `ListingCanGoOn`, `LoopCanGoOn` (of either transport),
`NodeCanGoOn` and `Contract!TimesOutWaiting` each say that a named action is enabled in the states
where its guard allows it. They add nothing to the model: such an action is its
guard and one assignment to each variable. TLC, given them as invariants, finds
them true on the instances of the runs. `DisconnectsReturn`, `LossesAreNoticed` and
`CallsEnd` are stated with `[]Fairness`, which is the same as `Fairness`: which loop
or node is waited for depends on the state, and the provers do not move a box
through the quantifier over them. The calls of the DDS transport need strong
fairness, since nothing bounds the disconnects that block the loop; weak fairness
would do in the run only because `MaxNodes` bounds them there.

`LossesAreNoticed` needs one thing more. That a loop which reads one answer less
after each step comes to the last is the rule of well-founded induction for `~>`.
It holds of every sequence of states, whatever the program, but the provers have
propositional temporal logic only and a temporal formula defines no set to induct
over, so `CountsDown` states the rule, for the one measure it is needed of, as a
part of the hypothesis `LossCanBeNoticed`. Its premise, that the loop does read
one answer less, is what the proof establishes; the rule says nothing of the client.

Every property of a passing run is stated by a theorem. What rests on TLC and on
reading alone is what these hypotheses say of `ENABLED`, and what a recursive
definition computes beyond the facts named above.

## 6. Not modelled

* Configuration and types: declarations; their values are constants of the
  modules. Robot descriptions, container files and pages are not program logic.
* The rosbridge adapter's introspection and parameters reshape the values of
  single service calls, which are requests of the client; the DDS transport's
  introspection is one query of the graph, an answer in Discovery.
* The entity cache's conversions between messages and dictionaries map data
  field by field. Its lock guards steps of one thread, the loop's.
* Connection handlers are called synchronously and change nothing of the
  transport. A handler that itself calls the transport is not modelled.
* Prompt text, manifest text, report text, printing, argument declarations,
  schema export, and the stdio and SSE plumbing of the server's library.
* `anima-bridge status` asks a process that has not connected, and
  `get_transport_status()` reads two fields: no state, no step.

## 7. Plan

1. Handlers that call back into the transport, and connection handlers that
   raise.
2. Wider instances: three overlapping scans, three nodes, `Overlap`
   with properties of what then still holds.
3. Conversions of the entity cache as operators with a reference definition of
   the round trip.
