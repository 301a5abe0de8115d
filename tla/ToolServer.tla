----------------------------- MODULE ToolServer -----------------------------
(***************************************************************************)
(* How a tool call gets to the transport: the MCP server (mcp_server.py),  *)
(* the OpenClaw plugin (openclaw_plugin.py) and the command line (cli.py,  *)
(* __main__.py) around the tools of anima_bridge/tools and the safety gate *)
(* (module SafetyValidator).                                               *)
(*                                                                         *)
(* A behaviour is one process.  The server checks a call and hands it over *)
(* in one step of its loop.  The plugin only answers the hook: its runtime *)
(* runs the tool later, and may reload the configuration in between.  The  *)
(* command line runs a tool without a check.                               *)
(***************************************************************************)
EXTENDS SafetyValidator

CONSTANTS
    Calls,
    Hosts,      \* processes considered: serve, mcp, plugin, cli, bridge
    Limits,     \* the SafetySettings that may be configured
    Default,    \* those of SafetySettings()
    NoLimits,
    Sections,   \* the other sections of a configuration
    Payloads,   \* of each tool: the arguments the gate looks at
    Commands,   \* of each call: the tools it may be about
    Extras,     \* BOUND: names of arguments that no table lists
    MaxLoads    \* BOUND: configurations handed to the plugin

ASSUME ToolServerAssumption ==
    /\ Default \in Limits /\ NoLimits \notin Limits
    /\ \A limits \in Limits : IsLimits(limits)
    /\ \A c \in Calls : Commands[c] \subseteq DOMAIN Payloads
    /\ \A t \in DOMAIN Payloads : \A p \in Payloads[t] :
          CASE t = "ros2_publish"      -> p \in Messages
            [] t = "ros2_action_goal"  -> p \in Goals
            [] t = "ros2_param_set"    -> p \in Parameters
            [] t = "ros2_service_call" -> p \in Services
            [] OTHER                   -> p = <<>>
    /\ "safety" \notin Sections
    /\ MaxLoads \in Nat

VARIABLES
    host, phase,    \* the process
    link,           \* is there a transport for get_transport() to return?
    instance,       \* _plugin_instance # None
    config,         \* the limits of self.config
    gate,           \* the limits of the validator
    latest, loads,  \* the limits of the configuration loaded last
    pc, tool, given, args,
    checkedBy,      \* of each call: the limits it was checked under
    due,            \* of each call: the limits of the latest configuration when it was made
    reached,        \* calls handed to the transport
    outcome

process == <<host, phase, link>>
plugin  == <<instance, config, gate, latest, loads>>
calls   == <<pc, tool, given, args, checkedBy, due, reached, outcome>>
vars    == <<process, plugin, calls>>

-----------------------------------------------------------------------------
(* The tools, and what the server and the plugin say of them *)

Schema(required, optional) == [required |-> required, optional |-> optional]

\* A tool's parameters, and how the transport's answer may turn out.
Tool(required, optional, answers) ==
    [required |-> required, optional |-> optional, answers |-> answers]

All == {"good", "bad", "raised"}

ros2_publish         == Tool({"topic", "msg_type", "message"}, {}, All)
ros2_subscribe_once  == Tool({"topic"}, {"msg_type", "timeout_ms"}, All)
\* Mutant: a parameter is renamed.
ros2_service_call_Renamed == Tool({"service"}, {"srv_type", "request"}, All)
ros2_service_call == Tool({"service"}, {"srv_type", "args"}, All)
ros2_action_goal     == Tool({"action", "action_type", "goal"}, {}, All)
ros2_param_get       == Tool({"node", "parameter"}, {}, {"good", "raised"})
ros2_param_set       == Tool({"node", "parameter", "value"}, {}, All)
ros2_camera_snapshot == Tool({}, {"topic", "timeout_ms"}, All)
ros2_list_topics     == Tool({}, {}, {"good", "raised"})
emergency_stop       == Tool({}, {"namespace"}, All)

TOOL_HANDLERS ==
    [t \in {"ros2_publish", "ros2_subscribe_once", "ros2_service_call", "ros2_action_goal",
            "ros2_param_get", "ros2_param_set", "ros2_camera_snapshot", "ros2_list_topics",
            "emergency_stop"} |->
        CASE t = "ros2_publish"         -> ros2_publish
          [] t = "ros2_subscribe_once"  -> ros2_subscribe_once
          [] t = "ros2_service_call"    -> ros2_service_call
          [] t = "ros2_action_goal"     -> ros2_action_goal
          [] t = "ros2_param_get"       -> ros2_param_get
          [] t = "ros2_param_set"       -> ros2_param_set
          [] t = "ros2_camera_snapshot" -> ros2_camera_snapshot
          [] t = "ros2_list_topics"     -> ros2_list_topics
          [] t = "emergency_stop"       -> emergency_stop]

TOOL_SCHEMAS ==
    [ros2_publish         |-> Schema({"topic", "msg_type", "message"}, {}),
     ros2_subscribe_once  |-> Schema({"topic"}, {"msg_type", "timeout_ms"}),
     ros2_service_call    |-> Schema({"service"}, {"srv_type", "args"}),
     ros2_action_goal     |-> Schema({"action", "action_type", "goal"}, {}),
     ros2_param_get       |-> Schema({"node", "parameter"}, {}),
     ros2_param_set       |-> Schema({"node", "parameter", "value"}, {}),
     ros2_camera_snapshot |-> Schema({}, {"topic", "timeout_ms"}),
     ros2_list_topics     |-> Schema({}, {}),
     emergency_stop       |-> Schema({}, {"namespace"})]

tool_definitions ==
    [ros2_publish         |-> Schema({"topic", "msg_type", "message"}, {}),
     ros2_subscribe_once  |-> Schema({"topic"}, {"msg_type", "timeout_ms"}),
     ros2_service_call    |-> Schema({"service"}, {"srv_type", "args"}),
     ros2_action_goal     |-> Schema({"action", "action_type", "goal"}, {}),
     ros2_param_get       |-> Schema({"node", "parameter"}, {}),
     ros2_param_set       |-> Schema({"node", "parameter", "value"}, {}),
     ros2_camera_snapshot |-> Schema({}, {"topic", "timeout_ms"}),
     ros2_list_topics     |-> Schema({}, {}),
     emergency_stop       |-> Schema({}, {"namespace"})]

\* What the functions of the command line pass to the tools.
cli_commands ==
    [ros2_publish         |-> {"topic", "msg_type", "message"},
     ros2_subscribe_once  |-> {"topic", "msg_type", "timeout_ms"},
     ros2_list_topics     |-> {},
     ros2_service_call    |-> {"service", "srv_type", "args"},
     ros2_camera_snapshot |-> {"topic"},
     emergency_stop       |-> {"namespace"}]

\* The calls that meet a schema, which does not forbid further properties.
Meets(schema) == {schema.required \cup o : o \in SUBSET (schema.optional \cup Extras)}

\* The calls a process can be asked for: by a client that keeps to the schema
\* or does not know the tool, by the runtime, by the user.
Asked(t) ==
    CASE host \in {"serve", "mcp"} /\ t \in DOMAIN TOOL_SCHEMAS -> Meets(TOOL_SCHEMAS[t])
      [] host \in {"serve", "mcp"} /\ t \notin DOMAIN TOOL_SCHEMAS -> {{}}
      [] host = "plugin" /\ t \in DOMAIN tool_definitions -> Meets(tool_definitions[t])
      [] host = "cli" /\ t \in DOMAIN cli_commands -> {cli_commands[t]}
      [] OTHER -> {}

\* The arguments the process tells its callers of.
Listed(t) ==
    CASE host \in {"serve", "mcp"} /\ t \in DOMAIN TOOL_SCHEMAS ->
            TOOL_SCHEMAS[t].required \cup TOOL_SCHEMAS[t].optional
      [] host = "plugin" /\ t \in DOMAIN tool_definitions ->
            tool_definitions[t].required \cup tool_definitions[t].optional
      [] host = "cli" /\ t \in DOMAIN cli_commands -> cli_commands[t]
      [] OTHER -> {}

\* handler(**arguments) raises TypeError otherwise.
Binds(t, names) ==
    LET h == TOOL_HANDLERS[t]
    IN  h.required \subseteq names /\ names \subseteq h.required \cup h.optional

-----------------------------------------------------------------------------
(* Starting and ending the process *)

Init ==
    /\ host \in Hosts /\ phase = "off" /\ link = FALSE
    /\ instance = FALSE /\ config = Default /\ gate = NoLimits
    /\ latest = Default /\ loads = 0
    /\ pc = [c \in Calls |-> "idle"]
    /\ tool = [c \in Calls |-> "none"] /\ given = [c \in Calls |-> {}]
    /\ args = [c \in Calls |-> <<>>]
    /\ checkedBy = [c \in Calls |-> NoLimits] /\ due = [c \in Calls |-> NoLimits]
    /\ reached = {} /\ outcome = [c \in Calls |-> "none"]

\* The environment sets the limits and every other section.
ConfigFromEnv(limits) == [s \in Sections \cup {"safety"} |-> IF s = "safety" THEN limits ELSE "env"]

\* The arguments override sections, never the limits.
Merged(base, overrides) ==
    [s \in DOMAIN base |-> IF s \in overrides THEN "arg" ELSE base[s]]

\* A process of the command line reads its configuration and connects; the
\* connection may fail, or the configuration be refused, and the process ends.
Starts(limits, overrides) ==
    /\ phase = "off" /\ host \in {"serve", "cli", "bridge"}
    /\ LET made == Merged(ConfigFromEnv(limits), overrides).safety
       IN  \/ /\ phase' = "up" /\ link' = TRUE
              /\ config' = made
              /\ gate' = IF host = "serve" THEN made ELSE NoLimits
              /\ latest' = limits
           \/ /\ phase' = "ended"
              /\ UNCHANGED <<link, config, gate, latest>>
    /\ UNCHANGED <<host, instance, loads, calls>>

\* The server as a program of its own: the configuration of a file, or the
\* defaults, and nothing connects.
ServerStarts(limits) ==
    /\ phase = "off" /\ host = "mcp"
    /\ phase' = "up"
    /\ config' = limits /\ gate' = limits /\ latest' = limits
    /\ UNCHANGED <<host, link, instance, loads, calls>>

\* The command has returned or raised, the client is gone, or a signal came:
\* disconnect().  The server takes its calls with it.
Ends ==
    /\ phase = "up" /\ host # "plugin"
    /\ host = "cli" => \A c \in Calls : pc[c] # "running"
    /\ phase' = "ended" /\ link' = FALSE
    /\ outcome' = [c \in Calls |-> IF pc[c] = "running" THEN "cancelled" ELSE outcome[c]]
    /\ pc' = [c \in Calls |-> IF pc[c] = "running" THEN "done" ELSE pc[c]]
    /\ UNCHANGED <<host, plugin, tool, given, args, checkedBy, due, reached>>

\* The process the plugin lives in connects and disconnects.
LinkChanges ==
    /\ host = "plugin" /\ link' = ~link
    /\ UNCHANGED <<host, phase, plugin, calls>>

-----------------------------------------------------------------------------
(* The plugin *)

\* Mutant: a validator that is there is kept.
Initialize_Once(limits) ==
    /\ config' = limits
    /\ gate' = IF gate = NoLimits THEN limits ELSE gate

\* initialize(): a new validator for the configuration.
Initialize(limits) == config' = limits /\ gate' = limits

\* get_plugin(raw_config).
Load(limits) ==
    /\ host = "plugin" /\ loads < MaxLoads
    /\ loads' = loads + 1
    /\ instance' = TRUE
    /\ Initialize(limits)
    /\ latest' = limits
    /\ UNCHANGED <<process, calls>>

\* A configuration that does not validate: the instance of a first call stays,
\* with the default configuration and without a validator.
LoadRaises ==
    /\ host = "plugin" /\ loads < MaxLoads
    /\ loads' = loads + 1
    /\ instance' = TRUE
    /\ UNCHANGED <<process, config, gate, latest, calls>>

\* get_plugin() without a configuration, and the lazy initialize() of a hook.
EnsureInitialized ==
    /\ instance' = TRUE
    /\ IF gate = NoLimits THEN Initialize(config) ELSE UNCHANGED <<config, gate>>

\* The hook that builds the robot's context for a new agent.
BeforeAgentStart ==
    /\ host = "plugin"
    /\ EnsureInitialized
    /\ UNCHANGED <<process, latest, loads, calls>>

-----------------------------------------------------------------------------
(* A call *)

\* What the tool does up to its first await: bind, get_transport(), hand over.
\* Without a transport get_transport() raises and the tool reports it.
HandOver(c, t, names) ==
    IF Binds(t, names) /\ link
    THEN /\ reached' = reached \cup {c}
         /\ pc' = [pc EXCEPT ![c] = "running"]
         /\ UNCHANGED outcome
    ELSE /\ pc' = [pc EXCEPT ![c] = "done"]
         /\ outcome' = [outcome EXCEPT ![c] = IF Binds(t, names) THEN "failure" ELSE "misbound"]
         /\ UNCHANGED reached

\* The call is over with an answer that is not the transport's.
Answered(c, what) ==
    /\ pc' = [pc EXCEPT ![c] = "done"]
    /\ outcome' = [outcome EXCEPT ![c] = what]
    /\ UNCHANGED reached

CallIs(c, t, names, payload) ==
    /\ pc[c] = "idle"
    /\ names \in Asked(t)
    /\ tool' = [tool EXCEPT ![c] = t]
    /\ given' = [given EXCEPT ![c] = names]
    /\ args' = [args EXCEPT ![c] = payload]
    /\ due' = [due EXCEPT ![c] = latest]

CheckedUnder(c, limits) == checkedBy' = [checkedBy EXCEPT ![c] = limits]

Bypasses(t) == t = "emergency_stop"

\* _dispatch_tool() up to the first await of the handler.  validate() is outside
\* of the try: what it raises goes to the MCP library, and the call is over.
Dispatch(c, t, names, payload) ==
    /\ host \in {"serve", "mcp"} /\ phase = "up"
    /\ CallIs(c, t, names, payload)
    /\ \/ /\ t \notin DOMAIN TOOL_HANDLERS
          /\ Answered(c, "unknown")
          /\ UNCHANGED checkedBy
       \/ /\ t \in DOMAIN TOOL_HANDLERS /\ Bypasses(t)
          /\ HandOver(c, t, names)
          /\ UNCHANGED checkedBy
       \/ /\ t \in DOMAIN TOOL_HANDLERS /\ ~Bypasses(t)
          /\ CheckedUnder(c, gate)
          /\ LET said == Validate(t, payload, gate)
             IN  IF said = "ok" THEN HandOver(c, t, names) ELSE Answered(c, said)
    /\ UNCHANGED <<process, plugin>>

\* The hook of the plugin, and what it tells the runtime.
BeforeToolCall(c, t, names, payload) ==
    /\ host = "plugin"
    /\ CallIs(c, t, names, payload)
    /\ EnsureInitialized
    /\ CheckedUnder(c, gate')
    /\ LET said == Validate(t, payload, gate')
       IN  IF said = "ok" THEN pc' = [pc EXCEPT ![c] = "allowed"] /\ UNCHANGED <<reached, outcome>>
           ELSE Answered(c, said)
    /\ UNCHANGED <<process, latest, loads>>

\* The runtime runs the tool it was allowed to.
Runs(c) ==
    /\ pc[c] = "allowed"
    /\ HandOver(c, tool[c], given[c])
    /\ UNCHANGED <<process, plugin, tool, given, args, checkedBy, due>>

\* A command of the command line is its tool, unchecked.
RunsCommand(c, t, names, payload) ==
    /\ host = "cli" /\ phase = "up" /\ \A d \in Calls : pc[d] = "idle"
    /\ CallIs(c, t, names, payload)
    /\ HandOver(c, t, names)
    /\ UNCHANGED <<process, plugin, checkedBy>>

\* The transport's answer: the tool turns it, an exception included, into a dict;
\* what emergency_stop() raises is caught by _dispatch_tool() only.
Returns(c) ==
    /\ pc[c] = "running"
    /\ \E answer \in TOOL_HANDLERS[tool[c]].answers :
          Answered(c, CASE answer = "good" -> "success"
                        [] answer = "raised" /\ tool[c] = "emergency_stop" -> "error"
                        [] OTHER -> "failure")
    /\ UNCHANGED <<process, plugin, tool, given, args, checkedBy, due>>

-----------------------------------------------------------------------------

Next ==
    \/ \E limits \in Limits, over \in SUBSET Sections : Starts(limits, over)
    \/ \E limits \in Limits : ServerStarts(limits) \/ Load(limits)
    \/ Ends \/ LinkChanges \/ LoadRaises \/ BeforeAgentStart
    \/ \E c \in Calls : \E t \in Commands[c] : \E names \in Asked(t), payload \in Payloads[t] :
          \/ Dispatch(c, t, names, payload)
          \/ BeforeToolCall(c, t, names, payload)
          \/ RunsCommand(c, t, names, payload)
    \/ \E c \in Calls : Runs(c) \/ Returns(c)

Spec == Init /\ [][Next]_vars

-----------------------------------------------------------------------------
(* Properties *)

Checked(c) == checkedBy[c] # NoLimits

\* Whatever the server or the plugin lets through to the transport was checked,
\* but for the emergency stop, and asks for nothing beyond the limits it was
\* checked under: no velocity of a larger magnitude, no position outside of the
\* workspace, as far as its numbers are plain and where the checks look.
GateIsSound ==
    \A c \in reached :
        host # "cli" /\ tool[c] # "emergency_stop" =>
            Checked(c) /\ WithinLimits(tool[c], args[c], checkedBy[c])

\* A call that is refused, by a check that blocks or by one that raises, asks
\* for something beyond the limits or for a position that is no place; but for a
\* call with a value that float() refuses, as the force of a Wrench, and for a
\* pose whose position is not where the check looks.  Such calls may be harmless.
BlockedForCause ==
    \A c \in Calls :
        outcome[c] \in {"blocked", "raises"} /\ Legible(tool[c], args[c]) =>
            ~WithinLimits(tool[c], args[c], checkedBy[c])

\* The limits a call is checked under are those of the configuration loaded last
\* when it was made: over reloads, reloads that fail, a first load that fails, a
\* plugin initialised by its hooks, and sections overridden by arguments.
CheckedByTheLatest == \A c \in Calls : Checked(c) => checkedBy[c] = due[c]

\* A call that meets its schema and does not bind has an argument the schema
\* does not list, and none with such an argument gets to the transport: schemas,
\* definitions and signatures are kept in three places, and none of the schemas
\* refuses further properties.
AcceptedCallsBind ==
    \A c \in Calls :
        /\ outcome[c] = "misbound" => ~(given[c] \subseteq Listed(tool[c]))
        /\ c \in reached => given[c] \subseteq Listed(tool[c])
=============================================================================
