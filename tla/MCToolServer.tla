---------------------------- MODULE MCToolServer ----------------------------
(* Small instances of ToolServer for TLC: a loose and a strict setting, and *)
(* payloads on, below and beyond the limits, malformed ones included.       *)
EXTENDS ToolServer, TLC

Loose  == [linear |-> 2, angular |-> 2, force |-> 3, joints |-> <<>>,
           x |-> <<-2, 2>>, y |-> <<-2, 2>>, z |-> <<0, 2>>]
Strict == [linear |-> 1, angular |-> 1, force |-> 1, joints |-> "elbow" :> 1,
           x |-> <<-1, 1>>, y |-> <<-1, 1>>, z |-> <<1, 2>>]

MCLimits == {Loose, Strict}

N(n) == Number(n)

Speeds == {NoVector, NotDict, Dict(N(1), Missing, Missing), Dict(N(1), N(1), N(0)), Dict(N(0), N(-2), N(0)),
           Dict(Digits(3), N(0), N(0)), Dict(NaN, N(3), N(0)), Dict(Text, N(0), N(0))}
Turns  == {NoVector, Dict(N(0), N(0), N(-1)), Dict(N(0), N(2), N(1))}

Positions == {NoVector, NotDict, Dict(N(0), N(0), N(0)), Dict(N(1), N(-1), N(1)), Dict(N(2), Missing, N(3)),
              Dict(N(0), NaN, N(1)), Dict(Text, N(0), N(0))}

NoPose   == [is |-> "missing", position |-> NoVector]
Poses    == {NoPose} \cup {[is |-> "dict", position |-> p] : p \in Positions}

Message(linear, angular, position, pose, typed, names, velocities, force) ==
    [linear |-> linear, angular |-> angular, position |-> position, pose |-> pose,
     typedPose |-> typed, names |-> names, velocities |-> velocities, force |-> force]

SomeMessages ==
    {Message(l, a, NoVector, NoPose, FALSE, <<>>, <<>>, Missing) : l \in Speeds, a \in Turns}
        \cup {Message(NoVector, NoVector, p, NoPose, t, <<>>, <<>>, Missing) : p \in Positions, t \in BOOLEAN}
        \cup {Message(NoVector, NoVector, Dict(N(2), N(2), N(2)), q, t, <<>>, <<>>, Missing) :
                 q \in Poses, t \in BOOLEAN}
        \cup {Message(NoVector, NoVector, NoVector, NoPose, FALSE, <<"wrist", "elbow">>, <<v, w>>, f) :
                 v \in {N(2), Text}, w \in {N(1), N(-2), NaN}, f \in {Missing, N(-1), N(2), Digits(4), NaN, Text}}
        \cup {Message(NoVector, NoVector, NoVector, NoPose, FALSE, <<"wrist", "elbow">>, <<N(0)>>, Missing)}

Level(in, p) == [in |-> in, position |-> p]

SomeGoals == {<<Level("dict", p), Level(i, q), Level(j, r)>> :
             p, r \in {NoVector, Dict(N(1), N(0), N(1)), Dict(N(2), N(0), N(0))},
             q \in {NoVector, Dict(N(1), N(0), NaN)}, i, j \in {"dict", "list"}}

SomeParameters == [keywords : SUBSET {"velocity", "force"}, value : {N(1), N(-2), N(4), Digits(5), NaN, Text}]

MCPayloads ==
    [t \in {"ros2_publish", "ros2_subscribe_once", "ros2_service_call", "ros2_action_goal", "ros2_param_get",
            "ros2_param_set", "ros2_camera_snapshot", "ros2_list_topics", "emergency_stop", "ros2_teleport"} |->
        CASE t = "ros2_publish" -> SomeMessages
          [] t = "ros2_action_goal" -> SomeGoals
          [] t = "ros2_param_set" -> SomeParameters
          [] t = "ros2_service_call" -> [dangerous : BOOLEAN]
          [] OTHER -> {<<>>}]

\* One call may be any, the other one is about the schedule.
CONSTANTS c1, c2
MCCommands == (c1 :> DOMAIN MCPayloads) @@ (c2 :> {"ros2_param_get"})
=============================================================================
