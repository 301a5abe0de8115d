--------------------------- MODULE SafetyValidator ---------------------------
(***************************************************************************)
(* SafetyValidator (anima_bridge/safety/validator.py): what validate()     *)
(* says of a call under the limits of a SafetySettings.                    *)
(*                                                                         *)
(* Data are abstracted to what the checks look at.  A value is a number, a *)
(* NaN, a string float() reads as a number, anything float() refuses, or   *)
(* it is missing; magnitudes are integers, so a norm is compared by its    *)
(* square.  A vector is a dict with x, y, z, or no dict.  A goal is its    *)
(* chain of nested containers, each a dict or a list, each with or without *)
(* a position.  A parameter's name is the keywords it contains, a          *)
(* service's is whether it matches a pattern of the denylist.              *)
(***************************************************************************)
EXTENDS Integers, Sequences

\* The values of a payload.
Number(n)  == [is |-> "number", n |-> n]
Digits(n)  == [is |-> "digits", n |-> n]
NaN        == [is |-> "nan", n |-> 0]
Text       == [is |-> "text", n |-> 0]
Missing    == [is |-> "missing", n |-> 0]

Dict(x, y, z) == [is |-> "dict", x |-> x, y |-> y, z |-> z]
NoVector      == [is |-> "missing", x |-> Missing, y |-> Missing, z |-> Missing]
NotDict       == [is |-> "other", x |-> Missing, y |-> Missing, z |-> Missing]

Parts(v) == {v.x, v.y, v.z}

\* What float() makes of a value that is there, and of the default 0.0.
Refused(v) == v.is = "text"
IsNaN(v)   == v.is = "nan"
Size(v)    == v.n
Abs(n)     == IF n < 0 THEN -n ELSE n

\* What a setting may be (config.py requires the three maxima to be positive).
IsLimits(limits) ==
    /\ {limits.linear, limits.angular, limits.force} \subseteq Nat \ {0}
    /\ \A j \in DOMAIN limits.joints : limits.joints[j] \in Int
    /\ {limits.x, limits.y, limits.z} \subseteq Int \X Int

\* What a payload may be, as far as the checks look.
Values  == {v \in [is : {"number", "digits", "nan", "text", "missing"}, n : Int] :
               v.is = "missing" => v.n = 0}
Vectors == {v \in [is : {"dict", "missing", "other"}, x : Values, y : Values, z : Values] :
               v.is # "dict" => Parts(v) = {Missing}}
Messages == [linear : Vectors, angular : Vectors, position : Vectors,
             pose : [is : {"dict", "missing", "other"}, position : Vectors], typedPose : BOOLEAN,
             names : Seq(STRING), velocities : Seq(Values), force : Values]
Goals      == Seq([in : {"dict", "list"}, position : Vectors])
Parameters == [keywords : SUBSET {"velocity", "force"}, value : Values]
Services   == [dangerous : BOOLEAN]

\* Check after check: the first one that does not say "ok" decides.
FirstOf(results) ==
    LET Ok(i) == results[i] = "ok" IN
    IF \A i \in DOMAIN results : Ok(i) THEN "ok"
    ELSE IF \E i \in DOMAIN results :
               results[i] = "blocked" /\ \A j \in DOMAIN results : j < i => Ok(j)
    THEN "blocked" ELSE "raises"

-----------------------------------------------------------------------------
(* The checks on a message *)

\* Mutant: the components are compared one by one.
Faster_EachByItself(v, limit) == \E p \in Parts(v) : Size(p) > limit

\* sqrt(x^2 + y^2 + z^2) > limit; a NaN makes the comparison false.  A number
\* whose square is too large for a float raises: the call is refused too.
Faster(v, limit) ==
    /\ \A p \in Parts(v) : ~IsNaN(p)
    /\ Size(v.x) * Size(v.x) + Size(v.y) * Size(v.y) + Size(v.z) * Size(v.z) > limit * limit

CheckSpeed(v, limit) ==
    IF v.is = "other" THEN "ok"
    ELSE IF \E p \in Parts(v) : Refused(p) THEN "raises"
    ELSE IF Faster(v, limit) THEN "blocked" ELSE "ok"

CheckTwist(m, limits) ==
    FirstOf(<<CheckSpeed(m.linear, limits.linear), CheckSpeed(m.angular, limits.angular)>>)

\* Mutant: the bounds themselves are outside.
Outside_Edges(v, range) == IsNaN(v) \/ Size(v) <= range[1] \/ Size(v) >= range[2]

\* not (min <= x <= max): a NaN is outside.
Outside(v, range) == IsNaN(v) \/ Size(v) < range[1] \/ Size(v) > range[2]

CheckPose(v, limits) ==
    IF v.is = "other" THEN "ok"
    ELSE IF \E p \in Parts(v) : Refused(p) THEN "raises"
    ELSE IF \/ Outside(v.x, limits.x) \/ Outside(v.y, limits.y) \/ Outside(v.z, limits.z)
         THEN "blocked" ELSE "ok"

\* zip() of the names and the velocities; limits is empty by default.
CheckJointState(m, limits) ==
    LET n == IF Len(m.names) < Len(m.velocities) THEN Len(m.names) ELSE Len(m.velocities)
        Joint(i) ==
            LET v == m.velocities[i]
            IN  IF Refused(v) THEN "raises"
                ELSE IF /\ m.names[i] \in DOMAIN limits.joints
                        /\ ~IsNaN(v) /\ Abs(Size(v)) > limits.joints[m.names[i]]
                     THEN "blocked" ELSE "ok"
    IN  IF limits.joints = <<>> THEN "ok" ELSE FirstOf([i \in 1 .. n |-> Joint(i)])

CheckGripperForce(v, limits) ==
    IF Refused(v) THEN "raises"
    ELSE IF ~IsNaN(v) /\ Abs(Size(v)) > limits.force THEN "blocked" ELSE "ok"

\* The position the pose check sees: that of message.pose, when it is a dict,
\* and of the message otherwise.  A pose with covariance keeps it one level
\* deeper, and its type is that of a pose: the check reads it as the origin.
PoseData(m) == IF m.pose.is = "dict" THEN m.pose.position ELSE m.position

CheckPublish(m, limits) ==
    FirstOf(<<
        IF m.linear.is # "missing" \/ m.angular.is # "missing"
        THEN CheckTwist(m, limits) ELSE "ok",
        IF PoseData(m).is # "missing" \/ m.typedPose
        THEN CheckPose(PoseData(m), limits) ELSE "ok",
        IF m.names # <<>> /\ m.velocities # <<>> THEN CheckJointState(m, limits) ELSE "ok",
        IF m.force.is # "missing" THEN CheckGripperForce(m.force, limits) ELSE "ok">>)

-----------------------------------------------------------------------------
(* The checks on goals, parameters and services *)

\* The recursion goes through dicts only.
Visited(goal) == {i \in DOMAIN goal : \A j \in 1 .. i : goal[j].in = "dict"}

CheckActionGoal(goal, limits) ==
    FirstOf([i \in DOMAIN goal |->
                IF i \in Visited(goal) /\ goal[i].position.is = "dict"
                THEN CheckPose(goal[i].position, limits) ELSE "ok"])

\* Only an int or a float is compared.
CheckParamSet(p, limits) ==
    LET Over(limit) == p.value.is = "number" /\ Abs(Size(p.value)) > limit
    IN  IF \/ "velocity" \in p.keywords /\ Over(limits.linear)
           \/ "force" \in p.keywords /\ Over(limits.force)
        THEN "blocked" ELSE "ok"

CheckServiceCall(s) == IF s.dangerous THEN "blocked" ELSE "ok"

Validate(tool, args, limits) ==
    CASE tool = "ros2_publish"      -> CheckPublish(args, limits)
      [] tool = "ros2_action_goal"  -> CheckActionGoal(args, limits)
      [] tool = "ros2_param_set"    -> CheckParamSet(args, limits)
      [] tool = "ros2_service_call" -> CheckServiceCall(args)
      [] OTHER                      -> "ok"

-----------------------------------------------------------------------------
(* What a command asks of the robot *)

Plain(v) == v.is = "dict" /\ \A p \in Parts(v) : p.is \in {"number", "digits", "missing"}

\* Of docs/safety.md: the Euclidean magnitude of a velocity.
Square(v) == Size(v.x) * Size(v.x) + Size(v.y) * Size(v.y) + Size(v.z) * Size(v.z)

InBox(v, limits) ==
    /\ Size(v.x) \in limits.x[1] .. limits.x[2]
    /\ Size(v.y) \in limits.y[1] .. limits.y[2]
    /\ Size(v.z) \in limits.z[1] .. limits.z[2]

\* The positions of a goal outside of its lists.
Places(goal) == {i \in DOMAIN goal : /\ \A j \in DOMAIN goal : j <= i => goal[j].in = "dict"
                                     /\ goal[i].position.is = "dict"}

\* The velocities that have a joint's name.
Moved(m) == DOMAIN m.names \cap DOMAIN m.velocities

\* Every position where the checks look is in the workspace, and every plain
\* number keeps to its limit.
WithinLimits(tool, args, limits) ==
    CASE tool = "ros2_publish" ->
            /\ Plain(args.linear) => Square(args.linear) <= limits.linear * limits.linear
            /\ Plain(args.angular) => Square(args.angular) <= limits.angular * limits.angular
            /\ PoseData(args).is = "dict" => Plain(PoseData(args)) /\ InBox(PoseData(args), limits)
            /\ \A i \in Moved(args) :
                  LET j == args.names[i]
                  IN  j \in DOMAIN limits.joints /\ args.velocities[i].is # "nan" =>
                         Size(args.velocities[i]) \in -limits.joints[j] .. limits.joints[j]
            /\ args.force.is # "nan" => Size(args.force) \in -limits.force .. limits.force
      [] tool = "ros2_action_goal" ->
            \A i \in Places(args) : Plain(args[i].position) /\ InBox(args[i].position, limits)
      [] tool = "ros2_param_set" ->
            args.value.is = "number" =>
                /\ "velocity" \in args.keywords => Size(args.value) \in -limits.linear .. limits.linear
                /\ "force" \in args.keywords => Size(args.value) \in -limits.force .. limits.force
      [] tool = "ros2_service_call" -> ~args.dangerous
      [] OTHER -> TRUE

\* float() reads every value the checks look at, and a message whose type says
\* it is a pose has its position where the check looks for it.
Legible(tool, args) ==
    LET Read(v) == \A p \in Parts(v) : ~Refused(p) IN
    CASE tool = "ros2_publish" ->
            /\ Read(args.linear) /\ Read(args.angular) /\ Read(PoseData(args))
            /\ \A i \in Moved(args) : ~Refused(args.velocities[i])
            /\ ~Refused(args.force)
            /\ args.typedPose => PoseData(args).is # "missing"
      [] tool = "ros2_action_goal" -> \A i \in Places(args) : Read(args[i].position)
      [] OTHER -> TRUE
=============================================================================
