-------------------------- MODULE ToolServerProofs --------------------------
(***************************************************************************)
(* Theorems about ToolServer and SafetyValidator, for every payload, every *)
(* configuration and any number of calls.                                  *)
(***************************************************************************)
EXTENDS ToolServer, TLAPS

-----------------------------------------------------------------------------
(* The checks *)

Verdicts == {"ok", "blocked", "raises"}

LEMMA FirstOfDecides ==
  ASSUME NEW results
  PROVE  /\ FirstOf(results) \in Verdicts
         /\ FirstOf(results) = "ok" <=> \A i \in DOMAIN results : results[i] = "ok"
BY DEF FirstOf, Verdicts

LEMMA VectorParts ==
  ASSUME NEW v \in Vectors
  PROVE  /\ v.x \in Values /\ v.y \in Values /\ v.z \in Values
         /\ Size(v.x) \in Int /\ Size(v.y) \in Int /\ Size(v.z) \in Int
         /\ v.is \in {"dict", "missing", "other"}
BY DEF Vectors, Values, Size

LEMMA PlainParts ==
  ASSUME NEW v \in Vectors, v.is = "dict"
  PROVE  Plain(v) <=> \A p \in Parts(v) : ~Refused(p) /\ ~IsNaN(p)
<1>1. \A p \in Parts(v) : p \in Values
  BY VectorParts DEF Parts
<1> QED BY <1>1 DEF Plain, Refused, IsNaN, Values

\* A velocity passes if its magnitude is within the limit, and only then.
LEMMA SpeedVerdict ==
  ASSUME NEW v \in Vectors, NEW limit \in Nat
  PROVE  /\ CheckSpeed(v, limit) \in Verdicts
         /\ CheckSpeed(v, limit) = "ok" => (Plain(v) => Square(v) <= limit * limit)
         /\ CheckSpeed(v, limit) # "ok" => \/ \E p \in Parts(v) : Refused(p)
                                           \/ Plain(v) /\ Square(v) > limit * limit
<1>1. CheckSpeed(v, limit) \in Verdicts
  BY DEF CheckSpeed, Verdicts
<1>2. Square(v) \in Int /\ limit * limit \in Nat
  BY VectorParts DEF Square
<1>3. /\ Faster(v, limit) <=> (\A p \in Parts(v) : ~IsNaN(p)) /\ Square(v) > limit * limit
      /\ CheckSpeed(v, limit) = IF v.is = "other" THEN "ok"
                                ELSE IF \E p \in Parts(v) : Refused(p) THEN "raises"
                                ELSE IF Faster(v, limit) THEN "blocked" ELSE "ok"
  BY Zenon DEF Faster, Square, CheckSpeed
<1>4. CASE v.is = "dict"
  <2> HIDE DEF Square
  <2>1. ~(Square(v) > limit * limit) <=> Square(v) <= limit * limit
    BY <1>2
  <2> QED BY <1>1, <1>3, <1>4, <2>1, PlainParts
<1>5. CASE v.is = "other"
  BY <1>1, <1>3, <1>5 DEF Plain
<1>6. CASE v.is = "missing"
  <2>1. v.x = Missing /\ v.y = Missing /\ v.z = Missing
    BY <1>6 DEF Vectors, Parts
  <2>2. Square(v) = 0
    BY <2>1 DEF Square, Size, Missing
  <2>3. ~Faster(v, limit)
    BY <1>2, <1>3, <2>2
  <2> QED BY <1>1, <1>3, <1>6, <2>3 DEF Plain
<1> QED
  BY <1>4, <1>5, <1>6, VectorParts

\* A position passes if it is a place in the workspace, and only then.
LEMMA PoseVerdict ==
  ASSUME NEW v \in Vectors, NEW limits, IsLimits(limits)
  PROVE  /\ CheckPose(v, limits) \in Verdicts
         /\ CheckPose(v, limits) = "ok" => (v.is = "dict" => Plain(v) /\ InBox(v, limits))
         /\ CheckPose(v, limits) # "ok" =>
              \/ v.is = "missing"
              \/ \E p \in Parts(v) : Refused(p)
              \/ v.is = "dict" /\ ~(Plain(v) /\ InBox(v, limits))
<1>1. /\ limits.x[1] \in Int /\ limits.x[2] \in Int /\ limits.y[1] \in Int
      /\ limits.y[2] \in Int /\ limits.z[1] \in Int /\ limits.z[2] \in Int
  BY DEF IsLimits
<1>2. CheckPose(v, limits) \in Verdicts
  BY DEF CheckPose, Verdicts
<1>3. /\ Outside(v.x, limits.x) <=> IsNaN(v.x) \/ Size(v.x) \notin limits.x[1] .. limits.x[2]
      /\ Outside(v.y, limits.y) <=> IsNaN(v.y) \/ Size(v.y) \notin limits.y[1] .. limits.y[2]
      /\ Outside(v.z, limits.z) <=> IsNaN(v.z) \/ Size(v.z) \notin limits.z[1] .. limits.z[2]
  BY <1>1, VectorParts DEF Outside
<1>4. Outside(v.x, limits.x) \/ Outside(v.y, limits.y) \/ Outside(v.z, limits.z)
        <=> (\E p \in Parts(v) : IsNaN(p)) \/ ~InBox(v, limits)
  BY <1>3 DEF InBox, Parts
<1>5. CheckPose(v, limits) = IF v.is = "other" THEN "ok"
                             ELSE IF \E p \in Parts(v) : Refused(p) THEN "raises"
                             ELSE IF (\E p \in Parts(v) : IsNaN(p)) \/ ~InBox(v, limits)
                                  THEN "blocked" ELSE "ok"
  BY <1>4 DEF CheckPose
<1>6. CASE v.is = "dict"
  BY <1>2, <1>5, <1>6, PlainParts
<1>7. CASE v.is # "dict"
  BY <1>2, <1>5, <1>7, VectorParts
<1> QED
  BY <1>6, <1>7

InRange(m, limits, i) ==
    m.names[i] \in DOMAIN limits.joints /\ m.velocities[i].is # "nan" =>
        Size(m.velocities[i]) \in -limits.joints[m.names[i]] .. limits.joints[m.names[i]]

LEMMA JointVerdict ==
  ASSUME NEW m \in Messages, NEW limits, IsLimits(limits)
  PROVE  /\ CheckJointState(m, limits) \in Verdicts
         /\ CheckJointState(m, limits) = "ok" => \A i \in Moved(m) : InRange(m, limits, i)
         /\ CheckJointState(m, limits) # "ok" =>
              \E i \in Moved(m) : Refused(m.velocities[i]) \/ ~InRange(m, limits, i)
<1> DEFINE n == IF Len(m.names) < Len(m.velocities) THEN Len(m.names) ELSE Len(m.velocities)
           Over(i) == /\ m.names[i] \in DOMAIN limits.joints
                      /\ ~IsNaN(m.velocities[i])
                      /\ Abs(Size(m.velocities[i])) > limits.joints[m.names[i]]
           Joint(i) == IF Refused(m.velocities[i]) THEN "raises"
                       ELSE IF Over(i) THEN "blocked" ELSE "ok"
           results == [i \in 1 .. n |-> Joint(i)]
<1>1. /\ m.names \in Seq(STRING) /\ m.velocities \in Seq(Values)
      /\ n \in Nat /\ 1 .. n = Moved(m)
  BY DEF Messages, Moved
<1>2. \A i \in 1 .. n : m.velocities[i] \in Values /\ Size(m.velocities[i]) \in Int
  BY <1>1 DEF Values, Size
<1>3. \A j \in DOMAIN limits.joints : limits.joints[j] \in Int
  BY DEF IsLimits
<1>4. CheckJointState(m, limits) = IF limits.joints = <<>> THEN "ok" ELSE FirstOf(results)
  BY Zenon DEF CheckJointState
<1>5. \A i \in 1 .. n : Over(i) <=> ~InRange(m, limits, i)
  BY <1>2, <1>3 DEF InRange, IsNaN, Abs
<1>6. CASE limits.joints = <<>>
  <2>1. DOMAIN limits.joints = {}
    BY <1>6
  <2> QED BY <1>4, <1>6, <2>1 DEF Verdicts, InRange
<1>7. CASE limits.joints # <<>>
  <2>1. /\ FirstOf(results) \in Verdicts
        /\ FirstOf(results) = "ok" <=> \A i \in DOMAIN results : results[i] = "ok"
    BY FirstOfDecides
  <2>2. FirstOf(results) = "ok" <=> \A i \in 1 .. n : Joint(i) = "ok"
    BY <2>1
  <2>3. \A i \in 1 .. n : Joint(i) = "ok" <=> ~Refused(m.velocities[i]) /\ ~Over(i)
    OBVIOUS
  <2> HIDE DEF results, n, Over, Joint
  <2> QED BY <1>1, <1>4, <1>5, <1>7, <2>1, <2>2, <2>3
<1> QED
  BY <1>6, <1>7

LEMMA ForceVerdict ==
  ASSUME NEW v \in Values, NEW limits, IsLimits(limits)
  PROVE  LET said == IF v.is # "missing" THEN CheckGripperForce(v, limits) ELSE "ok"
             Held == v.is # "nan" => Size(v) \in -limits.force .. limits.force
         IN  /\ said \in Verdicts
             /\ said = "ok" => Held
             /\ said # "ok" => Refused(v) \/ ~Held
<1>1. v.n \in Int /\ (v.is = "missing" => v.n = 0) /\ limits.force \in Nat
  BY DEF Values, IsLimits
<1> QED
  BY <1>1 DEF CheckGripperForce, Verdicts, Refused, IsNaN, Size, Abs

LEMMA TwistVerdict ==
  ASSUME NEW m \in Messages, NEW limits, IsLimits(limits)
  PROVE  LET said == IF m.linear.is # "missing" \/ m.angular.is # "missing"
                     THEN CheckTwist(m, limits) ELSE "ok"
             Slow == /\ Plain(m.linear) => Square(m.linear) <= limits.linear * limits.linear
                     /\ Plain(m.angular) => Square(m.angular) <= limits.angular * limits.angular
         IN  /\ said \in Verdicts
             /\ said = "ok" => Slow
             /\ said # "ok" => \/ \E p \in Parts(m.linear) \cup Parts(m.angular) : Refused(p)
                               \/ ~Slow
<1> DEFINE first == CheckSpeed(m.linear, limits.linear)
           second == CheckSpeed(m.angular, limits.angular)
           results == <<first, second>>
           SlowLinear == Plain(m.linear) => Square(m.linear) <= limits.linear * limits.linear
           SlowAngular == Plain(m.angular) => Square(m.angular) <= limits.angular * limits.angular
<1>1. /\ m.linear \in Vectors /\ m.angular \in Vectors /\ limits.linear \in Nat /\ limits.angular \in Nat
      /\ limits.linear * limits.linear \in Int /\ limits.angular * limits.angular \in Int
  BY DEF Messages, IsLimits
<1>2. Square(m.linear) \in Int /\ Square(m.angular) \in Int
  BY <1>1, VectorParts DEF Square
<1>3. /\ first = "ok" => SlowLinear
      /\ first # "ok" => (\E p \in Parts(m.linear) : Refused(p)) \/ ~SlowLinear
  BY <1>1, <1>2, SpeedVerdict
<1>4. /\ second = "ok" => SlowAngular
      /\ second # "ok" => (\E p \in Parts(m.angular) : Refused(p)) \/ ~SlowAngular
  BY <1>1, <1>2, SpeedVerdict
<1>5. CheckTwist(m, limits) = FirstOf(results)
  BY DEF CheckTwist
<1> HIDE DEF first, second
<1>6. DOMAIN results = {1, 2} /\ results[1] = first /\ results[2] = second
  OBVIOUS
<1>7. /\ FirstOf(results) \in Verdicts
      /\ FirstOf(results) = "ok" <=> first = "ok" /\ second = "ok"
  BY <1>6, FirstOfDecides
<1>8. Plain(m.linear) \/ Plain(m.angular) => m.linear.is # "missing" \/ m.angular.is # "missing"
  BY DEF Plain
<1> HIDE DEF results
<1>9. CASE m.linear.is # "missing" \/ m.angular.is # "missing"
  BY <1>3, <1>4, <1>5, <1>7, <1>9
<1>10. CASE ~(m.linear.is # "missing" \/ m.angular.is # "missing")
  BY <1>8, <1>10 DEF Verdicts
<1> QED
  BY <1>9, <1>10

LEMMA PublishVerdict ==
  ASSUME NEW m \in Messages, NEW limits, IsLimits(limits)
  PROVE  /\ CheckPublish(m, limits) \in Verdicts
         /\ CheckPublish(m, limits) = "ok" => WithinLimits("ros2_publish", m, limits)
         /\ CheckPublish(m, limits) # "ok" /\ Legible("ros2_publish", m) =>
              ~WithinLimits("ros2_publish", m, limits)
<1> DEFINE twist == IF m.linear.is # "missing" \/ m.angular.is # "missing"
                    THEN CheckTwist(m, limits) ELSE "ok"
           pose  == IF PoseData(m).is # "missing" \/ m.typedPose
                    THEN CheckPose(PoseData(m), limits) ELSE "ok"
           joint == IF m.names # <<>> /\ m.velocities # <<>> THEN CheckJointState(m, limits) ELSE "ok"
           force == IF m.force.is # "missing" THEN CheckGripperForce(m.force, limits) ELSE "ok"
           results == <<twist, pose, joint, force>>
           Slow == /\ Plain(m.linear) => Square(m.linear) <= limits.linear * limits.linear
                   /\ Plain(m.angular) => Square(m.angular) <= limits.angular * limits.angular
           Placed == PoseData(m).is = "dict" => Plain(PoseData(m)) /\ InBox(PoseData(m), limits)
           Stays == \A i \in Moved(m) : InRange(m, limits, i)
           Held == m.force.is # "nan" => Size(m.force) \in -limits.force .. limits.force
           Readable == /\ \A p \in Parts(m.linear) \cup Parts(m.angular) \cup Parts(PoseData(m)) : ~Refused(p)
                       /\ \A i \in Moved(m) : ~Refused(m.velocities[i])
                       /\ ~Refused(m.force)
                       /\ m.typedPose => PoseData(m).is # "missing"
<1>1. PoseData(m) \in Vectors /\ m.force \in Values
  BY DEF PoseData, Messages
<1>2. (pose = "ok" => Placed) /\ (pose # "ok" /\ Readable => ~Placed)
  BY <1>1, PoseVerdict
<1>3. (joint = "ok" => Stays) /\ (joint # "ok" /\ Readable => ~Stays)
  <2>1. CASE m.names # <<>> /\ m.velocities # <<>>
    <3>1. joint = CheckJointState(m, limits)
      BY <2>1
    <3> QED BY <3>1, JointVerdict, Zenon
  <2>2. CASE m.names = <<>> \/ m.velocities = <<>>
    <3>1. Moved(m) = {}
      BY <2>2 DEF Moved
    <3>2. joint = "ok"
      BY <2>2
    <3> QED BY <3>1, <3>2
  <2> QED BY <2>1, <2>2
<1>4. (force = "ok" => Held) /\ (force # "ok" /\ Readable => ~Held)
  BY <1>1, ForceVerdict, Zenon
<1>5. (twist = "ok" => Slow) /\ (twist # "ok" /\ Readable => ~Slow)
  <2>1. \/ twist = "ok" /\ Slow
        \/ twist # "ok" /\ ((\E p \in Parts(m.linear) \cup Parts(m.angular) : Refused(p)) \/ ~Slow)
    BY TwistVerdict, Zenon
  <2> HIDE DEF twist, Slow
  <2> QED BY <2>1
<1>6. CheckPublish(m, limits) = FirstOf(results)
  BY DEF CheckPublish
<1>7. Legible("ros2_publish", m) => Readable
  BY DEF Legible
<1>8. WithinLimits("ros2_publish", m, limits) <=> Slow /\ Placed /\ Stays /\ Held
  BY Zenon DEF WithinLimits, InRange
<1> HIDE DEF twist, pose, joint, force, Slow, Placed, Stays, Held, Readable
<1>9. /\ DOMAIN results = {1, 2, 3, 4} /\ results[1] = twist /\ results[2] = pose
      /\ results[3] = joint /\ results[4] = force
  OBVIOUS
<1>10. /\ FirstOf(results) \in Verdicts
       /\ FirstOf(results) = "ok" <=> twist = "ok" /\ pose = "ok" /\ joint = "ok" /\ force = "ok"
  BY <1>9, FirstOfDecides
<1> HIDE DEF results
<1> QED
  BY <1>2, <1>3, <1>4, <1>5, <1>6, <1>7, <1>8, <1>10

LEMMA SeqAt ==
  ASSUME NEW S, NEW s \in Seq(S) PROVE \A i \in DOMAIN s : s[i] \in S
OBVIOUS

LEMMA GoalVerdict ==
  ASSUME NEW goal \in Goals, NEW limits, IsLimits(limits)
  PROVE  /\ CheckActionGoal(goal, limits) \in Verdicts
         /\ CheckActionGoal(goal, limits) = "ok" => WithinLimits("ros2_action_goal", goal, limits)
         /\ CheckActionGoal(goal, limits) # "ok" /\ Legible("ros2_action_goal", goal) =>
              ~WithinLimits("ros2_action_goal", goal, limits)
<1> DEFINE At(i) == IF i \in Visited(goal) /\ goal[i].position.is = "dict"
                    THEN CheckPose(goal[i].position, limits) ELSE "ok"
           results == [i \in DOMAIN goal |-> At(i)]
           Good(i) == Plain(goal[i].position) /\ InBox(goal[i].position, limits)
           Read(i) == \A p \in Parts(goal[i].position) : ~Refused(p)
<1>1. \A i \in DOMAIN goal : goal[i].position \in Vectors
  <2>1. \A i \in DOMAIN goal : goal[i] \in [in : {"dict", "list"}, position : Vectors]
    BY SeqAt, Zenon DEF Goals
  <2> QED BY <2>1
<1>2. CheckActionGoal(goal, limits) = FirstOf(results)
  BY Zenon DEF CheckActionGoal
<1>3. /\ FirstOf(results) \in Verdicts
      /\ FirstOf(results) = "ok" <=> \A i \in DOMAIN results : results[i] = "ok"
  BY FirstOfDecides
<1>4. FirstOf(results) = "ok" <=> \A i \in DOMAIN goal : At(i) = "ok"
  BY <1>3
<1>5. \A i \in DOMAIN goal : i \in Places(goal) <=> i \in Visited(goal) /\ goal[i].position.is = "dict"
  <2>1. PICK n \in Nat : DOMAIN goal = 1 .. n
    BY DEF Goals
  <2>2. \A i \in DOMAIN goal : \A j : j \in 1 .. i <=> j \in DOMAIN goal /\ j <= i
    BY <2>1
  <2> QED BY <2>2, Zenon DEF Visited, Places
<1>6. \A i \in Places(goal) : (At(i) = "ok" => Good(i)) /\ (At(i) # "ok" /\ Read(i) => ~Good(i))
  <2> SUFFICES ASSUME NEW i \in Places(goal)
               PROVE  (At(i) = "ok" => Good(i)) /\ (At(i) # "ok" /\ Read(i) => ~Good(i))
    OBVIOUS
  <2>1. i \in DOMAIN goal
    BY DEF Places
  <2>2. At(i) = CheckPose(goal[i].position, limits) /\ goal[i].position.is = "dict"
    BY <1>5, <2>1
  <2>3. goal[i].position \in Vectors
    BY <1>1, <2>1
  <2> HIDE DEF At
  <2> QED BY <2>2, <2>3, PoseVerdict
<1>7. \A i \in DOMAIN goal : i \notin Places(goal) => At(i) = "ok"
  BY <1>5
<1>8. Places(goal) \subseteq DOMAIN goal
  BY DEF Places
<1>9. /\ WithinLimits("ros2_action_goal", goal, limits) <=> \A i \in Places(goal) : Good(i)
      /\ Legible("ros2_action_goal", goal) => \A i \in Places(goal) : Read(i)
  BY Zenon DEF WithinLimits, Legible
<1> HIDE DEF At, Good, Read, results
<1> QED
  BY <1>2, <1>3, <1>4, <1>6, <1>7, <1>8, <1>9

LEMMA ParamVerdict ==
  ASSUME NEW p \in Parameters, NEW limits, IsLimits(limits)
  PROVE  /\ CheckParamSet(p, limits) \in Verdicts
         /\ CheckParamSet(p, limits) = "ok" <=> WithinLimits("ros2_param_set", p, limits)
<1>1. /\ p.value.n \in Int /\ limits.linear \in Nat /\ limits.force \in Nat
  BY DEF Parameters, Values, IsLimits
<1> QED
  BY <1>1 DEF CheckParamSet, WithinLimits, Verdicts, Size, Abs

\* The verdict on a call says whether it is within the limits, but for those
\* whose values or position the checks cannot read.
LEMMA ValidateVerdict ==
  ASSUME NEW t \in DOMAIN Payloads, NEW payload \in Payloads[t], NEW limits \in Limits
  PROVE  /\ Validate(t, payload, limits) \in Verdicts
         /\ Validate(t, payload, limits) = "ok" => WithinLimits(t, payload, limits)
         /\ Validate(t, payload, limits) # "ok" /\ Legible(t, payload) =>
              ~WithinLimits(t, payload, limits)
<1>1. IsLimits(limits)
  BY ToolServerAssumption
<1>2. CASE t = "ros2_publish"
  <2>1. payload \in Messages
    BY <1>2, ToolServerAssumption
  <2> QED BY <1>1, <1>2, <2>1, PublishVerdict DEF Validate
<1>3. CASE t = "ros2_action_goal"
  <2>1. payload \in Goals
    BY <1>3, ToolServerAssumption
  <2> QED BY <1>1, <1>3, <2>1, GoalVerdict DEF Validate
<1>4. CASE t = "ros2_param_set"
  <2>1. payload \in Parameters
    BY <1>4, ToolServerAssumption
  <2> QED BY <1>1, <1>4, <2>1, ParamVerdict DEF Validate
<1>5. CASE t = "ros2_service_call"
  BY <1>5 DEF Validate, CheckServiceCall, WithinLimits, Verdicts
<1>6. CASE t \notin {"ros2_publish", "ros2_action_goal", "ros2_param_set", "ros2_service_call"}
  BY <1>6 DEF Validate, WithinLimits, Verdicts
<1> QED
  BY <1>2, <1>3, <1>4, <1>5, <1>6

-----------------------------------------------------------------------------
(* Schemas and signatures *)

TheTools == {"ros2_publish", "ros2_subscribe_once", "ros2_service_call", "ros2_action_goal",
             "ros2_param_get", "ros2_param_set", "ros2_camera_snapshot", "ros2_list_topics",
             "emergency_stop"}

LEMMA Handlers ==
  /\ TOOL_HANDLERS["ros2_publish"] = ros2_publish
  /\ TOOL_HANDLERS["ros2_subscribe_once"] = ros2_subscribe_once
  /\ TOOL_HANDLERS["ros2_service_call"] = ros2_service_call
  /\ TOOL_HANDLERS["ros2_action_goal"] = ros2_action_goal
  /\ TOOL_HANDLERS["ros2_param_get"] = ros2_param_get
  /\ TOOL_HANDLERS["ros2_param_set"] = ros2_param_set
  /\ TOOL_HANDLERS["ros2_camera_snapshot"] = ros2_camera_snapshot
  /\ TOOL_HANDLERS["ros2_list_topics"] = ros2_list_topics
  /\ TOOL_HANDLERS["emergency_stop"] = emergency_stop
BY DEF TOOL_HANDLERS

USE DEF Schema, Tool, ros2_publish, ros2_subscribe_once, ros2_service_call, ros2_action_goal,
        ros2_param_get, ros2_param_set, ros2_camera_snapshot, ros2_list_topics, emergency_stop

LEMMA TablesAgree ==
  ASSUME NEW t \in TheTools
  PROVE  LET h == TOOL_HANDLERS[t] IN
         /\ TOOL_SCHEMAS[t].required = h.required /\ TOOL_SCHEMAS[t].optional = h.optional
         /\ tool_definitions[t].required = h.required /\ tool_definitions[t].optional = h.optional
<1>1. CASE t = "ros2_publish"
  BY <1>1, Handlers DEF TOOL_SCHEMAS, tool_definitions
<1>2. CASE t = "ros2_subscribe_once"
  BY <1>2, Handlers DEF TOOL_SCHEMAS, tool_definitions
<1>3. CASE t = "ros2_service_call"
  BY <1>3, Handlers DEF TOOL_SCHEMAS, tool_definitions
<1>4. CASE t = "ros2_action_goal"
  BY <1>4, Handlers DEF TOOL_SCHEMAS, tool_definitions
<1>5. CASE t = "ros2_param_get"
  BY <1>5, Handlers DEF TOOL_SCHEMAS, tool_definitions
<1>6. CASE t = "ros2_param_set"
  BY <1>6, Handlers DEF TOOL_SCHEMAS, tool_definitions
<1>7. CASE t = "ros2_camera_snapshot"
  BY <1>7, Handlers DEF TOOL_SCHEMAS, tool_definitions
<1>8. CASE t = "ros2_list_topics"
  BY <1>8, Handlers DEF TOOL_SCHEMAS, tool_definitions
<1>9. CASE t = "emergency_stop"
  BY <1>9, Handlers DEF TOOL_SCHEMAS, tool_definitions
<1> QED
  BY <1>1, <1>2, <1>3, <1>4, <1>5, <1>6, <1>7, <1>8, <1>9 DEF TheTools

LEMMA CommandsBind ==
  ASSUME NEW t \in DOMAIN cli_commands PROVE Binds(t, cli_commands[t])
<1>1. CASE t = "ros2_publish"
  BY <1>1, Handlers DEF cli_commands, Binds
<1>2. CASE t = "ros2_subscribe_once"
  BY <1>2, Handlers DEF cli_commands, Binds
<1>3. CASE t = "ros2_list_topics"
  BY <1>3, Handlers DEF cli_commands, Binds
<1>4. CASE t = "ros2_service_call"
  BY <1>4, Handlers DEF cli_commands, Binds
<1>5. CASE t = "ros2_camera_snapshot"
  BY <1>5, Handlers DEF cli_commands, Binds
<1>6. CASE t = "emergency_stop"
  BY <1>6, Handlers DEF cli_commands, Binds
<1> QED
  BY <1>1, <1>2, <1>3, <1>4, <1>5, <1>6 DEF cli_commands

LEMMA MeetingBinds ==
  ASSUME NEW t, NEW schema, NEW names \in Meets(schema),
         schema.required = TOOL_HANDLERS[t].required, schema.optional = TOOL_HANDLERS[t].optional
  PROVE  Binds(t, names) <=> names \subseteq schema.required \cup schema.optional
BY DEF Meets, Binds

\* A call binds if it has no more arguments than its table lists.
LEMMA AskedBinds ==
  ASSUME NEW t, NEW names \in Asked(t), t \in DOMAIN TOOL_HANDLERS \/ host \notin {"serve", "mcp"}
  PROVE  Binds(t, names) <=> names \subseteq Listed(t)
<1>1. /\ DOMAIN TOOL_HANDLERS = TheTools /\ DOMAIN TOOL_SCHEMAS = TheTools
      /\ DOMAIN tool_definitions = TheTools
  BY DEF TheTools, TOOL_HANDLERS, TOOL_SCHEMAS, tool_definitions
<1>2. CASE host \in {"serve", "mcp"}
  <2>1. /\ t \in TheTools /\ names \in Meets(TOOL_SCHEMAS[t])
        /\ Listed(t) = TOOL_SCHEMAS[t].required \cup TOOL_SCHEMAS[t].optional
    BY <1>1, <1>2 DEF Asked, Listed
  <2> QED BY <2>1, TablesAgree, MeetingBinds
<1>3. CASE host = "plugin"
  <2>1. /\ t \in TheTools /\ names \in Meets(tool_definitions[t])
        /\ Listed(t) = tool_definitions[t].required \cup tool_definitions[t].optional
    BY <1>1, <1>3 DEF Asked, Listed
  <2> QED BY <2>1, TablesAgree, MeetingBinds
<1>4. CASE host \notin {"serve", "mcp", "plugin"}
  <2>1. t \in DOMAIN cli_commands /\ names = cli_commands[t] /\ Listed(t) = cli_commands[t]
    BY <1>4 DEF Asked, Listed
  <2> QED BY <2>1, CommandsBind
<1> QED
  BY <1>2, <1>3, <1>4

-----------------------------------------------------------------------------
(* The inductive invariant *)

\* What the process is configured with.
HostInv ==
    /\ config = latest /\ latest \in Limits
    /\ gate \in {NoLimits, latest}
    /\ host \in {"serve", "mcp"} /\ phase = "up" => gate = latest

\* The functions of the calls.
CallsInv ==
    /\ pc = [c \in Calls |-> pc[c]] /\ tool = [c \in Calls |-> tool[c]]
    /\ given = [c \in Calls |-> given[c]] /\ args = [c \in Calls |-> args[c]]
    /\ checkedBy = [c \in Calls |-> checkedBy[c]] /\ due = [c \in Calls |-> due[c]]
    /\ outcome = [c \in Calls |-> outcome[c]]
    /\ reached \subseteq Calls

Passes(c) == Checked(c) /\ WithinLimits(tool[c], args[c], checkedBy[c])

\* Its arguments are those it was told of.
Fits(c) == given[c] \subseteq Listed(tool[c])

Refusable(c) == Legible(tool[c], args[c]) => ~WithinLimits(tool[c], args[c], checkedBy[c])

\* A call that is not made, or not run, has no trace; one the hook allowed was
\* checked, and binds if it fits.
ProgressInv ==
    \A c \in Calls :
        /\ pc[c] \in {"idle", "allowed"} => c \notin reached /\ outcome[c] = "none"
        /\ pc[c] = "idle" => checkedBy[c] = NoLimits
        /\ pc[c] = "allowed" => Passes(c) /\ (Binds(tool[c], given[c]) <=> Fits(c))

GateInv == HostInv /\ CallsInv /\ ProgressInv

Sound == GateIsSound /\ BlockedForCause /\ CheckedByTheLatest /\ AcceptedCallsBind

USE DEF process, plugin, calls

LEMMA GateInit == Init => GateInv /\ Sound
BY ToolServerAssumption
   DEF Init, GateInv, HostInv, CallsInv, ProgressInv, Sound, GateIsSound, BlockedForCause,
       CheckedByTheLatest, AcceptedCallsBind, Checked

\* Steps that begin and end no call.
LEMMA ProcessStep ==
  ASSUME GateInv, Sound, UNCHANGED calls, UNCHANGED host, HostInv'
  PROVE  GateInv' /\ Sound'
<1>1. \A c \in Calls : Listed(tool[c])' = Listed(tool[c])
  BY DEF Listed
<1> QED
  BY <1>1 DEF GateInv, CallsInv, ProgressInv, Passes, Fits, Sound, GateIsSound, BlockedForCause,
              CheckedByTheLatest, AcceptedCallsBind, Checked

\* Steps of one call, which keep what the other calls have come to.
LEMMA CallStep ==
  ASSUME GateInv, Sound, NEW c \in Calls, HostInv', CallsInv', host' = host,
         \A d \in Calls \ {c} :
            /\ pc'[d] = pc[d] /\ tool'[d] = tool[d] /\ given'[d] = given[d] /\ args'[d] = args[d]
            /\ checkedBy'[d] = checkedBy[d] /\ due'[d] = due[d] /\ outcome'[d] = outcome[d]
            /\ d \in reached' => d \in reached,
         pc'[c] # "idle",
         pc'[c] = "allowed" => /\ Passes(c)' /\ (Binds(tool'[c], given'[c]) <=> Fits(c)')
                               /\ c \notin reached' /\ outcome'[c] = "none",
         c \in reached' => Fits(c)' /\ (host = "cli" \/ tool'[c] = "emergency_stop" \/ Passes(c)'),
         outcome'[c] \in {"blocked", "raises"} => Refusable(c)',
         Checked(c)' => checkedBy'[c] = due'[c],
         outcome'[c] = "misbound" => ~Fits(c)'
  PROVE  GateInv' /\ Sound'
<1>1. \A d \in Calls \ {c} : /\ Fits(d)' <=> Fits(d)
                             /\ Passes(d)' <=> Passes(d)
  BY DEF Fits, Listed, Passes, Checked
<1>2. ProgressInv'
  BY <1>1 DEF GateInv, ProgressInv
<1>3. GateIsSound'
  BY <1>1 DEF Sound, GateIsSound, Passes, Checked, GateInv, CallsInv
<1>4. BlockedForCause'
  BY DEF Sound, BlockedForCause, Refusable
<1>5. CheckedByTheLatest'
  BY DEF Sound, CheckedByTheLatest, Checked
<1>6. AcceptedCallsBind'
  BY <1>1 DEF Sound, AcceptedCallsBind, Fits
<1> QED
  BY <1>2, <1>3, <1>4, <1>5, <1>6 DEF GateInv, Sound

-----------------------------------------------------------------------------
(* One lemma for each action *)

LEMMA StartsStep ==
  ASSUME GateInv, Sound, NEW limits \in Limits, NEW over \in SUBSET Sections,
         Starts(limits, over) \/ ServerStarts(limits) \/ Load(limits)
  PROVE  GateInv' /\ Sound'
<1>1. Merged(ConfigFromEnv(limits), over).safety = limits
  BY ToolServerAssumption DEF Merged, ConfigFromEnv
<1>2. HostInv' /\ UNCHANGED calls /\ UNCHANGED host
  BY <1>1 DEF Starts, ServerStarts, Load, Initialize, GateInv, HostInv
<1> QED
  BY <1>2, ProcessStep

LEMMA PluginStep ==
  ASSUME GateInv, Sound, LinkChanges \/ LoadRaises \/ BeforeAgentStart
  PROVE  GateInv' /\ Sound'
<1>1. HostInv' /\ UNCHANGED calls /\ UNCHANGED host
  BY DEF LinkChanges, LoadRaises, BeforeAgentStart, EnsureInitialized, Initialize, GateInv, HostInv
<1> QED
  BY <1>1, ProcessStep

LEMMA EndsStep ==
  ASSUME GateInv, Sound, Ends
  PROVE  GateInv' /\ Sound'
<1>1. HostInv' /\ CallsInv'
  BY DEF Ends, GateInv, HostInv, CallsInv
<1>2. \A c \in Calls : \/ pc'[c] = pc[c] /\ outcome'[c] = outcome[c]
                       \/ pc[c] = "running" /\ pc'[c] = "done" /\ outcome'[c] = "cancelled"
  BY DEF Ends
<1>3. UNCHANGED <<host, tool, given, args, checkedBy, due, reached>>
  BY DEF Ends
<1>4. ProgressInv'
  BY <1>2, <1>3 DEF GateInv, ProgressInv, Passes, Checked, Fits, Listed
<1>5. Sound'
  BY <1>2, <1>3 DEF Sound, GateIsSound, BlockedForCause, CheckedByTheLatest, AcceptedCallsBind, Checked, Listed
<1> QED
  BY <1>1, <1>4, <1>5 DEF GateInv

\* Handing over ends or runs the call, which binds if it runs and not if it is
\* misbound.
LEMMA HandOverStep ==
  ASSUME CallsInv, NEW c \in Calls, c \notin reached, outcome[c] = "none",
         NEW t, NEW names, HandOver(c, t, names), host' = host, tool'[c] = t, given'[c] = names,
         Binds(t, names) <=> names \subseteq Listed(t)
  PROVE  /\ pc' = [pc EXCEPT ![c] = pc'[c]] /\ outcome' = [outcome EXCEPT ![c] = outcome'[c]]
         /\ pc'[c] \in {"running", "done"} /\ outcome'[c] \in {"none", "failure", "misbound"}
         /\ outcome'[c] = "misbound" => ~Fits(c)'
         /\ reached' \in {reached, reached \cup {c}}
         /\ c \in reached' => Fits(c)'
<1>1. Fits(c)' <=> Binds(t, names)
  BY DEF Fits, Listed
<1> HIDE DEF Fits
<1> QED BY <1>1 DEF HandOver, CallsInv

LEMMA AnsweredStep ==
  ASSUME CallsInv, NEW c \in Calls, NEW what, Answered(c, what)
  PROVE  /\ pc' = [pc EXCEPT ![c] = pc'[c]] /\ outcome' = [outcome EXCEPT ![c] = outcome'[c]]
         /\ pc'[c] = "done" /\ outcome'[c] = what /\ reached' = reached
BY DEF Answered, CallsInv

LEMMA DispatchStep ==
  ASSUME GateInv, Sound, NEW c \in Calls, NEW t \in Commands[c], NEW names \in Asked(t),
         NEW payload \in Payloads[t], Dispatch(c, t, names, payload)
  PROVE  GateInv' /\ Sound'
<1> DEFINE said == Validate(t, payload, gate)
<1>1. /\ host \in {"serve", "mcp"} /\ phase = "up" /\ pc[c] = "idle" /\ names \in Asked(t)
      /\ tool' = [tool EXCEPT ![c] = t] /\ args' = [args EXCEPT ![c] = payload]
      /\ given' = [given EXCEPT ![c] = names]
      /\ due' = [due EXCEPT ![c] = latest] /\ UNCHANGED <<host, phase, link, plugin>>
  BY DEF Dispatch, CallIs
<1>2. CallsInv /\ ProgressInv /\ HostInv
  BY DEF GateInv
<1>3. gate = latest /\ gate \in Limits /\ HostInv'
  BY <1>1, <1>2 DEF HostInv
<1>4. /\ said \in Verdicts
      /\ said = "ok" => WithinLimits(t, payload, gate)
      /\ said # "ok" /\ Legible(t, payload) => ~WithinLimits(t, payload, gate)
  BY <1>3, ToolServerAssumption, ValidateVerdict
<1>5. c \notin reached /\ outcome[c] = "none" /\ checkedBy[c] = NoLimits
  BY <1>1, <1>2 DEF ProgressInv
<1>6. gate # NoLimits
  BY <1>3, ToolServerAssumption
<1>t. tool'[c] = t /\ args'[c] = payload /\ due'[c] = latest /\ given'[c] = names
  BY <1>1, <1>2 DEF CallsInv
<1>7. CASE t \notin DOMAIN TOOL_HANDLERS
  <2>1. Answered(c, "unknown") /\ UNCHANGED checkedBy
    BY <1>7 DEF Dispatch
  <2>2. /\ pc' = [pc EXCEPT ![c] = pc'[c]] /\ outcome' = [outcome EXCEPT ![c] = outcome'[c]]
        /\ pc'[c] = "done" /\ outcome'[c] = "unknown" /\ reached' = reached
    BY <2>1, <1>2, AnsweredStep
  <2>3. CallsInv'
    BY <1>1, <1>2, <2>1, <2>2 DEF CallsInv
  <2> QED
    BY <1>1, <1>2, <1>3, <1>5, <2>1, <2>2, <2>3, CallStep DEF CallsInv, Checked
<1>8. CASE t \in DOMAIN TOOL_HANDLERS /\ Bypasses(t)
  <2>1. HandOver(c, t, names) /\ UNCHANGED checkedBy /\ t = "emergency_stop"
    BY <1>8 DEF Dispatch, Bypasses
  <2>2. Binds(t, names) <=> names \subseteq Listed(t)
    BY <1>1, <1>8, AskedBinds
  <2>3. /\ pc' = [pc EXCEPT ![c] = pc'[c]] /\ outcome' = [outcome EXCEPT ![c] = outcome'[c]]
        /\ pc'[c] \in {"running", "done"} /\ outcome'[c] \in {"none", "failure", "misbound"}
        /\ outcome'[c] = "misbound" => ~Fits(c)'
        /\ reached' \in {reached, reached \cup {c}}
        /\ c \in reached' => Fits(c)'
    BY <1>1, <1>2, <1>5, <1>t, <2>1, <2>2, HandOverStep
  <2>4. CallsInv'
    BY <1>1, <1>2, <2>1, <2>3 DEF CallsInv
  <2>5. tool'[c] = "emergency_stop" /\ checkedBy'[c] = NoLimits
    BY <1>1, <1>2, <1>5, <2>1 DEF CallsInv
  <2> QED
    BY <1>1, <1>2, <1>3, <2>1, <2>3, <2>4, <2>5, CallStep DEF CallsInv, Checked
<1>9. CASE t \in DOMAIN TOOL_HANDLERS /\ ~Bypasses(t)
  <2>1. /\ checkedBy' = [checkedBy EXCEPT ![c] = gate]
        /\ IF said = "ok" THEN HandOver(c, t, names) ELSE Answered(c, said)
    BY <1>9 DEF Dispatch, CheckedUnder
  <2>2. Binds(t, names) <=> names \subseteq Listed(t)
    BY <1>1, <1>9, AskedBinds
  <2>3. /\ tool'[c] = t /\ args'[c] = payload /\ checkedBy'[c] = gate /\ due'[c] = latest
    BY <1>2, <1>t, <2>1 DEF CallsInv
  <2>4. CASE said = "ok"
    <3>1. /\ pc' = [pc EXCEPT ![c] = pc'[c]] /\ outcome' = [outcome EXCEPT ![c] = outcome'[c]]
          /\ pc'[c] \in {"running", "done"} /\ outcome'[c] \in {"none", "failure", "misbound"}
          /\ outcome'[c] = "misbound" => ~Fits(c)'
          /\ reached' \in {reached, reached \cup {c}}
          /\ c \in reached' => Fits(c)'
      BY <1>1, <1>2, <1>5, <1>t, <2>1, <2>2, <2>4, HandOverStep
    <3>2. CallsInv'
      BY <1>1, <1>2, <2>1, <3>1 DEF CallsInv
    <3>3. Passes(c)'
      BY <1>4, <1>6, <2>3, <2>4 DEF Passes, Checked
    <3> HIDE DEF said
    <3> QED
      BY <1>1, <1>2, <1>3, <2>1, <2>3, <3>1, <3>2, <3>3, CallStep DEF CallsInv, Checked
  <2>5. CASE said # "ok"
    <3>1. /\ pc' = [pc EXCEPT ![c] = pc'[c]] /\ outcome' = [outcome EXCEPT ![c] = outcome'[c]]
          /\ pc'[c] = "done" /\ outcome'[c] = said /\ reached' = reached
      BY <1>2, <2>1, <2>5, AnsweredStep
    <3>2. CallsInv'
      BY <1>1, <1>2, <2>1, <3>1 DEF CallsInv
    <3>3. Refusable(c)' /\ said # "misbound"
      BY <1>4, <2>3, <2>5 DEF Verdicts, Refusable
    <3> HIDE DEF said
    <3> QED
      BY <1>1, <1>2, <1>3, <1>5, <2>1, <2>3, <3>1, <3>2, <3>3, CallStep DEF CallsInv, Checked
  <2> QED
    BY <2>4, <2>5
<1> QED
  BY <1>7, <1>8, <1>9

LEMMA BeforeToolCallStep ==
  ASSUME GateInv, Sound, NEW c \in Calls, NEW t \in Commands[c], NEW names \in Asked(t),
         NEW payload \in Payloads[t], BeforeToolCall(c, t, names, payload)
  PROVE  GateInv' /\ Sound'
<1> DEFINE said == Validate(t, payload, gate')
<1>1. /\ host = "plugin" /\ pc[c] = "idle"
      /\ tool' = [tool EXCEPT ![c] = t] /\ args' = [args EXCEPT ![c] = payload]
      /\ due' = [due EXCEPT ![c] = latest] /\ given' = [given EXCEPT ![c] = names]
      /\ checkedBy' = [checkedBy EXCEPT ![c] = gate']
      /\ UNCHANGED <<host, phase, link, latest>>
      /\ IF said = "ok" THEN /\ pc' = [pc EXCEPT ![c] = "allowed"]
                             /\ UNCHANGED <<reached, outcome>>
                        ELSE Answered(c, said)
  BY DEF BeforeToolCall, CallIs, CheckedUnder
<1>2. CallsInv /\ ProgressInv /\ HostInv
  BY DEF GateInv
<1>3. gate' = latest /\ gate' \in Limits /\ HostInv'
  BY <1>1, <1>2 DEF HostInv, BeforeToolCall, EnsureInitialized, Initialize
<1>4. /\ said \in Verdicts
      /\ said = "ok" => WithinLimits(t, payload, gate')
      /\ said # "ok" /\ Legible(t, payload) => ~WithinLimits(t, payload, gate')
  BY <1>3, ToolServerAssumption, ValidateVerdict
<1>5. c \notin reached /\ outcome[c] = "none"
  BY <1>1, <1>2 DEF ProgressInv
<1>6. gate' # NoLimits
  BY <1>3, ToolServerAssumption
<1>7. Binds(t, names) <=> names \subseteq Listed(t)
  BY <1>1, AskedBinds
<1>8. /\ tool'[c] = t /\ args'[c] = payload /\ checkedBy'[c] = gate' /\ due'[c] = latest
      /\ given'[c] = names
  BY <1>1, <1>2 DEF CallsInv
<1>9. CASE said = "ok"
  <2>1. pc' = [pc EXCEPT ![c] = "allowed"] /\ UNCHANGED <<reached, outcome>>
    BY <1>1, <1>9
  <2>2. CallsInv'
    BY <1>1, <1>2, <2>1 DEF CallsInv
  <2>3. Passes(c)' /\ (Binds(tool'[c], given'[c]) <=> Fits(c)')
    BY <1>1, <1>4, <1>6, <1>7, <1>8, <1>9 DEF Passes, Checked, Fits, Listed
  <2> HIDE DEF said
  <2> QED
    BY <1>1, <1>2, <1>3, <1>5, <1>7, <1>8, <2>1, <2>2, <2>3, CallStep DEF CallsInv, Checked
<1>10. CASE said # "ok"
  <2>1. /\ pc' = [pc EXCEPT ![c] = pc'[c]] /\ outcome' = [outcome EXCEPT ![c] = outcome'[c]]
        /\ pc'[c] = "done" /\ outcome'[c] = said /\ reached' = reached
    BY <1>1, <1>2, <1>10, AnsweredStep
  <2>2. CallsInv'
    BY <1>1, <1>2, <2>1 DEF CallsInv
  <2>3. Refusable(c)' /\ said # "misbound"
    BY <1>4, <1>8, <1>10 DEF Verdicts, Refusable
  <2> HIDE DEF said
  <2> QED
    BY <1>1, <1>2, <1>3, <1>5, <1>8, <2>1, <2>2, <2>3, CallStep DEF CallsInv, Checked
<1> QED
  BY <1>9, <1>10

LEMMA RunsStep ==
  ASSUME GateInv, Sound, NEW c \in Calls, Runs(c)
  PROVE  GateInv' /\ Sound'
<1>1. /\ pc[c] = "allowed" /\ HandOver(c, tool[c], given[c])
      /\ UNCHANGED <<process, plugin, tool, given, args, checkedBy, due>>
  BY DEF Runs
<1>2. /\ CallsInv /\ HostInv /\ HostInv' /\ Passes(c)
      /\ Binds(tool[c], given[c]) <=> given[c] \subseteq Listed(tool[c])
      /\ c \notin reached /\ outcome[c] = "none"
  BY <1>1 DEF GateInv, ProgressInv, HostInv, Fits
<1>3. /\ pc' = [pc EXCEPT ![c] = pc'[c]] /\ outcome' = [outcome EXCEPT ![c] = outcome'[c]]
      /\ pc'[c] \in {"running", "done"} /\ outcome'[c] \in {"none", "failure", "misbound"}
      /\ outcome'[c] = "misbound" => ~Fits(c)'
      /\ reached' \in {reached, reached \cup {c}}
      /\ c \in reached' => Fits(c)'
  BY <1>1, <1>2, HandOverStep
<1>4. CallsInv' /\ Passes(c)'
  BY <1>1, <1>2, <1>3 DEF CallsInv, Passes, Checked
<1> QED
  BY <1>1, <1>2, <1>3, <1>4, CallStep DEF CallsInv, Checked, Sound, CheckedByTheLatest

LEMMA RunsCommandStep ==
  ASSUME GateInv, Sound, NEW c \in Calls, NEW t \in Commands[c], NEW names \in Asked(t),
         NEW payload \in Payloads[t], RunsCommand(c, t, names, payload)
  PROVE  GateInv' /\ Sound'
<1>1. /\ host = "cli" /\ pc[c] = "idle" /\ HandOver(c, t, names)
      /\ tool' = [tool EXCEPT ![c] = t] /\ args' = [args EXCEPT ![c] = payload]
      /\ given' = [given EXCEPT ![c] = names]
      /\ due' = [due EXCEPT ![c] = latest] /\ UNCHANGED <<process, plugin, checkedBy>>
  BY DEF RunsCommand, CallIs
<1>2. /\ CallsInv /\ HostInv /\ HostInv'
      /\ c \notin reached /\ outcome[c] = "none" /\ checkedBy[c] = NoLimits
  BY <1>1 DEF GateInv, ProgressInv, HostInv
<1>3. Binds(t, names) <=> names \subseteq Listed(t)
  BY <1>1, AskedBinds
<1>t. tool'[c] = t /\ given'[c] = names
  BY <1>1, <1>2 DEF CallsInv
<1>4. /\ pc' = [pc EXCEPT ![c] = pc'[c]] /\ outcome' = [outcome EXCEPT ![c] = outcome'[c]]
      /\ pc'[c] \in {"running", "done"} /\ outcome'[c] \in {"none", "failure", "misbound"}
      /\ outcome'[c] = "misbound" => ~Fits(c)'
      /\ reached' \in {reached, reached \cup {c}}
      /\ c \in reached' => Fits(c)'
  BY <1>1, <1>2, <1>3, <1>t, HandOverStep
<1>5. CallsInv'
  BY <1>1, <1>2, <1>4 DEF CallsInv
<1> QED
  BY <1>1, <1>2, <1>4, <1>5, CallStep DEF CallsInv, Checked

LEMMA ReturnsStep ==
  ASSUME GateInv, Sound, NEW c \in Calls, Returns(c)
  PROVE  GateInv' /\ Sound'
<1>1. PICK what \in {"success", "error", "failure"} : Answered(c, what)
  BY DEF Returns
<1>2. pc[c] = "running" /\ UNCHANGED <<process, plugin, tool, given, args, checkedBy, due>>
  BY DEF Returns
<1>3. CallsInv /\ HostInv /\ HostInv'
  BY <1>2 DEF GateInv, HostInv
<1>4. /\ pc' = [pc EXCEPT ![c] = pc'[c]] /\ outcome' = [outcome EXCEPT ![c] = outcome'[c]]
      /\ pc'[c] = "done" /\ outcome'[c] = what /\ reached' = reached
  BY <1>1, <1>3, AnsweredStep
<1>5. CallsInv'
  BY <1>2, <1>3, <1>4 DEF CallsInv
<1>6. c \in reached => Fits(c) /\ (host = "cli" \/ tool[c] = "emergency_stop" \/ Passes(c))
  BY DEF Sound, GateIsSound, AcceptedCallsBind, Passes, Fits
<1>7. (Passes(c)' <=> Passes(c)) /\ (Fits(c)' <=> Fits(c))
  BY <1>2 DEF Passes, Checked, Fits, Listed
<1> QED
  BY <1>1, <1>2, <1>3, <1>4, <1>5, <1>6, <1>7, CallStep
     DEF CallsInv, Checked, Sound, CheckedByTheLatest

-----------------------------------------------------------------------------
(* The theorems *)

LEMMA GateStep == GateInv /\ Sound /\ [Next]_vars => GateInv' /\ Sound'
<1> SUFFICES ASSUME GateInv, Sound, [Next]_vars PROVE GateInv' /\ Sound'
  OBVIOUS
<1>1. CASE \E limits \in Limits, over \in SUBSET Sections : Starts(limits, over)
  BY <1>1, StartsStep
<1>2. CASE \E limits \in Limits : ServerStarts(limits) \/ Load(limits)
  <2>1. {} \in SUBSET Sections
    OBVIOUS
  <2> QED BY <1>2, <2>1, StartsStep
<1>3. CASE LinkChanges \/ LoadRaises \/ BeforeAgentStart
  BY <1>3, PluginStep
<1>4. CASE Ends
  BY <1>4, EndsStep
<1>5. ASSUME NEW c \in Calls, NEW t \in Commands[c], NEW names \in Asked(t), NEW payload \in Payloads[t],
             \/ Dispatch(c, t, names, payload) \/ BeforeToolCall(c, t, names, payload)
             \/ RunsCommand(c, t, names, payload)
      PROVE  GateInv' /\ Sound'
  BY <1>5, DispatchStep, BeforeToolCallStep, RunsCommandStep
<1>6. ASSUME NEW c \in Calls, Runs(c) \/ Returns(c)
      PROVE  GateInv' /\ Sound'
  BY <1>6, RunsStep, ReturnsStep
<1>7. CASE UNCHANGED vars
  <2>1. HostInv'
    BY <1>7 DEF vars, GateInv, HostInv
  <2> QED BY <1>7, <2>1, ProcessStep DEF vars
<1> QED
  BY <1>1, <1>2, <1>3, <1>4, <1>5, <1>6, <1>7 DEF Next

LEMMA GateHolds == Spec => [](GateInv /\ Sound)
BY GateInit, GateStep, PTL DEF Spec

\* Whatever any number of calls ask for, over any limits and payloads: what the
\* server or the plugin lets through was checked and is within the limits it
\* was checked under.
THEOREM NothingBeyondTheLimits == Spec => []GateIsSound
<1>1. GateInv /\ Sound => GateIsSound
  BY DEF Sound
<1> QED BY <1>1, GateHolds, PTL

\* A call that is refused, by a check that blocks or by one that raises, is not
\* within the limits; but for one with a value float() cannot read, and a pose
\* whose position is not where the check looks.
THEOREM NoHarmlessCallBlocked == Spec => []BlockedForCause
<1>1. GateInv /\ Sound => BlockedForCause
  BY DEF Sound
<1> QED BY <1>1, GateHolds, PTL

\* Over any number of loads and reloads, a call is checked under the limits of the
\* latest configuration.
THEOREM LimitsAreTheLatest == Spec => []CheckedByTheLatest
<1>1. GateInv /\ Sound => CheckedByTheLatest
  BY DEF Sound
<1> QED BY <1>1, GateHolds, PTL

\* Calls that meet a schema, a tool definition or the command line bind, unless
\* they have an argument it does not list; those never get to the transport.
THEOREM SchemasBind == Spec => []AcceptedCallsBind
<1>1. GateInv /\ Sound => AcceptedCallsBind
  BY DEF Sound
<1> QED BY <1>1, GateHolds, PTL
=============================================================================
