---------------------------- MODULE Fingerprint ----------------------------
(***************************************************************************)
(* RobotFingerprinter.fingerprint() (anima_bridge/discovery/               *)
(* fingerprint.py): sensors, controls, vendor, category and recommended    *)
(* modules of a robot, from the lists of its topics and actions in the     *)
(* order the transport gives them.                                         *)
(*                                                                         *)
(* The code looks for substrings.  An entity here is the set of the        *)
(* patterns its name contains, in lower case, and the pattern its type     *)
(* contains.  The robot publishes one entity after the other; every state  *)
(* is a list a scan may find.  A service counts by its name alone, as an   *)
(* action of no known type does, and is listed with the actions.           *)
(***************************************************************************)
EXTENDS Integers, Sequences, FiniteSetsExt, Functions

CONSTANTS
    TopicEntities, ActionEntities,
    MaxTopics, MaxActions     \* BOUND

VARIABLES topics, actions, fp
fingerprintVars == <<topics, actions, fp>>

-----------------------------------------------------------------------------
(* The tables: the first match counts *)

SensorPatterns == <<
    <<"image_raw", "Image", "rgb_camera">>,
    <<"image_raw/compressed", "CompressedImage", "rgb_camera">>,
    <<"depth", "Image", "depth_camera">>,
    <<"pointcloud", "PointCloud2", "lidar_3d">>,
    <<"points", "PointCloud2", "lidar_3d">>,
    <<"scan", "LaserScan", "lidar_2d">>,
    <<"imu", "Imu", "imu">>,
    <<"odom", "Odometry", "odometry">>,
    <<"joint_states", "JointState", "joint_state">>,
    <<"battery", "BatteryState", "battery">>,
    <<"wrench", "WrenchStamped", "force_torque">>,
    <<"gps", "NavSatFix", "gps">>,
    <<"audio", "audio_msgs", "audio">> >>

ControlPatterns == <<
    <<"cmd_vel", "Twist", "velocity">>,
    <<"joint_commands", "JointState", "joint_position">>,
    <<"joint_trajectory", "trajectory_msgs", "joint_trajectory">> >>

ActionControlPatterns == <<
    <<"navigate_to_pose", "NavigateToPose", "nav2">>,
    <<"move_group", "MoveGroup", "moveit">>,
    <<"gripper_command", "GripperCommand", "gripper">> >>

VendorSignatures == <<
    <<"go2", "Unitree", "Go2">>, <<"go1", "Unitree", "Go1">>, <<"unitree", "Unitree", "">>,
    <<"b2", "Unitree", "B2">>, <<"h1", "Unitree", "H1">>, <<"g1", "Unitree", "G1">>,
    <<"spot", "Boston Dynamics", "Spot">>, <<"turtlebot", "Clearpath", "TurtleBot">>,
    <<"husky", "Clearpath", "Husky">>, <<"jackal", "Clearpath", "Jackal">>,
    <<"xarm", "UFactory", "xArm">>, <<"panda", "Franka", "Panda">>,
    <<"ur5", "Universal Robots", "UR5">>, <<"ur10", "Universal Robots", "UR10">>,
    <<"kinova", "Kinova", "Gen3">>, <<"stretch", "Hello Robot", "Stretch">>,
    <<"tron", "LimX Dynamics", "TRON">>, <<"limx", "LimX Dynamics", "">> >>

ModuleRecommendations(sensor) ==
    CASE sensor = "rgb_camera"    -> <<"AZOTH", "MONAD", "LOGOS">>
      [] sensor = "depth_camera"  -> <<"CHRONOS", "ABYSSOS">>
      [] sensor = "stereo_camera" -> <<"PRISM 3D", "LOCI">>
      [] sensor = "lidar_3d"      -> <<"NEXUS", "PRISM", "HERMES">>
      [] sensor = "lidar_2d"      -> <<"HERMES">>
      [] sensor = "imu"           -> <<"GNOMON">>
      [] sensor = "force_torque"  -> <<"HAPTOS", "DAEDALUS">>
      [] sensor = "joint_state"   -> <<"DAEDALUS", "PYGMALION">>
      [] OTHER -> <<>>

-----------------------------------------------------------------------------
(* fingerprint() *)

Matching(patterns, e) ==
    {i \in DOMAIN patterns : patterns[i][1] \in e.name /\ patterns[i][2] = e.type}

\* The first pattern that matches decides.
Kind(patterns, e) == patterns[Min(Matching(patterns, e))][3]

\* What each entity is detected as; most are nothing.
Detect(patterns, entities) ==
    LET found[n \in 0 .. Len(entities)] ==
          IF n = 0 THEN <<>>
          ELSE IF Matching(patterns, entities[n]) = {} THEN found[n - 1]
          ELSE Append(found[n - 1], Kind(patterns, entities[n]))
    IN  found[Len(entities)]

\* Mutant: the loops are swapped, the first name that has a signature decides.
Vendor_ByName(entities) ==
    LET Sigs(e) == {i \in DOMAIN VendorSignatures : VendorSignatures[i][1] \in e.name}
        first == SelectSeq(entities, LAMBDA e : Sigs(e) # {}) IN
    IF first = <<>> THEN <<"", "", "">> ELSE VendorSignatures[Min(Sigs(first[1]))]

\* The first signature that occurs in any of the names.
Vendor(entities) ==
    LET names == UNION {e.name : e \in Range(entities)}
        hits == {i \in DOMAIN VendorSignatures : VendorSignatures[i][1] \in names} IN
    IF hits = {} THEN <<"", "", "">> ELSE VendorSignatures[Min(hits)]

IsArm(ctrl) ==
    /\ ctrl \cap {"moveit", "gripper", "joint_position", "joint_trajectory"} # {}
    /\ "velocity" \notin ctrl

\* _classify_category(): the order of the cases decides.
Category(sensors, ctrl, vendor, model) ==
    LET has_velocity == "velocity" \in ctrl
        has_joints == ctrl \cap {"joint_position", "joint_trajectory"} # {}
        humanoid == /\ has_joints /\ has_velocity /\ {"imu", "joint_state"} \subseteq sensors
                    /\ vendor \in {"Unitree", "LimX Dynamics", ""}
                    /\ model \in {"H1", "G1", "TRON", ""}
        legged == /\ "imu" \in sensors
                  /\ vendor \in {"Unitree", "Boston Dynamics", "DEEP Robotics", "ANYbotics"}
    IN
    IF humanoid THEN "humanoid"
    ELSE IF has_velocity /\ ctrl \cap {"moveit", "gripper"} # {} THEN "mobile_manipulator"
    ELSE IF IsArm(ctrl) THEN "arm"
    ELSE IF ~has_velocity THEN "unknown"
    ELSE IF legged THEN "quadruped"
    ELSE IF "nav2" \in ctrl \/ "lidar_2d" \in sensors THEN "mobile_base"
    ELSE IF "gps" \in sensors THEN "drone"
    ELSE "mobile_base"

\* The modules recommended for one sensor, those that are not listed yet.
AddModules(modules, recommended) ==
    LET added[n \in 0 .. Len(recommended)] ==
          IF n = 0 THEN modules
          ELSE IF recommended[n] \in Range(added[n - 1]) THEN added[n - 1]
          ELSE Append(added[n - 1], recommended[n])
    IN  added[Len(recommended)]

Modules(sensors) ==
    LET listed[n \in 0 .. Len(sensors)] ==
          IF n = 0 THEN <<>> ELSE AddModules(listed[n - 1], ModuleRecommendations(sensors[n]))
    IN  listed[Len(sensors)]

Confidence_Unbounded(detections) == detections                 \* mutant
\* In fifths: min(1.0, detections / 5.0).
Confidence(detections) == IF detections < 5 THEN detections ELSE 5

FingerprintOf(ts, as) ==
    LET sensors == Detect(SensorPatterns, ts)
        controls == Detect(ControlPatterns, ts) \o Detect(ActionControlPatterns, as)
        vendor == Vendor(ts \o as)
    IN [ sensors    |-> sensors,
         controls   |-> controls,
         vendor     |-> vendor[2],
         model      |-> vendor[3],
         category   |-> Category(Range(sensors), Range(controls), vendor[2], vendor[3]),
         modules    |-> Modules(sensors),
         confidence |-> Confidence(Len(sensors) + Len(controls)) ]

-----------------------------------------------------------------------------

FingerprintInit == topics = <<>> /\ actions = <<>> /\ fp = FingerprintOf(<<>>, <<>>)

PublishTopic(e) ==
    /\ Len(topics) < MaxTopics /\ e \notin Range(topics)
    /\ topics' = Append(topics, e)
    /\ fp' = FingerprintOf(topics', actions)
    /\ UNCHANGED actions

OfferAction(e) ==
    /\ Len(actions) < MaxActions /\ e \notin Range(actions)
    /\ actions' = Append(actions, e)
    /\ fp' = FingerprintOf(topics, actions')
    /\ UNCHANGED topics

FingerprintNext ==
    \/ \E e \in TopicEntities : PublishTopic(e)
    \/ \E e \in ActionEntities : OfferAction(e)

FingerprintSpec == FingerprintInit /\ [][FingerprintNext]_fingerprintVars

-----------------------------------------------------------------------------
(* Properties *)

Reordered(s) == {[i \in DOMAIN s |-> s[p[i]]] : p \in
    {q \in [DOMAIN s -> DOMAIN s] : \A i, j \in DOMAIN s : i # j => q[i] # q[j]}}

\* The order in which the graph lists its entities changes nothing a reader of
\* the fingerprint acts on.
OrderDoesNotMatter ==
    \A ts \in Reordered(topics), as \in Reordered(actions) :
      LET other == FingerprintOf(ts, as) IN
      /\ <<other.category, other.vendor, other.model, other.confidence>>
           = <<fp.category, fp.vendor, fp.model, fp.confidence>>
      /\ Range(other.modules) = Range(fp.modules)

\* The confidence never exceeds one and never falls when more is published, and
\* what was classified does not become unknown.
MoreIsNotLess ==
    [][/\ fp'.confidence \in fp.confidence .. 5
       /\ fp'.category = "unknown" => fp.category = "unknown"]_fp

=============================================================================
