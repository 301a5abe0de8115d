---- MODULE MCFingerprint ----
(* Entities that meet every branch of the classification: several vendors, *)
(* names with more than one signature, sensors that share modules, a service.*)
EXTENDS Fingerprint

Entity(name, type) == [name |-> name, type |-> type]

MCTopics == {
    Entity({"cmd_vel"}, "Twist"),
    Entity({"imu", "unitree", "h1"}, "Imu"),
    Entity({"joint_states"}, "JointState"),
    Entity({"joint_commands"}, "JointState"),
    Entity({"scan", "husky"}, "LaserScan"),
    Entity({"points"}, "PointCloud2"),
    Entity({"wrench", "ur5"}, "WrenchStamped"),
    Entity({"gps"}, "NavSatFix"),
    Entity({"image_raw", "depth"}, "Image") }

MCActions == {
    Entity({"navigate_to_pose"}, "NavigateToPose"),
    Entity({"gripper_command"}, "GripperCommand"),
    Entity({"tron"}, "Trigger") }
====
