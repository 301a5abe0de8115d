-------------------------- MODULE MCEmergencyStop --------------------------
(* Small instances of EmergencyStop for TLC. *)
EXTENDS EmergencyStop
=============================================================================
