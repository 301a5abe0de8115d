--------------------------- MODULE MCDiscoveryNode ---------------------------
(* Small instances of DiscoveryNode for TLC. *)
EXTENDS DiscoveryNode, TLC

CONSTANTS odom, nav, rosout, trigger, all, arm

MCWithin == (all :> {odom, nav, rosout, trigger}) @@ (arm :> {nav, trigger})
=============================================================================
