------------------------- MODULE MCRosbridgeAdapter -------------------------
(* Small instances of RosbridgeAdapter for TLC. *)
EXTENDS RosbridgeAdapter, TLC

Symmetry == Permutations(Subs) \cup Permutations(Topics)
                \cup Permutations(Goals) \cup Permutations(Actions)
=============================================================================
