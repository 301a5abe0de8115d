---- MODULE MCDiscovery ----
(* One topic of the robot, one that is filtered out, two discoveries.      *)
EXTENDS Discovery, TLC

MCModeOf == <<"rosbridge", "direct_dds">>

Symmetry == Permutations(Calls)
====
