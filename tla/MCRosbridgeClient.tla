------------------------- MODULE MCRosbridgeClient -------------------------
(* Small instances of RosbridgeClient for TLC. *)
EXTENDS RosbridgeClient, TLC

\* Message ids are interchangeable, and so are the calls of one kind.
Symmetry ==
    Permutations(Requests) \cup Permutations(ConnectCalls)
        \cup Permutations(DisconnectCalls)
=============================================================================
