--------------------------- MODULE TransportLife ---------------------------
(***************************************************************************)
(* The life of one transport as whoever holds it sees it: what the client  *)
(* of the rosbridge transport (module RosbridgeClient) does with sockets,  *)
(* receive loops and reconnect tasks, and what the transport manager       *)
(* (module TransportManager) takes each of its instances to do.            *)
(*                                                                         *)
(* A transport that is down comes up by a dial of its user only; one that  *)
(* lost its server may win it back until it is closed; and one that is     *)
(* being closed goes down whatever becomes of its server.                  *)
(***************************************************************************)
VARIABLE state

LifeState == {"down", "dialing", "up", "lost", "closing"}

Init == state = "down"

Moves(from, to) == state \in from /\ state' \in to

Dials    == Moves({"down"}, {"dialing"})
Connects == Moves({"dialing"}, {"up"})
Refused  == Moves({"dialing"}, {"down"})
Loses    == Moves({"up"}, {"lost", "down"})
Recovers == Moves({"lost"}, {"up"})
GivesUp  == Moves({"lost"}, {"down"})

\* Closing a live connection takes time; there is nothing to wait for when it
\* is lost already.
Closes == Moves({"up"}, {"closing"}) \/ Moves({"lost"}, {"down"})
Closed == Moves({"closing"}, {"down"})

Next ==
    \/ Dials \/ Connects \/ Refused
    \/ Loses \/ Recovers \/ GivesUp
    \/ Closes \/ Closed

Spec == Init /\ [][Next]_state
=============================================================================
