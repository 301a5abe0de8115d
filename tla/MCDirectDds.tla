---- MODULE MCDirectDds ----
(* One call of any kind beside one goal, and subscriptions on their own;   *)
(* two goals only where no callback lasts.                                 *)
EXTENDS DirectDds, TLC

CONSTANTS c1, c2

MCOperations ==
    [s \in BOOLEAN |-> (c1 :> IF s THEN Kinds \ {"goal"} ELSE Kinds) @@ (c2 :> {"goal"})]
====
