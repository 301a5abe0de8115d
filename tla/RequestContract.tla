-------------------------- MODULE RequestContract --------------------------
(***************************************************************************)
(* What RosbridgeClient promises the callers of register_pending(): every  *)
(* request ends exactly once, in one of four ways, and only a reply of the *)
(* server ends it with a result.  Connections, tasks and timers are gone;  *)
(* what is left is the outcome of each request and the replies under way.  *)
(***************************************************************************)
CONSTANT Requests

VARIABLES
    outcome,    \* what the caller of each request sees
    replies     \* requests with a reply of the server under way

vars == <<outcome, replies>>

Init ==
    /\ outcome = [r \in Requests |-> "unissued"]
    /\ replies = {}

Settle(r, how) ==
    /\ outcome[r] = "waiting"
    /\ outcome' = [outcome EXCEPT ![r] = how]

Issue(r) ==
    /\ outcome[r] = "unissued"
    /\ outcome' = [outcome EXCEPT ![r] = "waiting"]
    /\ UNCHANGED replies

Reply(r) ==
    /\ outcome[r] # "unissued"
    /\ replies' = replies \cup {r}
    /\ UNCHANGED outcome

\* A reply that comes too late changes nothing.
Take(r) ==
    /\ r \in replies
    /\ replies' = replies \ {r}
    /\ Settle(r, "result") \/ (outcome[r] # "waiting" /\ UNCHANGED outcome)

TimeOut(r) == Settle(r, "timeout") /\ UNCHANGED replies

GiveUp(r) == Settle(r, "cancelled") /\ UNCHANGED replies

\* The connection is lost or closed: everyone who waits is told.
RejectAll ==
    /\ outcome' = [r \in Requests |->
                     IF outcome[r] = "waiting" THEN "rejected" ELSE outcome[r]]
    /\ UNCHANGED replies

Next ==
    \/ RejectAll
    \/ \E r \in Requests :
          Issue(r) \/ Reply(r) \/ Take(r) \/ TimeOut(r) \/ GiveUp(r)

Spec == Init /\ [][Next]_vars

TimerIsFair(r) == WF_vars(TimeOut(r))

FairSpec == Spec /\ \A r \in Requests : TimerIsFair(r)

\* What the guard of TimeOut(r) comes to, for proofs that cannot expand ENABLED.
TimesOutWaiting(r) == [](ENABLED <<TimeOut(r)>>_vars => outcome[r] = "waiting")
=============================================================================
