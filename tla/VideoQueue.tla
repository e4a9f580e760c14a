----------------------------- MODULE VideoQueue -----------------------------
(***************************************************************************)
(* What the queue of video preparations promises a guest who uploaded a    *)
(* video: it is pending from the moment the upload is complete, and it     *)
(* ends, once, as ready to watch or as failed.                             *)
(***************************************************************************)
CONSTANT Videos

VARIABLE outcome

Outcomes == {"none", "pending", "ready", "failed"}

Init == outcome = [v \in Videos |-> "none"]

Submit(v) ==
    /\ outcome[v] = "none"
    /\ outcome' = [outcome EXCEPT ![v] = "pending"]

Settle(v) ==
    /\ outcome[v] = "pending"
    /\ \E o \in {"ready", "failed"} : outcome' = [outcome EXCEPT ![v] = o]

Next == \E v \in Videos : Submit(v) \/ Settle(v)

Spec == Init /\ [][Next]_outcome

\* Every submitted video is settled in the end.
Settles == \A v \in Videos : outcome[v] = "pending" ~> outcome[v] \in {"ready", "failed"}
=============================================================================
