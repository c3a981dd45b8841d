------------------------------ MODULE TaskPool ------------------------------
(***************************************************************************)
(* What a thread pool promises the code that hands it tasks: a task it     *)
(* takes is started at most once, a task it rejects is never started.      *)
(***************************************************************************)
CONSTANT Tasks

VARIABLE status   \* per task: new, accepted, started or rejected

Init == status = [t \in Tasks |-> "new"]

Becomes(t, from, to) == status[t] = from /\ status' = [status EXCEPT ![t] = to]

Accept(t) == Becomes(t, "new", "accepted")
Reject(t) == Becomes(t, "new", "rejected")
Start(t)  == Becomes(t, "accepted", "started")

Next == \E t \in Tasks : Accept(t) \/ Reject(t) \/ Start(t)

Spec == Init /\ [][Next]_status
=============================================================================
