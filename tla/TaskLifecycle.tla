--------------------------- MODULE TaskLifecycle ---------------------------
(***************************************************************************)
(* The life of a task as its owner may rely on it: it is scheduled, runs,  *)
(* and ends COMPLETED or FAILED; a failed task is put back to PENDING at   *)
(* most MaxRetries times; a completed task stays completed.                *)
(***************************************************************************)
EXTENDS Naturals

CONSTANTS Tasks, MaxRetries

VARIABLES status, retry

Init == /\ status = [t \in Tasks |-> "NEW"]
        /\ retry = [t \in Tasks |-> 0]

Move(t, from, to) == /\ status[t] = from
                     /\ status' = [status EXCEPT ![t] = to]

Create(t)   == Move(t, "NEW", "PENDING") /\ UNCHANGED retry
Start(t)    == Move(t, "PENDING", "RUNNING") /\ UNCHANGED retry
Complete(t) == Move(t, "RUNNING", "COMPLETED") /\ UNCHANGED retry
Fail(t)     == Move(t, "RUNNING", "FAILED") /\ UNCHANGED retry
Retry(t)    == /\ Move(t, "FAILED", "PENDING")
               /\ retry[t] < MaxRetries[t]
               /\ retry' = [retry EXCEPT ![t] = @ + 1]

Next == \E t \in Tasks : Create(t) \/ Start(t) \/ Complete(t) \/ Fail(t) \/ Retry(t)

Spec == Init /\ [][Next]_<<status, retry>>
=============================================================================
