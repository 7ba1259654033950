---------------------------- MODULE MCScheduler ----------------------------
(***************************************************************************)
(* Small instances of Scheduler: two or three tasks, one or two Worker     *)
(* objects, of which the pool may start with one and respawn the other.    *)
(***************************************************************************)
EXTENDS Scheduler, TLC

\* The tasks with a RetryPolicy, all with the same max_retries.
CONSTANTS Retried, RetryLimit

MCMaxRetries == [t \in Tasks |-> IF t \in Retried THEN RetryLimit ELSE 0]

\* The workers of the pool are interchangeable (used without liveness only).
MCSymmetry == Permutations(InitialPool)
=============================================================================
