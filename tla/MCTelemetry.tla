---------------------------- MODULE MCTelemetry ----------------------------
(***************************************************************************)
(* Two workers, interchangeable; t1, the task of a workflow node, may time *)
(* out, be retried and be cancelled; t2 is submitted by the caller, and    *)
(* its code may exit.                                                      *)
(***************************************************************************)
EXTENDS Telemetry, TLC

MCSymmetry == Permutations(Workers)
=============================================================================
