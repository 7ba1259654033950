--------------------------- MODULE MCStateStore ---------------------------
(***************************************************************************)
(* Two threads, runtime states with and without the worker, one snapshot,  *)
(* and batches that overlap in one event.                                  *)
(***************************************************************************)
EXTENDS StateStore

MCRowsOf(s) == IF s = "s1" THEN {"task1", "worker1"} ELSE {"task1"}

MCBatches == { <<"e1">>, <<"e2", "e1">> }
=============================================================================
