--------------------------- MODULE AbstractStore ---------------------------
(***************************************************************************)
(* What the ports of persistence/domain/ports.py promise: a store of one   *)
(* runtime state, of named snapshots and of an append-only event log, on   *)
(* which every operation takes effect at once and as a whole, or not at    *)
(* all.                                                                    *)
(*                                                                         *)
(* A RuntimeState is the rows of its tasks and workers and a header, its   *)
(* queue and scheduler sections; header is None before the first save.     *)
(***************************************************************************)
EXTENDS Sequences

CONSTANTS States,       \* the runtime states that are saved
          Rows,         \* ids of tasks and workers
          RowsOf(_),    \* the rows of a state
          Names,        \* snapshot ids
          Batches,      \* what append and append_batch are called with
          None

VARIABLES rows,         \* row id -> the state its content is from
          header,       \* the state the queue and scheduler sections are from
          snapshots,    \* snapshot id -> state
          events        \* the log

Init == /\ rows = [r \in Rows |-> None]
        /\ header = None
        /\ snapshots = [n \in Names |-> None]
        /\ events = << >>

SaveRuntimeState(s) ==
    /\ rows' = [r \in Rows |-> IF r \in RowsOf(s) THEN s ELSE None]
    /\ header' = s
    /\ UNCHANGED <<snapshots, events>>

\* The repositories' save and delete.
SaveRow(r, s) == /\ rows' = [rows EXCEPT ![r] = s]
                 /\ UNCHANGED <<header, snapshots, events>>

DeleteRow(r) == /\ rows' = [rows EXCEPT ![r] = None]
                /\ UNCHANGED <<header, snapshots, events>>

SaveSnapshot(n, s) == /\ snapshots' = [snapshots EXCEPT ![n] = s]
                      /\ UNCHANGED <<rows, header, events>>

DeleteSnapshot(n) == /\ snapshots' = [snapshots EXCEPT ![n] = None]
                     /\ UNCHANGED <<rows, header, events>>

AppendBatch(b) == /\ events' = events \o b
                  /\ UNCHANGED <<rows, header, snapshots>>

Truncate == /\ events' = << >>
            /\ UNCHANGED <<rows, header, snapshots>>

Next == \/ \E s \in States : SaveRuntimeState(s)
        \/ \E r \in Rows, s \in States : SaveRow(r, s)
        \/ \E r \in Rows : DeleteRow(r)
        \/ \E n \in Names, s \in States : SaveSnapshot(n, s)
        \/ \E n \in Names : DeleteSnapshot(n)
        \/ \E b \in Batches : AppendBatch(b)
        \/ Truncate

vars == <<rows, header, snapshots, events>>

Spec == Init /\ [][Next]_vars
=============================================================================
