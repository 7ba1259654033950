--------------------------- MODULE AbstractQueue ---------------------------
(***************************************************************************)
(* What BaseTaskQueue (scheduling/queue/base_queue.py) promises its        *)
(* callers, whatever the policy: an index of tasks by id, of which dequeue *)
(* hands out and peek shows a best one, and which reports itself empty     *)
(* only when it holds nothing.                                             *)
(*                                                                         *)
(* items[id] is the task stored under id (None if there is none), reduced  *)
(* to the attribute the policy sorts by and the moment it was queued;      *)
(* reply is what the last call returned (None: it raised or returned       *)
(* nothing).                                                               *)
(***************************************************************************)
EXTENDS Naturals

CONSTANTS Ids,            \* task ids
          Attrs,          \* values of the metadata field the policy sorts by
          Policies,       \* the orders a queue may be created with
          Better(_, _, _),\* Better(p, a, b): policy p serves item a before item b
          None

VARIABLES policy, items, reply

Item == [attr : Attrs, at : Nat]

Held == {id \in Ids : items[id] # None}

Best(id) == /\ id \in Held
            /\ \A other \in Held \ {id} : ~Better(policy, items[other], items[id])

Init == /\ policy \in Policies
        /\ items = [id \in Ids |-> None]
        /\ reply = [op |-> "init", out |-> None]

Enqueue(id) ==
    /\ items'[id] \in Item
    /\ items' = [items EXCEPT ![id] = items'[id]]
    /\ reply' = [op |-> "enqueue", out |-> id]

Dequeue(id) ==
    /\ Best(id)
    /\ items' = [items EXCEPT ![id] = None]
    /\ reply' = [op |-> "dequeue", out |-> id]

Peek(id) ==
    /\ Best(id)
    /\ reply' = [op |-> "peek", out |-> id]
    /\ UNCHANGED items

Cancel(id) ==
    /\ id \in Held
    /\ items' = [items EXCEPT ![id] = None]
    /\ reply' = [op |-> "cancel", out |-> id]

\* A call that raises or returns None leaves the queue as it was; dequeue and
\* peek may do so only when the queue contains no task.
Refuse(op) ==
    /\ op \in {"dequeue", "peek"} => Held = {}
    /\ reply' = [op |-> op, out |-> None]
    /\ UNCHANGED items

Next == \/ \E id \in Ids : Enqueue(id) \/ Dequeue(id) \/ Peek(id) \/ Cancel(id)
        \/ \E op \in {"enqueue", "dequeue", "peek", "cancel"} : Refuse(op)

Spec == Init /\ [][Next /\ UNCHANGED policy]_<<policy, items, reply>>
=============================================================================
