----------------------------- MODULE TaskQueue -----------------------------
(***************************************************************************)
(* InMemoryTaskQueue (scheduling/queue/in_memory_queue.py) with its three  *)
(* scheduling policies (scheduling/queue/policy.py).                       *)
(*                                                                         *)
(* The queue keeps a task twice: in the index _storage, by id, and as an   *)
(* id in the policy's own order (a deque or a heap).  Every operation runs *)
(* under the queue's lock, so an operation is one action; what can go      *)
(* wrong is that the two structures come apart over a sequence of calls.   *)
(*                                                                         *)
(* A policy's order is the set of its entries [key, n, id].  PriorityPolicy*)
(* and DeadlinePolicy pop the least (key, n); in FIFOPolicy all keys are 0 *)
(* and n is the place in the deque.  The heap policies delete lazily: an   *)
(* id in `removed' cancels the next entry of that id that reaches the top. *)
(***************************************************************************)
EXTENDS Integers, FiniteSets

CONSTANTS Ids,          \* task ids
          Attrs,        \* values of metadata["priority"] or metadata["deadline"]
          Missing,      \* the attribute is absent
          Malformed,    \* it is there but no number (nor a parsable date)
          None,         \* Python's None
          Raised,       \* an exception other than the documented ones
          Infinity,     \* float('inf')
          Policies,     \* the policies a queue may be created with
          MaxSize,      \* max_size (0 or less: unbounded)
          Environments, \* what callers and the event store may do, see MayEnqueue
          MaxCalls      \* bound on each of the queue's three call counters

ASSUME ConstantsAssumption ==
    /\ Policies \subseteq {"fifo", "priority", "deadline"}
    /\ Environments \subseteq {"fresh", "any"}
    /\ MaxSize \in Int /\ MaxCalls \in Nat /\ Infinity \in Int
    /\ Attrs \subseteq Int \cup {Missing, Malformed}
    /\ Missing \notin Int /\ Malformed \notin Int /\ Missing # Malformed
    /\ None \notin Ids /\ Raised \notin Ids /\ None # Raised
    /\ None \notin [attr : Attrs, at : Nat]
    /\ \A a \in Attrs \cap Int : a < Infinity

VARIABLES policy,        \* _policy, fixed by the constructor
          env,           \* the environment this queue runs in
          storage,       \* _storage: id -> task (its attribute, its queued_at) or None
          order,         \* the entries of _order / _heap
          removed,       \* _removed, the ids to skip once (heap policies)
          enqueueCount, dequeueCount, cancelCount,
          reply          \* the last call and what it returned

vars == <<policy, env, storage, order, removed, enqueueCount, dequeueCount, cancelCount, reply>>
counts == <<enqueueCount, dequeueCount, cancelCount>>

Item  == [attr : Attrs, at : Nat]
Entry == [key : Int, n : Nat, id : Ids]

TypeOK ==
    /\ policy \in Policies /\ env \in Environments
    /\ storage \in [Ids -> Item \cup {None}]
    /\ order \subseteq Entry
    /\ removed \subseteq Ids
    /\ enqueueCount \in Nat /\ dequeueCount \in Nat /\ cancelCount \in Nat
    /\ reply \in [op : {"init", "enqueue", "dequeue", "peek", "cancel"},
                  out : Ids \cup {None, Raised}]

Stored == {id \in Ids : storage[id] # None}

Init ==
    /\ policy \in Policies /\ env \in Environments
    /\ storage = [id \in Ids |-> None]
    /\ order = {} /\ removed = {}
    /\ enqueueCount = 0 /\ dequeueCount = 0 /\ cancelCount = 0
    /\ reply = [op |-> "init", out |-> None]

Reply(op, out) == reply' = [op |-> op, out |-> out] /\ UNCHANGED <<policy, env>>

----------------------------------------------------------------------------
(* The policies.                                                           *)

\* Mutant: priorities are not negated, a missing deadline is 0.
MutSortKey(a) ==
    CASE policy = "fifo"     -> 0
      [] policy = "priority" -> IF a = Missing THEN 0 ELSE a
      [] policy = "deadline" -> IF a \in {Missing, Malformed} THEN 0 ELSE a

\* The heap key a policy computes from the task's metadata: larger
\* priorities first, no priority is 0; earlier deadlines first, a missing or
\* unreadable deadline is float('inf').
SortKey(a) ==
    CASE policy = "fifo"     -> 0
      [] policy = "priority" -> IF a = Missing THEN 0 ELSE 0 - a
      [] policy = "deadline" -> IF a \in {Missing, Malformed} THEN Infinity ELSE a

\* Negating a priority that is not a number raises TypeError.
KeyRaises(a) == policy = "priority" /\ a = Malformed

Before(e, f) == e.key < f.key \/ (e.key = f.key /\ e.n < f.n)

\* Mutant: the id is not taken out of _removed.
MutPolicyAdd(id, a) ==
    /\ order' = order \cup {[key |-> SortKey(a), n |-> enqueueCount, id |-> id]}
    /\ UNCHANGED removed

PolicyAdd(id, a) ==
    /\ order' = order \cup {[key |-> SortKey(a), n |-> enqueueCount, id |-> id]}
    /\ removed' = removed \ {id}

FirstOfId(e) == \A f \in order : f.id = e.id => f = e \/ Before(e, f)

\* Mutant: cancel does not tell the policy.
MutPolicyRemove(id) == UNCHANGED <<order, removed>>

PolicyRemove(id) ==
    IF policy = "fifo"
    THEN /\ order' = order \ {e \in order : e.id = id /\ FirstOfId(e)}
         /\ UNCHANGED removed
    ELSE /\ removed' = removed \cup {id}
         /\ UNCHANGED order

\* The entries that popping would return: all but the first of a removed id.
Live == {e \in order : ~(e.id \in removed /\ FirstOfId(e))}

\* e is the entry the pop loop stops at.
Top(e) == e \in Live /\ \A f \in Live \ {e} : Before(e, f)

\* next(): e and everything above it is popped, each cancelled entry that
\* was skipped taking its id out of `removed'.
PolicyNext(e) ==
    /\ order' = {f \in order : Before(e, f)}
    /\ removed' = removed \ {f.id : f \in {g \in order : Before(g, e)}}

\* peek(): the same, but e stays.
PolicyPeek(e) ==
    /\ order' = {f \in order : f = e \/ Before(e, f)}
    /\ removed' = removed \ {f.id : f \in {g \in order : Before(g, e)}}

\* Either loop when nothing live is left.
PolicyDrain ==
    /\ order' = {}
    /\ removed' = removed \ {f.id : f \in order}

----------------------------------------------------------------------------
(* The operations.                                                         *)

\* What callers hand to enqueue.  "fresh": an attribute the policy accepts and
\* an id it has no entry of (every submitted task has a new uuid, and a retried
\* one was dequeued); "any": also ids that are queued (a task retried twice, see
\* Scheduler) or whose cancelled entry is, attributes of any kind, and an event
\* store that may raise.
MayEnqueue(id, a) ==
    \/ env = "any"
    \/ env = "fresh" /\ id \notin Stored /\ ~KeyRaises(a) /\ \A e \in order : e.id # id

Full == MaxSize > 0 /\ Cardinality(Stored) >= MaxSize

\* What a call returns when the event store may fail after the state changed.
Outcome(id) == IF env = "any" THEN {id, Raised} ELSE {id}

Enqueue(id, a) ==
    /\ MayEnqueue(id, a)
    /\ \/ /\ Full
          /\ Reply("enqueue", None)
          /\ UNCHANGED <<storage, order, removed, counts>>
       \/ /\ ~Full /\ KeyRaises(a)
          /\ storage' = [storage EXCEPT ![id] = [attr |-> a, at |-> enqueueCount]]
          /\ removed' = removed \ {id}
          /\ Reply("enqueue", Raised)
          /\ UNCHANGED <<order, counts>>
       \/ /\ ~Full /\ ~KeyRaises(a)
          /\ enqueueCount < MaxCalls
          /\ storage' = [storage EXCEPT ![id] = [attr |-> a, at |-> enqueueCount]]
          /\ PolicyAdd(id, a)
          /\ enqueueCount' = enqueueCount + 1
          /\ \E out \in Outcome(id) : Reply("enqueue", out)
          /\ UNCHANGED <<dequeueCount, cancelCount>>

Dequeue ==
    \/ \E e \in order :
         /\ Top(e)
         /\ PolicyNext(e)
         /\ \/ /\ e.id \in Stored
               /\ dequeueCount < MaxCalls
               /\ storage' = [storage EXCEPT ![e.id] = None]
               /\ dequeueCount' = dequeueCount + 1
               /\ \E out \in Outcome(e.id) : Reply("dequeue", out)
               /\ UNCHANGED <<enqueueCount, cancelCount>>
            \/ /\ e.id \notin Stored
               /\ Reply("dequeue", None)
               /\ UNCHANGED <<storage, counts>>
    \/ /\ Live = {}
       /\ PolicyDrain
       /\ Reply("dequeue", None)
       /\ UNCHANGED <<storage, counts>>

Peek ==
    /\ \/ \E e \in order : /\ Top(e)
                           /\ PolicyPeek(e)
                           /\ Reply("peek", IF e.id \in Stored THEN e.id ELSE None)
       \/ Live = {} /\ PolicyDrain /\ Reply("peek", None)
    /\ UNCHANGED <<storage, counts>>

Cancel(id) ==
    \/ /\ id \in Stored
       /\ cancelCount < MaxCalls
       /\ storage' = [storage EXCEPT ![id] = None]
       /\ PolicyRemove(id)
       /\ cancelCount' = cancelCount + 1
       /\ \E out \in Outcome(id) : Reply("cancel", out)
       /\ UNCHANGED <<enqueueCount, dequeueCount>>
    \/ /\ id \notin Stored
       /\ Reply("cancel", None)
       /\ UNCHANGED <<storage, order, removed, counts>>

Next == \/ \E id \in Ids, a \in Attrs : Enqueue(id, a)
        \/ Dequeue
        \/ Peek
        \/ \E id \in Ids : Cancel(id)

Spec == Init /\ [][Next]_vars

----------------------------------------------------------------------------
(* Properties.                                                             *)

\* The order the policies announce (policy.py:60-64, 93-98, 147-152):
\* arrival; larger priority, then arrival; earlier deadline, tasks without
\* one last, then arrival.
Better(p, i, j) ==
    LET priority(x) == IF x.attr = Missing THEN 0 ELSE x.attr
        timed(x)    == x.attr \notin {Missing, Malformed}
    IN  CASE p = "fifo"     -> i.at < j.at
          [] p = "priority" -> \/ priority(i) > priority(j)
                               \/ priority(i) = priority(j) /\ i.at < j.at
          [] p = "deadline" -> \/ timed(i) /\ ~timed(j)
                               \/ timed(i) /\ timed(j) /\ i.attr < j.attr
                               \/ /\ timed(i) = timed(j)
                                  /\ timed(i) => i.attr = j.attr
                                  /\ i.at < j.at

Contract == INSTANCE AbstractQueue WITH items <- storage

\* To callers that use fresh ids the queue keeps the contract of
\* base_queue.py: dequeue and peek answer a best stored task, and raise or
\* answer None only when nothing is stored.
KeepsContract ==
    /\ Contract!Init
    /\ [][env = "fresh" => Contract!Next /\ UNCHANGED policy]_<<policy, storage, reply>>

\* With fresh ids index and policy agree: every stored task has exactly one
\* live entry, with the key of the stored task, and every live entry is of a
\* stored task; only entries still in the heap are marked removed; and the
\* metrics balance, what was enqueued is stored, dequeued or cancelled.
IndexMatchesOrder == env = "fresh" =>
    /\ \A id \in Stored : \E e \in Live :
          e = [key |-> SortKey(storage[id].attr), n |-> storage[id].at, id |-> id]
    /\ \A e \in Live : e.id \in Stored
    /\ \A e, f \in order : e.id = f.id => e = f
    /\ \A e, f \in order : e.n = f.n => e = f
    /\ \A id \in removed : \E e \in order : e.id = id
    /\ \A e \in order : e.n < enqueueCount
    /\ enqueueCount = Cardinality(Stored) + dequeueCount + cancelCount

\* Whatever callers enqueue, repeated and cancelled ids included, a stored
\* task whose attribute the policy accepts can be reached by some later pop.
Reachable ==
    \A id \in Stored : storage[id].attr = Malformed \/ \E e \in Live : e.id = id
=============================================================================
