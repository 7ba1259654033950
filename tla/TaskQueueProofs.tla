-------------------------- MODULE TaskQueueProofs --------------------------
(***************************************************************************)
(* Proofs about TaskQueue, for any ids, attributes, capacity and number of *)
(* calls and for each of the policies.                                     *)
(***************************************************************************)
EXTENDS TaskQueue, FiniteSetTheorems, TLAPS

----------------------------------------------------------------------------
(* The inductive invariant.                                                *)

\* Every entry has a number of its own, given out in the order of arrival:
\* the tie-breaker that makes a policy's order total.
Numbered ==
    /\ \A e, f \in order : e.n = f.n => e = f
    /\ \A e \in order : e.n < enqueueCount

\* A caller that uses fresh ids never gets a malformed priority stored.
Accepted ==
    env = "fresh" => \A id \in Stored : ~KeyRaises(storage[id].attr)

IInv == /\ TypeOK
        /\ IsFiniteSet(Stored)
        /\ Numbered
        /\ Accepted
        /\ Reachable
        /\ IndexMatchesOrder

----------------------------------------------------------------------------
(* The policies' order.                                                    *)

\* Before orders entries strictly.
LEMMA BeforeStrict ==
    ASSUME NEW e \in Entry, NEW f \in Entry, NEW g \in Entry
    PROVE  /\ ~Before(e, e)
           /\ ~(Before(e, f) /\ Before(f, e))
           /\ Before(e, f) /\ Before(f, g) => Before(e, g)
  BY DEF Before, Entry

\* Two entries of a queue are always comparable.
LEMMA BeforeTotal ==
    ASSUME TypeOK, Numbered, NEW e \in order, NEW f \in order
    PROVE  e = f \/ Before(e, f) \/ Before(f, e)
<1>1. e \in Entry /\ f \in Entry
  BY DEF TypeOK
<1>2. /\ e.key \in Int /\ f.key \in Int /\ e.n \in Nat /\ f.n \in Nat
  BY <1>1 DEF Entry
<1>3. CASE e.n = f.n
  BY <1>3 DEF Numbered
<1>4. CASE e.n # f.n
  BY <1>2, <1>4 DEF Before
<1>5. QED
  BY <1>3, <1>4

\* An attribute the policy accepts has an integer key.
LEMMA SortKeyType ==
    ASSUME policy \in Policies, NEW a \in Attrs, ~KeyRaises(a)
    PROVE  SortKey(a) \in Int
<1>1. policy \in {"fifo", "priority", "deadline"}
  BY ConstantsAssumption
<1>2. CASE policy = "fifo"
  BY <1>2 DEF SortKey
<1>3. CASE policy = "priority"
  <2>1. a # Malformed /\ (a = Missing \/ a \in Int)
    BY <1>3, ConstantsAssumption DEF KeyRaises
  <2>2. QED
    BY <2>1, <1>3 DEF SortKey
<1>4. CASE policy = "deadline"
  <2>1. a \in {Missing, Malformed} \/ a \in Int
    BY ConstantsAssumption
  <2>2. Infinity \in Int
    BY ConstantsAssumption
  <2>3. QED
    BY <2>1, <2>2, <1>4 DEF SortKey
<1>5. QED
  BY <1>1, <1>2, <1>3, <1>4

\* What keeps an entry from being popped: its id is to be skipped once and no
\* other entry of that id comes first.
LEMMA LiveFacts ==
    ASSUME NEW e \in order
    PROVE  e \in Live <=> \/ e.id \notin removed
                          \/ \E g \in order : g.id = e.id /\ g # e /\ ~Before(e, g)
  BY DEF Live, FirstOfId

\* An item is never None.
LEMMA ItemIsSomething ==
    ASSUME NEW i \in Item PROVE i # None
  BY ConstantsAssumption DEF Item

----------------------------------------------------------------------------
(* What next(), peek() and a drained heap leave behind.                    *)

\* Popping down to e keeps every other live entry live; with one entry per id it
\* makes none live, and every mark in _removed still has its entry.
LEMMA PopFacts ==
    ASSUME TypeOK, Numbered, NEW e \in order, Top(e), PolicyNext(e) \/ PolicyPeek(e)
    PROVE  /\ order' \subseteq order /\ removed' \subseteq removed
           /\ \A f \in Live : f # e => f \in Live'
           /\ PolicyPeek(e) => e \in Live'
           /\ (\A f, g \in order : f.id = g.id => f = g) =>
                /\ \A f \in Live' : f \in Live
                /\ (\A id \in removed : \E f \in order : f.id = id)
                   => \A id \in removed' : \E f \in order' : f.id = id
           /\ PolicyNext(e) => e \notin order'
<1>1. \A f \in order : f \in Entry
  BY DEF TypeOK
<1>2. \A f, g \in order : f = g \/ Before(f, g) \/ Before(g, f)
  BY BeforeTotal
<1>3. \A f, g \in order : ~(Before(f, g) /\ Before(g, f)) /\ ~Before(f, f)
  BY <1>1, BeforeStrict
<1>4. e \in Live /\ \A f \in Live : f = e \/ Before(e, f)
  BY DEF Top
<1>5. /\ \A f \in order' : f \in order /\ (f = e \/ Before(e, f))
      /\ \A f \in order : Before(e, f) => f \in order'
      /\ PolicyPeek(e) => e \in order'
      /\ PolicyNext(e) => e \notin order'
  BY <1>3 DEF PolicyNext, PolicyPeek
<1>6. removed' = removed \ {f.id : f \in {g \in order : Before(g, e)}}
  BY DEF PolicyNext, PolicyPeek
<1>7. \A f \in order' : f \in Live' <=>
         \/ f.id \notin removed'
         \/ \E g \in order' : g.id = f.id /\ g # f /\ ~Before(f, g)
  BY DEF Live, FirstOfId
<1>8. \A f \in order : f \in Live <=>
         \/ f.id \notin removed
         \/ \E g \in order : g.id = f.id /\ g # f /\ ~Before(f, g)
  BY LiveFacts
<1>9. e.id \notin removed'
  <2>1. CASE e.id \notin removed
    BY <2>1, <1>6
  <2>2. CASE e.id \in removed
    <3>1. PICK g \in order : g.id = e.id /\ g # e /\ ~Before(e, g)
      BY <2>2, <1>4, <1>8
    <3>2. Before(g, e)
      BY <3>1, <1>2
    <3>3. QED
      BY <3>1, <3>2, <1>6
  <2>3. QED
    BY <2>1, <2>2
\* A live entry that is still there is live.
<1>10. ASSUME NEW f \in Live, f \in order' PROVE f \in Live'
  <2>1. f \in order
    BY <1>5, <1>10
  <2>2. CASE f.id \notin removed
    BY <2>2, <1>6, <1>7, <1>10
  <2>3. CASE f.id \in removed
    <3>1. PICK g \in order : g.id = f.id /\ g # f /\ ~Before(f, g)
      BY <2>1, <2>3, <1>8
    <3>2. CASE Before(g, e)
      <4>1. f.id \notin removed'
        BY <3>1, <3>2, <1>6
      <4>2. QED
        BY <4>1, <1>7, <1>10
    <3>3. CASE g = e
      BY <3>1, <3>3, <2>3, <1>7, <1>10, <1>9
    <3>4. CASE Before(e, g)
      <4>1. g \in order'
        BY <3>4, <1>5
      <4>2. QED
        BY <4>1, <3>1, <1>7, <1>10
    <3>5. QED
      BY <3>2, <3>3, <3>4, <1>2
  <2>4. QED
    BY <2>2, <2>3
<1>11. ASSUME NEW f \in Live, f # e PROVE f \in Live'
  <2>1. f \in order /\ Before(e, f)
    BY <1>11, <1>4 DEF Live
  <2>2. QED
    BY <2>1, <1>5, <1>10
<1>12. ASSUME PolicyPeek(e) PROVE e \in Live'
  BY <1>12, <1>4, <1>5, <1>10
<1>13. ASSUME \A f, g \in order : f.id = g.id => f = g
       PROVE  /\ \A f \in Live' : f \in Live
              /\ (\A id \in removed : \E f \in order : f.id = id)
                   => \A id \in removed' : \E f \in order' : f.id = id
  <2>1. ASSUME NEW f \in Live' PROVE f \in Live
    <3>1. f \in order' /\ f \in order /\ (f = e \/ Before(e, f))
      BY <2>1, <1>5 DEF Live
    <3>2. f.id \notin removed'
      BY <3>1, <2>1, <1>5, <1>7, <1>13
    <3>3. f.id \notin {g.id : g \in {h \in order : Before(h, e)}}
      BY <3>1, <1>3, <1>13
    <3>4. f.id \notin removed
      BY <3>2, <3>3, <1>6
    <3>5. QED
      BY <3>1, <3>4, <1>8
  <2>2. ASSUME \A id \in removed : \E f \in order : f.id = id, NEW id \in removed'
        PROVE  \E f \in order' : f.id = id
    <3>1. id \in removed /\ id \notin {g.id : g \in {h \in order : Before(h, e)}}
      BY <2>2, <1>6
    <3>2. PICK f \in order : f.id = id
      BY <3>1, <2>2
    <3>3. ~Before(f, e)
      BY <3>1, <3>2
    <3>4. e.id \notin removed
      BY <1>4, <1>8, <1>13
    <3>5. Before(e, f)
      BY <3>1, <3>2, <3>3, <3>4, <1>2
    <3>6. QED
      BY <3>2, <3>5, <1>5
  <2>3. QED
    BY <2>1, <2>2
<1>14. removed' \subseteq removed
  BY <1>6
<1>15. order' \subseteq order
  BY <1>5
<1>16. QED
  BY <1>5, <1>11, <1>12, <1>13, <1>14, <1>15

\* With nothing live left the loops empty the heap, and with it the marks.
LEMMA DrainFacts ==
    ASSUME Live = {}, PolicyDrain
    PROVE  /\ order' = {} /\ removed' \subseteq removed
           /\ (\A id \in removed : \E f \in order : f.id = id) => removed' = {}
  BY DEF PolicyDrain

----------------------------------------------------------------------------
(* Types.                                                                  *)

\* What a call returns.
LEMMA ReplyType ==
    ASSUME TypeOK, NEW op \in {"enqueue", "dequeue", "peek", "cancel"},
           NEW out \in Ids \cup {None, Raised}, Reply(op, out)
    PROVE  /\ policy' \in Policies /\ env' \in Environments
           /\ reply' \in [op : {"init", "enqueue", "dequeue", "peek", "cancel"},
                          out : Ids \cup {None, Raised}]
           /\ policy' = policy /\ env' = env
  BY DEF TypeOK, Reply

\* An operation answers the task or the event store's exception.
LEMMA OutcomeType ==
    ASSUME NEW id \in Ids, NEW out \in Outcome(id)
    PROVE  out \in Ids \cup {None, Raised}
  BY DEF Outcome

\* Every operation keeps the queue's fields in their types.
LEMMA TypeStep ==
    ASSUME TypeOK, Numbered, Next
    PROVE  TypeOK'
<1>1. ASSUME NEW id \in Ids, NEW a \in Attrs, Enqueue(id, a)
      PROVE  TypeOK'
  <2>1. CASE /\ Full
             /\ Reply("enqueue", None)
             /\ UNCHANGED <<storage, order, removed, counts>>
    BY <2>1, ReplyType DEF TypeOK, counts
  <2>2. CASE /\ ~Full /\ KeyRaises(a)
             /\ storage' = [storage EXCEPT ![id] = [attr |-> a, at |-> enqueueCount]]
             /\ removed' = removed \ {id}
             /\ Reply("enqueue", Raised)
             /\ UNCHANGED <<order, counts>>
    <3>1. [attr |-> a, at |-> enqueueCount] \in Item
      BY DEF TypeOK, Item
    <3>2. QED
      BY <2>2, <3>1, ReplyType DEF TypeOK, counts
  <2>3. CASE /\ ~Full /\ ~KeyRaises(a)
             /\ enqueueCount < MaxCalls
             /\ storage' = [storage EXCEPT ![id] = [attr |-> a, at |-> enqueueCount]]
             /\ PolicyAdd(id, a)
             /\ enqueueCount' = enqueueCount + 1
             /\ \E out \in Outcome(id) : Reply("enqueue", out)
             /\ UNCHANGED <<dequeueCount, cancelCount>>
    <3>1. [attr |-> a, at |-> enqueueCount] \in Item
      BY DEF TypeOK, Item
    <3>2. [key |-> SortKey(a), n |-> enqueueCount, id |-> id] \in Entry
      BY <2>3, SortKeyType DEF TypeOK, Entry
    <3>3. PICK out \in Outcome(id) : Reply("enqueue", out)
      BY <2>3
    <3>4. out \in Ids \cup {None, Raised}
      BY <3>3, OutcomeType
    <3>5. order' \subseteq Entry /\ removed' \subseteq Ids
      BY <2>3, <3>2 DEF TypeOK, PolicyAdd
    <3>6. QED
      BY <2>3, <3>1, <3>3, <3>4, <3>5, ReplyType DEF TypeOK
  <2>4. QED
    BY <1>1, <2>1, <2>2, <2>3 DEF Enqueue
<1>2. ASSUME Dequeue PROVE TypeOK'
  <2>1. ASSUME NEW e \in order, Top(e), PolicyNext(e), e.id \in Stored,
               storage' = [storage EXCEPT ![e.id] = None],
               dequeueCount' = dequeueCount + 1,
               NEW out \in Outcome(e.id), Reply("dequeue", out),
               UNCHANGED <<enqueueCount, cancelCount>>
        PROVE  TypeOK'
    <3>1. e.id \in Ids
      BY DEF TypeOK, Entry
    <3>2. out \in Ids \cup {None, Raised}
      BY <2>1, <3>1, OutcomeType
    <3>3. order' \subseteq order /\ removed' \subseteq removed
      BY <2>1, PopFacts
    <3>4. QED
      BY <2>1, <3>1, <3>2, <3>3, ReplyType DEF TypeOK
  <2>2. ASSUME NEW e \in order, Top(e), PolicyNext(e), Reply("dequeue", None),
               UNCHANGED <<storage, counts>>
        PROVE  TypeOK'
    BY <2>2, PopFacts, ReplyType DEF TypeOK, counts
  <2>3. ASSUME Live = {}, PolicyDrain, Reply("dequeue", None),
               UNCHANGED <<storage, counts>>
        PROVE  TypeOK'
    BY <2>3, DrainFacts, ReplyType DEF TypeOK, counts
  <2>4. QED
    BY <1>2, <2>1, <2>2, <2>3 DEF Dequeue
<1>3. ASSUME Peek PROVE TypeOK'
  <2>1. ASSUME NEW e \in order, Top(e), PolicyPeek(e),
               Reply("peek", IF e.id \in Stored THEN e.id ELSE None),
               UNCHANGED <<storage, counts>>
        PROVE  TypeOK'
    <3>1. (IF e.id \in Stored THEN e.id ELSE None) \in Ids \cup {None, Raised}
      BY DEF Stored
    <3>2. QED
      BY <2>1, <3>1, PopFacts, ReplyType DEF TypeOK, counts
  <2>2. ASSUME Live = {}, PolicyDrain, Reply("peek", None), UNCHANGED <<storage, counts>>
        PROVE  TypeOK'
    BY <2>2, DrainFacts, ReplyType DEF TypeOK, counts
  <2>3. QED
    BY <1>3, <2>1, <2>2 DEF Peek
<1>4. ASSUME NEW id \in Ids, Cancel(id) PROVE TypeOK'
  <2>1. CASE /\ id \in Stored
             /\ cancelCount < MaxCalls
             /\ storage' = [storage EXCEPT ![id] = None]
             /\ PolicyRemove(id)
             /\ cancelCount' = cancelCount + 1
             /\ \E out \in Outcome(id) : Reply("cancel", out)
             /\ UNCHANGED <<enqueueCount, dequeueCount>>
    <3>1. PICK out \in Outcome(id) : Reply("cancel", out)
      BY <2>1
    <3>2. out \in Ids \cup {None, Raised}
      BY <3>1, OutcomeType
    <3>3. order' \subseteq order /\ removed' \subseteq Ids
      BY <2>1 DEF TypeOK, PolicyRemove
    <3>4. QED
      BY <2>1, <3>1, <3>2, <3>3, ReplyType DEF TypeOK
  <2>2. CASE /\ id \notin Stored
             /\ Reply("cancel", None)
             /\ UNCHANGED <<storage, order, removed, counts>>
    BY <2>2, ReplyType DEF TypeOK, counts
  <2>3. QED
    BY <1>4, <2>1, <2>2 DEF Cancel
<1>5. QED
  BY <1>1, <1>2, <1>3, <1>4 DEF Next

----------------------------------------------------------------------------
(* The index.                                                              *)

\* _storage[id] = task
LEMMA StoreFacts ==
    ASSUME TypeOK, NEW id \in Ids, NEW i \in Item,
           storage' = [storage EXCEPT ![id] = i]
    PROVE  /\ Stored' = Stored \cup {id}
           /\ storage'[id] = i
           /\ \A j \in Ids : j # id => storage'[j] = storage[j]
           /\ IsFiniteSet(Stored) =>
                /\ IsFiniteSet(Stored')
                /\ Cardinality(Stored) \in Nat
                /\ id \notin Stored => Cardinality(Stored') = Cardinality(Stored) + 1
<1>1. /\ storage'[id] = i
      /\ \A j \in Ids : j # id => storage'[j] = storage[j]
  BY DEF TypeOK
<1>2. i # None
  BY ItemIsSomething
<1>3. Stored' = Stored \cup {id}
  BY <1>1, <1>2 DEF Stored
<1>4. QED
  BY <1>1, <1>3, FS_AddElement, FS_CardinalityType

\* del _storage[id]
LEMMA UnstoreFacts ==
    ASSUME TypeOK, NEW id \in Ids, id \in Stored,
           storage' = [storage EXCEPT ![id] = None]
    PROVE  /\ Stored' = Stored \ {id}
           /\ \A j \in Ids : j # id => storage'[j] = storage[j]
           /\ IsFiniteSet(Stored) =>
                /\ IsFiniteSet(Stored')
                /\ Cardinality(Stored) \in Nat
                /\ Cardinality(Stored') = Cardinality(Stored) - 1
<1>1. /\ storage'[id] = None
      /\ \A j \in Ids : j # id => storage'[j] = storage[j]
  BY DEF TypeOK
<1>2. Stored' = Stored \ {id}
  BY <1>1 DEF Stored
<1>3. QED
  BY <1>1, <1>2, FS_RemoveElement, FS_CardinalityType

----------------------------------------------------------------------------
(* The operations keep the invariant.                                      *)

\* The entry of a stored task.
EntryOf(id) == [key |-> SortKey(storage[id].attr), n |-> storage[id].at, id |-> id]

\* SortKey as a function of the policy, too.
KeyFor(p, a) ==
    CASE p = "fifo"     -> 0
      [] p = "priority" -> IF a = Missing THEN 0 ELSE 0 - a
      [] p = "deadline" -> IF a \in {Missing, Malformed} THEN Infinity ELSE a

\* The key of an entry depends on the policy and the task only.
LEMMA EntryOfFacts ==
    /\ \A a : SortKey(a) = KeyFor(policy, a)
    /\ \A j : EntryOf(j) = [key |-> KeyFor(policy, storage[j].attr),
                            n |-> storage[j].at, id |-> j]
    /\ \A j : EntryOf(j)' = [key |-> KeyFor(policy', storage'[j].attr),
                             n |-> storage'[j].at, id |-> j]
  BY Zenon DEF EntryOf, SortKey, KeyFor

\* With one entry per id a live entry is one that is not marked removed.
LEMMA LiveWhenUnique ==
    ASSUME \A e, f \in order : e.id = f.id => e = f
    PROVE  Live = {e \in order : e.id \notin removed}
  BY DEF Live, FirstOfId

\* A task that is enqueued under a fresh or a repeated id.
LEMMA AddStep ==
    ASSUME IInv, TypeOK', NEW id \in Ids, NEW a \in Attrs, MayEnqueue(id, a),
           ~KeyRaises(a),
           storage' = [storage EXCEPT ![id] = [attr |-> a, at |-> enqueueCount]],
           PolicyAdd(id, a),
           enqueueCount' = enqueueCount + 1, dequeueCount' = dequeueCount,
           cancelCount' = cancelCount, policy' = policy, env' = env
    PROVE  IInv'
<1> DEFINE new == [key |-> SortKey(a), n |-> enqueueCount, id |-> id]
<1>1. TypeOK /\ Numbered /\ Accepted /\ Reachable /\ IsFiniteSet(Stored)
  BY DEF IInv
<1>2. [attr |-> a, at |-> enqueueCount] \in Item
  BY <1>1 DEF TypeOK, Item
<1>3. /\ Stored' = Stored \cup {id}
      /\ storage'[id] = [attr |-> a, at |-> enqueueCount]
      /\ \A j \in Ids : j # id => storage'[j] = storage[j]
      /\ IsFiniteSet(Stored')
      /\ Cardinality(Stored) \in Nat
      /\ id \notin Stored => Cardinality(Stored') = Cardinality(Stored) + 1
  BY <1>1, <1>2, StoreFacts
<1>4. order' = order \cup {new} /\ removed' = removed \ {id}
  BY DEF PolicyAdd
<1>5. new.id = id /\ new.n = enqueueCount /\ new.key = SortKey(a)
  OBVIOUS
<1>6. enqueueCount \in Nat /\ \A e \in order : e.n \in Nat /\ e.n < enqueueCount
  BY <1>1 DEF TypeOK, Entry, Numbered
<1>7. Numbered'
  BY <1>1, <1>4, <1>5, <1>6 DEF Numbered
<1>8. Accepted'
  BY <1>1, <1>3 DEF Accepted, KeyRaises, Stored
<1>9. new \in Live'
  BY <1>4, <1>5 DEF Live
<1>10. ASSUME NEW f \in Live PROVE f \in Live'
  <2>1. f \in order /\ f \in order' /\ (f.id \notin removed \/ ~FirstOfId(f))
    BY <1>4 DEF Live
  <2>2. ~FirstOfId(f) => ~FirstOfId(f)'
    BY <1>4 DEF FirstOfId
  <2>3. QED
    BY <2>1, <2>2, <1>4 DEF Live
<1>11. Reachable'
  <2>1. SUFFICES ASSUME NEW j \in Stored', storage'[j].attr # Malformed
                 PROVE  \E e \in Live' : e.id = j
    BY DEF Reachable
  <2>2. CASE j = id
    BY <2>2, <1>5, <1>9
  <2>3. CASE j # id
    <3>1. j \in Stored /\ storage'[j] = storage[j]
      BY <2>1, <2>3, <1>3 DEF Stored
    <3>2. PICK e \in Live : e.id = j
      BY <2>1, <3>1, <1>1 DEF Reachable
    <3>3. QED
      BY <3>2, <1>10
  <2>4. QED
    BY <2>2, <2>3
<1>12. IndexMatchesOrder'
  <2>1. SUFFICES ASSUME env = "fresh" PROVE IndexMatchesOrder'
    BY DEF IndexMatchesOrder
  <2>2. /\ \A j \in Stored : EntryOf(j) \in Live
        /\ \A e \in Live : e.id \in Stored
        /\ \A e, f \in order : e.id = f.id => e = f
        /\ \A j \in removed : \E e \in order : e.id = j
        /\ enqueueCount = Cardinality(Stored) + dequeueCount + cancelCount
    BY <2>1 DEF IInv, IndexMatchesOrder, EntryOf
  <2>3. id \notin Stored /\ \A e \in order : e.id # id
    BY <2>1 DEF MayEnqueue
  <2>4. \A e, f \in order' : e.id = f.id => e = f
    BY <2>2, <2>3, <1>4, <1>5
  <2>5. Live = {e \in order : e.id \notin removed}
    BY <2>2, LiveWhenUnique
  <2>6. Live' = {e \in order' : e.id \notin removed'}
    BY <2>4 DEF Live, FirstOfId
  <2>7. \A j \in Stored' : EntryOf(j)' \in Live'
    <3>1. ASSUME NEW j \in Stored' PROVE EntryOf(j)' \in Live'
      <4>1. CASE j = id
        <5>1. storage'[j].attr = a /\ storage'[j].at = enqueueCount
          BY <4>1, <1>3
        <5>2. EntryOf(j)' = new
          BY <4>1, <5>1, EntryOfFacts
        <5>3. QED
          BY <5>2, <1>9
      <4>2. CASE j # id
        <5>1. j \in Stored /\ storage'[j] = storage[j]
          BY <3>1, <4>2, <1>3 DEF Stored
        <5>2. EntryOf(j)' = EntryOf(j)
          BY <5>1, EntryOfFacts
        <5>3. QED
          BY <5>1, <5>2, <2>2, <1>10
      <4>3. QED
        BY <4>1, <4>2
    <3>2. QED
      BY <3>1
  <2>8. \A e \in Live' : e.id \in Stored'
    BY <2>2, <2>3, <2>5, <2>6, <1>3, <1>4, <1>5
  <2>9. \A j \in removed' : \E e \in order' : e.id = j
    BY <2>2, <1>4
  <2>10. enqueueCount' = Cardinality(Stored') + dequeueCount' + cancelCount'
    BY <2>2, <2>3, <1>1, <1>3 DEF TypeOK
  <2>11. QED
    BY <2>4, <2>7, <2>8, <2>9, <2>10, <1>7 DEF IndexMatchesOrder, EntryOf, Numbered
<1>13. QED
  BY <1>3, <1>7, <1>8, <1>11, <1>12 DEF IInv

\* A task whose priority cannot be negated: it is stored, and the policy has
\* dropped its mark before it raises.
LEMMA RejectStep ==
    ASSUME IInv, TypeOK', NEW id \in Ids, NEW a \in Attrs, MayEnqueue(id, a),
           KeyRaises(a),
           storage' = [storage EXCEPT ![id] = [attr |-> a, at |-> enqueueCount]],
           removed' = removed \ {id}, order' = order,
           UNCHANGED counts, policy' = policy, env' = env
    PROVE  IInv'
<1>1. TypeOK /\ Numbered /\ Reachable /\ IsFiniteSet(Stored) /\ counts' = counts
  BY DEF IInv
<1>2. env # "fresh" /\ a = Malformed
  BY DEF MayEnqueue, KeyRaises
<1>3. [attr |-> a, at |-> enqueueCount] \in Item
  BY <1>1 DEF TypeOK, Item
<1>4. /\ Stored' = Stored \cup {id}
      /\ storage'[id] = [attr |-> a, at |-> enqueueCount]
      /\ \A j \in Ids : j # id => storage'[j] = storage[j]
      /\ IsFiniteSet(Stored')
  BY <1>1, <1>3, StoreFacts
<1>5. Numbered'
  BY <1>1 DEF Numbered, counts
<1>6. \A f \in Live : f \in Live'
  BY DEF Live, FirstOfId
<1>7. Reachable'
  BY <1>1, <1>2, <1>4, <1>6 DEF Reachable, Stored
<1>8. Accepted' /\ IndexMatchesOrder'
  BY <1>2 DEF Accepted, IndexMatchesOrder
<1>9. QED
  BY <1>4, <1>5, <1>7, <1>8 DEF IInv

\* A stored task is popped and handed out.
LEMMA DequeueStep ==
    ASSUME IInv, TypeOK', NEW e \in order, Top(e), PolicyNext(e), e.id \in Stored,
           storage' = [storage EXCEPT ![e.id] = None],
           dequeueCount' = dequeueCount + 1, enqueueCount' = enqueueCount,
           cancelCount' = cancelCount, policy' = policy, env' = env
    PROVE  IInv'
<1>1. TypeOK /\ Numbered /\ Accepted /\ Reachable /\ IsFiniteSet(Stored)
  BY DEF IInv
<1>2. e.id \in Ids
  BY DEF Stored
<1>3. /\ Stored' = Stored \ {e.id}
      /\ \A j \in Ids : j # e.id => storage'[j] = storage[j]
      /\ IsFiniteSet(Stored')
      /\ Cardinality(Stored) \in Nat
      /\ Cardinality(Stored') = Cardinality(Stored) - 1
  BY <1>1, <1>2, UnstoreFacts
<1>4. /\ order' \subseteq order /\ removed' \subseteq removed
      /\ \A f \in Live : f # e => f \in Live'
      /\ e \notin order'
  BY <1>1, PopFacts
<1>5. Numbered'
  BY <1>1, <1>4 DEF Numbered
<1>6. Accepted'
  BY <1>1, <1>3 DEF Accepted, KeyRaises, Stored
<1>7. Reachable'
  BY <1>1, <1>3, <1>4 DEF Reachable, Stored
<1>8. IndexMatchesOrder'
  <2>1. SUFFICES ASSUME env = "fresh" PROVE IndexMatchesOrder'
    BY DEF IndexMatchesOrder
  <2>2. /\ \A j \in Stored : EntryOf(j) \in Live
        /\ \A f \in Live : f.id \in Stored
        /\ \A f, g \in order : f.id = g.id => f = g
        /\ \A j \in removed : \E f \in order : f.id = j
        /\ enqueueCount = Cardinality(Stored) + dequeueCount + cancelCount
    BY <2>1 DEF IInv, IndexMatchesOrder, EntryOf
  <2>3. /\ \A f \in Live' : f \in Live
        /\ \A id \in removed' : \E f \in order' : f.id = id
    BY <2>2, <1>1, PopFacts
  <2>4. \A f, g \in order' : f.id = g.id => f = g
    BY <2>2, <1>4
  <2>5. \A j \in Stored' : EntryOf(j)' \in Live'
    <3>1. SUFFICES ASSUME NEW j \in Stored' PROVE EntryOf(j)' \in Live'
      OBVIOUS
    <3>2. j \in Stored /\ j # e.id /\ storage'[j] = storage[j]
      BY <1>3 DEF Stored
    <3>3. EntryOf(j)' = EntryOf(j) /\ EntryOf(j).id = j
      BY <3>2, EntryOfFacts
    <3>4. QED
      BY <3>2, <3>3, <2>2, <1>4
  <2>6. \A f \in Live' : f.id \in Stored'
    <3>1. SUFFICES ASSUME NEW f \in Live' PROVE f.id \in Stored'
      OBVIOUS
    <3>2. f \in Live /\ f \in order /\ f # e
      BY <2>3, <1>4 DEF Live
    <3>3. QED
      BY <3>2, <2>2, <1>3
  <2>7. enqueueCount' = Cardinality(Stored') + dequeueCount' + cancelCount'
    BY <2>2, <1>1, <1>3 DEF TypeOK
  <2>8. QED
    BY <2>3, <2>4, <2>5, <2>6, <2>7, <1>5 DEF IndexMatchesOrder, EntryOf, Numbered
<1>9. QED
  BY <1>3, <1>5, <1>6, <1>7, <1>8 DEF IInv

\* The heap is tidied, and the index left alone: peek, or a dequeue that pops the
\* entry of a task the index does not have.
LEMMA TidyStep ==
    ASSUME IInv, TypeOK', NEW e \in order, Top(e),
           PolicyPeek(e) \/ (PolicyNext(e) /\ e.id \notin Stored),
           UNCHANGED <<storage, counts>>, policy' = policy, env' = env
    PROVE  IInv'
<1>1. TypeOK /\ Numbered /\ Accepted /\ Reachable /\ IsFiniteSet(Stored)
  BY DEF IInv
<1>2. /\ order' \subseteq order /\ removed' \subseteq removed
      /\ \A f \in Live : f # e => f \in Live'
      /\ PolicyPeek(e) => e \in Live'
  BY <1>1, PopFacts
<1>3. /\ storage' = storage /\ enqueueCount' = enqueueCount
      /\ dequeueCount' = dequeueCount /\ cancelCount' = cancelCount
  BY DEF counts
<1>4. Stored' = Stored
  BY <1>3 DEF Stored
<1>5. Numbered'
  BY <1>1, <1>2, <1>3 DEF Numbered
<1>6. Accepted'
  BY <1>1, <1>3, <1>4 DEF Accepted, KeyRaises
<1>7. Reachable'
  BY <1>1, <1>2, <1>3, <1>4 DEF Reachable
<1>8. IndexMatchesOrder'
  <2>1. SUFFICES ASSUME env = "fresh" PROVE IndexMatchesOrder'
    BY DEF IndexMatchesOrder
  <2>2. /\ \A j \in Stored : EntryOf(j) \in Live
        /\ \A f \in Live : f.id \in Stored
        /\ \A f, g \in order : f.id = g.id => f = g
        /\ \A j \in removed : \E f \in order : f.id = j
        /\ enqueueCount = Cardinality(Stored) + dequeueCount + cancelCount
    BY <2>1 DEF IInv, IndexMatchesOrder, EntryOf
  <2>3. /\ \A f \in Live' : f \in Live
        /\ \A id \in removed' : \E f \in order' : f.id = id
    BY <2>2, <1>1, PopFacts
  <2>4. \A f, g \in order' : f.id = g.id => f = g
    BY <2>2, <1>2
  <2>5. e \in Live
    BY DEF Top
  <2>6. \A f \in Live : f \in Live'
    BY <2>2, <2>5, <1>2
  <2>7. \A j \in Stored' : EntryOf(j)' \in Live'
    <3>1. SUFFICES ASSUME NEW j \in Stored PROVE EntryOf(j)' \in Live'
      BY <1>4
    <3>2. EntryOf(j)' = EntryOf(j)
      BY <1>3, EntryOfFacts
    <3>3. QED
      BY <3>2, <2>2, <2>6
  <2>8. \A f \in Live' : f.id \in Stored'
    BY <2>2, <2>3, <1>4
  <2>9. QED
    BY <2>2, <2>3, <2>4, <2>7, <2>8, <1>3, <1>4, <1>5
       DEF IndexMatchesOrder, EntryOf, Numbered
<1>9. QED
  BY <1>1, <1>4, <1>5, <1>6, <1>7, <1>8 DEF IInv

\* The loops run to the end of the heap and find nothing.
LEMMA DrainStep ==
    ASSUME IInv, TypeOK', Live = {}, PolicyDrain,
           UNCHANGED <<storage, counts>>, policy' = policy, env' = env
    PROVE  IInv'
<1>1. TypeOK /\ Numbered /\ Accepted /\ Reachable /\ IsFiniteSet(Stored)
  BY DEF IInv
<1>2. order' = {} /\ Live' = {}
  BY DrainFacts DEF Live
<1>3. /\ storage' = storage /\ enqueueCount' = enqueueCount
      /\ dequeueCount' = dequeueCount /\ cancelCount' = cancelCount
  BY DEF counts
<1>4. Stored' = Stored
  BY <1>3 DEF Stored
<1>5. Numbered' /\ Accepted' /\ Reachable'
  BY <1>1, <1>2, <1>3, <1>4 DEF Numbered, Accepted, Reachable, KeyRaises
<1>6. IndexMatchesOrder'
  <2>1. SUFFICES ASSUME env = "fresh" PROVE IndexMatchesOrder'
    BY DEF IndexMatchesOrder
  <2>2. /\ \A j \in Stored : EntryOf(j) \in Live
        /\ \A j \in removed : \E f \in order : f.id = j
        /\ enqueueCount = Cardinality(Stored) + dequeueCount + cancelCount
    BY <2>1 DEF IInv, IndexMatchesOrder, EntryOf
  <2>3. removed' = {} /\ Stored' = {}
    BY <2>2, <1>4, DrainFacts
  <2>4. QED
    BY <2>2, <2>3, <1>2, <1>3, <1>4 DEF IndexMatchesOrder
<1>7. QED
  BY <1>1, <1>4, <1>5, <1>6 DEF IInv

\* A stored task is cancelled: its entry goes at once, or at the next pop.
LEMMA CancelStep ==
    ASSUME IInv, TypeOK', NEW id \in Ids, id \in Stored,
           storage' = [storage EXCEPT ![id] = None], PolicyRemove(id),
           cancelCount' = cancelCount + 1, enqueueCount' = enqueueCount,
           dequeueCount' = dequeueCount, policy' = policy, env' = env
    PROVE  IInv'
<1>1. TypeOK /\ Numbered /\ Accepted /\ Reachable /\ IsFiniteSet(Stored)
  BY DEF IInv
<1>2. /\ Stored' = Stored \ {id}
      /\ \A j \in Ids : j # id => storage'[j] = storage[j]
      /\ IsFiniteSet(Stored')
      /\ Cardinality(Stored) \in Nat
      /\ Cardinality(Stored') = Cardinality(Stored) - 1
  BY <1>1, UnstoreFacts
<1>3. /\ order' \subseteq order
      /\ \A f \in order : f.id # id => f \in order'
      /\ \A j : j # id => (j \in removed' <=> j \in removed)
  BY DEF PolicyRemove
<1>4. Numbered'
  BY <1>1, <1>3 DEF Numbered
<1>5. Accepted'
  BY <1>1, <1>2 DEF Accepted, KeyRaises, Stored
<1>6. ASSUME NEW f \in Live, f.id # id PROVE f \in Live'
  <2>1. f \in order /\ f \in order' /\ (f.id \notin removed \/ ~FirstOfId(f))
    BY <1>3, <1>6 DEF Live
  <2>2. ~FirstOfId(f) => ~FirstOfId(f)'
    BY <1>3, <1>6 DEF FirstOfId
  <2>3. QED
    BY <2>1, <2>2, <1>3, <1>6 DEF Live
<1>7. Reachable'
  BY <1>1, <1>2, <1>6 DEF Reachable, Stored
<1>8. IndexMatchesOrder'
  <2>1. SUFFICES ASSUME env = "fresh" PROVE IndexMatchesOrder'
    BY DEF IndexMatchesOrder
  <2>2. /\ \A j \in Stored : EntryOf(j) \in Live
        /\ \A f \in Live : f.id \in Stored
        /\ \A f, g \in order : f.id = g.id => f = g
        /\ \A j \in removed : \E f \in order : f.id = j
        /\ enqueueCount = Cardinality(Stored) + dequeueCount + cancelCount
    BY <2>1 DEF IInv, IndexMatchesOrder, EntryOf
  <2>3. \A f, g \in order' : f.id = g.id => f = g
    BY <2>2, <1>3
  <2>4. Live = {f \in order : f.id \notin removed}
    BY <2>2, LiveWhenUnique
  <2>5. Live' = {f \in order' : f.id \notin removed'}
    BY <2>3 DEF Live, FirstOfId
  <2>6. EntryOf(id) \in Live /\ EntryOf(id).id = id
    BY <2>2, EntryOfFacts
  <2>7. id \notin removed /\ EntryOf(id) \in order
    BY <2>4, <2>6
  <2>8. \A f \in order : f.id = id => FirstOfId(f)
    BY <2>2 DEF FirstOfId
  <2>9. \A f \in Live' : f.id \in Stored'
    <3>1. SUFFICES ASSUME NEW f \in Live' PROVE f.id \in Stored'
      OBVIOUS
    <3>2. f \in order' /\ f.id \notin removed' /\ f \in order
      BY <2>5, <1>3
    <3>3. f.id # id
      BY <3>2, <2>8 DEF PolicyRemove
    <3>4. f \in Live
      BY <3>2, <3>3, <2>4, <1>3
    <3>5. QED
      BY <3>3, <3>4, <2>2, <1>2
  <2>10. \A j \in Stored' : EntryOf(j)' \in Live'
    <3>1. SUFFICES ASSUME NEW j \in Stored' PROVE EntryOf(j)' \in Live'
      OBVIOUS
    <3>2. j \in Stored /\ j # id /\ storage'[j] = storage[j]
      BY <1>2 DEF Stored
    <3>3. EntryOf(j)' = EntryOf(j) /\ EntryOf(j).id = j
      BY <3>2, EntryOfFacts
    <3>4. QED
      BY <3>2, <3>3, <2>2, <1>6
  <2>11. \A j \in removed' : \E f \in order' : f.id = j
    <3>1. SUFFICES ASSUME NEW j \in removed' PROVE \E f \in order' : f.id = j
      OBVIOUS
    <3>2. CASE j = id
      <4>1. order' = order
        BY <3>1, <3>2, <2>7 DEF PolicyRemove
      <4>2. QED
        BY <4>1, <3>2, <2>6, <2>7
    <3>3. CASE j # id
      BY <3>1, <3>3, <2>2, <1>3
    <3>4. QED
      BY <3>2, <3>3
  <2>12. enqueueCount' = Cardinality(Stored') + dequeueCount' + cancelCount'
    BY <2>2, <1>1, <1>2 DEF TypeOK
  <2>13. QED
    BY <2>3, <2>9, <2>10, <2>11, <2>12, <1>4 DEF IndexMatchesOrder, EntryOf, Numbered
<1>9. QED
  BY <1>2, <1>4, <1>5, <1>7, <1>8 DEF IInv

\* A call that changes nothing but its reply.
LEMMA IdleStep ==
    ASSUME IInv, TypeOK', UNCHANGED <<storage, order, removed, counts>>,
           policy' = policy, env' = env
    PROVE  IInv'
<1>1. /\ storage' = storage /\ order' = order /\ removed' = removed
      /\ enqueueCount' = enqueueCount /\ dequeueCount' = dequeueCount
      /\ cancelCount' = cancelCount
  BY DEF counts
<1>2. Stored' = Stored /\ Live' = Live
  BY <1>1 DEF Stored, Live, FirstOfId
<1>3. Numbered' /\ Accepted' /\ Reachable' /\ IsFiniteSet(Stored')
  BY <1>1, <1>2 DEF IInv, Numbered, Accepted, Reachable, KeyRaises
<1>4. \A j : EntryOf(j)' = EntryOf(j)
  BY <1>1, EntryOfFacts
<1>5. IndexMatchesOrder'
  BY <1>1, <1>2, <1>4 DEF IInv, IndexMatchesOrder, EntryOf
<1>6. QED
  BY <1>3, <1>5 DEF IInv

\* Init satisfies the invariant.
LEMMA InitIInv == Init => IInv
<1> SUFFICES ASSUME Init PROVE IInv
  OBVIOUS
<1>2. TypeOK
  BY DEF Init, TypeOK
<1>3. Stored = {} /\ order = {} /\ removed = {} /\ Live = {}
  BY DEF Init, Stored, Live
<1>4. IsFiniteSet(Stored) /\ Cardinality(Stored) = 0
  BY <1>3, FS_EmptySet
<1>5. Numbered /\ Accepted /\ Reachable
  BY <1>3 DEF Numbered, Accepted, Reachable
<1>6. IndexMatchesOrder
  BY <1>3, <1>4 DEF Init, IndexMatchesOrder
<1>7. QED
  BY <1>2, <1>4, <1>5, <1>6 DEF IInv

\* Every operation, and a step that is none, keeps the invariant.
LEMMA NextIInv == IInv /\ [Next]_vars => IInv'
<1> SUFFICES ASSUME IInv, [Next]_vars PROVE IInv'
  OBVIOUS
<1>2. TypeOK /\ Numbered
  BY DEF IInv
<1>3. CASE Next
  <2>1. TypeOK'
    BY <1>2, <1>3, TypeStep
  <2>2. ASSUME NEW id \in Ids, NEW a \in Attrs, Enqueue(id, a)
        PROVE  IInv'
    <3>1. CASE ~Full /\ KeyRaises(a)
      BY <2>1, <2>2, <3>1, RejectStep DEF Enqueue, Reply
    <3>2. CASE ~Full /\ ~KeyRaises(a)
      BY <2>1, <2>2, <3>2, AddStep DEF Enqueue, Reply
    <3>3. CASE Full
      BY <2>1, <2>2, <3>3, IdleStep DEF Enqueue, Reply
    <3>4. QED
      BY <3>1, <3>2, <3>3
  <2>3. ASSUME Dequeue PROVE IInv'
    <3>1. ASSUME NEW e \in order, Top(e), PolicyNext(e), e.id \in Stored,
                 storage' = [storage EXCEPT ![e.id] = None],
                 dequeueCount' = dequeueCount + 1,
                 \E out \in Outcome(e.id) : Reply("dequeue", out),
                 UNCHANGED <<enqueueCount, cancelCount>>
          PROVE  IInv'
      BY <2>1, <3>1, DequeueStep DEF Reply
    <3>2. ASSUME NEW e \in order, Top(e), PolicyNext(e), e.id \notin Stored,
                 Reply("dequeue", None), UNCHANGED <<storage, counts>>
          PROVE  IInv'
      BY <2>1, <3>2, TidyStep DEF Reply
    <3>3. ASSUME Live = {}, PolicyDrain, Reply("dequeue", None),
                 UNCHANGED <<storage, counts>>
          PROVE  IInv'
      BY <2>1, <3>3, DrainStep DEF Reply
    <3>4. QED
      BY <2>3, <3>1, <3>2, <3>3 DEF Dequeue
  <2>4. ASSUME Peek PROVE IInv'
    <3>1. ASSUME NEW e \in order, Top(e), PolicyPeek(e),
                 Reply("peek", IF e.id \in Stored THEN e.id ELSE None),
                 UNCHANGED <<storage, counts>>
          PROVE  IInv'
      BY <2>1, <3>1, TidyStep DEF Reply
    <3>2. ASSUME Live = {}, PolicyDrain, Reply("peek", None),
                 UNCHANGED <<storage, counts>>
          PROVE  IInv'
      BY <2>1, <3>2, DrainStep DEF Reply
    <3>3. QED
      BY <2>4, <3>1, <3>2 DEF Peek
  <2>5. ASSUME NEW id \in Ids, Cancel(id) PROVE IInv'
    <3>1. CASE id \in Stored
      BY <2>1, <2>5, <3>1, CancelStep DEF Cancel, Reply
    <3>2. CASE id \notin Stored
      BY <2>1, <2>5, <3>2, IdleStep DEF Cancel, Reply
    <3>3. QED
      BY <3>1, <3>2
  <2>6. QED
    BY <1>3, <2>2, <2>3, <2>4, <2>5 DEF Next
<1>4. CASE UNCHANGED vars
  <2>1. TypeOK'
    BY <1>2, <1>4 DEF TypeOK, vars
  <2>2. QED
    BY <1>4, <2>1, IdleStep DEF vars, counts
<1>5. QED
  BY <1>3, <1>4

----------------------------------------------------------------------------
(* Theorems.                                                               *)

\* InMemoryTaskQueue keeps its fields in their types under any sequence of calls.
THEOREM Typing == Spec => []TypeOK
<1>1. IInv => TypeOK
  BY DEF IInv
<1>2. QED
  BY <1>1, InitIInv, NextIInv, PTL DEF Spec

\* With fresh ids the index and the policy's order never come apart, for any
\* number of tasks and calls (in_memory_queue.py, policy.py).
THEOREM IndexAndOrder == Spec => []IndexMatchesOrder
<1>1. IInv => IndexMatchesOrder
  BY DEF IInv
<1>2. QED
  BY <1>1, InitIInv, NextIInv, PTL DEF Spec

\* Whatever is enqueued, cancelled and enqueued again, the lazy deletion of the
\* heap policies never hides a stored task for good.
THEOREM NothingHidden == Spec => []Reachable
<1>1. IInv => Reachable
  BY DEF IInv
<1>2. QED
  BY <1>1, InitIInv, NextIInv, PTL DEF Spec

----------------------------------------------------------------------------
(* The contract of base_queue.py.                                          *)

\* The announced orders, policy by policy.
LEMMA BetterCases ==
    ASSUME NEW i, NEW j
    PROVE  /\ Better("fifo", i, j) <=> i.at < j.at
           /\ Better("priority", i, j) <=>
                LET a == IF i.attr = Missing THEN 0 ELSE i.attr
                    b == IF j.attr = Missing THEN 0 ELSE j.attr
                IN  a > b \/ (a = b /\ i.at < j.at)
           /\ Better("deadline", i, j) <=>
                LET timed(x) == x.attr \notin {Missing, Malformed}
                IN  \/ timed(i) /\ ~timed(j)
                    \/ timed(i) /\ timed(j) /\ i.attr < j.attr
                    \/ /\ timed(i) = timed(j)
                       /\ timed(i) => i.attr = j.attr
                       /\ i.at < j.at
  BY Zenon DEF Better

\* The sort keys, policy by policy.
LEMMA KeyForCases ==
    ASSUME NEW a
    PROVE  /\ KeyFor("fifo", a) = 0
           /\ KeyFor("priority", a) = IF a = Missing THEN 0 ELSE 0 - a
           /\ KeyFor("deadline", a) = IF a \in {Missing, Malformed} THEN Infinity ELSE a
  BY Zenon DEF KeyFor

\* The keys give the order that the policies announce.
LEMMA KeysAreHonest ==
    ASSUME policy \in Policies, NEW i \in Item, NEW j \in Item,
           ~KeyRaises(i.attr), ~KeyRaises(j.attr),
           \/ KeyFor(policy, i.attr) < KeyFor(policy, j.attr)
           \/ KeyFor(policy, i.attr) = KeyFor(policy, j.attr) /\ i.at < j.at
    PROVE  ~Better(policy, j, i)
<1>1. policy \in {"fifo", "priority", "deadline"}
  BY ConstantsAssumption
<1>2. /\ i.at \in Nat /\ j.at \in Nat
      /\ i.attr \in Int \cup {Missing, Malformed}
      /\ j.attr \in Int \cup {Missing, Malformed}
      /\ Missing \notin Int /\ Malformed \notin Int
  BY ConstantsAssumption DEF Item
<1>3. CASE policy = "fifo"
  BY <1>2, <1>3, BetterCases, KeyForCases
<1>4. CASE policy = "priority"
  <2>1. i.attr # Malformed /\ j.attr # Malformed
    BY <1>4 DEF KeyRaises
  <2> DEFINE a == IF i.attr = Missing THEN 0 ELSE i.attr
             b == IF j.attr = Missing THEN 0 ELSE j.attr
  <2>2. a \in Int /\ b \in Int
    BY <2>1, <1>2
  <2>3. KeyFor(policy, i.attr) = 0 - a /\ KeyFor(policy, j.attr) = 0 - b
    BY <1>4, KeyForCases
  <2>4. a > b \/ (a = b /\ i.at < j.at)
    BY <2>2, <2>3
  <2>5. Better(policy, j, i) <=> b > a \/ (b = a /\ j.at < i.at)
    BY <1>4, BetterCases
  <2> HIDE DEF a, b
  <2>6. QED
    BY <2>2, <2>4, <2>5, <1>2
<1>5. CASE policy = "deadline"
  <2>1. /\ KeyFor(policy, i.attr) = IF i.attr \in {Missing, Malformed} THEN Infinity ELSE i.attr
        /\ KeyFor(policy, j.attr) = IF j.attr \in {Missing, Malformed} THEN Infinity ELSE j.attr
    BY <1>5, KeyForCases
  <2>2. /\ Infinity \in Int
        /\ i.attr \in Int => i.attr < Infinity
        /\ j.attr \in Int => j.attr < Infinity
    BY ConstantsAssumption DEF Item
  <2>3. Better(policy, j, i) <=>
          LET timed(x) == x.attr \notin {Missing, Malformed}
          IN  \/ timed(j) /\ ~timed(i)
              \/ timed(j) /\ timed(i) /\ j.attr < i.attr
              \/ /\ timed(j) = timed(i)
                 /\ timed(j) => j.attr = i.attr
                 /\ j.at < i.at
    BY <1>5, BetterCases
  <2>4. QED
    BY <2>1, <2>2, <2>3, <1>2
<1>6. QED
  BY <1>1, <1>3, <1>4, <1>5

\* The entry at which the pop loop stops is that of a best stored task.
LEMMA TopIsBest ==
    ASSUME IInv, env = "fresh", NEW e \in order, Top(e)
    PROVE  e.id \in Stored /\ Contract!Best(e.id)
<1>1. /\ \A j \in Stored : EntryOf(j) \in Live
      /\ \A f \in Live : f.id \in Stored
      /\ \A f, g \in order : f.id = g.id => f = g
  BY DEF IInv, IndexMatchesOrder, EntryOf
<1>2. e \in Live /\ \A f \in Live : f = e \/ Before(e, f)
  BY DEF Top
<1>3. e.id \in Stored
  BY <1>1, <1>2
<1>4. \A j : EntryOf(j).id = j /\ EntryOf(j).n = storage[j].at
             /\ EntryOf(j).key = KeyFor(policy, storage[j].attr)
  BY EntryOfFacts
<1>5. e = EntryOf(e.id)
  BY <1>1, <1>3, <1>4 DEF Live
<1>6. \A j \in Stored : j \in Ids /\ storage[j] \in Item /\ ~KeyRaises(storage[j].attr)
  BY DEF IInv, TypeOK, Accepted, Stored
<1>7. ASSUME NEW j \in Stored, j # e.id PROVE ~Better(policy, storage[j], storage[e.id])
  <2>1. Before(EntryOf(e.id), EntryOf(j))
    BY <1>1, <1>2, <1>4, <1>5, <1>7
  <2>2. policy \in Policies
    BY DEF IInv, TypeOK
  <2>3. QED
    BY <2>1, <2>2, <1>3, <1>4, <1>6, KeysAreHonest DEF Before
<1>8. QED
  BY <1>3, <1>7 DEF Contract!Best, Contract!Held, Stored

\* Every operation of a queue whose callers use fresh ids is one of the contract.
LEMMA ContractStep ==
    ASSUME IInv, Next, env = "fresh"
    PROVE  Contract!Next /\ UNCHANGED policy
<1>1. \A id \in Ids : Outcome(id) = {id}
  BY DEF Outcome
<1>2. TypeOK
  BY DEF IInv
<1>3. Contract!Held = Stored /\ Contract!Item = Item
  BY DEF Contract!Held, Stored, Contract!Item, Item
<1>4. /\ \A f \in Live : f.id \in Stored
      /\ \A j \in Stored : \E f \in Live : f.id = j
  BY DEF IInv, IndexMatchesOrder
<1>5. ASSUME NEW id \in Ids, NEW a \in Attrs, Enqueue(id, a)
      PROVE  Contract!Next /\ UNCHANGED policy
  <2>1. ~KeyRaises(a)
    BY <1>5 DEF Enqueue, MayEnqueue
  <2>2. CASE Full
    <3>1. Contract!Refuse("enqueue") /\ UNCHANGED policy
      BY <1>5, <2>2 DEF Enqueue, Reply, Contract!Refuse
    <3>2. QED
      BY <3>1 DEF Contract!Next
  <2>3. CASE ~Full
    <3>1. /\ storage' = [storage EXCEPT ![id] = [attr |-> a, at |-> enqueueCount]]
          /\ \E out \in Outcome(id) : Reply("enqueue", out)
      BY <1>5, <2>1, <2>3 DEF Enqueue
    <3>2. reply' = [op |-> "enqueue", out |-> id] /\ UNCHANGED policy
      BY <3>1, <1>1 DEF Reply
    <3>3. [attr |-> a, at |-> enqueueCount] \in Item
      BY <1>2 DEF TypeOK, Item
    <3>4. storage'[id] = [attr |-> a, at |-> enqueueCount]
      BY <3>1, <1>2 DEF TypeOK
    <3>5. storage' = [storage EXCEPT ![id] = storage'[id]]
      BY <3>1, <3>4
    <3>6. storage'[id] \in Contract!Item
      BY <3>3, <3>4, <1>3
    <3>7. Contract!Enqueue(id)
      BY <3>2, <3>5, <3>6, Zenon DEF Contract!Enqueue
    <3>8. QED
      BY <3>2, <3>7 DEF Contract!Next
  <2>4. QED
    BY <2>2, <2>3
<1>6. ASSUME Dequeue PROVE Contract!Next /\ UNCHANGED policy
  <2>1. ASSUME NEW e \in order, Top(e), e.id \in Stored,
               storage' = [storage EXCEPT ![e.id] = None],
               \E out \in Outcome(e.id) : Reply("dequeue", out)
        PROVE  Contract!Next /\ UNCHANGED policy
    <3>1. e.id \in Ids
      BY <2>1 DEF Stored
    <3>2. reply' = [op |-> "dequeue", out |-> e.id] /\ UNCHANGED policy
      BY <2>1, <3>1, <1>1 DEF Reply
    <3>3. Contract!Dequeue(e.id)
      BY <2>1, <3>2, TopIsBest DEF Contract!Dequeue
    <3>4. QED
      BY <3>1, <3>2, <3>3 DEF Contract!Next
  <2>2. ASSUME NEW e \in order, Top(e) PROVE e.id \in Stored
    BY <2>2, TopIsBest
  <2>3. ASSUME Live = {}, Reply("dequeue", None), UNCHANGED <<storage, counts>>
        PROVE  Contract!Next /\ UNCHANGED policy
    <3>1. Contract!Refuse("dequeue") /\ UNCHANGED policy
      BY <2>3, <1>3, <1>4 DEF Reply, Contract!Refuse
    <3>2. QED
      BY <3>1 DEF Contract!Next
  <2>4. QED
    BY <1>6, <2>1, <2>2, <2>3 DEF Dequeue
<1>7. ASSUME Peek PROVE Contract!Next /\ UNCHANGED policy
  <2>1. storage' = storage
    BY <1>7 DEF Peek
  <2>2. ASSUME NEW e \in order, Top(e),
               Reply("peek", IF e.id \in Stored THEN e.id ELSE None)
        PROVE  Contract!Next /\ UNCHANGED policy
    <3>1. e.id \in Stored /\ Contract!Best(e.id) /\ e.id \in Ids
      BY <2>2, TopIsBest DEF Stored
    <3>2. Contract!Peek(e.id) /\ UNCHANGED policy
      BY <2>1, <2>2, <3>1 DEF Reply, Contract!Peek
    <3>3. QED
      BY <3>1, <3>2 DEF Contract!Next
  <2>3. ASSUME Live = {}, Reply("peek", None) PROVE Contract!Next /\ UNCHANGED policy
    <3>1. Contract!Refuse("peek") /\ UNCHANGED policy
      BY <2>1, <2>3, <1>3, <1>4 DEF Reply, Contract!Refuse
    <3>2. QED
      BY <3>1 DEF Contract!Next
  <2>4. QED
    BY <1>7, <2>2, <2>3 DEF Peek
<1>8. ASSUME NEW id \in Ids, Cancel(id) PROVE Contract!Next /\ UNCHANGED policy
  <2>1. CASE id \in Stored
    <3>1. /\ storage' = [storage EXCEPT ![id] = None]
          /\ \E out \in Outcome(id) : Reply("cancel", out)
      BY <1>8, <2>1 DEF Cancel
    <3>2. reply' = [op |-> "cancel", out |-> id] /\ UNCHANGED policy
      BY <3>1, <1>1 DEF Reply
    <3>3. Contract!Cancel(id)
      BY <3>1, <3>2, <2>1, <1>3 DEF Contract!Cancel
    <3>4. QED
      BY <3>2, <3>3 DEF Contract!Next
  <2>2. CASE id \notin Stored
    <3>1. Contract!Refuse("cancel") /\ UNCHANGED policy
      BY <1>8, <2>2 DEF Cancel, Reply, Contract!Refuse
    <3>2. QED
      BY <3>1 DEF Contract!Next
  <2>3. QED
    BY <2>1, <2>2
<1>9. QED
  BY <1>5, <1>6, <1>7, <1>8 DEF Next

\* InMemoryTaskQueue implements the contract of BaseTaskQueue for callers that
\* use fresh ids, under each policy, for any number of tasks, capacity and calls:
\* dequeue and peek answer a best stored task and report emptiness only when
\* nothing is stored.
THEOREM Refinement == Spec => KeepsContract
<1>1. Init => Contract!Init
  BY DEF Init, Contract!Init
<1>2. IInv /\ [Next]_vars
        => [env = "fresh" => Contract!Next /\ UNCHANGED policy]_<<policy, storage, reply>>
  BY ContractStep DEF vars
<1>3. QED
  BY <1>1, <1>2, InitIInv, NextIInv, PTL DEF Spec, KeepsContract

=============================================================================
