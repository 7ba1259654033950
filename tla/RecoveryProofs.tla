--------------------------- MODULE RecoveryProofs ---------------------------
(***************************************************************************)
(* Proofs about Recovery, for any number of tasks and workers: what the    *)
(* log replays to is the queue, what it says of a task is not ahead of the *)
(* truth, a first wait is not forgotten, and recovery from the latest      *)
(* checkpoint agrees with recovery from genesis.                           *)
(***************************************************************************)
EXTENDS Recovery, SequenceTheorems, WellFoundedInduction, TLAPS

----------------------------------------------------------------------------
(* The invariants.                                                         *)

Event == [kind : Kinds, task : Tasks]
Said  == {"absent", "Pending", "Running", "Completed", "Failed"}
Image == [tasks : [Tasks -> Said], queue : Seq(Tasks), delayed : SUBSET Tasks]

Busy == {"begun", "running", "failing"}

Shape ==
  /\ genesis \in Image /\ owed \in [Threads -> Seq(Event)]
  /\ queue \in Seq(Tasks) /\ heap \in SUBSET Tasks
  /\ at \in [Tasks -> Places]
  /\ status \in [Tasks -> {"PENDING", "RUNNING", "COMPLETED", "FAILED"}]
  /\ retries \in [Tasks -> Nat] /\ job \in [Workers -> Tasks \cup {None}]
  /\ wpc \in [Workers -> {"idle", "leaving"} \cup Busy]

\* Where the tasks are.
Once(s, t) == \A i, j \in 1..Len(s) : s[i] = t /\ s[j] = t => i = j

Located ==
  /\ \A t \in Tasks : /\ Contains(queue, t) <=> at[t] = "queue"
                      /\ Once(queue, t)
                      /\ t \in heap <=> at[t] = "heap"
  /\ \A w \in Workers : wpc[w] \in Busy => job[w] \in Tasks /\ at[job[w]] = "held"
  /\ \A v, w \in Workers : wpc[v] \in Busy /\ wpc[w] \in Busy /\ job[v] = job[w] => v = w
  /\ \A w \in Workers : wpc[w] = "failing" => status[job[w]] = "FAILED"

\* A thread that is about to go on with a task has appended what it had to.
Free ==
  /\ \A t \in Tasks : at[t] = "new" => owed[t] = <<>>
  /\ \A w \in Workers : wpc[w] \in {"idle", "running", "failing"} => owed[w] = <<>>

\* What is true as long as thread th owes an event of kind k about t.
Owing(th, k, t) ==
  /\ k = "Submitted" => th = t /\ at[t] = "schedule"
  /\ k = "Queued" => at[t] = "queue"
  /\ k = "Dequeued" => th = "loop" /\ at[t] = "taken"
  /\ k = "Cancelled" => at[t] = "cancelled"
  /\ k = "Started" => th \in Workers /\ wpc[th] = "begun" /\ job[th] = t
  /\ k = "Completed" => at[t] = "over" /\ status[t] = "COMPLETED"
  /\ k = "Failed" => at[t] = "over" /\ status[t] = "FAILED"
  /\ k = "TaskRetried" => t \in Retried

\* The event of kind k about t is in the burst s.
In(s, k, t) == \E i \in 1..Len(s) : s[i] = [kind |-> k, task |-> t]

Owings == \A th \in Threads, k \in Kinds, t \in Tasks : In(owed[th], k, t) => Owing(th, k, t)

\* The event of a queue call comes first, and only the thread in the call has one.
Locks(s) == s # <<>> /\ Head(s).kind \in QueueKinds
Neat(s)  == \A k \in QueueKinds, t \in Tasks : s # <<>> => ~In(Tail(s), k, t)

Exclusive ==
  /\ \A th \in Threads : Neat(owed[th])
  /\ \A th, uh \in Threads : Locks(owed[th]) /\ Locks(owed[uh]) => th = uh

Base == Shape /\ Located /\ Free /\ Owings /\ Exclusive

\* Somebody owes the event of kind k about t.
Due(k, t) == \E th \in Threads : In(owed[th], k, t)

\* What the log says of a submitted task in each of the places.
SaidAt(t) ==
  LET said == genesis.tasks[t] IN
  /\ at[t] = "new" => said = "absent"
  /\ at[t] = "schedule" => said = "Pending" \/ (said = "absent" /\ Due("Submitted", t))
  /\ at[t] \in {"queue", "heap", "popped", "taken"} => said = "Pending"
  /\ at[t] = "held" => said = "Running" \/ (said = "Pending" /\ Due("Started", t))
  /\ at[t] = "over" => \/ said = "Running" /\ (Due("Completed", t) \/ Due("Failed", t))
                       \/ said = "Completed" /\ status[t] = "COMPLETED"
                       \/ said = "Failed" /\ status[t] = "FAILED"
  /\ at[t] = "cancelled" => said = "Failed" \/ (said = "Pending" /\ Due("Cancelled", t))

StatusInv == \A t \in Submitted : SaidAt(t)

\* The first wait of t, and the time up to it.
First(t) == IF t \in Delayed THEN 0 ELSE 1
Early(t) == \/ t \notin Delayed /\ retries[t] = 0
            \/ retries[t] = First(t) /\ at[t] \in {"new", "schedule", "heap"}

WaitAt(t) ==
  /\ Early(t) => ~Due("Released", t)
  /\ t \notin Delayed /\ retries[t] = 0 => at[t] \notin {"heap", "popped"}
  /\ t \in heap /\ retries[t] = First(t) => t \in genesis.delayed \/ Due("RetryScheduled", t)

WaitInv == \A t \in Tasks : WaitAt(t)

----------------------------------------------------------------------------
(* Sequences.                                                              *)

\* The elements of an extended queue.
LEMMA AppendFacts ==
  ASSUME NEW s \in Seq(Tasks), NEW x \in Tasks, NEW t
  PROVE  /\ Append(s, x) \in Seq(Tasks)
         /\ Contains(Append(s, x), t) <=> Contains(s, t) \/ t = x
         /\ Once(s, t) /\ (t = x => ~Contains(s, t)) => Once(Append(s, x), t)
<1>1. /\ Append(s, x) \in Seq(Tasks) /\ Len(Append(s, x)) = Len(s) + 1 /\ Len(s) \in Nat
      /\ Append(s, x)[Len(s) + 1] = x
      /\ \A i \in 1..Len(s) : Append(s, x)[i] = s[i]
  BY AppendProperties, LenProperties
<1>2. \A i \in 1..Len(s) + 1 : i \in 1..Len(s) \/ i = Len(s) + 1
  BY <1>1
<1>3. \A i \in 1..Len(s) : i \in 1..Len(s) + 1
  BY <1>1
<1>4. Contains(Append(s, x), t) <=> Contains(s, t) \/ t = x
  <2>1. ASSUME Contains(Append(s, x), t) PROVE Contains(s, t) \/ t = x
    BY <1>1, <1>2, <2>1 DEF Contains
  <2>2. ASSUME Contains(s, t) PROVE Contains(Append(s, x), t)
    BY <1>1, <1>3, <2>2 DEF Contains
  <2>3. ASSUME t = x PROVE Contains(Append(s, x), t)
    BY <1>1, <2>3 DEF Contains
  <2>4. QED
    BY <2>1, <2>2, <2>3
<1>5. ASSUME Once(s, t), t = x => ~Contains(s, t) PROVE Once(Append(s, x), t)
  <2>1. SUFFICES ASSUME NEW i \in 1..Len(s) + 1, NEW j \in 1..Len(s) + 1,
                        Append(s, x)[i] = t, Append(s, x)[j] = t
                 PROVE  i = j
    BY <1>1 DEF Once
  <2>2. CASE i \in 1..Len(s) /\ j \in 1..Len(s)
    BY <1>1, <1>5, <2>1, <2>2 DEF Once
  <2>3. CASE i = Len(s) + 1 /\ j \in 1..Len(s)
    BY <1>1, <1>5, <2>1, <2>3 DEF Contains
  <2>4. CASE j = Len(s) + 1 /\ i \in 1..Len(s)
    BY <1>1, <1>5, <2>1, <2>4 DEF Contains
  <2>5. QED
    BY <1>2, <2>2, <2>3, <2>4
<1>6. QED
  BY <1>1, <1>4, <1>5

\* A sequence without its element k.
LEMMA RemoveAtFacts ==
  ASSUME NEW s \in Seq(Tasks), NEW k \in 1..Len(s)
  PROVE  /\ RemoveAt(s, k) \in Seq(Tasks) /\ Len(RemoveAt(s, k)) = Len(s) - 1
         /\ \A i \in 1..Len(s) - 1 : RemoveAt(s, k)[i] = s[IF i < k THEN i ELSE i + 1]
<1>1. Len(s) \in Nat
  BY LenProperties
<1>2. PICK a : a = SubSeq(s, 1, k - 1)
  OBVIOUS
<1>3. PICK b : b = SubSeq(s, k + 1, Len(s))
  OBVIOUS
<1>4. a \in Seq(Tasks) /\ Len(a) = k - 1 /\ \A i \in 1..k - 1 : a[i] = s[i]
  BY <1>1, <1>2
<1>5. b \in Seq(Tasks) /\ Len(b) = Len(s) - k /\ \A i \in 1..Len(s) - k : b[i] = s[k + i]
  BY <1>1, <1>3
<1>6. RemoveAt(s, k) = a \o b
  BY <1>2, <1>3 DEF RemoveAt
<1>7. /\ a \o b \in Seq(Tasks) /\ Len(a \o b) = Len(a) + Len(b)
      /\ \A i \in 1..Len(a) + Len(b) : (a \o b)[i] = IF i <= Len(a) THEN a[i] ELSE b[i - Len(a)]
  BY <1>4, <1>5, ConcatProperties
<1>8. Len(a) + Len(b) = Len(s) - 1
  BY <1>1, <1>4, <1>5
<1>9. ASSUME NEW i \in 1..Len(s) - 1 PROVE (a \o b)[i] = s[IF i < k THEN i ELSE i + 1]
  <2>1. CASE i < k
    <3>1. i \in 1..k - 1 /\ i <= Len(a) /\ i \in 1..Len(a) + Len(b)
      BY <1>1, <1>4, <1>8, <2>1
    <3>2. QED
      BY <1>4, <1>7, <2>1, <3>1
  <2>2. CASE ~(i < k)
    <3>1. /\ ~(i <= Len(a)) /\ i \in 1..Len(a) + Len(b)
          /\ i - Len(a) \in 1..Len(s) - k /\ k + (i - Len(a)) = i + 1
      BY <1>1, <1>4, <1>8, <2>2
    <3>2. (a \o b)[i] = b[i - Len(a)]
      BY <1>7, <3>1
    <3>3. b[i - Len(a)] = s[k + (i - Len(a))]
      BY <1>5, <3>1
    <3>4. QED
      BY <2>2, <3>1, <3>2, <3>3
  <2>3. QED
    BY <2>1, <2>2
<1>10. QED
  BY <1>6, <1>7, <1>8, <1>9

\* A set of natural numbers that is not empty has a least element.
LEMMA Least ==
    ASSUME NEW T, T \subseteq Nat, T # {}
    PROVE  \E x \in T : \A y \in T : x <= y
<1>1. PICK R : R = OpToRel(<, Nat)
  OBVIOUS
<1>2. IsWellFoundedOn(R, Nat)
  BY <1>1, NatLessThanWellFounded, Zenon
<1>3. \A x, y \in Nat : x < y => <<x, y>> \in R
  BY <1>1 DEF OpToRel
<1>4. PICK x \in T : \A y \in T : ~ (<<y, x>> \in R)
  BY <1>2, WFMin
<1>5. ASSUME NEW y \in T PROVE x <= y
  <2>1. x \in Nat /\ y \in Nat
    OBVIOUS
  <2>2. ~(y < x)
    BY <1>3, <1>4, <2>1
  <2>3. QED
    BY <2>1, <2>2
<1>6. QED
  BY <1>5

\* RemoveFirst removes the first.
LEMMA FirstFacts ==
  ASSUME NEW s \in Seq(Tasks), NEW x
  PROVE  \/ ~Contains(s, x) /\ RemoveFirst(s, x) = s
         \/ \E k \in 1..Len(s) : /\ s[k] = x /\ RemoveFirst(s, x) = RemoveAt(s, k)
                                 /\ \A i \in 1..k - 1 : s[i] # x
<1>1. CASE ~Contains(s, x)
  BY <1>1 DEF RemoveFirst, Contains
<1>2. CASE Contains(s, x)
  <2>1. PICK P : P = {i \in 1..Len(s) : s[i] = x}
    OBVIOUS
  <2>2. P # {} /\ P \subseteq 1..Len(s) /\ Len(s) \in Nat
    BY <1>2, <2>1, LenProperties DEF Contains
  <2>0. P \subseteq Nat
    BY <2>2
  <2>3. PICK k \in P : \A i \in P : k <= i
    BY <2>0, <2>2, Least
  <2>4. k \in 1..Len(s) /\ s[k] = x
    BY <2>1, <2>3
  <2>5. \A i \in 1..k - 1 : s[i] # x
    <3>1. SUFFICES ASSUME NEW i \in 1..k - 1, s[i] = x PROVE FALSE
      OBVIOUS
    <3>2. i \in P /\ i < k
      BY <2>1, <2>2, <2>4, <3>1
    <3>3. QED
      BY <2>3, <2>4, <3>2
  <2>6. \A m \in P : (\A i \in P : m <= i) => m = k
    <3>1. SUFFICES ASSUME NEW m \in P, \A i \in P : m <= i PROVE m = k
      OBVIOUS
    <3>2. m <= k /\ k <= m /\ m \in Nat /\ k \in Nat
      BY <2>2, <2>3, <3>1
    <3>3. QED
      BY ONLY <3>2
  <2>7. Min(P) = k
    BY <2>3, <2>6 DEF Min
  <2>8. SelectInSeq(s, LAMBDA v : v = x) = k
    BY <2>1, <2>2, <2>7 DEF SelectInSeq
  <2>9. RemoveFirst(s, x) = RemoveAt(s, k)
    BY <1>2, <2>8 DEF RemoveFirst, Contains
  <2>10. QED
    BY <2>4, <2>5, <2>9
<1>3. QED
  BY <1>1, <1>2

\* What RemoveFirst(s, x) keeps and what it takes away.
LEMMA RemoveFacts ==
  ASSUME NEW s \in Seq(Tasks), NEW x, NEW t
  PROVE  /\ RemoveFirst(s, x) \in Seq(Tasks)
         /\ Contains(RemoveFirst(s, x), t) => Contains(s, t)
         /\ Contains(s, t) /\ t # x => Contains(RemoveFirst(s, x), t)
         /\ Once(s, t) => Once(RemoveFirst(s, x), t)
         /\ Once(s, x) => ~Contains(RemoveFirst(s, x), x)
<1>1. CASE ~Contains(s, x) /\ RemoveFirst(s, x) = s
  BY <1>1
<1>2. ASSUME NEW k \in 1..Len(s), s[k] = x, RemoveFirst(s, x) = RemoveAt(s, k)
      PROVE  /\ RemoveFirst(s, x) \in Seq(Tasks)
             /\ Contains(RemoveFirst(s, x), t) => Contains(s, t)
             /\ Contains(s, t) /\ t # x => Contains(RemoveFirst(s, x), t)
             /\ Once(s, t) => Once(RemoveFirst(s, x), t)
             /\ Once(s, x) => ~Contains(RemoveFirst(s, x), x)
  <2>1. PICK r : r = RemoveAt(s, k)
    OBVIOUS
  <2>2. PICK n : n = Len(s)
    OBVIOUS
  <2>3. n \in Nat /\ k \in 1..n
    BY <1>2, <2>2, LenProperties
  <2>4. /\ r \in Seq(Tasks) /\ Len(r) = n - 1
        /\ \A i \in 1..n - 1 : r[i] = s[IF i < k THEN i ELSE i + 1]
    BY <1>2, <2>1, <2>2, RemoveAtFacts
  <2>5. \A i \in 1..n - 1 : (IF i < k THEN i ELSE i + 1) \in 1..n
    BY <2>3
  <2>6. \A i, j \in 1..n - 1 : (IF i < k THEN i ELSE i + 1) = (IF j < k THEN j ELSE j + 1) => i = j
    BY <2>3
  <2>7. \A i \in 1..n - 1 : (IF i < k THEN i ELSE i + 1) # k
    BY <2>3
  <2>8. \A i \in 1..n : i # k => \E j \in 1..n - 1 : (IF j < k THEN j ELSE j + 1) = i
    <3>1. SUFFICES ASSUME NEW i \in 1..n, i # k
                   PROVE  \E j \in 1..n - 1 : (IF j < k THEN j ELSE j + 1) = i
      OBVIOUS
    <3>2. CASE i < k
      <4>1. i \in 1..n - 1 /\ (IF i < k THEN i ELSE i + 1) = i
        BY <2>3, <3>2
      <4>2. QED
        BY <4>1
    <3>3. CASE ~(i < k)
      <4>1. i - 1 \in 1..n - 1 /\ (IF i - 1 < k THEN i - 1 ELSE (i - 1) + 1) = i
        BY <2>3, <3>1, <3>3
      <4>2. QED
        BY <4>1
    <3>4. QED
      BY <3>2, <3>3
  <2>9. Contains(r, t) => Contains(s, t)
    BY <2>2, <2>4, <2>5 DEF Contains
  <2>10. Contains(s, t) /\ t # x => Contains(r, t)
    <3>1. SUFFICES ASSUME NEW i \in 1..n, s[i] = t, t # x PROVE \E j \in 1..n - 1 : r[j] = t
      BY <2>2, <2>4 DEF Contains
    <3>2. i # k
      BY <1>2, <3>1
    <3>3. PICK j \in 1..n - 1 : (IF j < k THEN j ELSE j + 1) = i
      BY <2>8, <3>2
    <3>4. r[j] = s[i]
      BY <2>4, <3>3
    <3>5. QED
      BY <3>1, <3>4
  <2>11. Once(s, t) => Once(r, t)
    <3>1. SUFFICES ASSUME Once(s, t), NEW i \in 1..n - 1, NEW j \in 1..n - 1, r[i] = t, r[j] = t
                   PROVE  i = j
      BY <2>4 DEF Once
    <3>2. s[IF i < k THEN i ELSE i + 1] = t /\ s[IF j < k THEN j ELSE j + 1] = t
      BY <2>4, <3>1
    <3>3. (IF i < k THEN i ELSE i + 1) \in 1..n /\ (IF j < k THEN j ELSE j + 1) \in 1..n
      BY <2>5
    <3>4. (IF i < k THEN i ELSE i + 1) = (IF j < k THEN j ELSE j + 1)
      BY <2>2, <3>1, <3>2, <3>3 DEF Once
    <3>5. QED
      BY <2>6, <3>4
  <2>12. Once(s, x) => ~Contains(r, x)
    <3>1. SUFFICES ASSUME Once(s, x), NEW i \in 1..n - 1, r[i] = x PROVE FALSE
      BY <2>4 DEF Contains
    <3>2. s[IF i < k THEN i ELSE i + 1] = x /\ (IF i < k THEN i ELSE i + 1) \in 1..n
      BY <2>4, <2>5, <3>1
    <3>3. (IF i < k THEN i ELSE i + 1) = k
      BY <1>2, <2>2, <2>3, <3>1, <3>2 DEF Once
    <3>4. QED
      BY <2>7, <3>3
  <2>13. QED
    BY <1>2, <2>1, <2>4, <2>9, <2>10, <2>11, <2>12
<1>3. QED
  BY <1>1, <1>2, FirstFacts

\* Removing the head leaves the tail.
LEMMA HeadFacts ==
  ASSUME NEW s \in Seq(Tasks), s # <<>>
  PROVE  /\ Head(s) \in Tasks /\ Contains(s, Head(s))
         /\ RemoveFirst(s, Head(s)) = Tail(s)
<1>1. Len(s) \in Nat /\ Len(s) >= 1 /\ Head(s) = s[1] /\ Head(s) \in Tasks
  BY EmptySeq, LenProperties, HeadTailProperties
<1>2. Contains(s, Head(s))
  BY <1>1 DEF Contains
<1>3. PICK k \in 1..Len(s) : /\ s[k] = Head(s) /\ RemoveFirst(s, Head(s)) = RemoveAt(s, k)
                             /\ \A i \in 1..k - 1 : s[i] # Head(s)
  BY <1>2, FirstFacts
<1>4. k = 1
  <2>1. CASE k # 1
    <3>1. 1 \in 1..k - 1
      BY <1>1, <2>1
    <3>2. QED
      BY <1>1, <1>3, <3>1
  <2>2. QED
    BY <2>1
<1>5. PICK r : r = RemoveAt(s, 1)
  OBVIOUS
<1>6. /\ r \in Seq(Tasks) /\ Len(r) = Len(s) - 1
      /\ \A i \in 1..Len(s) - 1 : r[i] = s[IF i < k THEN i ELSE i + 1]
  BY <1>4, <1>5, RemoveAtFacts
<1>7. \A i \in 1..Len(s) - 1 : r[i] = s[i + 1]
  BY <1>1, <1>4, <1>6
<1>8. Tail(s) \in Seq(Tasks) /\ Len(Tail(s)) = Len(s) - 1 /\ \A i \in 1..Len(s) - 1 : Tail(s)[i] = s[i + 1]
  BY <1>1, HeadTailProperties
<1>9. r = Tail(s)
  BY <1>1, <1>6, <1>7, <1>8, SeqEqual
<1>10. QED
  BY <1>1, <1>2, <1>3, <1>4, <1>5, <1>9

----------------------------------------------------------------------------
(* The events a thread owes.                                               *)

\* A burst that gets shorter.
LEMMA TailFacts ==
  ASSUME NEW s \in Seq(Event), s # <<>>
  PROVE  /\ Head(s) \in Event /\ Tail(s) \in Seq(Event)
         /\ In(s, Head(s).kind, Head(s).task)
         /\ \A k, t : In(Tail(s), k, t) => In(s, k, t)
         /\ \A k, t : In(s, k, t) => In(Tail(s), k, t) \/ (Head(s).kind = k /\ Head(s).task = t)
<1>1. /\ Len(s) \in Nat /\ Len(s) >= 1 /\ Head(s) = s[1] /\ Head(s) \in Event
      /\ Tail(s) \in Seq(Event) /\ Len(Tail(s)) = Len(s) - 1
      /\ \A i \in 1..Len(s) - 1 : Tail(s)[i] = s[i + 1]
  BY EmptySeq, LenProperties, HeadTailProperties
<1>2. Head(s) = [kind |-> Head(s).kind, task |-> Head(s).task]
  BY <1>1 DEF Event
<1>3. In(s, Head(s).kind, Head(s).task)
  <2>1. 1 \in 1..Len(s)
    BY <1>1
  <2>2. QED
    BY <1>1, <1>2, <2>1 DEF In
<1>4. ASSUME NEW k, NEW t, In(Tail(s), k, t) PROVE In(s, k, t)
  <2>1. PICK i \in 1..Len(s) - 1 : Tail(s)[i] = [kind |-> k, task |-> t]
    BY <1>1, <1>4 DEF In
  <2>2. i + 1 \in 1..Len(s) /\ s[i + 1] = [kind |-> k, task |-> t]
    BY <1>1, <2>1
  <2>3. QED
    BY <2>2 DEF In
<1>5. ASSUME NEW k, NEW t, In(s, k, t) PROVE In(Tail(s), k, t) \/ (Head(s).kind = k /\ Head(s).task = t)
  <2>1. PICK i \in 1..Len(s) : s[i] = [kind |-> k, task |-> t]
    BY <1>5 DEF In
  <2>2. CASE i = 1
    BY <1>1, <2>1, <2>2
  <2>3. CASE i # 1
    <3>1. i - 1 \in 1..Len(s) - 1 /\ Tail(s)[i - 1] = [kind |-> k, task |-> t]
      BY <1>1, <2>1, <2>3
    <3>2. QED
      BY <1>1, <3>1 DEF In
  <2>4. QED
    BY <2>2, <2>3
<1>6. QED
  BY <1>1, <1>3, <1>4, <1>5

\* A burst has no queue event but its first.
LEMMA NeatFacts ==
  ASSUME NEW s \in Seq(Event), Neat(s)
  PROVE  /\ \A k \in QueueKinds, t \in Tasks : In(s, k, t) =>
              Locks(s) /\ Head(s).kind = k /\ Head(s).task = t
         /\ s # <<>> => Neat(Tail(s)) /\ ~Locks(Tail(s))
<1>1. \A k, t : ~In(<<>>, k, t)
  BY DEF In
<1>2. ASSUME NEW k \in QueueKinds, NEW t \in Tasks, In(s, k, t)
      PROVE  Locks(s) /\ Head(s).kind = k /\ Head(s).task = t
  <2>1. s # <<>>
    BY <1>1, <1>2
  <2>2. ~In(Tail(s), k, t)
    BY <2>1 DEF Neat
  <2>3. Head(s).kind = k /\ Head(s).task = t
    BY <1>2, <2>1, <2>2, TailFacts
  <2>4. QED
    BY <2>1, <2>3 DEF Locks
<1>3. ASSUME s # <<>> PROVE Neat(Tail(s)) /\ ~Locks(Tail(s))
  <2>1. Tail(s) \in Seq(Event) /\ \A k \in QueueKinds, t \in Tasks : ~In(Tail(s), k, t)
    BY <1>3, TailFacts DEF Neat
  <2>2. ASSUME Tail(s) # <<>>
        PROVE  /\ Head(Tail(s)) \in Event /\ In(Tail(s), Head(Tail(s)).kind, Head(Tail(s)).task)
               /\ \A k, t : In(Tail(Tail(s)), k, t) => In(Tail(s), k, t)
    BY <2>1, <2>2, TailFacts
  <2>3. Neat(Tail(s))
    BY <2>1, <2>2 DEF Neat
  <2>4. ~Locks(Tail(s))
    BY <2>1, <2>2 DEF Locks, Event
  <2>5. QED
    BY <2>3, <2>4
<1>4. QED
  BY <1>2, <1>3

\* The events that Owe puts down.
Burst(t, kinds) == [i \in 1..Len(kinds) |-> [kind |-> kinds[i], task |-> t]]

\* The events of a burst are about its task, and of its kinds.
LEMMA BurstFacts ==
  ASSUME NEW t \in Tasks, NEW ks \in Seq(Kinds), ks # <<>>
  PROVE  /\ Burst(t, ks) \in Seq(Event) /\ Burst(t, ks) # <<>>
         /\ Head(Burst(t, ks)) = [kind |-> ks[1], task |-> t]
         /\ \A k, u : In(Burst(t, ks), k, u) <=> u = t /\ \E i \in 1..Len(ks) : ks[i] = k
         /\ (\A i \in 2..Len(ks) : ks[i] \notin QueueKinds) => Neat(Burst(t, ks))
<1>1. PICK n : n = Len(ks)
  OBVIOUS
<1>2. n \in Nat /\ n >= 1 /\ \A i \in 1..n : ks[i] \in Kinds
  BY <1>1, EmptySeq, LenProperties, ElementOfSeq
<1>3. PICK b : b = Burst(t, ks)
  OBVIOUS
<1>4. b = [i \in 1..n |-> [kind |-> ks[i], task |-> t]]
  BY <1>1, <1>3 DEF Burst
<1>5. b \in Seq(Event) /\ Len(b) = n
  <2>1. \A i \in 1..n : [kind |-> ks[i], task |-> t] \in Event
    BY <1>2 DEF Event
  <2>2. b \in [1..n -> Event]
    BY <1>4, <2>1
  <2>3. QED
    BY <1>2, <2>2
<1>6. b # <<>> /\ Head(b) = b[1] /\ b[1] = [kind |-> ks[1], task |-> t]
  <2>1. 1 \in 1..n
    BY <1>2
  <2>2. b # <<>>
    BY <1>2, <1>5
  <2>3. QED
    BY <1>4, <1>5, <2>1, <2>2, HeadTailProperties
<1>7. ASSUME NEW k, NEW u PROVE In(b, k, u) <=> u = t /\ \E i \in 1..Len(ks) : ks[i] = k
  <2>1. \A i \in 1..n : b[i] = [kind |-> k, task |-> u] <=> ks[i] = k /\ u = t
    BY <1>4
  <2>2. 1 \in 1..n
    BY <1>2
  <2>3. QED
    BY <1>1, <1>5, <2>1, <2>2 DEF In
<1>8. ASSUME \A i \in 2..Len(ks) : ks[i] \notin QueueKinds PROVE Neat(b)
  <2>1. SUFFICES ASSUME NEW k \in QueueKinds, NEW u \in Tasks, In(Tail(b), k, u) PROVE FALSE
    BY DEF Neat
  <2>2. Len(Tail(b)) = n - 1 /\ \A i \in 1..n - 1 : Tail(b)[i] = b[i + 1]
    BY <1>2, <1>5, <1>6, HeadTailProperties
  <2>3. PICK i \in 1..n - 1 : Tail(b)[i] = [kind |-> k, task |-> u]
    BY <2>1, <2>2 DEF In
  <2>4. i + 1 \in 1..n /\ i + 1 \in 2..n
    BY <1>2
  <2>5. b[i + 1] = [kind |-> k, task |-> u] /\ b[i + 1] = [kind |-> ks[i + 1], task |-> t]
    BY <1>4, <2>2, <2>3, <2>4
  <2>6. ks[i + 1] = k
    BY <2>5
  <2>7. QED
    BY <1>1, <1>8, <2>1, <2>4, <2>6
<1>9. QED
  BY <1>3, <1>5, <1>6, <1>7, <1>8

----------------------------------------------------------------------------
(* Replay, field by field.                                                 *)

\* The queue, a task's status and the delayed tasks after an event of kind k about t.
Kept(q, k, t) == IF k = "Queued" THEN IF Contains(q, t) THEN q ELSE Append(q, t)
                 ELSE IF k \in {"Dequeued", "Completed", "Failed", "Cancelled"} THEN RemoveFirst(q, t)
                 ELSE q

Told(said, k) == IF k = "Submitted" THEN "Pending"
                 ELSE IF said = "absent" THEN said
                 ELSE IF k \in {"Queued", "TaskRetried"} THEN "Pending"
                 ELSE IF k = "Started" THEN "Running"
                 ELSE IF k = "Completed" THEN "Completed"
                 ELSE IF k \in {"Failed", "Cancelled"} THEN "Failed"
                 ELSE said

Waits(d, k, t) == IF k = "RetryScheduled" THEN d \cup {t}
                  ELSE IF k = "Released" THEN d \ {t} ELSE d

\* An event writes the record of its task alone.
LEMMA ApplyFacts ==
  ASSUME NEW s \in Image, NEW e \in Event
  PROVE  /\ Apply(s, e) \in Image
         /\ Apply(s, e).queue = Kept(s.queue, e.kind, e.task)
         /\ Apply(s, e).delayed = Waits(s.delayed, e.kind, e.task)
         /\ Apply(s, e).tasks = [s.tasks EXCEPT ![e.task] = Told(s.tasks[e.task], e.kind)]
<1>1. PICK t \in Tasks : t = e.task
  BY DEF Event
<1>2. PICK k \in Kinds : k = e.kind
  BY DEF Event
<1>3. PICK q, f, d : q = s.queue /\ f = s.tasks /\ d = s.delayed
  OBVIOUS
<1>4. q \in Seq(Tasks) /\ f \in [Tasks -> Said] /\ d \in SUBSET Tasks /\ f[t] \in Said
  BY <1>3 DEF Image
<1>5. s = [tasks |-> f, queue |-> q, delayed |-> d]
  BY <1>3 DEF Image
<1>6. Apply(s, e) = [tasks |-> [f EXCEPT ![t] = Told(f[t], k)], queue |-> Kept(q, k, t), delayed |-> Waits(d, k, t)]
  <2>1. ASSUME NEW new
        PROVE  Mark(s, t, new) = [tasks |-> [f EXCEPT ![t] = IF f[t] = "absent" THEN f[t] ELSE new], queue |-> q, delayed |-> d]
    BY <1>5 DEF Mark
  <2>2. ASSUME NEW g
        PROVE  Unqueued([tasks |-> g, queue |-> q, delayed |-> d], t) = [tasks |-> g, queue |-> RemoveFirst(q, t), delayed |-> d]
    BY DEF Unqueued
  <2>3. ASSUME NEW g
        PROVE  Enqueued([tasks |-> g, queue |-> q, delayed |-> d], t)
                 = [tasks |-> g, queue |-> IF Contains(q, t) THEN q ELSE Append(q, t), delayed |-> d]
    BY DEF Enqueued
  <2>4. f = [f EXCEPT ![t] = f[t]]
    BY <1>4
  <2>5. CASE k = "Submitted"
    <3>1. Apply(s, e) = [s EXCEPT !.tasks[e.task] = "Pending"]
      BY <1>2, <2>5, Zenon DEF Apply
    <3>2. /\ Told(f[t], k) = "Pending"
          /\ Kept(q, k, t) = q /\ Waits(d, k, t) = d
      BY <2>5 DEF Told, Kept, Waits
    <3>3. QED
      BY <1>1, <1>5, <3>1, <3>2
  <2>6. CASE k = "Queued"
    <3>1. Apply(s, e) = Enqueued(Mark(s, e.task, "Pending"), e.task)
      BY <1>2, <2>6, Zenon DEF Apply
    <3>2. /\ Told(f[t], k) = (IF f[t] = "absent" THEN f[t] ELSE "Pending")
          /\ Kept(q, k, t) = (IF Contains(q, t) THEN q ELSE Append(q, t)) /\ Waits(d, k, t) = d
      BY <2>6 DEF Told, Kept, Waits
    <3>3. Mark(s, t, "Pending") = [tasks |-> [f EXCEPT ![t] = Told(f[t], k)], queue |-> q, delayed |-> d]
      BY <2>1, <3>2
    <3>4. Enqueued(Mark(s, t, "Pending"), t)
            = [tasks |-> [f EXCEPT ![t] = Told(f[t], k)], queue |-> Kept(q, k, t), delayed |-> d]
      BY <2>3, <3>2, <3>3
    <3>5. QED
      BY <1>1, <3>1, <3>2, <3>4
  <2>7. CASE k = "Dequeued"
    <3>1. Apply(s, e) = Unqueued(s, e.task)
      BY <1>2, <2>7, Zenon DEF Apply
    <3>2. /\ Told(f[t], k) = f[t]
          /\ Kept(q, k, t) = RemoveFirst(q, t) /\ Waits(d, k, t) = d
      BY <2>7 DEF Told, Kept, Waits
    <3>3. QED
      BY <1>1, <1>5, <2>2, <2>4, <3>1, <3>2
  <2>8. CASE k = "Started"
    <3>1. Apply(s, e) = Mark(s, e.task, "Running")
      BY <1>2, <2>8, Zenon DEF Apply
    <3>2. /\ Told(f[t], k) = (IF f[t] = "absent" THEN f[t] ELSE "Running")
          /\ Kept(q, k, t) = q /\ Waits(d, k, t) = d
      BY <2>8 DEF Told, Kept, Waits
    <3>3. QED
      BY <1>1, <2>1, <3>1, <3>2
  <2>9. CASE k = "Completed"
    <3>1. Apply(s, e) = Unqueued(Mark(s, e.task, "Completed"), e.task)
      BY <1>2, <2>9, Zenon DEF Apply
    <3>2. /\ Told(f[t], k) = (IF f[t] = "absent" THEN f[t] ELSE "Completed")
          /\ Kept(q, k, t) = RemoveFirst(q, t) /\ Waits(d, k, t) = d
      BY <2>9 DEF Told, Kept, Waits
    <3>3. Mark(s, t, "Completed") = [tasks |-> [f EXCEPT ![t] = Told(f[t], k)], queue |-> q, delayed |-> d]
      BY <2>1, <3>2
    <3>4. Unqueued(Mark(s, t, "Completed"), t)
            = [tasks |-> [f EXCEPT ![t] = Told(f[t], k)], queue |-> Kept(q, k, t), delayed |-> d]
      BY <2>2, <3>2, <3>3
    <3>5. QED
      BY <1>1, <3>1, <3>2, <3>4
  <2>10. CASE k \in {"Failed", "Cancelled"}
    <3>1. Apply(s, e) = Unqueued(Mark(s, e.task, "Failed"), e.task)
      BY <1>2, <2>10, Zenon DEF Apply
    <3>2. /\ Told(f[t], k) = (IF f[t] = "absent" THEN f[t] ELSE "Failed")
          /\ Kept(q, k, t) = RemoveFirst(q, t) /\ Waits(d, k, t) = d
      BY <2>10 DEF Told, Kept, Waits
    <3>3. Mark(s, t, "Failed") = [tasks |-> [f EXCEPT ![t] = Told(f[t], k)], queue |-> q, delayed |-> d]
      BY <2>1, <3>2
    <3>4. Unqueued(Mark(s, t, "Failed"), t)
            = [tasks |-> [f EXCEPT ![t] = Told(f[t], k)], queue |-> Kept(q, k, t), delayed |-> d]
      BY <2>2, <3>2, <3>3
    <3>5. QED
      BY <1>1, <3>1, <3>2, <3>4
  <2>11. CASE k = "TaskRetried"
    <3>1. Apply(s, e) = Mark(s, e.task, "Pending")
      BY <1>2, <2>11, Zenon DEF Apply
    <3>2. /\ Told(f[t], k) = (IF f[t] = "absent" THEN f[t] ELSE "Pending")
          /\ Kept(q, k, t) = q /\ Waits(d, k, t) = d
      BY <2>11 DEF Told, Kept, Waits
    <3>3. QED
      BY <1>1, <2>1, <3>1, <3>2
  <2>12. CASE k = "RetryScheduled"
    <3>1. Apply(s, e) = [s EXCEPT !.delayed = @ \cup {e.task}]
      BY <1>2, <2>12, Zenon DEF Apply
    <3>2. /\ Told(f[t], k) = f[t]
          /\ Kept(q, k, t) = q /\ Waits(d, k, t) = d \cup {t}
      BY <2>12 DEF Told, Kept, Waits
    <3>3. QED
      BY <1>1, <1>5, <2>4, <3>1, <3>2
  <2>13. CASE k = "Released"
    <3>1. Apply(s, e) = [s EXCEPT !.delayed = @ \ {e.task}]
      BY <1>2, <2>13, Zenon DEF Apply
    <3>2. /\ Told(f[t], k) = f[t]
          /\ Kept(q, k, t) = q /\ Waits(d, k, t) = d \ {t}
      BY <2>13 DEF Told, Kept, Waits
    <3>3. QED
      BY <1>1, <1>5, <2>4, <3>1, <3>2
  <2>14. QED
    BY <2>5, <2>6, <2>7, <2>8, <2>9, <2>10, <2>11, <2>12, <2>13 DEF Kinds
<1>7. Told(f[t], k) \in Said /\ Waits(d, k, t) \in SUBSET Tasks
  BY <1>4 DEF Told, Waits, Said
<1>8. Kept(q, k, t) \in Seq(Tasks)
  BY <1>4, RemoveFacts, AppendFacts DEF Kept
<1>9. QED
  BY <1>1, <1>2, <1>3, <1>4, <1>6, <1>7, <1>8 DEF Image

----------------------------------------------------------------------------
(* What the steps do to the events that are owed.                          *)

\* Thread th, which owed nothing, now owes the kinds K about t, first k.
Sends(th, t, k, K) ==
  /\ owed' \in [Threads -> Seq(Event)]
  /\ \A uh \in Threads : uh # th => owed'[uh] = owed[uh]
  /\ owed'[th] # <<>> /\ Head(owed'[th]) = [kind |-> k, task |-> t]
  /\ \A j, u : In(owed'[th], j, u) <=> u = t /\ j \in K
  /\ Neat(owed'[th])

\* Owe with any burst.
LEMMA OweFacts ==
  ASSUME owed \in [Threads -> Seq(Event)], NEW th \in Threads, NEW t \in Tasks,
         NEW ks \in Seq(Kinds), ks # <<>>, \A i \in 2..Len(ks) : ks[i] \notin QueueKinds,
         Owe(th, t, ks)
  PROVE  Sends(th, t, ks[1], {ks[i] : i \in 1..Len(ks)})
<1>1. PICK b : b = Burst(t, ks)
  OBVIOUS
<1>2. owed' = [owed EXCEPT ![th] = b]
  BY <1>1 DEF Owe, Burst
<1>3. /\ b \in Seq(Event) /\ b # <<>> /\ Head(b) = [kind |-> ks[1], task |-> t] /\ Neat(b)
      /\ \A j, u : In(b, j, u) <=> u = t /\ \E i \in 1..Len(ks) : ks[i] = j
  BY <1>1, BurstFacts
<1>4. owed' \in [Threads -> Seq(Event)] /\ owed'[th] = b /\ \A uh \in Threads : uh # th => owed'[uh] = owed[uh]
  BY <1>2, <1>3
<1>5. \A j : j \in {ks[i] : i \in 1..Len(ks)} <=> \E i \in 1..Len(ks) : ks[i] = j
  OBVIOUS
<1>6. QED
  BY <1>3, <1>4, <1>5 DEF Sends

\* Owe with one event.
LEMMA OweOne ==
  ASSUME owed \in [Threads -> Seq(Event)], NEW th \in Threads, NEW t \in Tasks,
         NEW k \in Kinds, Owe(th, t, <<k>>)
  PROVE  Sends(th, t, k, {k})
<1>1. PICK ks : ks = <<k>>
  OBVIOUS
<1>2. ks \in Seq(Kinds) /\ ks # <<>> /\ Len(ks) = 1 /\ ks[1] = k
  BY <1>1
<1>3. {ks[i] : i \in 1..Len(ks)} = {k}
  BY <1>2
<1>4. \A i \in 2..Len(ks) : ks[i] \notin QueueKinds
  BY <1>2
<1>5. QED
  BY <1>1, <1>2, <1>3, <1>4, OweFacts

\* With two.
LEMMA OweTwo ==
  ASSUME owed \in [Threads -> Seq(Event)], NEW th \in Threads, NEW t \in Tasks,
         NEW k \in Kinds, NEW l \in Kinds \ QueueKinds, Owe(th, t, <<k, l>>)
  PROVE  Sends(th, t, k, {k, l})
<1>1. PICK ks : ks = <<k, l>>
  OBVIOUS
<1>2. ks \in Seq(Kinds) /\ ks # <<>> /\ Len(ks) = 2 /\ ks[1] = k /\ ks[2] = l
  BY <1>1
<1>3. {ks[i] : i \in 1..Len(ks)} = {k, l}
  <2>1. 1..Len(ks) = {1, 2}
    BY <1>2
  <2>2. QED
    BY <1>2, <2>1
<1>4. \A i \in 2..Len(ks) : ks[i] \notin QueueKinds
  BY <1>2
<1>5. Owe(th, t, ks)
  BY <1>1
<1>6. Sends(th, t, ks[1], {ks[i] : i \in 1..Len(ks)})
  BY <1>2, <1>4, <1>5, OweFacts
<1>7. QED
  BY <1>2, <1>3, <1>6

\* With the four of a retry without a delay.
LEMMA OweFour ==
  ASSUME owed \in [Threads -> Seq(Event)], NEW th \in Threads, NEW t \in Tasks,
         Owe(th, t, <<"Queued", "Released", "TaskRetried", "RetryScheduled">>)
  PROVE  Sends(th, t, "Queued", {"Queued", "Released", "TaskRetried", "RetryScheduled"})
<1>1. PICK ks : ks = <<"Queued", "Released", "TaskRetried", "RetryScheduled">>
  OBVIOUS
<1>2. /\ ks \in Seq(Kinds) /\ ks # <<>> /\ Len(ks) = 4 /\ ks[1] = "Queued"
      /\ ks[2] = "Released" /\ ks[3] = "TaskRetried" /\ ks[4] = "RetryScheduled"
  BY <1>1 DEF Kinds
<1>3. 1..Len(ks) = {1, 2, 3, 4} /\ 2..Len(ks) = {2, 3, 4}
  BY <1>2
<1>4. {ks[i] : i \in 1..Len(ks)} = {"Queued", "Released", "TaskRetried", "RetryScheduled"}
  BY <1>2, <1>3
<1>5. \A i \in 2..Len(ks) : ks[i] \notin QueueKinds
  BY <1>2, <1>3 DEF QueueKinds
<1>6. Owe(th, t, ks)
  BY <1>1
<1>7. Sends(th, t, ks[1], {ks[i] : i \in 1..Len(ks)})
  BY <1>2, <1>5, <1>6, OweFacts
<1>8. QED
  BY <1>2, <1>4, <1>7

\* The lock is held by the thread whose first event is one of the queue.
LEMMA LockFacts == LockHeld <=> \E th \in Threads : Locks(owed[th])
  BY DEF LockHeld, Locks

\* A thread that begins to owe.
LEMMA SendFacts ==
  ASSUME Exclusive, NEW th \in Threads, NEW t \in Tasks, NEW k \in Kinds, NEW K,
         Sends(th, t, k, K), owed[th] = <<>>, k \in QueueKinds => ~LockHeld
  PROVE  /\ Exclusive'
         /\ \A j, u : Due(j, u)' <=> Due(j, u) \/ (u = t /\ j \in K)
         /\ \A uh \in Threads : Locks(owed'[uh]) <=> Locks(owed[uh]) \/ (uh = th /\ k \in QueueKinds)
         /\ \A uh \in Threads : Locks(owed[uh]) => owed'[uh] = owed[uh]
<1>1. \A j, u : ~In(owed[th], j, u)
  <2>1. \A j, u : ~In(<<>>, j, u)
    BY DEF In
  <2>2. QED
    BY <2>1
<1>2. Locks(owed'[th]) <=> k \in QueueKinds
  BY DEF Sends, Locks
<1>3. ~Locks(owed[th])
  BY DEF Locks
<1>4. \A uh \in Threads : Locks(owed'[uh]) <=> Locks(owed[uh]) \/ (uh = th /\ k \in QueueKinds)
  BY <1>2, <1>3 DEF Sends
<1>5. Exclusive'
  BY <1>4, LockFacts DEF Exclusive, Sends
<1>6. \A j, u : Due(j, u)' <=> Due(j, u) \/ (u = t /\ j \in K)
  BY <1>1 DEF Due, Sends
<1>7. QED
  BY <1>3, <1>4, <1>5, <1>6 DEF Sends

\* A thread that appends the first of its events.
LEMMA EmitFacts ==
  ASSUME owed \in [Threads -> Seq(Event)], Exclusive, NEW th \in Threads, Emit(th)
  PROVE  /\ Head(owed[th]) \in Event /\ In(owed[th], Head(owed[th]).kind, Head(owed[th]).task)
         /\ owed' \in [Threads -> Seq(Event)] /\ Exclusive' /\ ~Locks(owed'[th])
         /\ \A uh \in Threads : uh # th => owed'[uh] = owed[uh]
         /\ \A uh \in Threads : owed[uh] = <<>> => owed'[uh] = <<>>
         /\ \A uh \in Threads : \A k, u : In(owed'[uh], k, u) => In(owed[uh], k, u)
         /\ \A k, u : Due(k, u)' => Due(k, u)
         /\ \A k, u : Due(k, u) => Due(k, u)' \/ (k = Head(owed[th]).kind /\ u = Head(owed[th]).task)
<1>1. PICK s : s = owed[th]
  OBVIOUS
<1>2. s \in Seq(Event) /\ s # <<>> /\ Neat(s) /\ owed' = [owed EXCEPT ![th] = Tail(s)]
  BY <1>1 DEF Emit, Exclusive
<1>3. /\ Head(s) \in Event /\ Tail(s) \in Seq(Event)
      /\ In(s, Head(s).kind, Head(s).task)
      /\ \A k, t : In(Tail(s), k, t) => In(s, k, t)
      /\ \A k, t : In(s, k, t) => In(Tail(s), k, t) \/ (Head(s).kind = k /\ Head(s).task = t)
  BY <1>2, TailFacts
<1>4. Neat(Tail(s)) /\ ~Locks(Tail(s))
  BY <1>2, NeatFacts
<1>5. owed' \in [Threads -> Seq(Event)] /\ owed'[th] = Tail(s) /\ \A uh \in Threads : uh # th => owed'[uh] = owed[uh]
  BY <1>2, <1>3
<1>6. Exclusive'
  BY <1>4, <1>5 DEF Exclusive
<1>7. \A uh \in Threads : \A k, u : In(owed'[uh], k, u) => In(owed[uh], k, u)
  BY <1>1, <1>3, <1>5
<1>8. \A k, u : Due(k, u)' => Due(k, u)
  BY <1>7 DEF Due
<1>9. \A k, u : Due(k, u) => Due(k, u)' \/ (k = Head(s).kind /\ u = Head(s).task)
  BY <1>1, <1>3, <1>5 DEF Due
<1>10. \A uh \in Threads : owed[uh] = <<>> => owed'[uh] = <<>>
  BY <1>1, <1>2, <1>5
<1>11. QED
  BY <1>1, <1>3, <1>4, <1>5, <1>6, <1>7, <1>8, <1>9, <1>10

----------------------------------------------------------------------------
(* The steps.                                                              *)

\* The log and the queue: once the event of a queue call is there, they agree.
Stored ==
  /\ \A th \in Threads : Locks(owed[th]) =>
       Kept(genesis.queue, Head(owed[th]).kind, Head(owed[th]).task) = queue
  /\ (\A th \in Threads : ~Locks(owed[th])) => genesis.queue = queue

IInv == Base /\ Stored /\ StatusInv /\ WaitInv

\* No thread is two.
LEMMA ThreadFacts ==
  /\ Tasks \subseteq Threads /\ Workers \subseteq Threads
  /\ "loop" \in Threads /\ "tracker" \in Threads /\ "operator" \in Threads
  /\ \A t \in Tasks : t \notin Workers /\ t \notin {"loop", "tracker", "operator"} /\ t # None
  /\ \A w \in Workers : w \notin {"loop", "tracker", "operator"}
  BY ConstantsAssumption DEF Threads

\* A queue call that begins.
LEMMA StoredCall ==
  ASSUME Stored, ~LockHeld, NEW th \in Threads, NEW t \in Tasks, NEW k \in QueueKinds, NEW K,
         Sends(th, t, k, K), owed[th] = <<>>,
         genesis' = genesis, Kept(queue, k, t) = queue'
  PROVE  Stored'
<1>1. \A uh \in Threads : ~Locks(owed[uh])
  BY LockFacts
<1>2. genesis.queue = queue
  BY <1>1 DEF Stored
<1>3. Head(owed'[th]).kind = k /\ Head(owed'[th]).task = t /\ Locks(owed'[th])
  BY DEF Sends, Locks
<1>4. \A uh \in Threads : Locks(owed'[uh]) => uh = th
  BY <1>1 DEF Sends
<1>5. QED
  BY <1>2, <1>3, <1>4 DEF Stored

\* A burst without one leaves log and queue as they were.
LEMMA StoredQuiet ==
  ASSUME Stored, NEW th \in Threads, NEW t \in Tasks, NEW k \in Kinds \ QueueKinds, NEW K,
         Sends(th, t, k, K), owed[th] = <<>>,
         genesis' = genesis, queue' = queue
  PROVE  Stored'
<1>1. ~Locks(owed[th]) /\ ~Locks(owed'[th])
  BY DEF Sends, Locks
<1>2. \A uh \in Threads : uh # th => owed'[uh] = owed[uh]
  BY DEF Sends
<1>3. QED
  BY <1>1, <1>2 DEF Stored

\* A step that neither sends nor emits.
LEMMA StoredSame ==
  ASSUME Stored, owed' = owed, genesis' = genesis, queue' = queue
  PROVE  Stored'
  BY DEF Stored

\* Where a task is, in terms of the events about it that are owed.
LEMMA OwedAt ==
  ASSUME Base, NEW th \in Threads, NEW k \in Kinds, NEW t \in Tasks, In(owed[th], k, t)
  PROVE  /\ k = "Submitted" => at[t] = "schedule" /\ th = t
         /\ k = "Queued" => at[t] = "queue"
         /\ k = "Dequeued" => at[t] = "taken" /\ th = "loop"
         /\ k = "Started" => at[t] = "held" /\ th \in Workers /\ wpc[th] = "begun" /\ job[th] = t
         /\ k = "Completed" => at[t] = "over" /\ status[t] = "COMPLETED"
         /\ k = "Failed" => at[t] = "over" /\ status[t] = "FAILED"
         /\ k = "Cancelled" => at[t] = "cancelled"
         /\ k = "TaskRetried" => t \in Retried
         /\ k \in QueueKinds => LockHeld
         /\ owed[th] # <<>>
<1>1. Owing(th, k, t)
  BY DEF Base, Owings
<1>2. k = "Started" => at[t] = "held"
  BY <1>1 DEF Owing, Base, Located, Busy
<1>3. k \in QueueKinds => LockHeld
  <2>1. owed[th] \in Seq(Event) /\ Neat(owed[th])
    BY DEF Base, Shape, Exclusive
  <2>2. k \in QueueKinds => Locks(owed[th])
    BY <2>1, NeatFacts
  <2>3. QED
    BY <2>2, LockFacts
<1>4. owed[th] # <<>>
  <2>1. ~In(<<>>, k, t)
    BY DEF In
  <2>2. QED
    BY <2>1
<1>5. QED
  BY <1>1, <1>2, <1>3, <1>4 DEF Owing

\* An event that is due, likewise.
LEMMA DueAt ==
  ASSUME Base, NEW k \in Kinds, NEW t \in Tasks, Due(k, t)
  PROVE  /\ k = "Submitted" => at[t] = "schedule" /\ owed[t] # <<>>
         /\ k = "Dequeued" => at[t] = "taken" /\ owed["loop"] # <<>>
         /\ k = "Started" => at[t] = "held" /\ \E w \in Workers : wpc[w] = "begun" /\ job[w] = t
         /\ k = "Completed" => at[t] = "over" /\ status[t] = "COMPLETED"
         /\ k = "Failed" => at[t] = "over" /\ status[t] = "FAILED"
         /\ k = "Cancelled" => at[t] = "cancelled"
<1>1. PICK th \in Threads : In(owed[th], k, t)
  BY DEF Due
<1>2. QED
  BY <1>1, OwedAt

\* The places of the tasks other than one stay.
LEMMA OwingStays ==
  ASSUME NEW th \in Threads, NEW k \in Kinds, NEW t \in Tasks, Owing(th, k, t),
         at'[t] = at[t], k \in {"Completed", "Failed"} => status'[t] = status[t],
         k = "Started" => wpc'[th] = wpc[th] /\ job'[th] = job[th]
  PROVE  Owing(th, k, t)'
  BY DEF Owing

\* What the log says of a task stays true of it.
LEMMA SaidStays ==
  ASSUME NEW t \in Tasks, SaidAt(t), at'[t] = at[t], at[t] = "over" => status'[t] = status[t],
         genesis' = genesis, \A k : Due(k, t) => Due(k, t)'
  PROVE  SaidAt(t)'
  BY DEF SaidAt

\* Threads that go on with a task still owe nothing.
LEMMA FreeStays ==
  ASSUME Free, NEW th \in Threads, NEW t \in Tasks, NEW k, NEW K, Sends(th, t, k, K),
         \A u \in Tasks : at'[u] = "new" => at[u] = "new" /\ u # th,
         \A v \in Workers : wpc'[v] # "leaving" => v # th /\ wpc'[v] = wpc[v]
  PROVE  Free'
<1>1. \A u \in Tasks : at'[u] = "new" => owed'[u] = owed[u] /\ owed[u] = <<>>
  BY ThreadFacts DEF Free, Sends
<1>2. \A v \in Workers : wpc'[v] # "leaving" => owed'[v] = owed[v] /\ wpc'[v] = wpc[v]
  BY ThreadFacts DEF Sends
<1>3. QED
  BY <1>1, <1>2 DEF Free

\* Submitting a task.
LEMMA SubmitStep ==
  ASSUME IInv, NEW t \in Tasks, Submit(t)
  PROVE  IInv'
<1>1. t \in Threads /\ owed[t] = <<>>
  BY ThreadFacts DEF IInv, Submit, Base, Free
<1>2. Owe(t, t, <<"Submitted">>)
  BY DEF Submit
<1>3. Sends(t, t, "Submitted", {"Submitted"})
  BY <1>1, <1>2, OweOne DEF IInv, Base, Shape, Kinds
<1>4. /\ Exclusive'
      /\ \A j, u : Due(j, u)' <=> Due(j, u) \/ (u = t /\ j \in {"Submitted"})
  BY <1>1, <1>3, SendFacts DEF IInv, Base, Kinds, QueueKinds
<1>5. at[t] = "new"
  BY DEF Submit
<1>6. /\ genesis' = genesis
      /\ \A u \in Tasks : u # t => /\ at'[u] = at[u] /\ status'[u] = status[u]
                                   /\ retries'[u] = retries[u] /\ (u \in heap' <=> u \in heap)
  BY <1>5 DEF Submit, IInv, Base, Shape, disk, table
<1>7. Shape'
  BY <1>3, <1>5 DEF Submit, IInv, Base, Shape, Places, Sends, disk, table, work, Busy
<1>8. Located'
  BY <1>5 DEF Submit, IInv, Base, Shape, Located, Busy, work
<1>9. Free'
  BY <1>1, <1>3, <1>5, <1>6, ThreadFacts DEF Submit, IInv, Base, Shape, Free, Sends, work
<1>10. Owings'
  <2>1. SUFFICES ASSUME NEW uh \in Threads, NEW k \in Kinds, NEW u \in Tasks, In(owed'[uh], k, u)
                 PROVE  Owing(uh, k, u)'
    BY DEF Owings
  <2>2. CASE uh = t
    <3>1. u = t /\ k \in {"Submitted"}
      BY <1>3, <2>1, <2>2 DEF Sends
    <3>2. QED
      BY <1>5, <2>2, <3>1, ThreadFacts DEF Owing, Submit, IInv, Base, Shape
  <2>3. CASE uh # t
    <3>1. In(owed[uh], k, u) /\ Owing(uh, k, u)
      BY <1>3, <2>1, <2>3 DEF Sends, IInv, Base, Owings
    <3>2. CASE u # t
      BY <1>6, <2>3, <3>1, <3>2, OwingStays DEF Submit, work, Owing, IInv, Base, Shape
    <3>3. CASE u = t
      BY <1>1, <1>5, <2>3, <3>1, <3>3, OwedAt DEF Owing, Submit, IInv, QueueKinds
    <3>4. QED
      BY <3>2, <3>3
  <2>4. QED
    BY <2>2, <2>3
<1>11. Stored'
  BY <1>1, <1>3, <1>6, StoredQuiet DEF Submit, IInv, Kinds, QueueKinds
<1>12. StatusInv'
  <2>1. SUFFICES ASSUME NEW u \in Submitted PROVE SaidAt(u)'
    BY DEF StatusInv
  <2>2. u \in Tasks /\ SaidAt(u) /\ \A k : Due(k, u) => Due(k, u)'
    BY <1>4, ConstantsAssumption DEF IInv, StatusInv
  <2>3. CASE u # t
    BY <1>6, <2>2, <2>3, SaidStays
  <2>4. CASE u = t
    BY <1>1, <1>4, <1>5, <1>6, <2>1, <2>2, <2>4, DueAt DEF SaidAt, Submit, IInv, Base, Shape, Kinds
  <2>5. QED
    BY <2>3, <2>4
<1>13. WaitInv'
  <2>1. SUFFICES ASSUME NEW u \in Tasks PROVE WaitAt(u)'
    BY DEF WaitInv
  <2>2. WaitAt(u)
    BY DEF IInv, WaitInv
  <2>3. CASE u # t
    BY <1>4, <1>6, <2>2, <2>3 DEF WaitAt, Early, First
  <2>4. CASE u = t
    BY <1>4, <1>5, <1>6, <2>2, <2>4 DEF WaitAt, Early, First, Submit, IInv, Base, Shape, Located
  <2>5. QED
    BY <2>3, <2>4
<1>14. QED
  BY <1>4, <1>7, <1>8, <1>9, <1>10, <1>11, <1>12, <1>13 DEF IInv, Base

\* Scheduling a task at once.
LEMMA ScheduleNowStep ==
  ASSUME IInv, NEW t \in Tasks, ScheduleNow(t)
  PROVE  IInv'
<1>1. t \in Threads /\ owed[t] = <<>>
  BY ThreadFacts DEF IInv, ScheduleNow, AtSchedule, Idle
<1>2. Owe(t, t, <<"Queued">>)
  BY DEF ScheduleNow
<1>3. Sends(t, t, "Queued", {"Queued"})
  BY <1>1, <1>2, OweOne DEF IInv, Base, Shape, Kinds
<1>4. /\ Exclusive'
      /\ \A j, u : Due(j, u)' <=> Due(j, u) \/ (u = t /\ j \in {"Queued"})
  BY <1>1, <1>3, SendFacts DEF IInv, Base, Kinds, QueueKinds, ScheduleNow
<1>5. at[t] \in {"new", "schedule"} /\ (at[t] = "new" => t \notin Submitted)
  BY DEF ScheduleNow, AtSchedule
<1>6. /\ genesis' = genesis
      /\ \A u \in Tasks : u # t => /\ at'[u] = at[u] /\ status'[u] = status[u]
                                   /\ retries'[u] = retries[u] /\ (u \in heap' <=> u \in heap)
  BY <1>5 DEF ScheduleNow, IInv, Base, Shape, disk, table
<1>7. Shape'
  BY <1>3, <1>5, AppendFacts DEF ScheduleNow, IInv, Base, Shape, Places, Sends, disk, table, work, Busy
<1>8. Located'
  BY <1>5, AppendFacts DEF ScheduleNow, IInv, Base, Shape, Located, Busy, work
<1>9. Free'
  BY <1>1, <1>3, <1>5, <1>6, ThreadFacts DEF ScheduleNow, IInv, Base, Shape, Free, Sends, work
<1>10. Owings'
  <2>1. SUFFICES ASSUME NEW uh \in Threads, NEW k \in Kinds, NEW u \in Tasks, In(owed'[uh], k, u)
                 PROVE  Owing(uh, k, u)'
    BY DEF Owings
  <2>2. CASE uh = t
    <3>1. u = t /\ k \in {"Queued"}
      BY <1>3, <2>1, <2>2 DEF Sends
    <3>2. QED
      BY <1>5, <2>2, <3>1, ThreadFacts DEF Owing, ScheduleNow, IInv, Base, Shape
  <2>3. CASE uh # t
    <3>1. In(owed[uh], k, u) /\ Owing(uh, k, u)
      BY <1>3, <2>1, <2>3 DEF Sends, IInv, Base, Owings
    <3>2. CASE u # t
      BY <1>6, <2>3, <3>1, <3>2, OwingStays DEF ScheduleNow, work, Owing, IInv, Base, Shape
    <3>3. CASE u = t
      BY <1>1, <1>5, <2>3, <3>1, <3>3, OwedAt DEF Owing, ScheduleNow, IInv, QueueKinds
    <3>4. QED
      BY <3>2, <3>3
  <2>4. QED
    BY <2>2, <2>3
<1>11. Stored'
  BY <1>1, <1>3, <1>5, <1>6, StoredCall DEF ScheduleNow, IInv, Base, Located, Kept, QueueKinds, Shape
<1>12. StatusInv'
  <2>1. SUFFICES ASSUME NEW u \in Submitted PROVE SaidAt(u)'
    BY DEF StatusInv
  <2>2. u \in Tasks /\ SaidAt(u) /\ \A k : Due(k, u) => Due(k, u)'
    BY <1>4, ConstantsAssumption DEF IInv, StatusInv
  <2>3. CASE u # t
    BY <1>6, <2>2, <2>3, SaidStays
  <2>4. CASE u = t
    BY <1>1, <1>4, <1>5, <1>6, <2>1, <2>2, <2>4, DueAt DEF SaidAt, ScheduleNow, IInv, Base, Shape, Kinds
  <2>5. QED
    BY <2>3, <2>4
<1>13. WaitInv'
  <2>1. SUFFICES ASSUME NEW u \in Tasks PROVE WaitAt(u)'
    BY DEF WaitInv
  <2>2. WaitAt(u)
    BY DEF IInv, WaitInv
  <2>3. CASE u # t
    BY <1>4, <1>6, <2>2, <2>3 DEF WaitAt, Early, First
  <2>4. CASE u = t
    BY <1>4, <1>5, <1>6, <2>2, <2>4 DEF WaitAt, Early, First, ScheduleNow, IInv, Base, Shape, Located
  <2>5. QED
    BY <2>3, <2>4
<1>14. QED
  BY <1>4, <1>7, <1>8, <1>9, <1>10, <1>11, <1>12, <1>13 DEF IInv, Base

\* Scheduling a task for later.
LEMMA ScheduleLaterStep ==
  ASSUME IInv, NEW t \in Tasks, ScheduleLater(t)
  PROVE  IInv'
<1>1. t \in Threads /\ owed[t] = <<>>
  BY ThreadFacts DEF IInv, ScheduleLater, AtSchedule, Idle
<1>2. Owe(t, t, <<"RetryScheduled">>)
  BY DEF ScheduleLater
<1>3. Sends(t, t, "RetryScheduled", {"RetryScheduled"})
  BY <1>1, <1>2, OweOne DEF IInv, Base, Shape, Kinds
<1>4. /\ Exclusive'
      /\ \A j, u : Due(j, u)' <=> Due(j, u) \/ (u = t /\ j \in {"RetryScheduled"})
  BY <1>1, <1>3, SendFacts DEF IInv, Base, Kinds, QueueKinds
<1>5. at[t] \in {"new", "schedule"} /\ (at[t] = "new" => t \notin Submitted)
  BY DEF ScheduleLater, AtSchedule
<1>6. /\ genesis' = genesis
      /\ \A u \in Tasks : u # t => /\ at'[u] = at[u] /\ status'[u] = status[u]
                                   /\ retries'[u] = retries[u] /\ (u \in heap' <=> u \in heap)
  BY <1>5 DEF ScheduleLater, IInv, Base, Shape, disk, table
<1>7. Shape'
  BY <1>3, <1>5 DEF ScheduleLater, IInv, Base, Shape, Places, Sends, disk, table, work, Busy
<1>8. Located'
  BY <1>5 DEF ScheduleLater, IInv, Base, Shape, Located, Busy, work
<1>9. Free'
  BY <1>1, <1>3, <1>5, <1>6, ThreadFacts DEF ScheduleLater, IInv, Base, Shape, Free, Sends, work
<1>10. Owings'
  <2>1. SUFFICES ASSUME NEW uh \in Threads, NEW k \in Kinds, NEW u \in Tasks, In(owed'[uh], k, u)
                 PROVE  Owing(uh, k, u)'
    BY DEF Owings
  <2>2. CASE uh = t
    <3>1. u = t /\ k \in {"RetryScheduled"}
      BY <1>3, <2>1, <2>2 DEF Sends
    <3>2. QED
      BY <1>5, <2>2, <3>1, ThreadFacts DEF Owing, ScheduleLater, IInv, Base, Shape
  <2>3. CASE uh # t
    <3>1. In(owed[uh], k, u) /\ Owing(uh, k, u)
      BY <1>3, <2>1, <2>3 DEF Sends, IInv, Base, Owings
    <3>2. CASE u # t
      BY <1>6, <2>3, <3>1, <3>2, OwingStays DEF ScheduleLater, work, Owing, IInv, Base, Shape
    <3>3. CASE u = t
      BY <1>1, <1>5, <2>3, <3>1, <3>3, OwedAt DEF Owing, ScheduleLater, IInv, QueueKinds
    <3>4. QED
      BY <3>2, <3>3
  <2>4. QED
    BY <2>2, <2>3
<1>11. Stored'
  BY <1>1, <1>3, <1>6, StoredQuiet DEF ScheduleLater, IInv, Kinds, QueueKinds
<1>12. StatusInv'
  <2>1. SUFFICES ASSUME NEW u \in Submitted PROVE SaidAt(u)'
    BY DEF StatusInv
  <2>2. u \in Tasks /\ SaidAt(u) /\ \A k : Due(k, u) => Due(k, u)'
    BY <1>4, ConstantsAssumption DEF IInv, StatusInv
  <2>3. CASE u # t
    BY <1>6, <2>2, <2>3, SaidStays
  <2>4. CASE u = t
    BY <1>1, <1>4, <1>5, <1>6, <2>1, <2>2, <2>4, DueAt DEF SaidAt, ScheduleLater, IInv, Base, Shape, Kinds
  <2>5. QED
    BY <2>3, <2>4
<1>13. WaitInv'
  <2>1. SUFFICES ASSUME NEW u \in Tasks PROVE WaitAt(u)'
    BY DEF WaitInv
  <2>2. WaitAt(u)
    BY DEF IInv, WaitInv
  <2>3. CASE u # t
    BY <1>4, <1>6, <2>2, <2>3 DEF WaitAt, Early, First
  <2>4. CASE u = t
    BY <1>4, <1>5, <1>6, <2>2, <2>4 DEF WaitAt, Early, First, ScheduleLater, IInv, Base, Shape, Located
  <2>5. QED
    BY <2>3, <2>4
<1>14. QED
  BY <1>4, <1>7, <1>8, <1>9, <1>10, <1>11, <1>12, <1>13 DEF IInv, Base

\* The tracker hands a task over.
LEMMA TrackerReadyStep ==
  ASSUME IInv, NEW t \in Tasks, TrackerReady(t)
  PROVE  IInv'
<1>1. "tracker" \in Threads /\ owed["tracker"] = <<>>
  BY ThreadFacts DEF IInv, TrackerReady, Idle
<1>2. Owe("tracker", t, <<"Queued", "Released">>)
  BY DEF TrackerReady
<1>3. Sends("tracker", t, "Queued", {"Queued", "Released"})
  BY <1>1, <1>2, OweTwo DEF IInv, Base, Shape, Kinds, QueueKinds
<1>4. /\ Exclusive'
      /\ \A j, u : Due(j, u)' <=> Due(j, u) \/ (u = t /\ j \in {"Queued", "Released"})
  BY <1>1, <1>3, SendFacts DEF IInv, Base, Kinds, QueueKinds, TrackerReady
<1>5. at[t] = "popped"
  BY DEF TrackerReady
<1>6. /\ genesis' = genesis
      /\ \A u \in Tasks : u # t => /\ at'[u] = at[u] /\ status'[u] = status[u]
                                   /\ retries'[u] = retries[u] /\ (u \in heap' <=> u \in heap)
  BY <1>5 DEF TrackerReady, IInv, Base, Shape, disk, table
<1>7. Shape'
  BY <1>3, <1>5, AppendFacts DEF TrackerReady, IInv, Base, Shape, Places, Sends, disk, table, work, Busy
<1>8. Located'
  BY <1>5, AppendFacts DEF TrackerReady, IInv, Base, Shape, Located, Busy, work
<1>9. Free'
  BY <1>1, <1>3, <1>5, <1>6, ThreadFacts DEF TrackerReady, IInv, Base, Shape, Free, Sends, work
<1>10. Owings'
  <2>1. SUFFICES ASSUME NEW uh \in Threads, NEW k \in Kinds, NEW u \in Tasks, In(owed'[uh], k, u)
                 PROVE  Owing(uh, k, u)'
    BY DEF Owings
  <2>2. CASE uh = "tracker"
    <3>1. u = t /\ k \in {"Queued", "Released"}
      BY <1>3, <2>1, <2>2 DEF Sends
    <3>2. QED
      BY <1>5, <2>2, <3>1, ThreadFacts DEF Owing, TrackerReady, IInv, Base, Shape
  <2>3. CASE uh # "tracker"
    <3>1. In(owed[uh], k, u) /\ Owing(uh, k, u)
      BY <1>3, <2>1, <2>3 DEF Sends, IInv, Base, Owings
    <3>2. CASE u # t
      BY <1>6, <2>3, <3>1, <3>2, OwingStays DEF TrackerReady, work, Owing, IInv, Base, Shape
    <3>3. CASE u = t
      BY <1>1, <1>5, <2>3, <3>1, <3>3, OwedAt DEF Owing, TrackerReady, IInv, QueueKinds
    <3>4. QED
      BY <3>2, <3>3
  <2>4. QED
    BY <2>2, <2>3
<1>11. Stored'
  BY <1>1, <1>3, <1>5, <1>6, StoredCall DEF TrackerReady, IInv, Base, Located, Kept, QueueKinds, Shape
<1>12. StatusInv'
  <2>1. SUFFICES ASSUME NEW u \in Submitted PROVE SaidAt(u)'
    BY DEF StatusInv
  <2>2. u \in Tasks /\ SaidAt(u) /\ \A k : Due(k, u) => Due(k, u)'
    BY <1>4, ConstantsAssumption DEF IInv, StatusInv
  <2>3. CASE u # t
    BY <1>6, <2>2, <2>3, SaidStays
  <2>4. CASE u = t
    BY <1>1, <1>4, <1>5, <1>6, <2>1, <2>2, <2>4, DueAt DEF SaidAt, TrackerReady, IInv, Base, Shape, Kinds
  <2>5. QED
    BY <2>3, <2>4
<1>13. WaitInv'
  <2>1. SUFFICES ASSUME NEW u \in Tasks PROVE WaitAt(u)'
    BY DEF WaitInv
  <2>2. WaitAt(u)
    BY DEF IInv, WaitInv
  <2>3. CASE u # t
    BY <1>4, <1>6, <2>2, <2>3 DEF WaitAt, Early, First
  <2>4. CASE u = t
    BY <1>4, <1>5, <1>6, <2>2, <2>4 DEF WaitAt, Early, First, TrackerReady, IInv, Base, Shape, Located
  <2>5. QED
    BY <2>3, <2>4
<1>14. QED
  BY <1>4, <1>7, <1>8, <1>9, <1>10, <1>11, <1>12, <1>13 DEF IInv, Base

\* Cancelling a queued task.
LEMMA CancelStep ==
  ASSUME IInv, NEW t \in Tasks, Cancel(t)
  PROVE  IInv'
<1>1. "operator" \in Threads /\ owed["operator"] = <<>>
  BY ThreadFacts DEF IInv, Cancel, Idle
<1>2. Owe("operator", t, <<"Cancelled">>)
  BY DEF Cancel
<1>3. Sends("operator", t, "Cancelled", {"Cancelled"})
  BY <1>1, <1>2, OweOne DEF IInv, Base, Shape, Kinds
<1>4. /\ Exclusive'
      /\ \A j, u : Due(j, u)' <=> Due(j, u) \/ (u = t /\ j \in {"Cancelled"})
  BY <1>1, <1>3, SendFacts DEF IInv, Base, Kinds, QueueKinds, Cancel
<1>5. at[t] = "queue"
  BY DEF Cancel, IInv, Base, Located
<1>6. /\ genesis' = genesis
      /\ \A u \in Tasks : u # t => /\ at'[u] = at[u] /\ status'[u] = status[u]
                                   /\ retries'[u] = retries[u] /\ (u \in heap' <=> u \in heap)
  BY <1>5 DEF Cancel, IInv, Base, Shape, disk, table
<1>7. Shape'
  BY <1>3, <1>5, RemoveFacts DEF Cancel, IInv, Base, Shape, Places, Sends, disk, table, work, Busy
<1>8. Located'
  BY <1>5, RemoveFacts DEF Cancel, IInv, Base, Shape, Located, Busy, work
<1>9. Free'
  BY <1>1, <1>3, <1>5, <1>6, ThreadFacts DEF Cancel, IInv, Base, Shape, Free, Sends, work
<1>10. Owings'
  <2>1. SUFFICES ASSUME NEW uh \in Threads, NEW k \in Kinds, NEW u \in Tasks, In(owed'[uh], k, u)
                 PROVE  Owing(uh, k, u)'
    BY DEF Owings
  <2>2. CASE uh = "operator"
    <3>1. u = t /\ k \in {"Cancelled"}
      BY <1>3, <2>1, <2>2 DEF Sends
    <3>2. QED
      BY <1>5, <2>2, <3>1, ThreadFacts DEF Owing, Cancel, IInv, Base, Shape
  <2>3. CASE uh # "operator"
    <3>1. In(owed[uh], k, u) /\ Owing(uh, k, u)
      BY <1>3, <2>1, <2>3 DEF Sends, IInv, Base, Owings
    <3>2. CASE u # t
      BY <1>6, <2>3, <3>1, <3>2, OwingStays DEF Cancel, work, Owing, IInv, Base, Shape
    <3>3. CASE u = t
      BY <1>1, <1>5, <2>3, <3>1, <3>3, OwedAt DEF Owing, Cancel, IInv, QueueKinds
    <3>4. QED
      BY <3>2, <3>3
  <2>4. QED
    BY <2>2, <2>3
<1>11. Stored'
  BY <1>1, <1>3, <1>5, <1>6, StoredCall DEF Cancel, IInv, Base, Located, Kept, QueueKinds, Shape
<1>12. StatusInv'
  <2>1. SUFFICES ASSUME NEW u \in Submitted PROVE SaidAt(u)'
    BY DEF StatusInv
  <2>2. u \in Tasks /\ SaidAt(u) /\ \A k : Due(k, u) => Due(k, u)'
    BY <1>4, ConstantsAssumption DEF IInv, StatusInv
  <2>3. CASE u # t
    BY <1>6, <2>2, <2>3, SaidStays
  <2>4. CASE u = t
    BY <1>1, <1>4, <1>5, <1>6, <2>1, <2>2, <2>4, DueAt DEF SaidAt, Cancel, IInv, Base, Shape, Kinds
  <2>5. QED
    BY <2>3, <2>4
<1>13. WaitInv'
  <2>1. SUFFICES ASSUME NEW u \in Tasks PROVE WaitAt(u)'
    BY DEF WaitInv
  <2>2. WaitAt(u)
    BY DEF IInv, WaitInv
  <2>3. CASE u # t
    BY <1>4, <1>6, <2>2, <2>3 DEF WaitAt, Early, First
  <2>4. CASE u = t
    BY <1>4, <1>5, <1>6, <2>2, <2>4 DEF WaitAt, Early, First, Cancel, IInv, Base, Shape, Located
  <2>5. QED
    BY <2>3, <2>4
<1>14. QED
  BY <1>4, <1>7, <1>8, <1>9, <1>10, <1>11, <1>12, <1>13 DEF IInv, Base

\* The loop takes the head of the queue.
LEMMA LoopDequeueStep ==
  ASSUME IInv, LoopDequeue
  PROVE  IInv'
<1>1. PICK t \in Tasks : t = Head(queue) /\ Contains(queue, t)
  BY HeadFacts DEF LoopDequeue, IInv, Base, Shape
<1>2. "loop" \in Threads /\ owed["loop"] = <<>>
  BY ThreadFacts DEF IInv, LoopDequeue, Idle
<1>3. Owe("loop", t, <<"Dequeued">>)
  BY <1>1 DEF LoopDequeue
<1>4. Sends("loop", t, "Dequeued", {"Dequeued"})
  BY <1>2, <1>3, OweOne DEF IInv, Base, Shape, Kinds
<1>5. /\ Exclusive'
      /\ \A j, u : Due(j, u)' <=> Due(j, u) \/ (u = t /\ j \in {"Dequeued"})
  BY <1>2, <1>4, SendFacts DEF IInv, Base, Kinds, QueueKinds, LoopDequeue
<1>6. at[t] = "queue"
  BY <1>1 DEF LoopDequeue, IInv, Base, Located, Shape, Busy
<1>7. /\ genesis' = genesis
      /\ \A u \in Tasks : u # t => /\ at'[u] = at[u] /\ status'[u] = status[u]
                                   /\ retries'[u] = retries[u] /\ (u \in heap' <=> u \in heap)
  BY <1>1, <1>6 DEF LoopDequeue, IInv, Base, Shape, disk, table
<1>8. queue' = RemoveFirst(queue, t) /\ at' = [at EXCEPT ![t] = "taken"] /\ UNCHANGED <<heap, status, work>>
  BY <1>1, HeadFacts DEF LoopDequeue, IInv, Base, Shape
<1>9. Shape'
  BY <1>1, <1>4, <1>6, <1>8, RemoveFacts DEF LoopDequeue, IInv, Base, Shape, Places, Sends, disk, table, work, Busy
<1>10. Located'
  BY <1>1, <1>6, <1>8, RemoveFacts DEF IInv, Base, Shape, Located, Busy, work
<1>11. Free'
  <2>1. \A u \in Tasks : at'[u] = "new" => at[u] = "new" /\ u # "loop"
    BY <1>1, <1>6, <1>7, ThreadFacts DEF LoopDequeue, IInv, Base, Shape
  <2>2. \A v \in Workers : wpc'[v] # "leaving" => v # "loop" /\ wpc'[v] = wpc[v]
    BY ThreadFacts DEF LoopDequeue, IInv, Base, Shape, work
  <2>3. Free
    BY DEF IInv, Base
  <2>4. QED
    BY <1>2, <1>4, <2>1, <2>2, <2>3, FreeStays
<1>12. Owings'
  <2>1. SUFFICES ASSUME NEW uh \in Threads, NEW k \in Kinds, NEW u \in Tasks, In(owed'[uh], k, u)
                 PROVE  Owing(uh, k, u)'
    BY DEF Owings
  <2>2. CASE uh = "loop"
    <3>1. u = t /\ k \in {"Dequeued"}
      BY <1>4, <2>1, <2>2 DEF Sends
    <3>2. QED
      BY <1>1, <1>6, <2>2, <3>1, ThreadFacts DEF Owing, LoopDequeue, IInv, Base, Shape
  <2>3. CASE uh # "loop"
    <3>1. In(owed[uh], k, u) /\ Owing(uh, k, u)
      BY <1>4, <2>1, <2>3 DEF Sends, IInv, Base, Owings
    <3>2. CASE u # t
      BY <1>7, <2>3, <3>1, <3>2, OwingStays DEF LoopDequeue, work, Owing, IInv, Base, Shape
    <3>3. CASE u = t
      BY <1>1, <1>2, <1>6, <2>3, <3>1, <3>3, OwedAt DEF Owing, LoopDequeue, IInv, QueueKinds
    <3>4. QED
      BY <3>2, <3>3
  <2>4. QED
    BY <2>2, <2>3
<1>13. Stored'
  BY <1>1, <1>2, <1>4, <1>6, <1>7, <1>8, StoredCall DEF LoopDequeue, IInv, Base, Located, Kept, QueueKinds, Shape
<1>14. StatusInv'
  <2>1. SUFFICES ASSUME NEW u \in Submitted PROVE SaidAt(u)'
    BY DEF StatusInv
  <2>2. u \in Tasks /\ SaidAt(u) /\ \A k : Due(k, u) => Due(k, u)'
    BY <1>5, ConstantsAssumption DEF IInv, StatusInv
  <2>3. CASE u # t
    BY <1>7, <2>2, <2>3, SaidStays
  <2>4. CASE u = t
    BY <1>1, <1>2, <1>5, <1>6, <1>7, <2>1, <2>2, <2>4, DueAt DEF SaidAt, LoopDequeue, IInv, Base, Shape, Kinds
  <2>5. QED
    BY <2>3, <2>4
<1>15. WaitInv'
  <2>1. SUFFICES ASSUME NEW u \in Tasks PROVE WaitAt(u)'
    BY DEF WaitInv
  <2>2. WaitAt(u)
    BY DEF IInv, WaitInv
  <2>3. CASE u # t
    BY <1>5, <1>7, <2>2, <2>3 DEF WaitAt, Early, First
  <2>4. CASE u = t
    BY <1>1, <1>5, <1>6, <1>7, <2>2, <2>4 DEF WaitAt, Early, First, LoopDequeue, IInv, Base, Shape, Located
  <2>5. QED
    BY <2>3, <2>4
<1>16. QED
  BY <1>5, <1>9, <1>10, <1>11, <1>12, <1>13, <1>14, <1>15 DEF IInv, Base

\* A worker takes what the loop hands over.
LEMMA WorkerTakeStep ==
  ASSUME IInv, NEW w \in Workers, NEW t \in Tasks, WorkerTake(w, t)
  PROVE  IInv'
<1>1. w \in Threads /\ owed[w] = <<>>
  BY ThreadFacts DEF IInv, WorkerTake, Base, Free
<1>2. Owe(w, t, <<"Started">>)
  BY DEF WorkerTake
<1>3. Sends(w, t, "Started", {"Started"})
  BY <1>1, <1>2, OweOne DEF IInv, Base, Shape, Kinds
<1>4. /\ Exclusive'
      /\ \A j, u : Due(j, u)' <=> Due(j, u) \/ (u = t /\ j \in {"Started"})
  BY <1>1, <1>3, SendFacts DEF IInv, Base, Kinds, QueueKinds
<1>5. at[t] = "taken"
  BY DEF WorkerTake
<1>6. /\ genesis' = genesis
      /\ \A u \in Tasks : u # t => /\ at'[u] = at[u] /\ status'[u] = status[u]
                                   /\ retries'[u] = retries[u] /\ (u \in heap' <=> u \in heap)
  BY <1>5 DEF WorkerTake, IInv, Base, Shape, disk, table
<1>7. Shape'
  BY <1>3, <1>5 DEF WorkerTake, IInv, Base, Shape, Places, Sends, disk, table, work, Busy
<1>8. Located'
  BY <1>5 DEF WorkerTake, IInv, Base, Shape, Located, Busy, work
<1>9. Free'
  BY <1>1, <1>3, <1>5, <1>6, ThreadFacts DEF WorkerTake, IInv, Base, Shape, Free, Sends, work
<1>10. Owings'
  <2>1. SUFFICES ASSUME NEW uh \in Threads, NEW k \in Kinds, NEW u \in Tasks, In(owed'[uh], k, u)
                 PROVE  Owing(uh, k, u)'
    BY DEF Owings
  <2>2. CASE uh = w
    <3>1. u = t /\ k \in {"Started"}
      BY <1>3, <2>1, <2>2 DEF Sends
    <3>2. QED
      BY <1>5, <2>2, <3>1, ThreadFacts DEF Owing, WorkerTake, IInv, Base, Shape
  <2>3. CASE uh # w
    <3>1. In(owed[uh], k, u) /\ Owing(uh, k, u)
      BY <1>3, <2>1, <2>3 DEF Sends, IInv, Base, Owings
    <3>2. CASE u # t
      BY <1>6, <2>3, <3>1, <3>2, OwingStays DEF WorkerTake, work, Owing, IInv, Base, Shape
    <3>3. CASE u = t
      BY <1>1, <1>5, <2>3, <3>1, <3>3, OwedAt DEF Owing, WorkerTake, IInv, QueueKinds, Idle
    <3>4. QED
      BY <3>2, <3>3
  <2>4. QED
    BY <2>2, <2>3
<1>11. Stored'
  BY <1>1, <1>3, <1>6, StoredQuiet DEF WorkerTake, IInv, Kinds, QueueKinds
<1>12. StatusInv'
  <2>1. SUFFICES ASSUME NEW u \in Submitted PROVE SaidAt(u)'
    BY DEF StatusInv
  <2>2. u \in Tasks /\ SaidAt(u) /\ \A k : Due(k, u) => Due(k, u)'
    BY <1>4, ConstantsAssumption DEF IInv, StatusInv
  <2>3. CASE u # t
    BY <1>6, <2>2, <2>3, SaidStays
  <2>4. CASE u = t
    BY <1>1, <1>4, <1>5, <1>6, <2>1, <2>2, <2>4, DueAt DEF SaidAt, WorkerTake, IInv, Base, Shape, Kinds
  <2>5. QED
    BY <2>3, <2>4
<1>13. WaitInv'
  <2>1. SUFFICES ASSUME NEW u \in Tasks PROVE WaitAt(u)'
    BY DEF WaitInv
  <2>2. WaitAt(u)
    BY DEF IInv, WaitInv
  <2>3. CASE u # t
    BY <1>4, <1>6, <2>2, <2>3 DEF WaitAt, Early, First
  <2>4. CASE u = t
    BY <1>4, <1>5, <1>6, <2>2, <2>4 DEF WaitAt, Early, First, WorkerTake, IInv, Base, Shape, Located
  <2>5. QED
    BY <2>3, <2>4
<1>14. QED
  BY <1>4, <1>7, <1>8, <1>9, <1>10, <1>11, <1>12, <1>13 DEF IInv, Base

\* A worker is done with its task.
LEMMA WorkerCompleteStep ==
  ASSUME IInv, NEW w \in Workers, WorkerComplete(w)
  PROVE  IInv'
<1>1. PICK t \in Tasks : t = job[w]
  BY DEF WorkerComplete, IInv, Base, Located, Busy
<1>2. w \in Threads /\ owed[w] = <<>>
  BY ThreadFacts DEF IInv, WorkerComplete, Base, Free
<1>3. Owe(w, t, <<"Completed">>)
  BY <1>1 DEF WorkerComplete
<1>4. Sends(w, t, "Completed", {"Completed"})
  BY <1>2, <1>3, OweOne DEF IInv, Base, Shape, Kinds
<1>5. /\ Exclusive'
      /\ \A j, u : Due(j, u)' <=> Due(j, u) \/ (u = t /\ j \in {"Completed"})
  BY <1>2, <1>4, SendFacts DEF IInv, Base, Kinds, QueueKinds
<1>6. at[t] = "held" /\ wpc[w] = "running"
  BY <1>1 DEF WorkerComplete, IInv, Base, Located, Shape, Busy
<1>7. /\ genesis' = genesis
      /\ \A u \in Tasks : u # t => /\ at'[u] = at[u] /\ status'[u] = status[u]
                                   /\ retries'[u] = retries[u] /\ (u \in heap' <=> u \in heap)
  BY <1>1, <1>6 DEF WorkerComplete, IInv, Base, Shape, disk, table
<1>8. Shape'
  BY <1>1, <1>4, <1>6 DEF WorkerComplete, IInv, Base, Shape, Places, Sends, disk, table, work, Busy
<1>9. Located'
  BY <1>1, <1>6 DEF WorkerComplete, IInv, Base, Shape, Located, Busy, work
<1>10. Free'
  BY <1>1, <1>2, <1>4, <1>6, <1>7, ThreadFacts DEF WorkerComplete, IInv, Base, Shape, Free, Sends, work
<1>11. Owings'
  <2>1. SUFFICES ASSUME NEW uh \in Threads, NEW k \in Kinds, NEW u \in Tasks, In(owed'[uh], k, u)
                 PROVE  Owing(uh, k, u)'
    BY DEF Owings
  <2>2. CASE uh = w
    <3>1. u = t /\ k \in {"Completed"}
      BY <1>4, <2>1, <2>2 DEF Sends
    <3>2. QED
      BY <1>1, <1>6, <2>2, <3>1, ThreadFacts DEF Owing, WorkerComplete, IInv, Base, Shape
  <2>3. CASE uh # w
    <3>1. In(owed[uh], k, u) /\ Owing(uh, k, u)
      BY <1>4, <2>1, <2>3 DEF Sends, IInv, Base, Owings
    <3>2. CASE u # t
      BY <1>7, <2>3, <3>1, <3>2, OwingStays DEF WorkerComplete, work, Owing, IInv, Base, Shape
    <3>3. CASE u = t
      BY <1>1, <1>2, <1>6, <2>3, <3>1, <3>3, OwedAt DEF Owing, WorkerComplete, IInv, QueueKinds
    <3>4. QED
      BY <3>2, <3>3
  <2>4. QED
    BY <2>2, <2>3
<1>12. Stored'
  BY <1>2, <1>4, <1>7, StoredQuiet DEF WorkerComplete, IInv, Kinds, QueueKinds
<1>13. StatusInv'
  <2>1. SUFFICES ASSUME NEW u \in Submitted PROVE SaidAt(u)'
    BY DEF StatusInv
  <2>2. u \in Tasks /\ SaidAt(u) /\ \A k : Due(k, u) => Due(k, u)'
    BY <1>5, ConstantsAssumption DEF IInv, StatusInv
  <2>3. CASE u # t
    BY <1>7, <2>2, <2>3, SaidStays
  <2>4. CASE u = t
    BY <1>1, <1>2, <1>5, <1>6, <1>7, <2>1, <2>2, <2>4, DueAt DEF SaidAt, WorkerComplete, IInv, Base, Shape, Kinds, Located, Busy
  <2>5. QED
    BY <2>3, <2>4
<1>14. WaitInv'
  <2>1. SUFFICES ASSUME NEW u \in Tasks PROVE WaitAt(u)'
    BY DEF WaitInv
  <2>2. WaitAt(u)
    BY DEF IInv, WaitInv
  <2>3. CASE u # t
    BY <1>5, <1>7, <2>2, <2>3 DEF WaitAt, Early, First
  <2>4. CASE u = t
    BY <1>1, <1>5, <1>6, <1>7, <2>2, <2>4 DEF WaitAt, Early, First, WorkerComplete, IInv, Base, Shape, Located
  <2>5. QED
    BY <2>3, <2>4
<1>15. QED
  BY <1>5, <1>8, <1>9, <1>10, <1>11, <1>12, <1>13, <1>14 DEF IInv, Base

\* The failure of a task is final.
LEMMA GiveUpStep ==
  ASSUME IInv, NEW w \in Workers, GiveUp(w)
  PROVE  IInv'
<1>1. PICK t \in Tasks : t = job[w]
  BY DEF GiveUp, IInv, Base, Located, Busy
<1>2. w \in Threads /\ owed[w] = <<>>
  BY ThreadFacts DEF IInv, GiveUp, Base, Free
<1>3. Owe(w, t, <<"Failed">>)
  BY <1>1 DEF GiveUp
<1>4. Sends(w, t, "Failed", {"Failed"})
  BY <1>2, <1>3, OweOne DEF IInv, Base, Shape, Kinds
<1>5. /\ Exclusive'
      /\ \A j, u : Due(j, u)' <=> Due(j, u) \/ (u = t /\ j \in {"Failed"})
  BY <1>2, <1>4, SendFacts DEF IInv, Base, Kinds, QueueKinds
<1>6. at[t] = "held" /\ wpc[w] = "failing"
  BY <1>1 DEF GiveUp, IInv, Base, Located, Shape, Busy
<1>7. /\ genesis' = genesis
      /\ \A u \in Tasks : u # t => /\ at'[u] = at[u] /\ status'[u] = status[u]
                                   /\ retries'[u] = retries[u] /\ (u \in heap' <=> u \in heap)
  BY <1>1, <1>6 DEF GiveUp, IInv, Base, Shape, disk, table
<1>8. Shape'
  BY <1>1, <1>4, <1>6 DEF GiveUp, IInv, Base, Shape, Places, Sends, disk, table, work, Busy
<1>9. Located'
  BY <1>1, <1>6 DEF GiveUp, IInv, Base, Shape, Located, Busy, work
<1>10. Free'
  BY <1>1, <1>2, <1>4, <1>6, <1>7, ThreadFacts DEF GiveUp, IInv, Base, Shape, Free, Sends, work
<1>11. Owings'
  <2>1. SUFFICES ASSUME NEW uh \in Threads, NEW k \in Kinds, NEW u \in Tasks, In(owed'[uh], k, u)
                 PROVE  Owing(uh, k, u)'
    BY DEF Owings
  <2>2. CASE uh = w
    <3>1. u = t /\ k \in {"Failed"}
      BY <1>4, <2>1, <2>2 DEF Sends
    <3>2. QED
      BY <1>1, <1>6, <2>2, <3>1, ThreadFacts DEF Owing, GiveUp, IInv, Base, Shape, Located
  <2>3. CASE uh # w
    <3>1. In(owed[uh], k, u) /\ Owing(uh, k, u)
      BY <1>4, <2>1, <2>3 DEF Sends, IInv, Base, Owings
    <3>2. CASE u # t
      BY <1>7, <2>3, <3>1, <3>2, OwingStays DEF GiveUp, work, Owing, IInv, Base, Shape
    <3>3. CASE u = t
      BY <1>1, <1>2, <1>6, <2>3, <3>1, <3>3, OwedAt DEF Owing, GiveUp, IInv, QueueKinds
    <3>4. QED
      BY <3>2, <3>3
  <2>4. QED
    BY <2>2, <2>3
<1>12. Stored'
  BY <1>2, <1>4, <1>7, StoredQuiet DEF GiveUp, IInv, Kinds, QueueKinds
<1>13. StatusInv'
  <2>1. SUFFICES ASSUME NEW u \in Submitted PROVE SaidAt(u)'
    BY DEF StatusInv
  <2>2. u \in Tasks /\ SaidAt(u) /\ \A k : Due(k, u) => Due(k, u)'
    BY <1>5, ConstantsAssumption DEF IInv, StatusInv
  <2>3. CASE u # t
    BY <1>7, <2>2, <2>3, SaidStays
  <2>4. CASE u = t
    BY <1>1, <1>2, <1>5, <1>6, <1>7, <2>1, <2>2, <2>4, DueAt DEF SaidAt, GiveUp, IInv, Base, Shape, Kinds, Located, Busy
  <2>5. QED
    BY <2>3, <2>4
<1>14. WaitInv'
  <2>1. SUFFICES ASSUME NEW u \in Tasks PROVE WaitAt(u)'
    BY DEF WaitInv
  <2>2. WaitAt(u)
    BY DEF IInv, WaitInv
  <2>3. CASE u # t
    BY <1>5, <1>7, <2>2, <2>3 DEF WaitAt, Early, First
  <2>4. CASE u = t
    BY <1>1, <1>5, <1>6, <1>7, <2>2, <2>4 DEF WaitAt, Early, First, GiveUp, IInv, Base, Shape, Located
  <2>5. QED
    BY <2>3, <2>4
<1>15. QED
  BY <1>5, <1>8, <1>9, <1>10, <1>11, <1>12, <1>13, <1>14 DEF IInv, Base

\* A failed task waits for its retry.
LEMMA RetryLaterStep ==
  ASSUME IInv, NEW w \in Workers, RetryLater(w)
  PROVE  IInv'
<1>1. PICK t \in Tasks : t = job[w]
  BY DEF RetryLater, IInv, Base, Located, Busy
<1>2. w \in Threads /\ owed[w] = <<>>
  BY ThreadFacts DEF IInv, RetryLater, Base, Free
<1>3. Owe(w, t, <<"TaskRetried", "RetryScheduled">>)
  BY <1>1 DEF RetryLater
<1>4. Sends(w, t, "TaskRetried", {"TaskRetried", "RetryScheduled"})
  BY <1>2, <1>3, OweTwo DEF IInv, Base, Shape, Kinds, QueueKinds
<1>5. /\ Exclusive'
      /\ \A j, u : Due(j, u)' <=> Due(j, u) \/ (u = t /\ j \in {"TaskRetried", "RetryScheduled"})
  BY <1>2, <1>4, SendFacts DEF IInv, Base, Kinds, QueueKinds
<1>6. at[t] = "held" /\ wpc[w] = "failing"
  BY <1>1 DEF RetryLater, IInv, Base, Located, Shape, Busy
<1>7. /\ genesis' = genesis
      /\ \A u \in Tasks : u # t => /\ at'[u] = at[u] /\ status'[u] = status[u]
                                   /\ retries'[u] = retries[u] /\ (u \in heap' <=> u \in heap)
  BY <1>1, <1>6 DEF RetryLater, IInv, Base, Shape, disk, table
<1>8. Shape'
  BY <1>1, <1>4, <1>6 DEF RetryLater, IInv, Base, Shape, Places, Sends, disk, table, work, Busy
<1>9. Located'
  BY <1>1, <1>6 DEF RetryLater, IInv, Base, Shape, Located, Busy, work
<1>10. Free'
  <2>1. \A u \in Tasks : at'[u] = "new" => at[u] = "new" /\ u # w
    BY <1>1, <1>6, <1>7, ThreadFacts DEF RetryLater, IInv, Base, Shape
  <2>2. \A v \in Workers : wpc'[v] # "leaving" => v # w /\ wpc'[v] = wpc[v]
    BY ThreadFacts DEF RetryLater, IInv, Base, Shape, work
  <2>3. Free
    BY DEF IInv, Base
  <2>4. QED
    BY <1>2, <1>4, <2>1, <2>2, <2>3, FreeStays
<1>11. Owings'
  <2>1. SUFFICES ASSUME NEW uh \in Threads, NEW k \in Kinds, NEW u \in Tasks, In(owed'[uh], k, u)
                 PROVE  Owing(uh, k, u)'
    BY DEF Owings
  <2>2. CASE uh = w
    <3>1. u = t /\ k \in {"TaskRetried", "RetryScheduled"}
      BY <1>4, <2>1, <2>2 DEF Sends
    <3>2. QED
      BY <1>1, <1>6, <2>2, <3>1, ThreadFacts DEF Owing, RetryLater, IInv, Base, Shape, MayRetry
  <2>3. CASE uh # w
    <3>1. In(owed[uh], k, u) /\ Owing(uh, k, u)
      BY <1>4, <2>1, <2>3 DEF Sends, IInv, Base, Owings
    <3>2. CASE u # t
      BY <1>7, <2>3, <3>1, <3>2, OwingStays DEF RetryLater, work, Owing, IInv, Base, Shape
    <3>3. CASE u = t
      BY <1>1, <1>2, <1>6, <2>3, <3>1, <3>3, OwedAt DEF Owing, RetryLater, IInv, QueueKinds
    <3>4. QED
      BY <3>2, <3>3
  <2>4. QED
    BY <2>2, <2>3
<1>12. Stored'
  BY <1>2, <1>4, <1>7, StoredQuiet DEF RetryLater, IInv, Kinds, QueueKinds
<1>13. StatusInv'
  <2>1. SUFFICES ASSUME NEW u \in Submitted PROVE SaidAt(u)'
    BY DEF StatusInv
  <2>2. u \in Tasks /\ SaidAt(u) /\ \A k : Due(k, u) => Due(k, u)'
    BY <1>5, ConstantsAssumption DEF IInv, StatusInv
  <2>3. CASE u # t
    BY <1>7, <2>2, <2>3, SaidStays
  <2>4. CASE u = t
    BY <1>1, <2>1, <2>4, PolicyNotSubmitted DEF RetryLater, MayRetry
  <2>5. QED
    BY <2>3, <2>4
<1>14. WaitInv'
  <2>1. SUFFICES ASSUME NEW u \in Tasks PROVE WaitAt(u)'
    BY DEF WaitInv
  <2>2. WaitAt(u)
    BY DEF IInv, WaitInv
  <2>3. CASE u # t
    BY <1>5, <1>7, <2>2, <2>3 DEF WaitAt, Early, First
  <2>4. CASE u = t
    BY <1>1, <1>5, <1>6, <1>7, <2>2, <2>4 DEF WaitAt, Early, First, RetryLater, IInv, Base, Shape, Located
  <2>5. QED
    BY <2>3, <2>4
<1>15. QED
  BY <1>5, <1>8, <1>9, <1>10, <1>11, <1>12, <1>13, <1>14 DEF IInv, Base

\* A failed task is retried without a delay.
LEMMA RetryNowStep ==
  ASSUME IInv, NEW w \in Workers, RetryNow(w)
  PROVE  IInv'
<1>1. PICK t \in Tasks : t = job[w]
  BY DEF RetryNow, IInv, Base, Located, Busy
<1>2. w \in Threads /\ owed[w] = <<>>
  BY ThreadFacts DEF IInv, RetryNow, Base, Free
<1>3. Owe(w, t, <<"Queued", "Released", "TaskRetried", "RetryScheduled">>)
  BY <1>1 DEF RetryNow
<1>4. Sends(w, t, "Queued", {"Queued", "Released", "TaskRetried", "RetryScheduled"})
  BY <1>2, <1>3, OweFour DEF IInv, Base, Shape
<1>5. /\ Exclusive'
      /\ \A j, u : Due(j, u)' <=> Due(j, u) \/ (u = t /\ j \in {"Queued", "Released", "TaskRetried", "RetryScheduled"})
  BY <1>2, <1>4, SendFacts DEF IInv, Base, Kinds, QueueKinds, RetryNow
<1>6. at[t] = "held" /\ wpc[w] = "failing"
  BY <1>1 DEF RetryNow, IInv, Base, Located, Shape, Busy
<1>7. /\ genesis' = genesis
      /\ \A u \in Tasks : u # t => /\ at'[u] = at[u] /\ status'[u] = status[u]
                                   /\ retries'[u] = retries[u] /\ (u \in heap' <=> u \in heap)
  BY <1>1, <1>6 DEF RetryNow, IInv, Base, Shape, disk, table
<1>8. Shape'
  BY <1>1, <1>4, <1>6, AppendFacts DEF RetryNow, IInv, Base, Shape, Places, Sends, disk, table, work, Busy
<1>9. Located'
  BY <1>1, <1>6, AppendFacts DEF RetryNow, IInv, Base, Shape, Located, Busy, work
<1>10. Free'
  <2>1. \A u \in Tasks : at'[u] = "new" => at[u] = "new" /\ u # w
    BY <1>1, <1>6, <1>7, ThreadFacts DEF RetryNow, IInv, Base, Shape
  <2>2. \A v \in Workers : wpc'[v] # "leaving" => v # w /\ wpc'[v] = wpc[v]
    BY ThreadFacts DEF RetryNow, IInv, Base, Shape, work
  <2>3. Free
    BY DEF IInv, Base
  <2>4. QED
    BY <1>2, <1>4, <2>1, <2>2, <2>3, FreeStays
<1>11. Owings'
  <2>1. SUFFICES ASSUME NEW uh \in Threads, NEW k \in Kinds, NEW u \in Tasks, In(owed'[uh], k, u)
                 PROVE  Owing(uh, k, u)'
    BY DEF Owings
  <2>2. CASE uh = w
    <3>1. u = t /\ k \in {"Queued", "Released", "TaskRetried", "RetryScheduled"}
      BY <1>4, <2>1, <2>2 DEF Sends
    <3>2. QED
      BY <1>1, <1>6, <2>2, <3>1, ThreadFacts DEF Owing, RetryNow, IInv, Base, Shape, MayRetry
  <2>3. CASE uh # w
    <3>1. In(owed[uh], k, u) /\ Owing(uh, k, u)
      BY <1>4, <2>1, <2>3 DEF Sends, IInv, Base, Owings
    <3>2. CASE u # t
      BY <1>7, <2>3, <3>1, <3>2, OwingStays DEF RetryNow, work, Owing, IInv, Base, Shape
    <3>3. CASE u = t
      BY <1>1, <1>2, <1>6, <2>3, <3>1, <3>3, OwedAt DEF Owing, RetryNow, IInv, QueueKinds
    <3>4. QED
      BY <3>2, <3>3
  <2>4. QED
    BY <2>2, <2>3
<1>12. Stored'
  BY <1>1, <1>2, <1>4, <1>6, <1>7, StoredCall DEF RetryNow, IInv, Base, Located, Kept, QueueKinds, Shape
<1>13. StatusInv'
  <2>1. SUFFICES ASSUME NEW u \in Submitted PROVE SaidAt(u)'
    BY DEF StatusInv
  <2>2. u \in Tasks /\ SaidAt(u) /\ \A k : Due(k, u) => Due(k, u)'
    BY <1>5, ConstantsAssumption DEF IInv, StatusInv
  <2>3. CASE u # t
    BY <1>7, <2>2, <2>3, SaidStays
  <2>4. CASE u = t
    BY <1>1, <2>1, <2>4, PolicyNotSubmitted DEF RetryNow, MayRetry
  <2>5. QED
    BY <2>3, <2>4
<1>14. WaitInv'
  <2>1. SUFFICES ASSUME NEW u \in Tasks PROVE WaitAt(u)'
    BY DEF WaitInv
  <2>2. WaitAt(u)
    BY DEF IInv, WaitInv
  <2>3. CASE u # t
    BY <1>5, <1>7, <2>2, <2>3 DEF WaitAt, Early, First
  <2>4. CASE u = t
    BY <1>1, <1>5, <1>6, <1>7, <2>2, <2>4 DEF WaitAt, Early, First, RetryNow, IInv, Base, Shape, Located
  <2>5. QED
    BY <2>3, <2>4
<1>15. QED
  BY <1>5, <1>8, <1>9, <1>10, <1>11, <1>12, <1>13, <1>14 DEF IInv, Base

\* What the engine and the whole log are is all that the invariant is about.
LEMMA SameStep ==
  ASSUME IInv, UNCHANGED <<genesis, owed, queue, heap, at, status, retries, job, wpc>>
  PROVE  IInv'
<1>1. Shape'
  BY DEF IInv, Base, Shape
<1>2. Located'
  BY DEF IInv, Base, Located
<1>3. Free'
  BY DEF IInv, Base, Free
<1>4. Owings'
  BY DEF IInv, Base, Owings, Owing
<1>5. Exclusive'
  BY DEF IInv, Base, Exclusive
<1>6. Stored'
  BY StoredSame DEF IInv
<1>7. StatusInv'
  BY DEF IInv, StatusInv, SaidAt, Due
<1>8. WaitInv'
  BY DEF IInv, WaitInv, WaitAt, Early, First, Due
<1>9. QED
  BY <1>1, <1>2, <1>3, <1>4, <1>5, <1>6, <1>7, <1>8 DEF IInv, Base

\* The tracker takes what is ripe.
LEMMA TrackerPopStep ==
  ASSUME IInv, TrackerPop
  PROVE  IInv'
<1>1. PICK ripe \in SUBSET heap : heap' = heap \ ripe /\ at' = [t \in Tasks |-> IF t \in ripe THEN "popped" ELSE at[t]]
  BY DEF TrackerPop
<1>2. UNCHANGED <<genesis, owed, queue, status, retries, job, wpc>>
  BY DEF TrackerPop, disk, table, emit, work
<1>3. /\ \A u \in Tasks : u \in ripe => at[u] = "heap" /\ at'[u] = "popped"
      /\ \A u \in Tasks : u \notin ripe => at'[u] = at[u]
  BY <1>1 DEF IInv, Base, Shape, Located
<1>4. Shape'
  BY <1>1, <1>2 DEF IInv, Base, Shape, Places
<1>5. Located'
  BY <1>1, <1>2, <1>3 DEF IInv, Base, Shape, Located, Busy
<1>6. Free'
  BY <1>2, <1>3 DEF IInv, Base, Free
<1>7. Exclusive'
  BY <1>2 DEF IInv, Base, Exclusive
<1>8. Owings'
  <2>1. SUFFICES ASSUME NEW uh \in Threads, NEW k \in Kinds, NEW u \in Tasks, In(owed[uh], k, u)
                 PROVE  Owing(uh, k, u)'
    BY <1>2 DEF Owings
  <2>2. Owing(uh, k, u)
    BY <2>1 DEF IInv, Base, Owings
  <2>3. CASE u \notin ripe
    BY <1>2, <1>3, <2>2, <2>3, OwingStays
  <2>4. CASE u \in ripe
    BY <1>3, <2>1, <2>4, OwedAt DEF Owing, IInv
  <2>5. QED
    BY <2>3, <2>4
<1>9. Stored'
  BY <1>2, StoredSame DEF IInv
<1>10. \A k, u : Due(k, u)' <=> Due(k, u)
  BY <1>2 DEF Due
<1>11. StatusInv'
  <2>1. SUFFICES ASSUME NEW u \in Submitted PROVE SaidAt(u)'
    BY DEF StatusInv
  <2>2. u \in Tasks /\ SaidAt(u)
    BY ConstantsAssumption DEF IInv, StatusInv
  <2>3. CASE u \notin ripe
    BY <1>2, <1>3, <1>10, <2>2, <2>3, SaidStays
  <2>4. CASE u \in ripe
    BY <1>2, <1>3, <2>2, <2>4 DEF SaidAt
  <2>5. QED
    BY <2>3, <2>4
<1>12. WaitInv'
  BY <1>1, <1>2, <1>3, <1>10 DEF IInv, Base, Shape, WaitInv, WaitAt, Early, First
<1>13. QED
  BY <1>4, <1>5, <1>6, <1>7, <1>8, <1>9, <1>11, <1>12 DEF IInv, Base

\* A worker starts on its task, or its task fails.
LEMMA StatusStep ==
  ASSUME IInv, NEW w \in Workers, WorkerRun(w) \/ WorkerFail(w)
  PROVE  IInv'
<1>1. wpc[w] \in Busy /\ wpc[w] \in {"begun", "running"} /\ owed[w] = <<>>
  BY DEF WorkerRun, WorkerFail, Idle, IInv, Base, Free, Busy
<1>2. PICK t \in Tasks : t = job[w] /\ at[t] = "held"
  BY <1>1 DEF IInv, Base, Located
<1>3. UNCHANGED <<genesis, owed, queue, heap, at, retries, job>>
  BY DEF WorkerRun, WorkerFail, disk, table, emit
<1>4. /\ status' \in [Tasks -> {"PENDING", "RUNNING", "COMPLETED", "FAILED"}]
      /\ \A u \in Tasks : u # t => status'[u] = status[u]
      /\ wpc' \in [Workers -> {"idle", "leaving"} \cup Busy] /\ wpc'[w] \in {"running", "failing"}
      /\ \A v \in Workers : v # w => wpc'[v] = wpc[v]
      /\ wpc'[w] = "failing" => status'[t] = "FAILED"
  BY <1>2 DEF WorkerRun, WorkerFail, IInv, Base, Shape, Busy
<1>5. Shape'
  BY <1>3, <1>4 DEF IInv, Base, Shape
<1>6. Located'
  <2>1. \A v \in Workers : wpc'[v] \in Busy => wpc[v] \in Busy
    BY <1>1, <1>4
  <2>2. ASSUME NEW v \in Workers, wpc'[v] = "failing" PROVE status'[job[v]] = "FAILED"
    <3>1. CASE v = w
      BY <1>2, <1>4, <2>2, <3>1
    <3>2. CASE v # w
      <4>1. wpc[v] = "failing" /\ wpc[v] \in Busy
        BY <1>4, <2>2, <3>2 DEF Busy
      <4>2. job[v] \in Tasks /\ job[v] # t /\ status[job[v]] = "FAILED"
        BY <1>1, <1>2, <3>2, <4>1 DEF IInv, Base, Located
      <4>3. QED
        BY <1>4, <4>2
    <3>3. QED
      BY <3>1, <3>2
  <2>3. QED
    BY <1>3, <2>1, <2>2 DEF IInv, Base, Located
<1>7. Free'
  BY <1>1, <1>3, <1>4 DEF IInv, Base, Free
<1>8. Exclusive'
  BY <1>3 DEF IInv, Base, Exclusive
<1>9. Owings'
  <2>1. SUFFICES ASSUME NEW uh \in Threads, NEW k \in Kinds, NEW u \in Tasks, In(owed[uh], k, u)
                 PROVE  Owing(uh, k, u)'
    BY <1>3 DEF Owings
  <2>2. Owing(uh, k, u)
    BY <2>1 DEF IInv, Base, Owings
  <2>3. uh # w /\ (k = "Started" => uh \in Workers) /\ (k \in {"Completed", "Failed"} => u # t)
    BY <1>1, <1>2, <2>1, OwedAt DEF IInv
  <2>4. QED
    BY <1>3, <1>4, <2>2, <2>3, OwingStays
<1>10. Stored'
  BY <1>3, StoredSame DEF IInv
<1>11. \A k, u : Due(k, u)' <=> Due(k, u)
  BY <1>3 DEF Due
<1>12. StatusInv'
  <2>1. SUFFICES ASSUME NEW u \in Submitted PROVE SaidAt(u)'
    BY DEF StatusInv
  <2>2. u \in Tasks /\ SaidAt(u)
    BY ConstantsAssumption DEF IInv, StatusInv
  <2>3. QED
    BY <1>2, <1>3, <1>4, <1>11, <2>2, SaidStays
<1>13. WaitInv'
  BY <1>3, <1>11 DEF IInv, WaitInv, WaitAt, Early, First
<1>14. QED
  BY <1>5, <1>6, <1>7, <1>8, <1>9, <1>10, <1>12, <1>13 DEF IInv, Base

\* A worker that is done comes back.
LEMMA WorkerLeaveStep ==
  ASSUME IInv, NEW w \in Workers, WorkerLeave(w)
  PROVE  IInv'
<1>1. wpc[w] = "leaving" /\ owed[w] = <<>>
  BY DEF WorkerLeave, Idle
<1>2. UNCHANGED <<genesis, owed, queue, heap, at, status, retries>>
  BY DEF WorkerLeave, disk, table, emit
<1>3. /\ wpc' \in [Workers -> {"idle", "leaving"} \cup Busy] /\ wpc'[w] = "idle"
      /\ job' \in [Workers -> Tasks \cup {None}]
      /\ \A v \in Workers : v # w => wpc'[v] = wpc[v] /\ job'[v] = job[v]
  BY DEF WorkerLeave, IInv, Base, Shape, Busy
<1>4. Shape'
  BY <1>2, <1>3 DEF IInv, Base, Shape
<1>5. Located'
  BY <1>2, <1>3 DEF IInv, Base, Located, Busy
<1>6. Free'
  BY <1>1, <1>2, <1>3 DEF IInv, Base, Free
<1>7. Exclusive'
  BY <1>2 DEF IInv, Base, Exclusive
<1>8. Owings'
  <2>1. SUFFICES ASSUME NEW uh \in Threads, NEW k \in Kinds, NEW u \in Tasks, In(owed[uh], k, u)
                 PROVE  Owing(uh, k, u)'
    BY <1>2 DEF Owings
  <2>2. Owing(uh, k, u)
    BY <2>1 DEF IInv, Base, Owings
  <2>3. uh # w /\ (k = "Started" => uh \in Workers)
    BY <1>1, <2>1, OwedAt DEF IInv
  <2>4. QED
    BY <1>2, <1>3, <2>2, <2>3, OwingStays
<1>9. Stored'
  BY <1>2, StoredSame DEF IInv
<1>10. StatusInv'
  BY <1>2 DEF IInv, StatusInv, SaidAt, Due
<1>11. WaitInv'
  BY <1>2 DEF IInv, WaitInv, WaitAt, Early, First, Due
<1>12. QED
  BY <1>4, <1>5, <1>6, <1>7, <1>8, <1>9, <1>10, <1>11 DEF IInv, Base

\* A thread appends an event.
LEMMA EmitStep ==
  ASSUME IInv, NEW th \in Threads, Emit(th)
  PROVE  IInv'
<1>1. PICK e : e = Head(owed[th])
  OBVIOUS
<1>2. /\ e \in Event /\ In(owed[th], e.kind, e.task)
      /\ owed' \in [Threads -> Seq(Event)] /\ Exclusive' /\ ~Locks(owed'[th])
      /\ \A uh \in Threads : uh # th => owed'[uh] = owed[uh]
      /\ \A uh \in Threads : owed[uh] = <<>> => owed'[uh] = <<>>
      /\ \A uh \in Threads : \A k, u : In(owed'[uh], k, u) => In(owed[uh], k, u)
      /\ \A k, u : Due(k, u)' => Due(k, u)
      /\ \A k, u : Due(k, u) => Due(k, u)' \/ (k = e.kind /\ u = e.task)
  BY <1>1, EmitFacts DEF IInv, Base, Shape
<1>3. PICK k \in Kinds, t \in Tasks : k = e.kind /\ t = e.task
  BY <1>2 DEF Event
<1>4. UNCHANGED <<queue, heap, at, status, retries, job, wpc>>
  BY DEF Emit, work
<1>5. /\ genesis' \in Image /\ genesis'.queue = Kept(genesis.queue, k, t)
      /\ genesis'.delayed = Waits(genesis.delayed, k, t)
      /\ genesis'.tasks = [genesis.tasks EXCEPT ![t] = Told(genesis.tasks[t], k)]
  <2>1. genesis' = Apply(genesis, e) /\ genesis \in Image
    BY <1>1 DEF Emit, IInv, Base, Shape
  <2>2. QED
    BY <1>2, <1>3, <2>1, ApplyFacts
<1>6. Owing(th, k, t)
  BY <1>2, <1>3 DEF IInv, Base, Owings
<1>7. Shape'
  BY <1>2, <1>4, <1>5 DEF IInv, Base, Shape
<1>8. Located'
  BY <1>4 DEF IInv, Base, Located
<1>9. Free'
  BY <1>2, <1>4, ThreadFacts DEF IInv, Base, Free
<1>10. Owings'
  BY <1>2, <1>4 DEF IInv, Base, Owings, Owing
<1>11. Stored'
  <2>1. CASE Locks(owed[th])
    <3>1. \A uh \in Threads : ~Locks(owed'[uh])
      BY <1>2, <2>1 DEF IInv, Base, Exclusive
    <3>2. genesis'.queue = queue
      BY <1>1, <1>3, <1>5, <2>1 DEF IInv, Stored
    <3>3. QED
      BY <1>4, <3>1, <3>2 DEF Stored
  <2>2. CASE ~Locks(owed[th])
    <3>1. k \notin QueueKinds
      BY <1>1, <1>3, <2>2 DEF Emit, Locks
    <3>2. \A uh \in Threads : Locks(owed'[uh]) <=> Locks(owed[uh])
      BY <1>2, <2>2
    <3>3. \A uh \in Threads : Locks(owed[uh]) => owed'[uh] = owed[uh]
      BY <1>2, <2>2
    <3>4. genesis'.queue = genesis.queue
      <4>1. CASE k \notin {"Completed", "Failed"}
        BY <1>5, <3>1, <4>1 DEF Kept, QueueKinds
      <4>2. CASE k \in {"Completed", "Failed"}
        <5>1. at[t] = "over" /\ ~Contains(queue, t)
          BY <1>6, <4>2 DEF Owing, IInv, Base, Located
        <5>2. ~Contains(genesis.queue, t)
          <6>1. CASE \A uh \in Threads : ~Locks(owed[uh])
            BY <5>1, <6>1 DEF IInv, Stored
          <6>2. ASSUME NEW uh \in Threads, Locks(owed[uh]) PROVE ~Contains(genesis.queue, t)
            <7>1. PICK s : s = owed[uh]
              OBVIOUS
            <7>2. s \in Seq(Event) /\ s # <<>> /\ Head(s).kind \in QueueKinds
              BY <6>2, <7>1 DEF IInv, Base, Shape, Locks
            <7>3. Head(s) \in Event /\ In(s, Head(s).kind, Head(s).task)
              BY <7>2, TailFacts
            <7>4. PICK j \in QueueKinds, u \in Tasks : j = Head(s).kind /\ u = Head(s).task
              BY <7>2, <7>3 DEF Event
            <7>5. u # t
              BY <5>1, <7>1, <7>3, <7>4, OwedAt DEF IInv, QueueKinds, Kinds
            <7>6. Kept(genesis.queue, j, u) = queue
              BY <6>2, <7>1, <7>4 DEF IInv, Stored
            <7>7. PICK g \in Seq(Tasks) : g = genesis.queue
              BY DEF IInv, Base, Shape, Image
            <7>8. Contains(g, t) => Contains(Kept(g, j, u), t)
              BY <7>4, <7>5, RemoveFacts, AppendFacts DEF Kept, QueueKinds
            <7>9. QED
              BY <5>1, <7>6, <7>7, <7>8
          <6>3. QED
            BY <6>1, <6>2
        <5>3. PICK g \in Seq(Tasks) : g = genesis.queue
          BY DEF IInv, Base, Shape, Image
        <5>4. RemoveFirst(g, t) = g
          BY <5>2, <5>3, FirstFacts DEF Contains
        <5>5. QED
          BY <1>5, <4>2, <5>3, <5>4 DEF Kept
      <4>3. QED
        BY <4>1, <4>2
    <3>5. QED
      BY <1>4, <3>2, <3>3, <3>4 DEF IInv, Stored
  <2>3. QED
    BY <2>1, <2>2
<1>12. StatusInv'
  <2>1. SUFFICES ASSUME NEW u \in Submitted PROVE SaidAt(u)'
    BY DEF StatusInv
  <2>2. u \in Tasks /\ SaidAt(u) /\ genesis.tasks \in [Tasks -> Said]
    BY ConstantsAssumption DEF IInv, StatusInv, Base, Shape, Image
  <2>3. CASE u # t
    <3>1. genesis'.tasks[u] = genesis.tasks[u] /\ \A j : Due(j, u) => Due(j, u)'
      BY <1>2, <1>3, <1>5, <2>2, <2>3
    <3>2. QED
      BY <1>4, <2>2, <3>1 DEF SaidAt
  <2>4. CASE u = t
    <3>1. genesis'.tasks[u] = Told(genesis.tasks[u], k)
      BY <1>5, <2>2, <2>4
    <3>2. \A j : Due(j, u) => Due(j, u)' \/ j = k
      BY <1>2, <1>3
    <3>3. /\ k = "Submitted" => at[u] = "schedule"
          /\ k = "Queued" => at[u] = "queue"
          /\ k = "Started" => at[u] = "held"
          /\ k = "Completed" => at[u] = "over" /\ status[u] = "COMPLETED"
          /\ k = "Failed" => at[u] = "over" /\ status[u] = "FAILED"
          /\ k = "Cancelled" => at[u] = "cancelled"
          /\ k # "TaskRetried"
      BY <1>2, <1>3, <2>1, <2>4, OwedAt, PolicyNotSubmitted DEF IInv
    <3>4. QED
      BY <1>4, <2>2, <3>1, <3>2, <3>3 DEF SaidAt, Told
  <2>5. QED
    BY <2>3, <2>4
<1>13. WaitInv'
  <2>1. SUFFICES ASSUME NEW u \in Tasks PROVE WaitAt(u)'
    BY DEF WaitInv
  <2>2. WaitAt(u)
    BY DEF IInv, WaitInv
  <2>3. ASSUME t = u, k = "Released" PROVE ~Early(u)
    <3>1. Due("Released", u)
      BY <1>2, <1>3, <2>3 DEF Due
    <3>2. QED
      BY <2>2, <3>1 DEF WaitAt
  <2>4. ASSUME u \in genesis.delayed, Early(u) PROVE u \in genesis'.delayed
    BY <1>5, <2>3, <2>4 DEF Waits
  <2>5. ASSUME Due("RetryScheduled", u) PROVE u \in genesis'.delayed \/ Due("RetryScheduled", u)'
    <3>1. CASE k = "RetryScheduled" /\ t = u
      BY <1>5, <3>1 DEF Waits
    <3>2. CASE ~(k = "RetryScheduled" /\ t = u)
      BY <1>2, <1>3, <2>5, <3>2
    <3>3. QED
      BY <3>1, <3>2
  <2>6. u \in heap /\ retries[u] = First(u) => Early(u)
    BY DEF Early, IInv, Base, Located
  <2>7. QED
    BY <1>2, <1>4, <2>2, <2>4, <2>5, <2>6 DEF WaitAt, Early, First
<1>14. QED
  BY <1>2, <1>7, <1>8, <1>9, <1>10, <1>11, <1>12, <1>13 DEF IInv, Base

----------------------------------------------------------------------------
(* The theorems.                                                           *)

\* At first nothing is queued, owed or logged.
LEMMA InitHolds == Init => IInv
<1>1. SUFFICES ASSUME Init PROVE IInv
  OBVIOUS
<1>2. \A th \in Threads : owed[th] = <<>>
  BY <1>1 DEF Init
<1>3. \A k, t : ~In(<<>>, k, t)
  BY DEF In
<1>4. \A k, t : ~Due(k, t)
  BY <1>2, <1>3 DEF Due
<1>5. Shape
  <2>1. <<>> \in Seq(Event) /\ <<>> \in Seq(Tasks)
    BY EmptySeq
  <2>2. Blank \in Image
    BY <2>1 DEF Blank, Image, Said
  <2>3. QED
    BY <1>1, <2>1, <2>2 DEF Init, Shape, Places, Busy
<1>6. Located
  <2>1. \A t : ~Contains(<<>>, t) /\ Once(<<>>, t)
    BY DEF Contains, Once
  <2>2. QED
    BY <1>1, <2>1 DEF Init, Located, Busy
<1>7. Free
  BY <1>2, ThreadFacts DEF Free
<1>8. Owings
  BY <1>2, <1>3 DEF Owings
<1>9. Exclusive
  BY <1>2 DEF Exclusive, Neat, Locks
<1>10. Stored
  BY <1>1, <1>2 DEF Init, Stored, Blank, Locks
<1>11. StatusInv
  BY <1>1, ConstantsAssumption DEF Init, StatusInv, SaidAt, Blank
<1>12. WaitInv
  BY <1>1, <1>4 DEF Init, WaitInv, WaitAt
<1>13. QED
  BY <1>5, <1>6, <1>7, <1>8, <1>9, <1>10, <1>11, <1>12 DEF IInv, Base

\* What was lost stays lost.
LEMMA NothingLost ==
  ASSUME [Next]_vars, lost' = {}
  PROVE  lost = {} /\ \A th \in Threads : ~EmitFails(th)
<1>1. ASSUME NEW th \in Threads, Emit(th) \/ EmitFails(th) PROVE lost = {} /\ ~EmitFails(th)
  BY <1>1 DEF Emit, EmitFails
<1>2. \A th \in Threads : ~EmitFails(th)
  BY <1>1
<1>3. ASSUME NEW t \in Tasks,
             Submit(t) \/ ScheduleNow(t) \/ ScheduleLater(t) \/ TrackerReady(t) \/ Cancel(t)
      PROVE  lost = {}
  BY <1>3 DEF Submit, ScheduleNow, ScheduleLater, TrackerReady, Cancel, disk
<1>4. ASSUME NEW w \in Workers,
             \/ \E t \in Tasks : WorkerTake(w, t)
             \/ WorkerRun(w) \/ WorkerComplete(w) \/ WorkerFail(w)
             \/ GiveUp(w) \/ RetryLater(w) \/ RetryNow(w) \/ WorkerLeave(w)
      PROVE  lost = {}
  BY <1>4 DEF WorkerTake, WorkerRun, WorkerComplete, WorkerFail, GiveUp, RetryLater, RetryNow,
              WorkerLeave, disk
<1>5. ASSUME \/ TrackerPop \/ LoopDequeue \/ Tick \/ UNCHANGED vars
             \/ \E policy \in {"latest", "genesis"} : Checkpoint(policy)
      PROVE  lost = {}
  BY <1>5 DEF TrackerPop, LoopDequeue, Tick, Checkpoint, vars, disk
<1>6. QED
  BY <1>1, <1>2, <1>3, <1>4, <1>5 DEF Next

\* The log and the engine stay in step, whatever the threads do, until an
\* event is lost.
THEOREM Invariance == Spec => [](lost = {} => IInv)
<1>1. (lost = {} => IInv) /\ [Next]_vars => (lost = {} => IInv)'
  <2>1. SUFFICES ASSUME IInv, [Next]_vars, \A th \in Threads : ~EmitFails(th) PROVE IInv'
    BY NothingLost
  <2>2. ASSUME NEW th \in Threads, Emit(th) PROVE IInv'
    BY <2>1, <2>2, EmitStep
  <2>3. ASSUME NEW t \in Tasks,
               Submit(t) \/ ScheduleNow(t) \/ ScheduleLater(t) \/ TrackerReady(t) \/ Cancel(t)
        PROVE  IInv'
    BY <2>1, <2>3, SubmitStep, ScheduleNowStep, ScheduleLaterStep, TrackerReadyStep, CancelStep
  <2>4. CASE TrackerPop
    BY <2>1, <2>4, TrackerPopStep
  <2>5. CASE LoopDequeue
    BY <2>1, <2>5, LoopDequeueStep
  <2>6. ASSUME NEW w \in Workers, NEW t \in Tasks, WorkerTake(w, t) PROVE IInv'
    BY <2>1, <2>6, WorkerTakeStep
  <2>7. ASSUME NEW w \in Workers,
               \/ WorkerRun(w) \/ WorkerComplete(w) \/ WorkerFail(w)
               \/ GiveUp(w) \/ RetryLater(w) \/ RetryNow(w) \/ WorkerLeave(w)
        PROVE  IInv'
    BY <2>1, <2>7, StatusStep, WorkerCompleteStep, GiveUpStep, RetryLaterStep, RetryNowStep, WorkerLeaveStep
  <2>8. ASSUME NEW policy \in {"latest", "genesis"}, Checkpoint(policy) PROVE IInv'
    BY <2>1, <2>8, SameStep DEF Checkpoint, emit, work
  <2>9. CASE Tick
    BY <2>1, <2>9, SameStep DEF Tick, work
  <2>10. CASE UNCHANGED vars
    BY <2>1, <2>10, SameStep DEF vars, disk, table, emit, work
  <2>11. QED
    BY <2>1, <2>2, <2>3, <2>4, <2>5, <2>6, <2>7, <2>8, <2>9, <2>10 DEF Next
<1>2. QED
  BY <1>1, InitHolds, PTL DEF Spec

\* As long as no append failed, replaying the whole log gives the task queue,
\* order included; during a queue call, once the event of that call is in the
\* log.
THEOREM Queue == Spec => [](lost = {} => QueueSurvives)
<1>1. IInv => QueueSurvives
  <2>1. SUFFICES ASSUME IInv PROVE QueueSurvives
    OBVIOUS
  <2>2. CASE ~LockHeld
    BY <2>1, <2>2, LockFacts DEF IInv, Stored, QueueSurvives, SameOrder
  <2>3. CASE LockHeld
    <3>1. SUFFICES ASSUME NEW th \in Threads, Locks(owed[th])
                   PROVE  Apply(genesis, Head(owed[th])).queue = queue
      BY <2>3 DEF QueueSurvives, Locks, SameOrder
    <3>2. Head(owed[th]) \in Event /\ genesis \in Image
      <4>1. PICK s : s = owed[th]
        OBVIOUS
      <4>2. s \in Seq(Event) /\ s # <<>> /\ genesis \in Image
        BY <2>1, <3>1, <4>1 DEF IInv, Base, Shape, Locks
      <4>3. QED
        BY <4>1, <4>2, TailFacts
    <3>3. QED
      BY <2>1, <3>1, <3>2, ApplyFacts DEF IInv, Stored
  <2>4. QED
    BY <2>2, <2>3
<1>2. QED
  BY <1>1, Invariance, PTL

\* As long as no append failed, the log never says more of a submitted task
\* than is true, and it says what is true once no event about the task is
\* outstanding.
THEOREM Status == Spec => [](lost = {} => StatusSurvives)
<1>1. IInv => StatusSurvives
  <2>1. SUFFICES ASSUME IInv, NEW t \in Submitted
                 PROVE  /\ genesis.tasks[t] = "Completed" => status[t] = "COMPLETED"
                        /\ genesis.tasks[t] = "Failed" => status[t] = "FAILED" \/ at[t] = "cancelled"
                        /\ ~Owes(t) => genesis.tasks[t]
                              = CASE at[t] = "new" -> "absent"
                                  [] at[t] = "cancelled" -> "Failed"
                                  [] at[t] = "held" -> "Running"
                                  [] at[t] = "over" /\ status[t] = "COMPLETED" -> "Completed"
                                  [] at[t] = "over" /\ status[t] = "FAILED" -> "Failed"
                                  [] OTHER -> "Pending"
    BY Zenon DEF StatusSurvives
  <2>2. t \in Tasks /\ SaidAt(t) /\ at[t] \in Places
    BY <2>1, ConstantsAssumption DEF IInv, Base, Shape, StatusInv
  <2>3. \A k : Due(k, t) => Owes(t)
    BY DEF Due, In, Owes
  <2>4. /\ genesis.tasks[t] = "Completed" => status[t] = "COMPLETED"
        /\ genesis.tasks[t] = "Failed" => status[t] = "FAILED" \/ at[t] = "cancelled"
    BY <2>2 DEF SaidAt, Places
  <2>5. ASSUME ~Owes(t)
        PROVE  /\ at[t] = "new" => genesis.tasks[t] = "absent"
               /\ at[t] = "cancelled" => genesis.tasks[t] = "Failed"
               /\ at[t] = "held" => genesis.tasks[t] = "Running"
               /\ at[t] = "over" => \/ genesis.tasks[t] = "Completed" /\ status[t] = "COMPLETED"
                                    \/ genesis.tasks[t] = "Failed" /\ status[t] = "FAILED"
               /\ at[t] \notin {"new", "cancelled", "held", "over"} => genesis.tasks[t] = "Pending"
    BY <2>2, <2>3, <2>5 DEF SaidAt, Places
  <2>6. QED
    BY <2>4, <2>5, Zenon
<1>2. QED
  BY <1>1, Invariance, PTL

\* The first time a task waits in the delay heap, the log knows of it or is
\* about to, as long as no append failed.
THEOREM Delays == Spec => [](lost = {} => DelayedSurvives)
<1>1. IInv => DelayedSurvives
  BY DEF IInv, Base, Shape, WaitInv, WaitAt, First, Due, In, DelayedSurvives
<1>2. QED
  BY <1>1, Invariance, PTL

----------------------------------------------------------------------------
(* Folds: a checkpoint replays the events of its moment.                   *)

\* The greatest element of a set that has one.
LEMMA MaxFacts ==
  ASSUME NEW m \in Nat, NEW s, s \subseteq 1..m, m \in s
  PROVE  Max(s) = m
<1>1. \A x \in s : x \in Nat /\ x <= m
  OBVIOUS
<1>2. \A x \in s : (\A y \in s : x >= y) => x = m
  BY <1>1
<1>3. \A y \in s : m >= y
  BY <1>1
<1>4. QED
  BY <1>2, <1>3 DEF Max

\* g replays the events at each set of the first m places of q, from b, in the
\* way of the community fold.
Replays(g, b, q, m) ==
  g = [s \in SUBSET (1..m) |-> IF s = {} THEN b ELSE Apply(g[s \ {Max(s)}], q[Max(s)])]

\* There is such a function.
LEMMA ReplayExists ==
  ASSUME NEW b, NEW q, NEW n \in Nat
  PROVE  \E g : Replays(g, b, q, n)
<1> DEFINE B == {m \in Nat : ~ \E g : Replays(g, b, q, m)}
<1>1. SUFFICES ASSUME B # {} PROVE FALSE
  OBVIOUS
<1>2. PICK m \in B : \A k \in B : m <= k
  <2>1. B \subseteq Nat
    OBVIOUS
  <2> HIDE DEF B
  <2>2. QED
    BY <1>1, <2>1, Least
<1>3. m \in Nat /\ ~ \E g : Replays(g, b, q, m)
  OBVIOUS
<1>4. CASE m = 0
  <2>1. PICK g : g = [s \in SUBSET (1..m) |-> b]
    OBVIOUS
  <2>2. \A s \in SUBSET (1..m) : s = {}
    BY <1>4
  <2>3. Replays(g, b, q, m)
    BY <2>1, <2>2 DEF Replays
  <2>4. QED
    BY <1>3, <2>3
<1>5. CASE m # 0
  <2>1. m - 1 \in Nat /\ m - 1 \notin B
    BY <1>2, <1>3, <1>5
  <2>2. PICK g : Replays(g, b, q, m - 1)
    BY <2>1
  <2>3. PICK h : h = [s \in SUBSET (1..m) |-> IF m \in s THEN Apply(g[s \ {m}], q[m]) ELSE g[s]]
    OBVIOUS
  <2>4. \A s \in SUBSET (1..m) : m \notin s => s \in SUBSET (1..(m - 1))
    BY <1>3
  <2>5. ASSUME NEW s \in SUBSET (1..m)
        PROVE  h[s] = IF s = {} THEN b ELSE Apply(h[s \ {Max(s)}], q[Max(s)])
    <3>1. CASE m \in s
      <4>1. Max(s) = m
        BY <1>3, <3>1, MaxFacts
      <4>2. s \ {m} \in SUBSET (1..m) /\ m \notin s \ {m}
        OBVIOUS
      <4>3. h[s \ {m}] = g[s \ {m}]
        BY <2>3, <4>2
      <4>4. h[s] = Apply(g[s \ {m}], q[m])
        BY <2>3, <3>1
      <4>5. QED
        BY <3>1, <4>1, <4>3, <4>4
    <3>2. CASE m \notin s
      <4>1. s \in SUBSET (1..(m - 1)) /\ h[s] = g[s]
        BY <2>3, <2>4, <3>2
      <4>2. PICK r : r = s \ {Max(s)}
        OBVIOUS
      <4>3. r \in SUBSET (1..m) /\ m \notin r /\ h[r] = g[r]
        BY <2>3, <3>2, <4>2
      <4>4. g[s] = IF s = {} THEN b ELSE Apply(g[r], q[Max(s)])
        BY <2>2, <4>1, <4>2 DEF Replays
      <4>5. QED
        BY <4>1, <4>2, <4>3, <4>4
    <3>3. QED
      BY <3>1, <3>2
  <2>6. Replays(h, b, q, m)
    <3>1. PICK d : d = [s \in SUBSET (1..m) |-> IF s = {} THEN b ELSE Apply(h[s \ {Max(s)}], q[Max(s)])]
      OBVIOUS
    <3>2. h = d
      BY <2>3, <2>5, <3>1
    <3>3. QED
      BY <3>1, <3>2 DEF Replays
  <2>7. QED
    BY <1>3, <2>6
<1>6. QED
  BY <1>4, <1>5

\* The state that replaying the events q makes of b.
Replayed(b, q) == FoldLeft(Apply, b, q)

\* What it is, event by event.
LEMMA FoldFacts ==
  ASSUME NEW b, NEW q \in Seq(Event)
  PROVE  \E r : /\ r[0] = b /\ Replayed(b, q) = r[Len(q)]
                /\ \A i \in 1..Len(q) : r[i] = Apply(r[i - 1], q[i])
<1>1. PICK n : n = Len(q)
  OBVIOUS
<1>2. n \in Nat /\ DOMAIN q = 1..n
  BY <1>1
<1>3. PICK g : g = CHOOSE x : Replays(x, b, q, n)
  OBVIOUS
<1>4. Replays(g, b, q, n)
  BY <1>2, <1>3, ReplayExists
<1>5. Replayed(b, q) = g[1..n]
  BY <1>2, <1>3, Zenon DEF Replayed, FoldLeft, MapThenFoldSet, Replays
<1>6. PICK r : r = [i \in 0..n |-> g[1..i]]
  OBVIOUS
<1>7. \A s \in SUBSET (1..n) : g[s] = IF s = {} THEN b ELSE Apply(g[s \ {Max(s)}], q[Max(s)])
  BY <1>4 DEF Replays
<1>8. r[0] = b
  <2>1. 1..0 = {} /\ {} \in SUBSET (1..n) /\ 0 \in 0..n
    BY <1>2
  <2>2. r[0] = g[{}]
    BY <1>6, <2>1
  <2>3. QED
    BY <1>7, <2>1, <2>2
<1>9. ASSUME NEW i \in 1..n PROVE r[i] = Apply(r[i - 1], q[i])
  <2>1. PICK s : s = 1..i
    OBVIOUS
  <2>2. i \in Nat /\ s \subseteq 1..n /\ s \subseteq 1..i /\ i \in s
    BY <1>2, <2>1
  <2>3. Max(s) = i
    BY <2>2, MaxFacts
  <2>4. s \ {i} = 1..(i - 1)
    BY <1>2, <2>1
  <2>5. i \in 0..n /\ i - 1 \in 0..n
    BY <1>2
  <2>6. r[i] = g[s] /\ r[i - 1] = g[s \ {i}]
    BY <1>6, <2>1, <2>4, <2>5
  <2>7. g[s] = Apply(g[s \ {i}], q[i])
    BY <1>7, <2>2, <2>3
  <2>8. QED
    BY <2>6, <2>7
<1>10. r[n] = g[1..n]
  BY <1>2, <1>6
<1>11. QED
  BY <1>1, <1>5, <1>8, <1>9, <1>10

\* What no step ends, lasts.
LEMMA Stays ==
  ASSUME NEW n \in Nat, NEW v, v[0] = TRUE, \A i \in 1..n : v[i - 1] = TRUE => v[i] = TRUE,
         NEW k \in 0..n
  PROVE  v[k] = TRUE
<1> DEFINE B == {m \in Nat : m <= n /\ v[m] # TRUE}
<1>1. SUFFICES ASSUME v[k] # TRUE PROVE FALSE
  OBVIOUS
<1>2. PICK m \in B : \A j \in B : m <= j
  <2>1. k \in Nat /\ k <= n
    OBVIOUS
  <2>2. B \subseteq Nat
    OBVIOUS
  <2>3. B # {}
    BY <1>1, <2>1
  <2> HIDE DEF B
  <2>4. QED
    BY <2>2, <2>3, Least
<1>3. m \in Nat /\ m <= n /\ v[m] # TRUE
  OBVIOUS
<1>4. m \in 1..n /\ m - 1 \in Nat /\ m - 1 <= n /\ m - 1 < m
  <2>1. m # 0
    BY <1>3
  <2>2. QED
    BY <1>3, <2>1
<1>5. v[m - 1] # TRUE
  BY <1>3, <1>4
<1>6. m - 1 \in B
  BY <1>4, <1>5
<1>7. m <= m - 1
  BY <1>2, <1>6
<1>8. QED
  BY <1>3, <1>7

\* What only the steps T write is what the last of them wrote, or what it was.
LEMMA Settles ==
  ASSUME NEW n \in Nat, NEW v, NEW T, T \subseteq 1..n, \A i \in 1..n : i \notin T => v[i] = v[i - 1]
  PROVE  \E m \in 0..n : /\ v[n] = v[m] /\ (m = 0 \/ m \in T)
                         /\ \A j \in T : j <= m
<1> DEFINE Rest(m) == m <= n /\ v[m] = v[n] /\ \A j \in T : j <= m
           B == {m \in Nat : Rest(m)}
<1>1. PICK m \in B : \A k \in B : m <= k
  <2>1. Rest(n)
    OBVIOUS
  <2>2. B \subseteq Nat /\ B # {}
    BY <2>1
  <2> HIDE DEF B
  <2>3. QED
    BY <2>2, Least
<1>2. m \in Nat /\ m <= n /\ v[m] = v[n] /\ \A j \in T : j <= m
  OBVIOUS
<1>3. ASSUME m \notin T, m # 0 PROVE FALSE
  <2>1. m \in 1..n /\ m - 1 \in Nat /\ m - 1 <= n
    BY <1>2, <1>3
  <2>2. v[m] = v[m - 1]
    BY <1>3, <2>1
  <2>3. \A j \in T : j <= m - 1
    <3>1. \A j \in T : j \in Nat /\ j <= m /\ j # m
      BY <1>2, <1>3
    <3>2. QED
      BY <1>2, <3>1
  <2>4. m - 1 \in B
    BY <1>2, <2>1, <2>2, <2>3
  <2>5. m <= m - 1
    BY <1>1, <2>4
  <2>6. QED
    BY <1>2, <2>5
<1>4. m \in 0..n /\ (m = 0 \/ m \in T)
  BY <1>2, <1>3
<1>5. QED
  BY <1>2, <1>4

----------------------------------------------------------------------------
(* The latest checkpoint.  The events of the checkpoint's own moment are   *)
(* replayed on top of a state that has them; that gives the same state     *)
(* again because the last word on each task is among them, if any is.      *)

\* The events that say how a task ended, that change the queue record, and
\* that change the status of a submitted task.
Outcomes == {"Completed", "Failed"}
Placing  == {"Queued", "Dequeued", "Cancelled"} \cup Outcomes
Telling  == {"Submitted", "Queued", "Started", "Cancelled"} \cup Outcomes
Weighty  == Placing \cup Telling

\* Among the events q there is one of the kinds K about t; the last is q[i].
About(e, K, t) == e.task = t /\ e.kind \in K
Some(q, K, t)  == \E i \in 1..Len(q) : About(q[i], K, t)
LastAbout(q, i, K, t) ==
  i \in 1..Len(q) /\ About(q[i], K, t) /\ \A j \in 1..Len(q) : About(q[j], K, t) => j <= i

\* A replayed state has each task once in its queue and knows no task that was
\* not submitted; a sound event does not make it known.
Good(s)  == (\A t \in Tasks : Once(s.queue, t)) /\ \A t \in Tasks \ Submitted : s.tasks[t] = "absent"
Sound(e) == /\ e.kind = "Submitted" => e.task \in Submitted
            /\ e.kind = "TaskRetried" => e.task \in Retried

\* Two replayed states say the same of every task and queue the same tasks.
Agree(r, s) == r.tasks = s.tasks /\ \A t \in Tasks : Contains(r.queue, t) <=> Contains(s.queue, t)

\* What is on disk.
Records ==
  /\ recent \in Seq(Event) /\ page \in Nat /\ latest \in Image
  /\ Good(genesis) /\ Good(latest)
  /\ \A i \in 1..Len(recent) : Sound(recent[i])
  /\ \A t \in Tasks : at[t] = "schedule" => t \in Submitted
  /\ saved \in {"never", "now", "before"} /\ saves \in Nat /\ (saves = 0 => saved = "never")

\* A thread's next event may be older than the present only if it has one, and
\* none is when the state was saved just now.
Aged == stale \subseteq Threads /\ (\A th \in stale : owed[th] # <<>>) /\ (saved = "now" => stale = {})

\* One thread reports how a task ended.
Sole == \A th, uh \in Threads, t \in Tasks, j, k \in Outcomes :
          In(owed[th], j, t) /\ In(owed[uh], k, t) => th = uh

\* An event that may still be stamped in the past is the next word on its task.
Late == \A th \in stale, t \in Tasks :
          About(Head(owed[th]), Weighty, t) => ~Some(recent, Weighty, t)

\* The last word of the present is what the log says.
LastWord ==
  /\ \A t \in Submitted : Some(recent, Telling, t) => genesis.tasks[t] # "absent"
  /\ \A t \in Submitted, i \in 1..Len(recent) :
       LastAbout(recent, i, Telling, t) => genesis.tasks[t] = Told("Pending", recent[i].kind)
  /\ \A t \in Tasks, i \in 1..Len(recent) :
       LastAbout(recent, i, Placing, t) => (Contains(genesis.queue, t) <=> recent[i].kind = "Queued")

LogInv == Records /\ Aged /\ Sole /\ Late /\ LastWord

SaveInv == page < StreamLimit /\ saved # "never" => Agree(latest, genesis)

\* One more event.
LEMMA AddedFacts ==
  ASSUME NEW q \in Seq(Event), NEW e \in Event, NEW K, NEW t
  PROVE  /\ Append(q, e) \in Seq(Event)
         /\ \A i \in 1..Len(Append(q, e)) : Append(q, e)[i] = e \/ \E j \in 1..Len(q) : Append(q, e)[i] = q[j]
         /\ Some(Append(q, e), K, t) => Some(q, K, t) \/ About(e, K, t)
         /\ \A i \in 1..Len(Append(q, e)) : LastAbout(Append(q, e), i, K, t) =>
              \/ About(e, K, t) /\ Append(q, e)[i] = e
              \/ ~About(e, K, t) /\ i \in 1..Len(q) /\ Append(q, e)[i] = q[i] /\ LastAbout(q, i, K, t)
<1>1. PICK n, p : n = Len(q) /\ p = Append(q, e)
  OBVIOUS
<1>2. /\ p \in Seq(Event) /\ Len(p) = n + 1 /\ n \in Nat /\ p[n + 1] = e
      /\ \A i \in 1..n : p[i] = q[i]
  BY <1>1, AppendProperties, LenProperties
<1>3. \A i \in 1..n + 1 : i \in 1..n \/ i = n + 1
  BY <1>2
<1>4. \A i \in 1..n : i \in 1..n + 1 /\ i < n + 1
  BY <1>2
<1>5. n + 1 \in 1..n + 1
  BY <1>2
<1>6. \A i \in 1..n + 1 : p[i] = e \/ \E j \in 1..n : p[i] = q[j]
  BY <1>2, <1>3
<1>7. Some(p, K, t) => Some(q, K, t) \/ About(e, K, t)
  BY <1>1, <1>2, <1>3 DEF Some
<1>8. ASSUME NEW i \in 1..n + 1, LastAbout(p, i, K, t)
      PROVE  \/ About(e, K, t) /\ p[i] = e
             \/ ~About(e, K, t) /\ i \in 1..n /\ p[i] = q[i] /\ LastAbout(q, i, K, t)
  <2>1. CASE About(e, K, t)
    <3>1. n + 1 <= i
      BY <1>2, <1>5, <1>8, <2>1 DEF LastAbout
    <3>2. i = n + 1
      BY <1>2, <3>1
    <3>3. QED
      BY <1>2, <2>1, <3>2
  <2>2. CASE ~About(e, K, t)
    <3>1. i # n + 1
      BY <1>2, <1>8, <2>2 DEF LastAbout
    <3>2. i \in 1..n /\ p[i] = q[i]
      BY <1>2, <1>3, <3>1
    <3>3. LastAbout(q, i, K, t)
      BY <1>1, <1>2, <1>4, <1>8, <3>2 DEF LastAbout
    <3>4. QED
      BY <2>2, <3>2, <3>3
  <2>3. QED
    BY <2>1, <2>2
<1>9. QED
  BY <1>1, <1>2, <1>6, <1>7, <1>8

\* What an event does to the record of each task.
LEMMA ApplyGood ==
  ASSUME NEW s \in Image, NEW e \in Event, Good(s), Sound(e)
  PROVE  /\ Apply(s, e) \in Image /\ Good(Apply(s, e))
         /\ \A t \in Tasks : /\ Apply(s, e).tasks[t] = IF t = e.task THEN Told(s.tasks[t], e.kind) ELSE s.tasks[t]
                             /\ Contains(Apply(s, e).queue, t) <=>
                                  IF About(e, Placing, t) THEN e.kind = "Queued" ELSE Contains(s.queue, t)
<1>1. PICK k \in Kinds, u \in Tasks : k = e.kind /\ u = e.task
  BY DEF Event
<1>2. PICK r : r = Apply(s, e)
  OBVIOUS
<1>3. /\ r \in Image /\ r.queue = Kept(s.queue, k, u)
      /\ r.tasks = [s.tasks EXCEPT ![u] = Told(s.tasks[u], k)]
  BY <1>1, <1>2, ApplyFacts
<1>4. PICK q \in Seq(Tasks) : q = s.queue
  BY DEF Image
<1>5. s.tasks \in [Tasks -> Said]
  BY DEF Image
<1>6. \A t \in Tasks : Once(q, t)
  BY <1>4 DEF Good
<1>7. ASSUME NEW t \in Tasks
      PROVE  /\ Once(Kept(q, k, u), t)
             /\ Contains(Kept(q, k, u), t) <=> IF About(e, Placing, t) THEN e.kind = "Queued" ELSE Contains(q, t)
  <2>0. Once(q, t) /\ Once(q, u)
    BY <1>6
  <2>1. About(e, Placing, t) <=> u = t /\ k \in Placing
    BY <1>1 DEF About
  <2>2. CASE k = "Queued"
    <3>1. CASE Contains(q, u)
      BY <1>1, <2>0, <2>1, <2>2, <3>1 DEF Kept, Placing
    <3>2. CASE ~Contains(q, u)
      <4>1. Kept(q, k, u) = Append(q, u)
        BY <2>2, <3>2 DEF Kept
      <4>2. /\ Contains(Append(q, u), t) <=> Contains(q, t) \/ t = u
            /\ Once(Append(q, u), t)
        BY <2>0, <3>2, AppendFacts
      <4>3. QED
        BY <1>1, <2>1, <2>2, <4>1, <4>2 DEF Placing
    <3>3. QED
      BY <3>1, <3>2
  <2>3. CASE k \in Placing /\ k # "Queued"
    <3>1. Kept(q, k, u) = RemoveFirst(q, u)
      BY <2>3 DEF Kept, Placing, Outcomes
    <3>2. /\ Contains(RemoveFirst(q, u), t) => Contains(q, t)
          /\ Contains(q, t) /\ t # u => Contains(RemoveFirst(q, u), t)
          /\ Once(RemoveFirst(q, u), t) /\ ~Contains(RemoveFirst(q, u), u)
      BY <2>0, RemoveFacts
    <3>3. QED
      BY <1>1, <2>1, <2>3, <3>1, <3>2
  <2>4. CASE k \notin Placing
    BY <2>0, <2>1, <2>4 DEF Kept, Placing, Outcomes
  <2>5. QED
    BY <2>2, <2>3, <2>4
<1>8. ASSUME NEW t \in Tasks
      PROVE  /\ r.tasks[t] = IF t = e.task THEN Told(s.tasks[t], e.kind) ELSE s.tasks[t]
             /\ t \notin Submitted => r.tasks[t] = "absent"
  <2>1. r.tasks[t] = IF t = e.task THEN Told(s.tasks[t], e.kind) ELSE s.tasks[t]
    BY <1>1, <1>3, <1>5
  <2>2. t \notin Submitted => s.tasks[t] = "absent" /\ (t = e.task => e.kind # "Submitted")
    BY DEF Good, Sound
  <2>3. QED
    BY <2>1, <2>2 DEF Told
<1>9. Good(r)
  BY <1>3, <1>4, <1>7, <1>8 DEF Good
<1>10. QED
  BY <1>2, <1>3, <1>4, <1>7, <1>8, <1>9

\* States that agree go on agreeing.
LEMMA AgreeApply ==
  ASSUME NEW r \in Image, NEW s \in Image, NEW e \in Event, Good(r), Good(s), Sound(e), Agree(r, s)
  PROVE  Agree(Apply(r, e), Apply(s, e))
<1>1. PICK a, b : a = Apply(r, e) /\ b = Apply(s, e)
  OBVIOUS
<1>2. /\ a \in Image
      /\ \A t \in Tasks : /\ a.tasks[t] = IF t = e.task THEN Told(r.tasks[t], e.kind) ELSE r.tasks[t]
                          /\ Contains(a.queue, t) <=>
                               IF About(e, Placing, t) THEN e.kind = "Queued" ELSE Contains(r.queue, t)
  BY <1>1, ApplyGood
<1>3. /\ b \in Image
      /\ \A t \in Tasks : /\ b.tasks[t] = IF t = e.task THEN Told(s.tasks[t], e.kind) ELSE s.tasks[t]
                          /\ Contains(b.queue, t) <=>
                               IF About(e, Placing, t) THEN e.kind = "Queued" ELSE Contains(s.queue, t)
  BY <1>1, ApplyGood
<1>4. r.tasks = s.tasks /\ \A t \in Tasks : Contains(r.queue, t) <=> Contains(s.queue, t)
  BY DEF Agree
<1>5. \A t \in Tasks : a.tasks[t] = b.tasks[t]
  BY <1>2, <1>3, <1>4
<1>6. a.tasks \in [Tasks -> Said] /\ b.tasks \in [Tasks -> Said]
  BY <1>2, <1>3 DEF Image
<1>7. a.tasks = b.tasks
  BY <1>5, <1>6
<1>8. \A t \in Tasks : Contains(a.queue, t) <=> Contains(b.queue, t)
  BY <1>2, <1>3, <1>4
<1>9. QED
  BY <1>1, <1>7, <1>8 DEF Agree

\* A replayed page is good.
LEMMA FoldGood ==
  ASSUME NEW b \in Image, NEW q \in Seq(Event), Good(b), \A i \in 1..Len(q) : Sound(q[i]),
         NEW r, r[0] = b, \A i \in 1..Len(q) : r[i] = Apply(r[i - 1], q[i]), NEW k \in 0..Len(q)
  PROVE  r[k] \in Image /\ Good(r[k])
<1>1. PICK n : n = Len(q)
  OBVIOUS
<1>2. n \in Nat /\ 0 \in 0..n /\ \A i \in 1..n : i \in 0..n /\ i - 1 \in 0..n /\ q[i] \in Event
  BY <1>1, LenProperties, ElementOfSeq
<1>3. PICK v : v = [i \in 0..n |-> IF r[i] \in Image /\ Good(r[i]) THEN TRUE ELSE FALSE]
  OBVIOUS
<1>4. \A i \in 0..n : v[i] = TRUE <=> r[i] \in Image /\ Good(r[i])
  BY <1>3
<1>5. v[0] = TRUE
  BY <1>2, <1>4
<1>6. \A i \in 1..n : v[i - 1] = TRUE => v[i] = TRUE
  <2>1. SUFFICES ASSUME NEW i \in 1..n, v[i - 1] = TRUE PROVE v[i] = TRUE
    OBVIOUS
  <2>2. r[i - 1] \in Image /\ Good(r[i - 1]) /\ q[i] \in Event /\ Sound(q[i])
    BY <1>1, <1>2, <1>4, <2>1
  <2>3. r[i] \in Image /\ Good(r[i])
    BY <1>1, <2>2, ApplyGood
  <2>4. QED
    BY <1>2, <1>4, <2>3
<1>7. v[k] = TRUE
  BY <1>1, <1>2, <1>5, <1>6, Stays
<1>8. QED
  BY <1>1, <1>4, <1>7

\* The status of a submitted task, when the present is replayed once more.
LEMMA StatusAgain ==
  ASSUME NEW t \in Tasks, NEW n \in Nat, NEW w,
         genesis \in Image, recent \in Seq(Event), LastWord, \A i \in 1..Len(recent) : Sound(recent[i]),
         t \in Submitted, n = Len(recent),
         w[0] = genesis.tasks[t],
         \A i \in 1..n : w[i] = IF t = recent[i].task THEN Told(w[i - 1], recent[i].kind) ELSE w[i - 1]
  PROVE  w[n] = genesis.tasks[t]
<1>1. PICK q : q = recent
  OBVIOUS
<1>2. PICK g : g = genesis.tasks[t]
  OBVIOUS
<1>3. PICK T : T = {i \in 1..n : About(q[i], Telling, t)}
  OBVIOUS
<1>4. \A i \in 1..n : q[i].kind \in Kinds /\ Sound(q[i])
  <2>1. \A i \in 1..n : q[i] \in Event
    BY <1>1, ElementOfSeq
  <2>2. QED
    BY <1>1, <2>1 DEF Event
<1>5. \A i \in 1..n : i \notin T => w[i] = w[i - 1]
  <2>1. SUFFICES ASSUME NEW i \in 1..n, i \notin T, t = q[i].task PROVE Told(w[i - 1], q[i].kind) = w[i - 1]
    BY <1>1
  <2>2. q[i].kind \in Kinds /\ q[i].kind \notin Telling
    BY <1>3, <1>4, <2>1 DEF About
  <2>3. q[i].kind # "TaskRetried"
    BY <1>4, <2>1, PolicyNotSubmitted DEF Sound
  <2>4. QED
    BY <2>2, <2>3 DEF Told, Telling, Outcomes, Kinds
<1>6. PICK m \in 0..n : w[n] = w[m] /\ (m = 0 \/ m \in T) /\ \A j \in T : j <= m
  <2>1. T \subseteq 1..n
    BY <1>3
  <2>2. QED
    BY <1>5, <2>1, Settles
<1>7. CASE T # {}
  <2>1. g # "absent"
    BY <1>1, <1>2, <1>3, <1>7 DEF LastWord, Some
  <2>2. PICK v : v = [i \in 0..n |-> IF w[i] # "absent" THEN TRUE ELSE FALSE]
    OBVIOUS
  <2>3. \A i \in 0..n : v[i] = TRUE <=> w[i] # "absent"
    BY <2>2
  <2>4. v[0] = TRUE
    BY <1>2, <2>1, <2>3
  <2>5. \A i \in 1..n : i \in 0..n /\ i - 1 \in 0..n
    OBVIOUS
  <2>6. \A i \in 1..n : v[i - 1] = TRUE => v[i] = TRUE
    <3>1. SUFFICES ASSUME NEW i \in 1..n, v[i - 1] = TRUE PROVE w[i] # "absent"
      BY <2>3, <2>5
    <3>2. w[i - 1] # "absent"
      BY <2>3, <2>5, <3>1
    <3>3. Told(w[i - 1], q[i].kind) # "absent"
      BY <3>2 DEF Told
    <3>4. QED
      BY <1>1, <3>2, <3>3
  <2>7. ASSUME NEW k \in 0..n PROVE w[k] # "absent"
    <3>1. v[k] = TRUE
      BY <2>4, <2>6, Stays
    <3>2. QED
      BY <2>3, <3>1
  <2>8. CASE m \in T
    <3>1. m \in 1..n /\ q[m].task = t /\ q[m].kind \in Telling
      BY <1>3, <2>8 DEF About
    <3>2. LastAbout(q, m, Telling, t)
      BY <1>1, <1>3, <1>6, <2>8 DEF LastAbout
    <3>3. g = Told("Pending", q[m].kind)
      BY <1>1, <1>2, <3>1, <3>2 DEF LastWord
    <3>4. w[m] = Told(w[m - 1], q[m].kind) /\ w[m - 1] # "absent"
      BY <1>1, <2>5, <2>7, <3>1
    <3>5. Told(w[m - 1], q[m].kind) = Told("Pending", q[m].kind)
      BY <3>1, <3>4 DEF Told, Telling, Outcomes
    <3>6. QED
      BY <1>2, <1>6, <3>3, <3>4, <3>5
  <2>9. QED
    BY <1>6, <2>8
<1>8. QED
  BY <1>6, <1>7

\* What is queued, likewise.
LEMMA QueueAgain ==
  ASSUME NEW t \in Tasks, NEW n \in Nat, NEW r,
         genesis \in Image, recent \in Seq(Event), LastWord, n = Len(recent),
         Contains(r[0].queue, t) <=> Contains(genesis.queue, t),
         \A i \in 1..n : Contains(r[i].queue, t) <=>
            IF About(recent[i], Placing, t) THEN recent[i].kind = "Queued" ELSE Contains(r[i - 1].queue, t)
  PROVE  Contains(r[n].queue, t) <=> Contains(genesis.queue, t)
<1>1. PICK q : q = recent
  OBVIOUS
<1>2. PICK g : g = IF Contains(genesis.queue, t) THEN 1 ELSE 0
  OBVIOUS
<1>3. PICK w : w = [i \in 0..n |-> IF Contains(r[i].queue, t) THEN 1 ELSE 0]
  OBVIOUS
<1>4. \A i \in 0..n : w[i] = IF Contains(r[i].queue, t) THEN 1 ELSE 0
  BY <1>3
<1>5. 0 \in 0..n /\ n \in 0..n /\ \A i \in 1..n : i \in 0..n /\ i - 1 \in 0..n
  OBVIOUS
<1>6. PICK T : T = {i \in 1..n : About(q[i], Placing, t)}
  OBVIOUS
<1>7. ASSUME NEW i \in 1..n, i \notin T PROVE w[i] = w[i - 1]
  <2>1. ~About(q[i], Placing, t)
    BY <1>6, <1>7
  <2>2. Contains(r[i].queue, t) <=> Contains(r[i - 1].queue, t)
    BY <1>1, <2>1
  <2>3. QED
    BY <1>4, <1>5, <2>2
<1>8. PICK m \in 0..n : w[n] = w[m] /\ (m = 0 \/ m \in T) /\ \A j \in T : j <= m
  <2>1. T \subseteq 1..n
    BY <1>6
  <2>2. QED
    BY <1>7, <2>1, Settles
<1>9. CASE m \in T
  <2>1. m \in 1..n /\ About(q[m], Placing, t)
    BY <1>6, <1>9
  <2>2. LastAbout(q, m, Placing, t)
    BY <1>1, <1>6, <1>8, <2>1 DEF LastAbout
  <2>3. Contains(genesis.queue, t) <=> q[m].kind = "Queued"
    BY <1>1, <2>1, <2>2 DEF LastWord
  <2>4. Contains(r[m].queue, t) <=> q[m].kind = "Queued"
    BY <1>1, <2>1
  <2>5. QED
    BY <1>2, <1>4, <1>5, <1>8, <2>1, <2>3, <2>4
<1>10. QED
  BY <1>2, <1>4, <1>5, <1>8, <1>9

\* Replaying the present on a state that has it.
LEMMA FoldAgrees ==
  ASSUME genesis \in Image, Records, LastWord, NEW b \in Image, Good(b), Agree(b, genesis)
  PROVE  Agree(Replayed(b, recent), genesis)
<1>1. PICK q, n : q = recent /\ n = Len(q)
  OBVIOUS
<1>2. q \in Seq(Event) /\ n \in Nat /\ \A i \in 1..n : q[i] \in Event /\ Sound(q[i])
  BY <1>1, LenProperties, ElementOfSeq DEF Records
<1>3. PICK r : /\ r[0] = b /\ Replayed(b, q) = r[n]
               /\ \A i \in 1..n : r[i] = Apply(r[i - 1], q[i])
  BY <1>1, <1>2, FoldFacts
<1>4. \A i \in 0..n : r[i] \in Image /\ Good(r[i])
  BY <1>1, <1>2, <1>3, FoldGood
<1>5. 0 \in 0..n /\ n \in 0..n /\ \A i \in 1..n : i - 1 \in 0..n
  BY <1>2
<1>6. ASSUME NEW i \in 1..n
      PROVE  \A t \in Tasks : /\ r[i].tasks[t] = IF t = q[i].task THEN Told(r[i - 1].tasks[t], q[i].kind) ELSE r[i - 1].tasks[t]
                              /\ Contains(r[i].queue, t) <=>
                                   IF About(q[i], Placing, t) THEN q[i].kind = "Queued" ELSE Contains(r[i - 1].queue, t)
  <2>1. PICK s, e : s = r[i - 1] /\ e = q[i]
    OBVIOUS
  <2>2. s \in Image /\ Good(s) /\ e \in Event /\ Sound(e) /\ r[i] = Apply(s, e)
    BY <1>2, <1>3, <1>4, <1>5, <2>1
  <2>3. QED
    BY <2>1, <2>2, ApplyGood
<1>7. ASSUME NEW t \in Tasks PROVE r[n].tasks[t] = genesis.tasks[t]
  <2>1. CASE t \in Submitted
    <3>1. PICK w : w = [i \in 0..n |-> r[i].tasks[t]]
      OBVIOUS
    <3>2. w[0] = genesis.tasks[t] /\ w[n] = r[n].tasks[t]
      BY <1>3, <1>5, <3>1 DEF Agree
    <3>3. \A i \in 1..n : w[i] = IF t = q[i].task THEN Told(w[i - 1], q[i].kind) ELSE w[i - 1]
      BY <1>2, <1>5, <1>6, <3>1
    <3>4. w[n] = genesis.tasks[t]
      BY <1>1, <1>2, <2>1, <3>2, <3>3, StatusAgain
    <3>5. QED
      BY <3>2, <3>4
  <2>2. CASE t \notin Submitted
    BY <1>4, <1>5, <2>2 DEF Good, Records
  <2>3. QED
    BY <2>1, <2>2
<1>8. ASSUME NEW t \in Tasks PROVE Contains(r[n].queue, t) <=> Contains(genesis.queue, t)
  <2>1. Contains(r[0].queue, t) <=> Contains(genesis.queue, t)
    BY <1>3 DEF Agree
  <2>2. QED
    BY <1>1, <1>2, <1>6, <2>1, QueueAgain
<1>9. r[n].tasks = genesis.tasks
  <2>1. r[n].tasks \in [Tasks -> Said] /\ genesis.tasks \in [Tasks -> Said]
    BY <1>4, <1>5 DEF Image
  <2>2. QED
    BY <1>7, <2>1
<1>10. QED
  BY <1>1, <1>3, <1>8, <1>9 DEF Agree

----------------------------------------------------------------------------
(* The steps, once more.                                                   *)

\* No two threads owe an event that matters about the same task.
LEMMA SoleOwer ==
  ASSUME NEW th \in Threads, NEW uh \in Threads, NEW t \in Tasks,
         NEW j \in Weighty, NEW k \in Weighty,
         Base, Sole, In(owed[th], j, t), In(owed[uh], k, t)
  PROVE  th = uh
<1>1. j \in Kinds /\ k \in Kinds
  BY DEF Weighty, Placing, Telling, Outcomes, Kinds
<1>2. /\ j = "Submitted" => at[t] = "schedule" /\ th = t
      /\ j = "Queued" => at[t] = "queue"
      /\ j = "Dequeued" => at[t] = "taken" /\ th = "loop"
      /\ j = "Started" => at[t] = "held" /\ th \in Workers /\ wpc[th] = "begun" /\ job[th] = t
      /\ j \in Outcomes => at[t] = "over"
      /\ j = "Cancelled" => at[t] = "cancelled"
  BY <1>1, OwedAt DEF Outcomes
<1>3. /\ k = "Submitted" => at[t] = "schedule" /\ uh = t
      /\ k = "Queued" => at[t] = "queue"
      /\ k = "Dequeued" => at[t] = "taken" /\ uh = "loop"
      /\ k = "Started" => at[t] = "held" /\ uh \in Workers /\ wpc[uh] = "begun" /\ job[uh] = t
      /\ k \in Outcomes => at[t] = "over"
      /\ k = "Cancelled" => at[t] = "cancelled"
  BY <1>1, OwedAt DEF Outcomes
<1>4. CASE j \in QueueKinds /\ k \in QueueKinds
  <2>1. owed[th] \in Seq(Event) /\ Neat(owed[th]) /\ owed[uh] \in Seq(Event) /\ Neat(owed[uh])
    BY DEF Base, Shape, Exclusive
  <2>2. Locks(owed[th])
    BY <1>4, <2>1, NeatFacts
  <2>3. Locks(owed[uh])
    BY <1>4, <2>1, NeatFacts
  <2>4. QED
    BY <2>2, <2>3 DEF Base, Exclusive
<1>5. CASE j \in Outcomes /\ k \in Outcomes
  BY <1>5 DEF Sole
<1>6. CASE j = "Started" /\ k = "Started"
  BY <1>2, <1>3, <1>6 DEF Base, Located, Busy
<1>7. QED
  BY <1>2, <1>3, <1>4, <1>5, <1>6 DEF Weighty, Placing, Telling, Outcomes, QueueKinds

\* What the engine does between two appends: at most one thread, which owed
\* nothing, begins to owe; how a task ended is reported by who held it.
Acts ==
  /\ UNCHANGED disk
  /\ \A t \in Tasks : at'[t] = "schedule" => at[t] = "schedule" \/ t \in Submitted
  /\ \/ UNCHANGED emit
     \/ \E th \in Threads, t \in Tasks, k \in Kinds, K \in SUBSET Kinds :
          /\ owed[th] = <<>> /\ Sends(th, t, k, K) /\ stale' = stale \ {th}
          /\ K \cap Outcomes # {} => at[t] = "held"

\* Such a step keeps the log's invariant.
LEMMA ActsStep ==
  ASSUME Base, LogInv, Acts
  PROVE  LogInv'
<1>1. UNCHANGED <<genesis, recent, latest, page, saved, saves>>
  BY DEF Acts, disk, table
<1>2. Records'
  BY <1>1 DEF LogInv, Records, Acts, Good, Sound
<1>3. LastWord'
  BY <1>1 DEF LogInv, LastWord
<1>4. CASE UNCHANGED emit
  BY <1>1, <1>2, <1>3, <1>4 DEF LogInv, Aged, Sole, Late, emit
<1>5. ASSUME NEW th \in Threads, NEW t \in Tasks, NEW k \in Kinds, NEW K \in SUBSET Kinds,
             owed[th] = <<>>, Sends(th, t, k, K), stale' = stale \ {th},
             K \cap Outcomes # {} => at[t] = "held"
      PROVE  LogInv'
  <2>1. \A uh \in Threads : uh # th => owed'[uh] = owed[uh]
    BY <1>5 DEF Sends
  <2>2. \A uh \in stale' : uh \in stale /\ uh # th /\ uh \in Threads
    BY <1>5 DEF LogInv, Aged
  <2>3. Aged'
    BY <1>1, <1>5, <2>1, <2>2 DEF LogInv, Aged
  <2>4. Late'
    BY <1>1, <2>1, <2>2 DEF LogInv, Late
  <2>5. Sole'
    <3>1. SUFFICES ASSUME NEW uh \in Threads, NEW vh \in Threads, NEW u \in Tasks,
                          NEW i \in Outcomes, NEW j \in Outcomes,
                          In(owed'[uh], i, u), In(owed'[vh], j, u), uh # vh
                   PROVE  FALSE
      BY DEF Sole
    <3>2. ASSUME NEW ah \in Threads, NEW bh \in Threads, NEW a \in Outcomes, NEW b \in Outcomes,
                 ah = th, bh # th, In(owed'[ah], a, u), In(owed'[bh], b, u)
          PROVE  FALSE
      <4>1. u = t /\ a \in K
        BY <1>5, <3>2 DEF Sends
      <4>2. at[u] = "held"
        BY <1>5, <4>1
      <4>3. In(owed[bh], b, u) /\ b \in Kinds
        BY <2>1, <3>2 DEF Outcomes, Kinds
      <4>4. at[u] = "over"
        BY <4>3, OwedAt DEF Outcomes
      <4>5. QED
        BY <4>2, <4>4
    <3>3. CASE uh # th /\ vh # th
      BY <2>1, <3>1, <3>3 DEF LogInv, Sole
    <3>4. QED
      BY <3>1, <3>2, <3>3
  <2>6. QED
    BY <1>2, <1>3, <2>3, <2>4, <2>5 DEF LogInv
<1>6. QED
  BY <1>4, <1>5 DEF Acts

\* A step that owes one burst is such a step.
LEMMA ActsOwe ==
  ASSUME NEW th \in Threads, NEW t \in Tasks, NEW k \in Kinds, NEW K \in SUBSET Kinds, NEW ks,
         UNCHANGED disk, owed[th] = <<>>, Owe(th, t, ks), Sends(th, t, k, K),
         K \cap Outcomes # {} => at[t] = "held",
         \A u \in Tasks : at'[u] = "schedule" => at[u] = "schedule" \/ u \in Submitted
  PROVE  Acts
  BY DEF Acts, Owe

\* The engine's steps are.
LEMMA TaskActs ==
  ASSUME IInv, NEW t \in Tasks,
         Submit(t) \/ ScheduleNow(t) \/ ScheduleLater(t) \/ TrackerReady(t) \/ Cancel(t)
  PROVE  Acts
<1>1. owed \in [Threads -> Seq(Event)] /\ at \in [Tasks -> Places]
  BY DEF IInv, Base, Shape
<1>2. CASE Submit(t)
  <2>1. t \in Threads /\ owed[t] = <<>> /\ Owe(t, t, <<"Submitted">>) /\ UNCHANGED disk
    BY <1>2, ThreadFacts DEF Submit, IInv, Base, Free
  <2>2. Sends(t, t, "Submitted", {"Submitted"})
    BY <1>1, <2>1, OweOne DEF Kinds
  <2>3. \A u \in Tasks : at'[u] = "schedule" => at[u] = "schedule" \/ u \in Submitted
    BY <1>1, <1>2 DEF Submit
  <2>4. QED
    BY <2>1, <2>2, <2>3, ActsOwe DEF Kinds, Outcomes
<1>3. CASE ScheduleNow(t)
  <2>1. t \in Threads /\ owed[t] = <<>> /\ Owe(t, t, <<"Queued">>) /\ UNCHANGED disk
    BY <1>3, ThreadFacts DEF ScheduleNow, AtSchedule, Idle
  <2>2. Sends(t, t, "Queued", {"Queued"})
    BY <1>1, <2>1, OweOne DEF Kinds
  <2>3. \A u \in Tasks : at'[u] = "schedule" => at[u] = "schedule" \/ u \in Submitted
    BY <1>1, <1>3 DEF ScheduleNow
  <2>4. QED
    BY <2>1, <2>2, <2>3, ActsOwe DEF Kinds, Outcomes
<1>4. CASE ScheduleLater(t)
  <2>1. t \in Threads /\ owed[t] = <<>> /\ Owe(t, t, <<"RetryScheduled">>) /\ UNCHANGED disk
    BY <1>4, ThreadFacts DEF ScheduleLater, AtSchedule, Idle
  <2>2. Sends(t, t, "RetryScheduled", {"RetryScheduled"})
    BY <1>1, <2>1, OweOne DEF Kinds
  <2>3. \A u \in Tasks : at'[u] = "schedule" => at[u] = "schedule" \/ u \in Submitted
    BY <1>1, <1>4 DEF ScheduleLater
  <2>4. QED
    BY <2>1, <2>2, <2>3, ActsOwe DEF Kinds, Outcomes
<1>5. CASE TrackerReady(t)
  <2>1. /\ "tracker" \in Threads /\ owed["tracker"] = <<>> /\ Owe("tracker", t, <<"Queued", "Released">>)
        /\ UNCHANGED disk
    BY <1>5, ThreadFacts DEF TrackerReady, Idle
  <2>2. Sends("tracker", t, "Queued", {"Queued", "Released"})
    BY <1>1, <2>1, OweTwo DEF Kinds, QueueKinds
  <2>3. \A u \in Tasks : at'[u] = "schedule" => at[u] = "schedule" \/ u \in Submitted
    BY <1>1, <1>5 DEF TrackerReady
  <2>4. {"Queued", "Released"} \in SUBSET Kinds /\ {"Queued", "Released"} \cap Outcomes = {} /\ "Queued" \in Kinds
    BY DEF Kinds, Outcomes
  <2>5. QED
    BY <2>1, <2>2, <2>3, <2>4, ActsOwe
<1>6. CASE Cancel(t)
  <2>1. /\ "operator" \in Threads /\ owed["operator"] = <<>> /\ Owe("operator", t, <<"Cancelled">>)
        /\ UNCHANGED disk
    BY <1>6, ThreadFacts DEF Cancel, Idle
  <2>2. Sends("operator", t, "Cancelled", {"Cancelled"})
    BY <1>1, <2>1, OweOne DEF Kinds
  <2>3. \A u \in Tasks : at'[u] = "schedule" => at[u] = "schedule" \/ u \in Submitted
    BY <1>1, <1>6 DEF Cancel
  <2>4. QED
    BY <2>1, <2>2, <2>3, ActsOwe DEF Kinds, Outcomes
<1>7. QED
  BY <1>2, <1>3, <1>4, <1>5, <1>6

\* So are those of the tracker and of the scheduler's loop.
LEMMA LoopActs ==
  ASSUME IInv, TrackerPop \/ LoopDequeue
  PROVE  Acts
<1>1. owed \in [Threads -> Seq(Event)] /\ at \in [Tasks -> Places] /\ queue \in Seq(Tasks)
  BY DEF IInv, Base, Shape
<1>2. CASE TrackerPop
  <2>1. UNCHANGED <<disk, emit>>
    BY <1>2 DEF TrackerPop
  <2>2. \A u \in Tasks : at'[u] = "schedule" => at[u] = "schedule"
    BY <1>2 DEF TrackerPop
  <2>3. QED
    BY <2>1, <2>2 DEF Acts
<1>3. CASE LoopDequeue
  <2>1. PICK t : t = Head(queue)
    OBVIOUS
  <2>2. t \in Tasks
    BY <1>1, <1>3, <2>1, HeadFacts DEF LoopDequeue
  <2>3. "loop" \in Threads /\ owed["loop"] = <<>> /\ Owe("loop", t, <<"Dequeued">>) /\ UNCHANGED disk
    BY <1>3, <2>1, ThreadFacts DEF LoopDequeue, Idle
  <2>4. Sends("loop", t, "Dequeued", {"Dequeued"})
    BY <1>1, <2>2, <2>3, OweOne DEF Kinds
  <2>5. \A u \in Tasks : at'[u] = "schedule" => at[u] = "schedule" \/ u \in Submitted
    BY <1>1, <1>3 DEF LoopDequeue
  <2>6. QED
    BY <2>2, <2>3, <2>4, <2>5, ActsOwe DEF Kinds, Outcomes
<1>4. QED
  BY <1>2, <1>3

\* So are those of the workers.
LEMMA WorkerActs ==
  ASSUME IInv, NEW w \in Workers,
         \/ \E t \in Tasks : WorkerTake(w, t)
         \/ WorkerRun(w) \/ WorkerComplete(w) \/ WorkerFail(w)
         \/ GiveUp(w) \/ RetryLater(w) \/ RetryNow(w) \/ WorkerLeave(w)
  PROVE  Acts
<1>1. owed \in [Threads -> Seq(Event)] /\ at \in [Tasks -> Places] /\ w \in Threads
  BY ThreadFacts DEF IInv, Base, Shape
<1>2. wpc[w] \in {"idle", "running", "failing"} => owed[w] = <<>>
  BY DEF IInv, Base, Free
<1>3. wpc[w] \in Busy => job[w] \in Tasks /\ at[job[w]] = "held"
  BY DEF IInv, Base, Located
<1>4. CASE WorkerRun(w) \/ WorkerFail(w) \/ WorkerLeave(w)
  <2>1. UNCHANGED <<disk, emit>> /\ at' = at
    BY <1>4 DEF WorkerRun, WorkerFail, WorkerLeave
  <2>2. QED
    BY <2>1 DEF Acts
<1>5. ASSUME NEW t \in Tasks, WorkerTake(w, t) PROVE Acts
  <2>1. owed[w] = <<>> /\ Owe(w, t, <<"Started">>) /\ UNCHANGED disk
    BY <1>2, <1>5 DEF WorkerTake
  <2>2. Sends(w, t, "Started", {"Started"})
    BY <1>1, <2>1, OweOne DEF Kinds
  <2>3. \A u \in Tasks : at'[u] = "schedule" => at[u] = "schedule" \/ u \in Submitted
    BY <1>1, <1>5 DEF WorkerTake
  <2>4. QED
    BY <1>1, <2>1, <2>2, <2>3, ActsOwe DEF Kinds, Outcomes
<1>6. PICK t : t = job[w]
  OBVIOUS
<1>7. CASE WorkerComplete(w)
  <2>1. t \in Tasks /\ at[t] = "held" /\ owed[w] = <<>> /\ Owe(w, t, <<"Completed">>) /\ UNCHANGED disk
    BY <1>2, <1>3, <1>6, <1>7 DEF WorkerComplete, Busy
  <2>2. Sends(w, t, "Completed", {"Completed"})
    BY <1>1, <2>1, OweOne DEF Kinds
  <2>3. \A u \in Tasks : at'[u] = "schedule" => at[u] = "schedule" \/ u \in Submitted
    BY <1>1, <1>7 DEF WorkerComplete
  <2>4. QED
    BY <1>1, <2>1, <2>2, <2>3, ActsOwe DEF Kinds
<1>8. CASE GiveUp(w)
  <2>1. t \in Tasks /\ at[t] = "held" /\ owed[w] = <<>> /\ Owe(w, t, <<"Failed">>) /\ UNCHANGED disk
    BY <1>2, <1>3, <1>6, <1>8 DEF GiveUp, Busy
  <2>2. Sends(w, t, "Failed", {"Failed"})
    BY <1>1, <2>1, OweOne DEF Kinds
  <2>3. \A u \in Tasks : at'[u] = "schedule" => at[u] = "schedule" \/ u \in Submitted
    BY <1>1, <1>8 DEF GiveUp
  <2>4. QED
    BY <1>1, <2>1, <2>2, <2>3, ActsOwe DEF Kinds
<1>9. CASE RetryLater(w)
  <2>1. /\ t \in Tasks /\ at[t] = "held" /\ owed[w] = <<>> /\ UNCHANGED disk
        /\ Owe(w, t, <<"TaskRetried", "RetryScheduled">>)
    BY <1>2, <1>3, <1>6, <1>9 DEF RetryLater, Busy
  <2>2. Sends(w, t, "TaskRetried", {"TaskRetried", "RetryScheduled"})
    BY <1>1, <2>1, OweTwo DEF Kinds, QueueKinds
  <2>3. \A u \in Tasks : at'[u] = "schedule" => at[u] = "schedule" \/ u \in Submitted
    BY <1>1, <1>9 DEF RetryLater
  <2>4. {"TaskRetried", "RetryScheduled"} \in SUBSET Kinds /\ "TaskRetried" \in Kinds
    BY DEF Kinds
  <2>5. QED
    BY <1>1, <2>1, <2>2, <2>3, <2>4, ActsOwe
<1>10. CASE RetryNow(w)
  <2>1. /\ t \in Tasks /\ at[t] = "held" /\ owed[w] = <<>> /\ UNCHANGED disk
        /\ Owe(w, t, <<"Queued", "Released", "TaskRetried", "RetryScheduled">>)
    BY <1>2, <1>3, <1>6, <1>10 DEF RetryNow, Busy
  <2>2. Sends(w, t, "Queued", {"Queued", "Released", "TaskRetried", "RetryScheduled"})
    BY <1>1, <2>1, OweFour
  <2>3. \A u \in Tasks : at'[u] = "schedule" => at[u] = "schedule" \/ u \in Submitted
    BY <1>1, <1>10 DEF RetryNow
  <2>4. {"Queued", "Released", "TaskRetried", "RetryScheduled"} \in SUBSET Kinds /\ "Queued" \in Kinds
    BY DEF Kinds
  <2>5. QED
    BY <1>1, <2>1, <2>2, <2>3, <2>4, ActsOwe
<1>11. QED
  BY <1>4, <1>5, <1>7, <1>8, <1>9, <1>10

\* A thread appends an event.
LEMMA EmitLog ==
  ASSUME IInv, LogInv, NEW th \in Threads, Emit(th)
  PROVE  LogInv' /\ (SaveInv => SaveInv')
<1>1. PICK e : e = Head(owed[th])
  OBVIOUS
<1>2. /\ e \in Event /\ In(owed[th], e.kind, e.task)
      /\ \A uh \in Threads : uh # th => owed'[uh] = owed[uh]
      /\ \A uh \in Threads : \A k, u : In(owed'[uh], k, u) => In(owed[uh], k, u)
  BY <1>1, EmitFacts DEF IInv, Base, Shape
<1>3. PICK k \in Kinds, t \in Tasks : k = e.kind /\ t = e.task
  BY <1>2 DEF Event
<1>4. PICK old \in BOOLEAN :
        /\ old => th \in stale
        /\ recent' = IF old THEN recent ELSE Append(recent, e)
        /\ latest' = IF OnPage(old) THEN Apply(latest, e) ELSE latest
        /\ page' = IF OnPage(old) THEN page + 1 ELSE page
  <2>1. PICK old \in BOOLEAN :
          /\ IF old THEN th \in stale ELSE Len(recent) < MaxTies
          /\ recent' = IF old THEN recent ELSE Append(recent, Head(owed[th]))
          /\ latest' = IF OnPage(old) THEN Apply(latest, Head(owed[th])) ELSE latest
          /\ page' = IF OnPage(old) THEN page + 1 ELSE page
    BY DEF Emit
  <2>2. QED
    BY <1>1, <2>1
<1>5. /\ genesis' = Apply(genesis, e) /\ stale' = stale \ {th}
      /\ UNCHANGED <<saved, saves, at>>
  BY <1>1 DEF Emit
<1>6. /\ k = "Submitted" => at[t] = "schedule"
      /\ k = "Queued" => at[t] = "queue"
      /\ k = "Started" => at[t] = "held"
      /\ k \in Outcomes => at[t] = "over"
      /\ k = "Cancelled" => at[t] = "cancelled"
      /\ k = "TaskRetried" => t \in Retried
  BY <1>2, <1>3, OwedAt DEF IInv, Outcomes
<1>7. Sound(e)
  BY <1>3, <1>6 DEF Sound, LogInv, Records
<1>8. /\ genesis \in Image /\ latest \in Image /\ Good(genesis) /\ Good(latest)
      /\ recent \in Seq(Event) /\ page \in Nat
  BY DEF IInv, Base, Shape, LogInv, Records
<1>9. /\ genesis' \in Image /\ Good(genesis')
      /\ \A u \in Tasks : /\ genesis'.tasks[u] = IF u = t THEN Told(genesis.tasks[u], k) ELSE genesis.tasks[u]
                          /\ Contains(genesis'.queue, u) <=>
                               IF u = t /\ k \in Placing THEN k = "Queued" ELSE Contains(genesis.queue, u)
  BY <1>2, <1>3, <1>5, <1>7, <1>8, ApplyGood DEF About
<1>10. latest' \in Image /\ Good(latest')
  BY <1>2, <1>4, <1>7, <1>8, ApplyGood
<1>11. /\ recent' \in Seq(Event)
       /\ \A i \in 1..Len(recent') : Sound(recent'[i])
  <2>1. \A i \in 1..Len(recent) : Sound(recent[i])
    BY DEF LogInv, Records
  <2>2. CASE old
    BY <1>4, <1>8, <2>1, <2>2
  <2>3. CASE ~old
    <3>1. recent' = Append(recent, e)
      BY <1>4, <2>3
    <3>2. PICK q : q = recent
      OBVIOUS
    <3>3. /\ Append(q, e) \in Seq(Event)
          /\ \A i \in 1..Len(Append(q, e)) : Append(q, e)[i] = e \/ \E j \in 1..Len(q) : Append(q, e)[i] = q[j]
      BY <1>2, <1>8, <3>2, AddedFacts
    <3>4. QED
      BY <1>7, <2>1, <3>1, <3>2, <3>3
  <2>4. QED
    BY <2>2, <2>3
<1>12. Records'
  BY <1>4, <1>5, <1>8, <1>9, <1>10, <1>11 DEF LogInv, Records
<1>13. Aged'
  BY <1>2, <1>5 DEF LogInv, Aged
<1>14. Sole'
  BY <1>2 DEF LogInv, Sole
<1>15. Late'
  <2>1. SUFFICES ASSUME NEW uh \in stale', NEW u \in Tasks, About(Head(owed'[uh]), Weighty, u), Some(recent', Weighty, u)
                 PROVE  FALSE
    BY DEF Late
  <2>2. uh \in stale /\ uh # th /\ uh \in Threads /\ owed'[uh] = owed[uh] /\ owed[uh] # <<>>
    BY <1>2, <1>5 DEF LogInv, Aged
  <2>3. About(Head(owed[uh]), Weighty, u) /\ ~Some(recent, Weighty, u)
    BY <2>1, <2>2 DEF LogInv, Late
  <2>4. ~old /\ recent' = Append(recent, e)
    BY <1>4, <2>1, <2>3
  <2>5. About(e, Weighty, u)
    <3>1. PICK q : q = recent
      OBVIOUS
    <3>2. Some(Append(q, e), Weighty, u) => Some(q, Weighty, u) \/ About(e, Weighty, u)
      BY <1>2, <1>8, <3>1, AddedFacts
    <3>3. QED
      BY <2>1, <2>3, <2>4, <3>1, <3>2
  <2>6. PICK d : d = Head(owed[uh])
    OBVIOUS
  <2>7. In(owed[uh], d.kind, d.task)
    <3>1. PICK s : s = owed[uh]
      OBVIOUS
    <3>2. s \in Seq(Event) /\ s # <<>>
      BY <2>2, <3>1 DEF IInv, Base, Shape
    <3>3. QED
      BY <2>6, <3>1, <3>2, TailFacts
  <2>8. d.kind \in Weighty /\ d.task = u /\ e.kind \in Weighty /\ e.task = u
    BY <2>3, <2>5, <2>6 DEF About
  <2>9. th = uh
    BY <1>2, <2>2, <2>7, <2>8, SoleOwer DEF IInv, LogInv
  <2>10. QED
    BY <2>2, <2>9
<1>16. LastWord'
  <2>1. ASSUME NEW u \in Submitted, u = t
        PROVE  /\ k \in Telling => genesis'.tasks[u] # "absent" /\ genesis'.tasks[u] = Told("Pending", k)
               /\ k \notin Telling => genesis'.tasks[u] = genesis.tasks[u]
    <3>1. u \in Tasks /\ SaidAt(u) /\ genesis'.tasks[u] = Told(genesis.tasks[u], k)
      BY <1>9, <2>1, ConstantsAssumption DEF IInv, StatusInv
    <3>2. k \in Telling /\ k # "Submitted" => genesis.tasks[u] # "absent"
      BY <1>6, <2>1, <3>1 DEF SaidAt, Telling, Outcomes
    <3>3. k # "TaskRetried"
      BY <1>6, <2>1, PolicyNotSubmitted
    <3>4. QED
      BY <3>1, <3>2, <3>3 DEF Told, Telling, Outcomes, Kinds
  <2>2. CASE old
    <3>1. recent' = recent /\ th \in stale
      BY <1>4, <2>2
    <3>2. k \in Weighty => ~Some(recent, Weighty, t)
      BY <1>1, <1>3, <3>1 DEF LogInv, Late, About
    <3>3. k \in Telling => ~Some(recent, Telling, t)
      BY <3>2 DEF Some, About, Weighty
    <3>4. k \in Placing => ~Some(recent, Placing, t)
      BY <3>2 DEF Some, About, Weighty
    <3>5. \A i, u : \A K : LastAbout(recent, i, K, u) => Some(recent, K, u)
      BY DEF LastAbout, Some
    <3>6. ASSUME NEW u \in Submitted, Some(recent, Telling, u) PROVE genesis'.tasks[u] = genesis.tasks[u]
      BY <1>9, <2>1, <3>3, <3>6, ConstantsAssumption
    <3>7. ASSUME NEW u \in Submitted, Some(recent, Telling, u) PROVE genesis'.tasks[u] # "absent"
      BY <3>6, <3>7 DEF LogInv, LastWord
    <3>8. ASSUME NEW u \in Submitted, NEW i \in 1..Len(recent), LastAbout(recent, i, Telling, u)
          PROVE  genesis'.tasks[u] = Told("Pending", recent[i].kind)
      BY <3>5, <3>6, <3>8 DEF LogInv, LastWord
    <3>9. ASSUME NEW u \in Tasks, NEW i \in 1..Len(recent), LastAbout(recent, i, Placing, u)
          PROVE  Contains(genesis'.queue, u) <=> recent[i].kind = "Queued"
      <4>1. ~(u = t /\ k \in Placing)
        BY <3>4, <3>5, <3>9
      <4>2. Contains(genesis'.queue, u) <=> Contains(genesis.queue, u)
        BY <1>9, <4>1
      <4>3. QED
        BY <3>9, <4>2 DEF LogInv, LastWord
    <3>10. QED
      BY <3>1, <3>7, <3>8, <3>9 DEF LastWord
  <2>3. CASE ~old
    <3>1. PICK q, p : q = recent /\ p = Append(q, e)
      OBVIOUS
    <3>2. q \in Seq(Event) /\ recent' = p
      BY <1>4, <1>8, <2>3, <3>1
    <3>3. ASSUME NEW K, NEW u
          PROVE  /\ Some(p, K, u) => Some(q, K, u) \/ (u = t /\ k \in K)
                 /\ \A i \in 1..Len(p) : LastAbout(p, i, K, u) =>
                      \/ u = t /\ k \in K /\ p[i] = e
                      \/ ~(u = t /\ k \in K) /\ i \in 1..Len(q) /\ p[i] = q[i] /\ LastAbout(q, i, K, u)
      <4>1. About(e, K, u) <=> u = t /\ k \in K
        BY <1>3 DEF About
      <4>2. /\ Some(Append(q, e), K, u) => Some(q, K, u) \/ About(e, K, u)
            /\ \A i \in 1..Len(Append(q, e)) : LastAbout(Append(q, e), i, K, u) =>
                 \/ About(e, K, u) /\ Append(q, e)[i] = e
                 \/ ~About(e, K, u) /\ i \in 1..Len(q) /\ Append(q, e)[i] = q[i] /\ LastAbout(q, i, K, u)
        BY <1>2, <3>2, AddedFacts
      <4>3. QED
        BY <3>1, <4>1, <4>2
    <3>4. ASSUME NEW u \in Submitted, ~(u = t /\ k \in Telling) PROVE genesis'.tasks[u] = genesis.tasks[u]
      BY <1>9, <2>1, <3>4, ConstantsAssumption
    <3>5. ASSUME NEW u \in Submitted, Some(p, Telling, u) PROVE genesis'.tasks[u] # "absent"
      <4>1. CASE u = t /\ k \in Telling
        BY <2>1, <4>1
      <4>2. CASE ~(u = t /\ k \in Telling)
        <5>1. Some(recent, Telling, u)
          BY <3>1, <3>3, <3>5, <4>2
        <5>2. QED
          BY <3>4, <4>2, <5>1 DEF LogInv, LastWord
      <4>3. QED
        BY <4>1, <4>2
    <3>6. ASSUME NEW u \in Submitted, NEW i \in 1..Len(p), LastAbout(p, i, Telling, u)
          PROVE  genesis'.tasks[u] = Told("Pending", p[i].kind)
      <4>1. CASE u = t /\ k \in Telling /\ p[i] = e
        BY <1>3, <2>1, <4>1
      <4>2. CASE ~(u = t /\ k \in Telling) /\ i \in 1..Len(q) /\ p[i] = q[i] /\ LastAbout(q, i, Telling, u)
        <5>1. genesis.tasks[u] = Told("Pending", q[i].kind)
          BY <3>1, <4>2 DEF LogInv, LastWord
        <5>2. QED
          BY <3>4, <4>2, <5>1
      <4>3. QED
        BY <3>3, <3>6, <4>1, <4>2
    <3>7. ASSUME NEW u \in Tasks, NEW i \in 1..Len(p), LastAbout(p, i, Placing, u)
          PROVE  Contains(genesis'.queue, u) <=> p[i].kind = "Queued"
      <4>1. CASE u = t /\ k \in Placing /\ p[i] = e
        BY <1>3, <1>9, <4>1
      <4>2. CASE ~(u = t /\ k \in Placing) /\ i \in 1..Len(q) /\ p[i] = q[i] /\ LastAbout(q, i, Placing, u)
        <5>1. Contains(genesis.queue, u) <=> q[i].kind = "Queued"
          BY <3>1, <4>2 DEF LogInv, LastWord
        <5>2. QED
          BY <1>9, <4>2, <5>1
      <4>3. QED
        BY <3>3, <3>7, <4>1, <4>2
    <3>8. QED
      BY <3>2, <3>5, <3>6, <3>7 DEF LastWord
  <2>4. QED
    BY <2>2, <2>3
<1>17. ASSUME SaveInv PROVE SaveInv'
  <2>1. SUFFICES ASSUME page' < StreamLimit, saved # "never" PROVE Agree(latest', genesis')
    BY <1>5 DEF SaveInv
  <2>2. page < StreamLimit
    BY <1>4, <1>8, <2>1, ConstantsAssumption
  <2>3. Agree(latest, genesis)
    BY <1>17, <2>1, <2>2 DEF SaveInv
  <2>4. saved = "now" => ~old
    BY <1>4 DEF LogInv, Aged
  <2>5. saved \in {"now", "before"}
    BY <2>1 DEF LogInv, Records
  <2>6. OnPage(old)
    BY <2>2, <2>4, <2>5 DEF OnPage, NotOlder
  <2>7. latest' = Apply(latest, e)
    BY <1>4, <2>6
  <2>8. QED
    BY <1>2, <1>5, <1>7, <1>8, <2>3, <2>7, AgreeApply
<1>18. QED
  BY <1>12, <1>13, <1>14, <1>15, <1>16, <1>17 DEF LogInv

\* The operator saves what recover returned.
LEMMA CheckpointLog ==
  ASSUME IInv, LogInv, NEW policy \in {"latest", "genesis"}, Checkpoint(policy)
  PROVE  /\ LogInv'
         /\ SaveInv /\ (policy = "latest" /\ saved # "never" => page < StreamLimit) => SaveInv'
<1>1. UNCHANGED <<genesis, recent, owed, stale, at>> /\ saved' = "now" /\ saves' = saves + 1
  BY DEF Checkpoint, emit
<1>2. \A th \in Threads : owed[th] = <<>>
  BY DEF Checkpoint, Idle
<1>3. stale = {}
  BY <1>2 DEF LogInv, Aged
<1>4. PICK b : b = Recovered(policy)
  OBVIOUS
<1>5. genesis \in Image /\ Good(genesis) /\ b \in Image /\ Good(b)
  BY <1>4 DEF Recovered, IInv, Base, Shape, LogInv, Records
<1>6. PICK q, n, m : q = recent /\ n = Len(q) /\ m = IF n < StreamLimit THEN n ELSE StreamLimit
  OBVIOUS
<1>7. q \in Seq(Event) /\ n \in Nat /\ m \in Nat /\ m <= n /\ \A i \in 1..n : Sound(q[i])
  BY <1>6, LenProperties, ConstantsAssumption DEF LogInv, Records
<1>8. page' = m
  BY <1>6 DEF Checkpoint
<1>9. PICK p : p = SubSeq(q, 1, m)
  OBVIOUS
<1>10. latest' = Replayed(b, p)
  <2>1. latest' = FoldLeft(Apply, Recovered(policy), SubSeq(recent, 1, page'))
    BY Zenon DEF Checkpoint
  <2>2. QED
    BY <1>4, <1>6, <1>8, <1>9, <2>1, Zenon DEF Replayed
<1>11. p \in Seq(Event) /\ Len(p) = m /\ \A i \in 1..m : p[i] = q[i]
  BY <1>6, <1>7, <1>9
<1>12. latest' \in Image /\ Good(latest')
  <2>1. PICK r : /\ r[0] = b /\ Replayed(b, p) = r[Len(p)]
                 /\ \A i \in 1..Len(p) : r[i] = Apply(r[i - 1], p[i])
    BY <1>11, FoldFacts
  <2>2. \A i \in 1..Len(p) : Sound(p[i])
    BY <1>7, <1>11
  <2>3. Len(p) \in 0..Len(p)
    BY <1>7, <1>11
  <2>4. r[Len(p)] \in Image /\ Good(r[Len(p)])
    BY <1>5, <1>11, <2>1, <2>2, <2>3, FoldGood
  <2>5. QED
    BY <1>10, <2>1, <2>4
<1>13. Records'
  BY <1>1, <1>7, <1>8, <1>12 DEF LogInv, Records
<1>14. LogInv'
  BY <1>1, <1>3, <1>13 DEF LogInv, Aged, Sole, Late, LastWord
<1>15. ASSUME SaveInv, policy = "latest" /\ saved # "never" => page < StreamLimit PROVE SaveInv'
  <2>1. SUFFICES ASSUME page' < StreamLimit PROVE Agree(latest', genesis')
    BY DEF SaveInv
  <2>2. m = n
    BY <1>6, <1>7, <1>8, <2>1, ConstantsAssumption
  <2>3. p = q
    BY <1>6, <1>7, <1>11, <2>2, SeqEqual
  <2>4. Agree(b, genesis)
    BY <1>4, <1>15 DEF Recovered, SaveInv, Agree
  <2>5. Agree(Replayed(b, recent), genesis)
    BY <1>5, <2>4, FoldAgrees DEF LogInv
  <2>6. QED
    BY <1>1, <1>6, <1>10, <2>3, <2>5
<1>16. QED
  BY <1>14, <1>15

\* Time passes.
LEMMA TickLog ==
  ASSUME IInv, LogInv, Tick
  PROVE  LogInv' /\ (SaveInv => SaveInv')
<1>1. /\ recent' = <<>> /\ stale' = {th \in Threads : ~Idle(th)}
      /\ saved' = (IF saved = "now" THEN "before" ELSE saved)
      /\ UNCHANGED <<genesis, latest, page, saves, owed, at>>
  BY DEF Tick
<1>2. recent' \in Seq(Event) /\ Len(recent') = 0
  BY <1>1
<1>3. \A K, t : ~Some(recent', K, t)
  BY <1>2 DEF Some
<1>4. \A i \in 1..Len(recent') : FALSE
  BY <1>2
<1>5. Records'
  BY <1>1, <1>2, <1>4 DEF LogInv, Records
<1>6. Aged'
  BY <1>1 DEF Aged, Idle
<1>7. Sole' /\ Late' /\ LastWord'
  BY <1>1, <1>3, <1>4 DEF LogInv, Sole, Late, LastWord
<1>8. SaveInv => SaveInv'
  BY <1>1 DEF SaveInv
<1>9. QED
  BY <1>5, <1>6, <1>7, <1>8 DEF LogInv

\* At first nothing is logged or saved.
LEMMA InitLog == Init => LogInv /\ SaveInv
<1>1. SUFFICES ASSUME Init PROVE LogInv /\ SaveInv
  OBVIOUS
<1>2. recent = <<>> /\ recent \in Seq(Event) /\ Len(recent) = 0
  BY <1>1 DEF Init
<1>3. \A i \in 1..Len(recent) : FALSE
  BY <1>2
<1>4. Blank \in Image /\ Good(Blank)
  <2>1. <<>> \in Seq(Tasks) /\ \A t : Once(<<>>, t)
    BY DEF Once
  <2>2. QED
    BY <2>1 DEF Blank, Image, Said, Good
<1>5. Records
  BY <1>1, <1>2, <1>3, <1>4 DEF Init, Records
<1>6. Sole
  <2>1. \A k, t : ~In(<<>>, k, t)
    BY DEF In
  <2>2. QED
    BY <1>1, <2>1 DEF Init, Sole
<1>7. Aged /\ Late
  BY <1>1 DEF Init, Aged, Late
<1>8. LastWord
  BY <1>3 DEF LastWord, Some
<1>9. QED
  BY <1>1, <1>5, <1>6, <1>7, <1>8 DEF LogInv, SaveInv, Init

----------------------------------------------------------------------------
(* The theorems about checkpoints.                                         *)

\* The log's invariant holds until an event is lost.
THEOREM Logged == Spec => [](lost = {} => LogInv)
<1>1. (lost = {} => IInv) /\ (lost = {} => LogInv) /\ [Next]_vars => (lost = {} => LogInv)'
  <2>1. SUFFICES ASSUME IInv, LogInv, [Next]_vars, \A th \in Threads : ~EmitFails(th) PROVE LogInv'
    BY NothingLost
  <2>2. ASSUME NEW th \in Threads, Emit(th) PROVE LogInv'
    BY <2>1, <2>2, EmitLog
  <2>3. CASE Acts
    BY <2>1, <2>3, ActsStep DEF IInv
  <2>4. ASSUME NEW policy \in {"latest", "genesis"}, Checkpoint(policy) PROVE LogInv'
    BY <2>1, <2>4, CheckpointLog
  <2>5. CASE Tick
    BY <2>1, <2>5, TickLog
  <2>6. CASE UNCHANGED vars
    BY <2>1, <2>6 DEF vars, disk, table, emit, LogInv, Records, Aged, Sole, Late, LastWord
  <2>7. CASE Next
    <3>1. ASSUME NEW t \in Tasks,
                 Submit(t) \/ ScheduleNow(t) \/ ScheduleLater(t) \/ TrackerReady(t) \/ Cancel(t)
          PROVE  Acts
      BY <2>1, <3>1, TaskActs
    <3>2. ASSUME TrackerPop \/ LoopDequeue PROVE Acts
      BY <2>1, <3>2, LoopActs
    <3>3. ASSUME NEW w \in Workers,
                 \/ \E t \in Tasks : WorkerTake(w, t)
                 \/ WorkerRun(w) \/ WorkerComplete(w) \/ WorkerFail(w)
                 \/ GiveUp(w) \/ RetryLater(w) \/ RetryNow(w) \/ WorkerLeave(w)
          PROVE  Acts
      BY <2>1, <3>3, WorkerActs
    <3>4. QED
      BY <2>1, <2>2, <2>3, <2>4, <2>5, <2>7, <3>1, <3>2, <3>3 DEF Next
  <2>8. QED
    BY <2>1, <2>6, <2>7
<1>2. QED
  BY <1>1, InitLog, Invariance, PTL DEF Spec

\* Whichever policy recovers it, the state has the shape of RuntimeState: each
\* task is queued at most once, and a task that was never submitted is unknown.
\* (Stated for a log that lacks no event.)
THEOREM Typing == Spec => [](lost = {} => TypeOK)
<1>1. IInv /\ LogInv => TypeOK
  <2>1. SUFFICES ASSUME IInv, LogInv PROVE TypeOK
    OBVIOUS
  <2>2. \A th \in Threads : \A i \in 1..Len(owed[th]) : owed[th][i].kind \in Kinds
    <3>1. SUFFICES ASSUME NEW th \in Threads, NEW i \in 1..Len(owed[th]) PROVE owed[th][i].kind \in Kinds
      OBVIOUS
    <3>2. PICK s : s = owed[th]
      OBVIOUS
    <3>3. s \in Seq(Event) /\ i \in 1..Len(s)
      BY <2>1, <3>1, <3>2 DEF IInv, Base, Shape
    <3>4. s[i] \in Event
      BY <3>3, ElementOfSeq
    <3>5. QED
      BY <3>2, <3>4 DEF Event
  <2>3. ASSUME NEW r \in Image, Good(r)
        PROVE  /\ r.tasks \in [Tasks -> {"absent", "Pending", "Running", "Completed", "Failed"}]
               /\ \A t \in Tasks \ Submitted : r.tasks[t] = "absent"
               /\ IsInjective(r.queue) /\ r.delayed \subseteq Tasks
    <3>1. r.tasks \in [Tasks -> Said] /\ r.delayed \subseteq Tasks
      BY DEF Image
    <3>2. PICK q \in Seq(Tasks) : q = r.queue
      BY DEF Image
    <3>3. DOMAIN q = 1..Len(q) /\ \A i \in 1..Len(q) : q[i] \in Tasks
      BY <3>2, LenProperties, ElementOfSeq
    <3>4. ASSUME NEW i \in DOMAIN q, NEW j \in DOMAIN q, q[i] = q[j] PROVE i = j
      <4>1. PICK t \in Tasks : t = q[i]
        BY <3>3, <3>4
      <4>2. Once(q, t)
        BY <2>3, <3>2 DEF Good
      <4>3. QED
        BY <3>3, <3>4, <4>1, <4>2 DEF Once
    <3>5. IsInjective(q)
      BY <3>4 DEF IsInjective
    <3>6. QED
      BY <2>3, <3>1, <3>2, <3>5 DEF Good, Said
  <2>4. ASSUME NEW policy \in {"latest", "genesis"} PROVE Recovered(policy) \in Image /\ Good(Recovered(policy))
    BY <2>1 DEF Recovered, IInv, Base, Shape, LogInv, Records
  <2>5. /\ status \in [Tasks -> {"PENDING", "RUNNING", "COMPLETED", "FAILED"}]
        /\ at \in [Tasks -> Places] /\ job \in [Workers -> Tasks \cup {None}]
    BY <2>1 DEF IInv, Base, Shape
  <2>6. QED
    BY <2>2, <2>3, <2>4, <2>5 DEF TypeOK
<1>2. QED
  BY <1>1, Invariance, Logged, PTL

\* What is saved was recovered from a whole page: the operator does not save the
\* result of a recovery that stopped reading at the limit.
SavesWhole == Checkpoint("latest") /\ saved # "never" => page < StreamLimit

\* As long as no append failed, recovery from the latest checkpoint agrees with
\* recovery from genesis, provided that the events since the checkpoint fit on
\* the page it reads and no checkpoint was taken from a recovery that had read
\* a full page.
THEOREM Snapshot == Spec /\ [][SavesWhole]_vars => [](lost = {} => SnapshotAgrees)
<1>1. /\ lost = {} => IInv
      /\ lost = {} => LogInv
      /\ lost = {} => SaveInv
      /\ [Next]_vars /\ [SavesWhole]_vars
      => (lost = {} => SaveInv)'
  <2>1. SUFFICES ASSUME IInv, LogInv, SaveInv, [Next]_vars, [SavesWhole]_vars,
                        \A th \in Threads : ~EmitFails(th)
                 PROVE  SaveInv'
    BY NothingLost
  <2>2. ASSUME NEW th \in Threads, Emit(th) PROVE SaveInv'
    BY <2>1, <2>2, EmitLog
  <2>3. CASE Acts
    BY <2>1, <2>3 DEF Acts, disk, table, SaveInv
  <2>4. CASE UNCHANGED vars
    BY <2>1, <2>4 DEF vars, disk, table, SaveInv
  <2>5. ASSUME NEW policy \in {"latest", "genesis"}, Checkpoint(policy), ~UNCHANGED vars PROVE SaveInv'
    <3>1. policy = "latest" /\ saved # "never" => page < StreamLimit
      BY <2>1, <2>5 DEF SavesWhole
    <3>2. QED
      BY <2>1, <2>5, <3>1, CheckpointLog
  <2>6. CASE Tick
    BY <2>1, <2>6, TickLog
  <2>7. CASE Next /\ ~UNCHANGED vars
    <3>1. ASSUME NEW t \in Tasks,
                 Submit(t) \/ ScheduleNow(t) \/ ScheduleLater(t) \/ TrackerReady(t) \/ Cancel(t)
          PROVE  Acts
      BY <2>1, <3>1, TaskActs
    <3>2. ASSUME TrackerPop \/ LoopDequeue PROVE Acts
      BY <2>1, <3>2, LoopActs
    <3>3. ASSUME NEW w \in Workers,
                 \/ \E t \in Tasks : WorkerTake(w, t)
                 \/ WorkerRun(w) \/ WorkerComplete(w) \/ WorkerFail(w)
                 \/ GiveUp(w) \/ RetryLater(w) \/ RetryNow(w) \/ WorkerLeave(w)
          PROVE  Acts
      BY <2>1, <3>3, WorkerActs
    <3>4. QED
      BY <2>1, <2>2, <2>3, <2>5, <2>6, <2>7, <3>1, <3>2, <3>3 DEF Next
  <2>8. QED
    BY <2>1, <2>4, <2>7
<1>2. IInv /\ LogInv /\ SaveInv => SnapshotAgrees
  <2>1. SUFFICES ASSUME IInv, LogInv, SaveInv, page < StreamLimit
                 PROVE  /\ Recovered("latest").tasks = genesis.tasks
                        /\ ToSet(Recovered("latest").queue) = ToSet(genesis.queue)
    BY DEF SnapshotAgrees
  <2>2. Agree(Recovered("latest"), genesis) /\ Recovered("latest") \in Image /\ genesis \in Image
    BY <2>1 DEF Recovered, SaveInv, Agree, IInv, Base, Shape, LogInv, Records
  <2>3. PICK p \in Seq(Tasks), q \in Seq(Tasks) : p = Recovered("latest").queue /\ q = genesis.queue
    BY <2>2 DEF Image
  <2>4. ASSUME NEW s \in Seq(Tasks) PROVE ToSet(s) = {t \in Tasks : Contains(s, t)}
    <3>1. DOMAIN s = 1..Len(s) /\ \A i \in 1..Len(s) : s[i] \in Tasks
      BY LenProperties, ElementOfSeq
    <3>2. QED
      BY <3>1 DEF ToSet, Contains
  <2>5. \A t \in Tasks : Contains(p, t) <=> Contains(q, t)
    BY <2>2, <2>3 DEF Agree
  <2>6. {t \in Tasks : Contains(p, t)} = {t \in Tasks : Contains(q, t)}
    BY <2>5
  <2>7. ToSet(p) = ToSet(q)
    BY <2>4, <2>6
  <2>8. QED
    BY <2>2, <2>3, <2>7 DEF Agree
<1>3. QED
  BY <1>1, <1>2, InitLog, Invariance, Logged, PTL DEF Spec

\* Without a checkpoint nothing is saved.
Counted == saves \in Nat /\ (saves = 0 => saved = "never")

\* Only a checkpoint saves, and it is counted.
LEMMA CountedStep ==
  ASSUME Counted, [Next]_vars
  PROVE  Counted'
<1>1. ASSUME NEW th \in Threads, Emit(th) \/ EmitFails(th) PROVE Counted'
  BY <1>1 DEF Emit, EmitFails, Counted
<1>2. ASSUME NEW t \in Tasks,
             Submit(t) \/ ScheduleNow(t) \/ ScheduleLater(t) \/ TrackerReady(t) \/ Cancel(t)
      PROVE  Counted'
  BY <1>2 DEF Submit, ScheduleNow, ScheduleLater, TrackerReady, Cancel, disk, Counted
<1>3. ASSUME NEW w \in Workers,
             \/ \E t \in Tasks : WorkerTake(w, t)
             \/ WorkerRun(w) \/ WorkerComplete(w) \/ WorkerFail(w)
             \/ GiveUp(w) \/ RetryLater(w) \/ RetryNow(w) \/ WorkerLeave(w)
      PROVE  Counted'
  BY <1>3 DEF WorkerTake, WorkerRun, WorkerComplete, WorkerFail, GiveUp, RetryLater, RetryNow,
              WorkerLeave, disk, Counted
<1>4. CASE TrackerPop \/ LoopDequeue \/ UNCHANGED vars
  BY <1>4 DEF TrackerPop, LoopDequeue, vars, disk, Counted
<1>5. ASSUME NEW policy \in {"latest", "genesis"}, Checkpoint(policy) PROVE Counted'
  BY <1>5 DEF Checkpoint, Counted
<1>6. CASE Tick
  BY <1>6 DEF Tick, Counted
<1>7. QED
  BY <1>1, <1>2, <1>3, <1>4, <1>5, <1>6 DEF Next

\* With a single checkpoint that is so of every behaviour.
THEOREM SnapshotOnce ==
  ASSUME MaxSaves = 1
  PROVE  Spec => [](lost = {} => SnapshotAgrees)
<1>1. Counted /\ [Next]_vars => [SavesWhole]_vars
  <2>1. SUFFICES ASSUME Counted, Checkpoint("latest"), saved # "never" PROVE FALSE
    BY DEF SavesWhole
  <2>2. saves \in Nat /\ saves < 1 /\ saves # 0
    BY <2>1 DEF Checkpoint, Counted
  <2>3. QED
    BY <2>2
<1>2. Init => Counted
  BY DEF Init, Counted
<1>3. Counted /\ [Next]_vars => Counted'
  BY CountedStep
<1>4. Spec => [][SavesWhole]_vars
  BY <1>1, <1>2, <1>3, PTL DEF Spec
<1>5. QED
  BY <1>4, Snapshot, PTL

=============================================================================
