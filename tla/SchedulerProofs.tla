-------------------------- MODULE SchedulerProofs --------------------------
(***************************************************************************)
(* Proofs about Scheduler, for any tasks, workers, retry limits, queue     *)
(* capacity and failures of the event store.                               *)
(***************************************************************************)
EXTENDS Scheduler, FiniteSetTheorems, WellFoundedInduction, TLAPS

----------------------------------------------------------------------------
(* Sequences: the queue's order and the pool's queue.                      *)

\* Appending x adds an occurrence of x and of nothing else.
LEMMA AppendFacts ==
    ASSUME NEW S, NEW s \in Seq(S), NEW x \in S, NEW t
    PROVE  /\ Append(s, x) \in Seq(S)
           /\ InSeq(Append(s, x), t) <=> InSeq(s, t) \/ x = t
           /\ Once(s, t) /\ ~(InSeq(s, t) /\ x = t) => Once(Append(s, x), t)
<1>1. /\ Append(s, x) \in Seq(S)
      /\ Len(Append(s, x)) = Len(s) + 1
      /\ Len(s) \in Nat
      /\ \A i \in 1..Len(s) : Append(s, x)[i] = s[i]
      /\ Append(s, x)[Len(s) + 1] = x
  OBVIOUS
<1>2. \A i : i \in 1..(Len(s) + 1) <=> i \in 1..Len(s) \/ i = Len(s) + 1
  BY <1>1
<1>3. QED
  BY <1>1, <1>2 DEF InSeq, Once

\* Taking the head off removes one occurrence of it.
LEMMA TailFacts ==
    ASSUME NEW S, NEW s \in Seq(S), s # << >>, NEW t
    PROVE  /\ Head(s) \in S /\ Tail(s) \in Seq(S)
           /\ InSeq(s, Head(s))
           /\ Head(s) # t => (InSeq(Tail(s), t) <=> InSeq(s, t))
           /\ Once(s, t) => Once(Tail(s), t)
           /\ Once(s, t) /\ Head(s) = t => ~InSeq(Tail(s), t)
<1>1. /\ Head(s) \in S /\ Head(s) = s[1]
      /\ Tail(s) \in Seq(S)
      /\ Len(s) \in Nat /\ Len(s) >= 1
      /\ Len(Tail(s)) = Len(s) - 1
      /\ \A i \in 1..Len(Tail(s)) : Tail(s)[i] = s[i + 1]
  OBVIOUS
<1>2. \A i \in 1..Len(Tail(s)) : i + 1 \in 1..Len(s) /\ i + 1 # 1
  BY <1>1
<1>3. \A i \in 1..Len(s) : i # 1 => i - 1 \in 1..Len(Tail(s)) /\ (i - 1) + 1 = i
  BY <1>1
<1>4. 1 \in 1..Len(s)
  BY <1>1
<1>5. Head(s) # t => (InSeq(Tail(s), t) <=> InSeq(s, t))
  <2>1. ASSUME Head(s) # t, InSeq(s, t) PROVE InSeq(Tail(s), t)
    <3>1. PICK i \in 1..Len(s) : s[i] = t
      BY <2>1 DEF InSeq
    <3>2. i # 1
      BY <3>1, <2>1, <1>1
    <3>3. i - 1 \in 1..Len(Tail(s)) /\ Tail(s)[i - 1] = s[i]
      BY <3>2, <1>3, <1>1
    <3>4. QED
      BY <3>1, <3>3 DEF InSeq
  <2>2. ASSUME InSeq(Tail(s), t) PROVE InSeq(s, t)
    BY <2>2, <1>1, <1>2 DEF InSeq
  <2>3. QED
    BY <2>1, <2>2
<1>6. Once(s, t) => Once(Tail(s), t)
  <2>1. SUFFICES ASSUME Once(s, t), NEW i \in 1..Len(Tail(s)), NEW j \in 1..Len(Tail(s)),
                        Tail(s)[i] = t, Tail(s)[j] = t
                 PROVE  i = j
    BY DEF Once
  <2>2. s[i + 1] = t /\ s[j + 1] = t /\ i + 1 \in 1..Len(s) /\ j + 1 \in 1..Len(s)
    BY <2>1, <1>1, <1>2
  <2>3. i + 1 = j + 1
    BY <2>1, <2>2 DEF Once
  <2>4. QED
    BY <2>3, <1>1
<1>7. Once(s, t) /\ Head(s) = t => ~InSeq(Tail(s), t)
  <2>1. SUFFICES ASSUME Once(s, t), Head(s) = t, NEW i \in 1..Len(Tail(s)), Tail(s)[i] = t
                 PROVE  FALSE
    BY DEF InSeq
  <2>2. s[i + 1] = t /\ i + 1 \in 1..Len(s) /\ i + 1 # 1 /\ s[1] = t
    BY <2>1, <1>1, <1>2
  <2>3. QED
    BY <2>1, <2>2, <1>4 DEF Once
<1>8. InSeq(s, Head(s))
  BY <1>1, <1>4 DEF InSeq
<1>9. QED
  BY <1>1, <1>5, <1>6, <1>7, <1>8

\* Removing the first x leaves the occurrences of everything else.
LEMMA WithoutFirstFacts ==
    ASSUME NEW S, NEW s \in Seq(S), NEW x, NEW t
    PROVE  /\ WithoutFirst(s, x) \in Seq(S)
           /\ x # t => (InSeq(WithoutFirst(s, x), t) <=> InSeq(s, t))
           /\ Once(s, t) => Once(WithoutFirst(s, x), t)
           /\ Once(s, x) => ~InSeq(WithoutFirst(s, x), x)
<1> DEFINE at == {i \in 1..Len(s) : s[i] = x /\ \A j \in 1..(i - 1) : s[j] # x}
<1>0. Len(s) \in Nat /\ \A i \in 1..Len(s) : s[i] \in S
  OBVIOUS
<1>1. CASE at = {}
  <2>1. WithoutFirst(s, x) = s
    BY <1>1 DEF WithoutFirst
  <2>2. ASSUME Once(s, x), InSeq(s, x) PROVE FALSE
    <3>1. PICK i \in 1..Len(s) : s[i] = x
      BY <2>2 DEF InSeq
    <3>2. \A j \in 1..(i - 1) : j \in 1..Len(s) /\ j # i
      BY <1>0, <3>1
    <3>3. i \in at
      BY <2>2, <3>1, <3>2 DEF Once
    <3>4. QED
      BY <1>1, <3>3
  <2>3. QED
    BY <2>1, <2>2
<1>2. CASE at # {}
  <2> DEFINE k == CHOOSE i \in at : TRUE
             r == [i \in 1..(Len(s) - 1) |-> IF i < k THEN s[i] ELSE s[i + 1]]
  <2>1. k \in at
    BY <1>2
  <2>2. k \in 1..Len(s) /\ s[k] = x
    BY <2>1
  <2>3. WithoutFirst(s, x) = r
    BY <1>2 DEF WithoutFirst
  <2> HIDE DEF k
  <2>4. Len(s) - 1 \in Nat /\ \A i \in 1..(Len(s) - 1) : r[i] \in S
    BY <1>0, <2>2
  <2>5. r \in Seq(S) /\ Len(r) = Len(s) - 1
    BY <2>4
  <2> DEFINE up(i) == IF i < k THEN i ELSE i + 1
             down(i) == IF i < k THEN i ELSE i - 1
  <2>6. \A i \in 1..Len(r) : /\ up(i) \in 1..Len(s) /\ up(i) # k
                             /\ r[i] = s[up(i)]
    BY <1>0, <2>2, <2>5
  <2>7. \A i, j \in 1..Len(r) : up(i) = up(j) => i = j
    BY <1>0, <2>2, <2>5
  <2>8. \A i \in 1..Len(s) : i # k => down(i) \in 1..Len(r) /\ up(down(i)) = i
    BY <1>0, <2>2, <2>5
  <2> HIDE DEF up, down, r
  <2>9. ASSUME x # t PROVE InSeq(r, t) <=> InSeq(s, t)
    <3>1. ASSUME InSeq(s, t) PROVE InSeq(r, t)
      <4>1. PICK i \in 1..Len(s) : s[i] = t
        BY <3>1 DEF InSeq
      <4>2. i # k
        BY <4>1, <2>2, <2>9
      <4>3. down(i) \in 1..Len(r) /\ r[down(i)] = s[i]
        BY <4>2, <2>6, <2>8
      <4>4. QED
        BY <4>1, <4>3 DEF InSeq
    <3>2. ASSUME InSeq(r, t) PROVE InSeq(s, t)
      BY <3>2, <2>6 DEF InSeq
    <3>3. QED
      BY <3>1, <3>2
  <2>10. Once(s, t) => Once(r, t)
    BY <2>6, <2>7 DEF Once
  <2>11. Once(s, x) => ~InSeq(r, x)
    BY <2>2, <2>6 DEF Once, InSeq
  <2>12. QED
    BY <2>3, <2>5, <2>9, <2>10, <2>11
<1>3. QED
  BY <1>1, <1>2

----------------------------------------------------------------------------
(* Type correctness.                                                       *)

USE DEF queueVars, trackerVars, loopVars, workerVars, threadVars, monitorVars,
        taskVars, metricVars, stopVars, Threads, Goto

\* A step of a stop changes nothing but how far the stops are, and the states
\* and stop events of workers.
LEMMA StopFacts == StopStep => StopFrame
  BY DEF StopStep, StopCall, StopAgain, StopScheduler, StopTracker, StopMonitor, StopLoop,
     StopWorkerPool, StopPool, TellWorker, StopWorkers, SchedulerStops, PoolStops

\* The initial state is well typed.
LEMMA TypeInit == Init => TypeOK
<1> USE ConstantsAssumption
<1>1. Init => TaskTypes /\ QueueTypes /\ CounterTypes
  BY DEF Init, TaskTypes, QueueTypes, CounterTypes, Statuses, Fates
<1>2. Init => WorkerTypes
  BY DEF Init, WorkerTypes, WorkerStates, Clocks
<1>3. Init => ThreadTypes
  <2> SUFFICES ASSUME Init PROVE ThreadTypes
    OBVIOUS
  <2>1. pc \in [Threads -> WorkerPCs \cup MonitorPCs \cup RetryPCs]
    BY DEF Init, WorkerPCs, MonitorPCs
  <2>2. hand \in [Threads -> Tasks \cup {NoTask}] /\ count \in [Threads -> Nat]
    BY DEF Init
  <2>3. mpc \in SchedulerStopPCs /\ ppc \in PoolStopPCs /\ overtaken \in BOOLEAN
    BY DEF Init, SchedulerStopPCs, PoolStopPCs
  <2>4. todo \subseteq Workers /\ suspect \in Threads
    BY DEF Init
  <2>5. QED
    BY <2>1, <2>2, <2>3, <2>4 DEF ThreadTypes
<1>4. QED
  BY <1>1, <1>2, <1>3 DEF TypeOK

\* Every step keeps the types; the loop hands on a task only when it has one.
LEMMA TypeStep == TypeOK /\ Control /\ [Next]_vars => TypeOK'
<1> SUFFICES ASSUME TypeOK, Control, [Next]_vars PROVE TypeOK'
  OBVIOUS
<1> USE ConstantsAssumption
<1>0. TaskTypes /\ QueueTypes /\ WorkerTypes /\ ThreadTypes /\ CounterTypes
  BY DEF TypeOK
<1>1. ASSUME NEW t \in Tasks, Submit(t) PROVE TypeOK'
  <2>1. Append(order, t) \in Seq(Tasks)
    BY <1>0, AppendFacts DEF QueueTypes
  <2>2. TaskTypes'
    BY <1>0, <1>1 DEF Submit, Put, PutFails, TaskTypes, Statuses, Fates
  <2>3. QueueTypes'
    <3>1. delayed' = delayed \/ delayed' = [delayed EXCEPT ![t] = delayed[t] + 1]
      BY <1>1 DEF Submit
    <3>2. delayed[t] + 1 \in Nat
      BY <1>0 DEF QueueTypes
    <3>3. delayed' \in [Tasks -> Nat]
      BY <1>0, <3>1, <3>2 DEF QueueTypes
    <3>4. QED
      BY <1>0, <1>1, <2>1, <3>3 DEF Submit, Put, PutFails, QueueTypes
  <2>4. WorkerTypes'
    BY <1>0, <1>1 DEF Submit, Put, PutFails, WorkerTypes, WorkerStates, Clocks
  <2>5. ThreadTypes'
    BY <1>0, <1>1, <2>1 DEF Submit, Put, PutFails, ThreadTypes, WorkerPCs, MonitorPCs, RetryPCs, SchedulerStopPCs, PoolStopPCs
  <2>6. CounterTypes'
    BY <1>0, <1>1 DEF Submit, Put, PutFails, CounterTypes
  <2>7. QED
    BY <2>2, <2>3, <2>4, <2>5, <2>6 DEF TypeOK
<1>2. ASSUME NEW t \in Tasks, Cancel(t) PROVE TypeOK'
  <2>1. WithoutFirst(order, t) \in Seq(Tasks)
    BY <1>0, WithoutFirstFacts DEF QueueTypes
  <2>2. TaskTypes'
    BY <1>0, <1>2 DEF Cancel, TaskTypes, Statuses, Fates
  <2>3. QueueTypes'
    BY <1>0, <1>2, <2>1 DEF Cancel, QueueTypes
  <2>4. WorkerTypes'
    BY <1>0, <1>2 DEF Cancel, WorkerTypes, WorkerStates, Clocks
  <2>5. ThreadTypes'
    BY <1>0, <1>2, <2>1 DEF Cancel, ThreadTypes, WorkerPCs, MonitorPCs, RetryPCs, SchedulerStopPCs, PoolStopPCs
  <2>6. CounterTypes'
    BY <1>0, <1>2 DEF Cancel, CounterTypes
  <2>7. QED
    BY <2>2, <2>3, <2>4, <2>5, <2>6 DEF TypeOK
<1>3. CASE LoopPoll
  <2>1. TaskTypes'
    BY <1>0, <1>3 DEF LoopPoll, LoopFrame, TaskTypes, Statuses, Fates
  <2>2. QueueTypes'
    BY <1>0, <1>3 DEF LoopPoll, LoopFrame, QueueTypes
  <2>3. WorkerTypes'
    BY <1>0, <1>3 DEF LoopPoll, LoopFrame, WorkerTypes, WorkerStates, Clocks
  <2>4. ThreadTypes'
    BY <1>0, <1>3 DEF LoopPoll, LoopFrame, ThreadTypes, WorkerPCs, MonitorPCs, RetryPCs, SchedulerStopPCs, PoolStopPCs
  <2>5. CounterTypes'
    BY <1>0, <1>3 DEF LoopPoll, LoopFrame, CounterTypes
  <2>6. QED
    BY <2>1, <2>2, <2>3, <2>4, <2>5 DEF TypeOK
<1>4. CASE LoopNonempty
  <2>1. TaskTypes'
    BY <1>0, <1>4 DEF LoopNonempty, LoopFrame, TaskTypes, Statuses, Fates
  <2>2. QueueTypes'
    BY <1>0, <1>4 DEF LoopNonempty, LoopFrame, QueueTypes
  <2>3. WorkerTypes'
    BY <1>0, <1>4 DEF LoopNonempty, LoopFrame, WorkerTypes, WorkerStates, Clocks
  <2>4. ThreadTypes'
    BY <1>0, <1>4 DEF LoopNonempty, LoopFrame, ThreadTypes, WorkerPCs, MonitorPCs, RetryPCs, SchedulerStopPCs, PoolStopPCs
  <2>5. CounterTypes'
    BY <1>0, <1>4 DEF LoopNonempty, LoopFrame, CounterTypes
  <2>6. QED
    BY <2>1, <2>2, <2>3, <2>4, <2>5 DEF TypeOK
<1>5. CASE LoopDequeue
  <2>1. order # << >> => Head(order) \in Tasks /\ Tail(order) \in Seq(Tasks)
    BY <1>0, TailFacts DEF QueueTypes
  <2>2. TaskTypes'
    BY <1>0, <1>5 DEF LoopDequeue, LoopFrame, TaskTypes, Statuses, Fates
  <2>3. QueueTypes'
    BY <1>0, <1>5, <2>1 DEF LoopDequeue, LoopFrame, QueueTypes
  <2>4. WorkerTypes'
    BY <1>0, <1>5 DEF LoopDequeue, LoopFrame, WorkerTypes, WorkerStates, Clocks
  <2>5. ThreadTypes'
    BY <1>0, <1>5, <2>1 DEF LoopDequeue, LoopFrame, ThreadTypes, WorkerPCs, MonitorPCs, RetryPCs, SchedulerStopPCs, PoolStopPCs
  <2>6. CounterTypes'
    BY <1>0, <1>5 DEF LoopDequeue, LoopFrame, CounterTypes
  <2>7. QED
    BY <2>2, <2>3, <2>4, <2>5, <2>6 DEF TypeOK
<1>6. CASE LoopSubmit
  <2>1. Append(poolq, shand) \in Seq(Tasks)
    BY <1>0, <1>6, AppendFacts DEF QueueTypes, Control, LoopSubmit
  <2>2. TaskTypes'
    BY ZenonT(60), <1>0, <1>6 DEF LoopSubmit, LoopFrame, TaskTypes, Statuses, Fates
  <2>3. QueueTypes'
    BY <1>0, <1>6, <2>1 DEF LoopSubmit, LoopFrame, QueueTypes
  <2>4. WorkerTypes'
    BY <1>0, <1>6 DEF LoopSubmit, LoopFrame, WorkerTypes, WorkerStates, Clocks
  <2>5. ThreadTypes'
    BY <1>0, <1>6, <2>1 DEF LoopSubmit, LoopFrame, ThreadTypes, WorkerPCs, MonitorPCs, RetryPCs, SchedulerStopPCs, PoolStopPCs
  <2>6. CounterTypes'
    BY <1>0, <1>6 DEF LoopSubmit, LoopFrame, CounterTypes
  <2>7. QED
    BY <2>2, <2>3, <2>4, <2>5, <2>6 DEF TypeOK
<1>7. CASE TrackerPop
  <2>1. TaskTypes'
    BY <1>0, <1>7 DEF TrackerPop, TaskTypes, Statuses, Fates
  <2>2. QueueTypes'
    BY <1>0, <1>7 DEF TrackerPop, QueueTypes
  <2>3. WorkerTypes'
    BY <1>0, <1>7 DEF TrackerPop, WorkerTypes, WorkerStates, Clocks
  <2>4. ThreadTypes'
    BY <1>0, <1>7 DEF TrackerPop, ThreadTypes, WorkerPCs, MonitorPCs, RetryPCs, SchedulerStopPCs, PoolStopPCs
  <2>5. CounterTypes'
    BY <1>0, <1>7 DEF TrackerPop, CounterTypes
  <2>6. QED
    BY <2>1, <2>2, <2>3, <2>4, <2>5 DEF TypeOK
<1>8. ASSUME NEW t \in Tasks, TrackerFire(t) PROVE TypeOK'
  <2>1. Append(order, t) \in Seq(Tasks)
    BY <1>0, AppendFacts DEF QueueTypes
  <2>2. TaskTypes'
    BY <1>0, <1>8 DEF TrackerFire, Put, PutFails, TaskTypes, Statuses, Fates
  <2>3. QueueTypes'
    BY <1>0, <1>8, <2>1 DEF TrackerFire, Put, PutFails, QueueTypes
  <2>4. WorkerTypes'
    BY <1>0, <1>8 DEF TrackerFire, Put, PutFails, WorkerTypes, WorkerStates, Clocks
  <2>5. ThreadTypes'
    BY <1>0, <1>8, <2>1 DEF TrackerFire, Put, PutFails, ThreadTypes, WorkerPCs, MonitorPCs, RetryPCs, SchedulerStopPCs, PoolStopPCs
  <2>6. CounterTypes'
    BY <1>0, <1>8 DEF TrackerFire, Put, PutFails, CounterTypes
  <2>7. QED
    BY <2>2, <2>3, <2>4, <2>5, <2>6 DEF TypeOK
<1>9. ASSUME NEW w \in Workers, WorkerGet(w) PROVE TypeOK'
  <2>1. Head(poolq) \in Tasks /\ Tail(poolq) \in Seq(Tasks)
    BY <1>0, <1>9, TailFacts DEF QueueTypes, WorkerGet
  <2>2. TaskTypes'
    BY <1>0, <1>9 DEF WorkerGet, WorkerFrame, TaskTypes, Statuses, Fates
  <2>3. QueueTypes'
    BY <1>0, <1>9, <2>1 DEF WorkerGet, WorkerFrame, QueueTypes
  <2>4. WorkerTypes'
    BY <1>0, <1>9 DEF WorkerGet, WorkerFrame, WorkerTypes, WorkerStates, Clocks
  <2>5. ThreadTypes'
    BY <1>0, <1>9, <2>1 DEF WorkerGet, WorkerFrame, ThreadTypes, WorkerPCs, MonitorPCs, RetryPCs, SchedulerStopPCs, PoolStopPCs
  <2>6. CounterTypes'
    BY <1>0, <1>9 DEF WorkerGet, WorkerFrame, CounterTypes
  <2>7. QED
    BY <2>2, <2>3, <2>4, <2>5, <2>6 DEF TypeOK
<1>10. ASSUME NEW w \in Workers, WorkerBegin(w) PROVE TypeOK'
  <2>1. TaskTypes'
    BY <1>0, <1>10 DEF WorkerBegin, WorkerFrame, TaskTypes, Statuses, Fates
  <2>2. QueueTypes'
    BY <1>0, <1>10 DEF WorkerBegin, WorkerFrame, QueueTypes
  <2>3. WorkerTypes'
    BY <1>0, <1>10 DEF WorkerBegin, WorkerFrame, WorkerTypes, WorkerStates, Clocks
  <2>4. ThreadTypes'
    BY <1>0, <1>10 DEF WorkerBegin, WorkerFrame, ThreadTypes, WorkerPCs, MonitorPCs, RetryPCs, SchedulerStopPCs, PoolStopPCs
  <2>5. CounterTypes'
    BY <1>0, <1>10 DEF WorkerBegin, WorkerFrame, CounterTypes
  <2>6. QED
    BY <2>1, <2>2, <2>3, <2>4, <2>5 DEF TypeOK
<1>11. ASSUME NEW w \in Workers, WorkerStart(w) PROVE TypeOK'
  <2>1. TaskTypes'
    BY <1>0, <1>11 DEF WorkerStart, WorkerFrame, TaskTypes, Statuses, Fates
  <2>2. QueueTypes'
    BY <1>0, <1>11 DEF WorkerStart, WorkerFrame, QueueTypes
  <2>3. WorkerTypes'
    BY <1>0, <1>11 DEF WorkerStart, WorkerFrame, WorkerTypes, WorkerStates, Clocks
  <2>4. ThreadTypes'
    BY <1>0, <1>11 DEF WorkerStart, WorkerFrame, ThreadTypes, WorkerPCs, MonitorPCs, RetryPCs, SchedulerStopPCs, PoolStopPCs
  <2>5. CounterTypes'
    BY <1>0, <1>11 DEF WorkerStart, WorkerFrame, CounterTypes
  <2>6. QED
    BY <2>1, <2>2, <2>3, <2>4, <2>5 DEF TypeOK
<1>12. ASSUME NEW w \in Workers, WorkerReturn(w) PROVE TypeOK'
  <2>1. TaskTypes'
    BY <1>0, <1>12 DEF WorkerReturn, WorkerFrame, TaskTypes, Statuses, Fates
  <2>2. QueueTypes'
    BY <1>0, <1>12 DEF WorkerReturn, WorkerFrame, QueueTypes
  <2>3. WorkerTypes'
    BY <1>0, <1>12 DEF WorkerReturn, WorkerFrame, WorkerTypes, WorkerStates, Clocks
  <2>4. ThreadTypes'
    BY <1>0, <1>12 DEF WorkerReturn, WorkerFrame, ThreadTypes, WorkerPCs, MonitorPCs, RetryPCs, SchedulerStopPCs, PoolStopPCs
  <2>5. CounterTypes'
    BY <1>0, <1>12 DEF WorkerReturn, WorkerFrame, CounterTypes
  <2>6. QED
    BY <2>1, <2>2, <2>3, <2>4, <2>5 DEF TypeOK
<1>13. ASSUME NEW w \in Workers, WorkerComplete(w) PROVE TypeOK'
  <2>1. TaskTypes'
    BY <1>0, <1>13 DEF WorkerComplete, WorkerFrame, TaskTypes, Statuses, Fates
  <2>2. QueueTypes'
    BY <1>0, <1>13 DEF WorkerComplete, WorkerFrame, QueueTypes
  <2>3. WorkerTypes'
    BY <1>0, <1>13 DEF WorkerComplete, WorkerFrame, WorkerTypes, WorkerStates, Clocks
  <2>4. ThreadTypes'
    BY <1>0, <1>13 DEF WorkerComplete, WorkerFrame, ThreadTypes, WorkerPCs, MonitorPCs, RetryPCs, SchedulerStopPCs, PoolStopPCs
  <2>5. CounterTypes'
    BY <1>0, <1>13 DEF WorkerComplete, WorkerFrame, CounterTypes
  <2>6. QED
    BY <2>1, <2>2, <2>3, <2>4, <2>5 DEF TypeOK
<1>14. ASSUME NEW w \in Workers, WorkerReport(w) PROVE TypeOK'
  <2>1. TaskTypes'
    BY <1>0, <1>14 DEF WorkerReport, WorkerFrame, TaskTypes, Statuses, Fates
  <2>2. QueueTypes'
    BY <1>0, <1>14 DEF WorkerReport, WorkerFrame, QueueTypes
  <2>3. WorkerTypes'
    BY <1>0, <1>14 DEF WorkerReport, WorkerFrame, WorkerTypes, WorkerStates, Clocks
  <2>4. ThreadTypes'
    BY <1>0, <1>14 DEF WorkerReport, WorkerFrame, ThreadTypes, WorkerPCs, MonitorPCs, RetryPCs, SchedulerStopPCs, PoolStopPCs
  <2>5. CounterTypes'
    BY <1>0, <1>14 DEF WorkerReport, WorkerFrame, CounterTypes
  <2>6. QED
    BY <2>1, <2>2, <2>3, <2>4, <2>5 DEF TypeOK
<1>15. ASSUME NEW w \in Workers, WorkerRaise(w) PROVE TypeOK'
  <2>1. TaskTypes'
    BY <1>0, <1>15 DEF WorkerRaise, WorkerFrame, TaskTypes, Statuses, Fates
  <2>2. QueueTypes'
    BY <1>0, <1>15 DEF WorkerRaise, WorkerFrame, QueueTypes
  <2>3. WorkerTypes'
    BY <1>0, <1>15 DEF WorkerRaise, WorkerFrame, WorkerTypes, WorkerStates, Clocks
  <2>4. ThreadTypes'
    BY <1>0, <1>15 DEF WorkerRaise, WorkerFrame, ThreadTypes, WorkerPCs, MonitorPCs, RetryPCs, SchedulerStopPCs, PoolStopPCs
  <2>5. CounterTypes'
    BY <1>0, <1>15 DEF WorkerRaise, WorkerFrame, CounterTypes
  <2>6. QED
    BY <2>1, <2>2, <2>3, <2>4, <2>5 DEF TypeOK
<1>16. ASSUME NEW w \in Workers, WorkerExcept(w) PROVE TypeOK'
  <2>1. TaskTypes'
    BY <1>0, <1>16 DEF WorkerExcept, WorkerFrame, TaskTypes, Statuses, Fates
  <2>2. QueueTypes'
    BY <1>0, <1>16 DEF WorkerExcept, WorkerFrame, QueueTypes
  <2>3. WorkerTypes'
    BY <1>0, <1>16 DEF WorkerExcept, WorkerFrame, WorkerTypes, WorkerStates, Clocks
  <2>4. ThreadTypes'
    BY <1>0, <1>16 DEF WorkerExcept, WorkerFrame, ThreadTypes, WorkerPCs, MonitorPCs, RetryPCs, SchedulerStopPCs, PoolStopPCs
  <2>5. CounterTypes'
    BY <1>0, <1>16 DEF WorkerExcept, WorkerFrame, CounterTypes
  <2>6. QED
    BY <2>1, <2>2, <2>3, <2>4, <2>5 DEF TypeOK
<1>17. ASSUME NEW w \in Workers, WorkerQuit(w) PROVE TypeOK'
  <2>1. TaskTypes'
    BY <1>0, <1>17 DEF WorkerQuit, WorkerFrame, TaskTypes, Statuses, Fates
  <2>2. QueueTypes'
    BY <1>0, <1>17 DEF WorkerQuit, WorkerFrame, QueueTypes
  <2>3. WorkerTypes'
    BY <1>0, <1>17 DEF WorkerQuit, WorkerFrame, WorkerTypes, WorkerStates, Clocks
  <2>4. ThreadTypes'
    BY <1>0, <1>17 DEF WorkerQuit, WorkerFrame, ThreadTypes, WorkerPCs, MonitorPCs, RetryPCs, SchedulerStopPCs, PoolStopPCs
  <2>5. CounterTypes'
    BY <1>0, <1>17 DEF WorkerQuit, WorkerFrame, CounterTypes
  <2>6. QED
    BY <2>1, <2>2, <2>3, <2>4, <2>5 DEF TypeOK
<1>18. ASSUME NEW w \in Workers, WorkerFinally(w) PROVE TypeOK'
  <2>1. TaskTypes'
    BY <1>0, <1>18 DEF WorkerFinally, WorkerFrame, TaskTypes, Statuses, Fates
  <2>2. QueueTypes'
    BY <1>0, <1>18 DEF WorkerFinally, WorkerFrame, QueueTypes
  <2>3. WorkerTypes'
    BY <1>0, <1>18 DEF WorkerFinally, WorkerFrame, WorkerTypes, WorkerStates, Clocks
  <2>4. ThreadTypes'
    BY <1>0, <1>18 DEF WorkerFinally, WorkerFrame, ThreadTypes, WorkerPCs, MonitorPCs, RetryPCs, SchedulerStopPCs, PoolStopPCs
  <2>5. CounterTypes'
    BY <1>0, <1>18 DEF WorkerFinally, WorkerFrame, CounterTypes
  <2>6. QED
    BY <2>1, <2>2, <2>3, <2>4, <2>5 DEF TypeOK
<1>19. ASSUME NEW w \in Workers, WorkerExit(w) PROVE TypeOK'
  <2>1. TaskTypes'
    BY <1>0, <1>19 DEF WorkerExit, WorkerFrame, TaskTypes, Statuses, Fates
  <2>2. QueueTypes'
    BY <1>0, <1>19 DEF WorkerExit, WorkerFrame, QueueTypes
  <2>3. WorkerTypes'
    BY <1>0, <1>19 DEF WorkerExit, WorkerFrame, WorkerTypes, WorkerStates, Clocks
  <2>4. ThreadTypes'
    BY <1>0, <1>19 DEF WorkerExit, WorkerFrame, ThreadTypes, WorkerPCs, MonitorPCs, RetryPCs, SchedulerStopPCs, PoolStopPCs
  <2>5. CounterTypes'
    BY <1>0, <1>19 DEF WorkerExit, WorkerFrame, CounterTypes
  <2>6. QED
    BY <2>1, <2>2, <2>3, <2>4, <2>5 DEF TypeOK
<1>20. ASSUME NEW w \in Workers, NEW v \in Workers, Respawn(w, v) PROVE TypeOK'
  <2>1. TaskTypes'
    BY <1>0, <1>20 DEF Respawn, TaskTypes, Statuses, Fates
  <2>2. QueueTypes'
    BY <1>0, <1>20 DEF Respawn, QueueTypes
  <2>3. WorkerTypes'
    BY <1>0, <1>20 DEF Respawn, WorkerTypes, WorkerStates, Clocks
  <2>4. ThreadTypes'
    BY <1>0, <1>20 DEF Respawn, ThreadTypes, WorkerPCs, MonitorPCs, RetryPCs, SchedulerStopPCs, PoolStopPCs
  <2>5. CounterTypes'
    BY <1>0, <1>20 DEF Respawn, CounterTypes
  <2>6. QED
    BY <2>1, <2>2, <2>3, <2>4, <2>5 DEF TypeOK
<1>21. CASE SupervisorDies
  <2>1. TaskTypes'
    BY <1>0, <1>21 DEF SupervisorDies, TaskTypes, Statuses, Fates
  <2>2. QueueTypes'
    BY <1>0, <1>21 DEF SupervisorDies, QueueTypes
  <2>3. WorkerTypes'
    BY <1>0, <1>21 DEF SupervisorDies, WorkerTypes, WorkerStates, Clocks
  <2>4. ThreadTypes'
    BY <1>0, <1>21 DEF SupervisorDies, ThreadTypes, WorkerPCs, MonitorPCs, RetryPCs, SchedulerStopPCs, PoolStopPCs
  <2>5. CounterTypes'
    BY <1>0, <1>21 DEF SupervisorDies, CounterTypes
  <2>6. QED
    BY <2>1, <2>2, <2>3, <2>4, <2>5 DEF TypeOK
<1>22. CASE MonitorScan
  <2>1. TaskTypes'
    BY <1>0, <1>22 DEF MonitorScan, MonitorFrame, TaskTypes, Statuses, Fates
  <2>2. QueueTypes'
    BY <1>0, <1>22 DEF MonitorScan, MonitorFrame, QueueTypes
  <2>3. WorkerTypes'
    BY <1>0, <1>22 DEF MonitorScan, MonitorFrame, WorkerTypes, WorkerStates, Clocks
  <2>4. ThreadTypes'
    BY <1>0, <1>22 DEF MonitorScan, MonitorFrame, ThreadTypes, WorkerTypes, WorkerPCs, MonitorPCs, RetryPCs, SchedulerStopPCs, PoolStopPCs
  <2>5. CounterTypes'
    BY <1>0, <1>22 DEF MonitorScan, MonitorFrame, CounterTypes
  <2>6. QED
    BY <2>1, <2>2, <2>3, <2>4, <2>5 DEF TypeOK
<1>23. CASE MonitorClear
  <2>1. TaskTypes'
    BY <1>0, <1>23 DEF MonitorClear, MonitorFrame, TaskTypes, Statuses, Fates
  <2>2. QueueTypes'
    BY <1>0, <1>23 DEF MonitorClear, MonitorFrame, QueueTypes
  <2>3. WorkerTypes'
    BY <1>0, <1>23 DEF MonitorClear, MonitorFrame, WorkerTypes, WorkerStates, Clocks
  <2>4. ThreadTypes'
    BY <1>0, <1>23 DEF MonitorClear, MonitorFrame, ThreadTypes, WorkerPCs, MonitorPCs, RetryPCs, SchedulerStopPCs, PoolStopPCs
  <2>5. CounterTypes'
    BY <1>0, <1>23 DEF MonitorClear, MonitorFrame, CounterTypes
  <2>6. QED
    BY <2>1, <2>2, <2>3, <2>4, <2>5 DEF TypeOK
<1>24. CASE MonitorFail
  <2>1. TaskTypes'
    BY <1>0, <1>24 DEF MonitorFail, MonitorFrame, TaskTypes, Statuses, Fates
  <2>2. QueueTypes'
    BY <1>0, <1>24 DEF MonitorFail, MonitorFrame, QueueTypes
  <2>3. WorkerTypes'
    BY <1>0, <1>24 DEF MonitorFail, MonitorFrame, WorkerTypes, WorkerStates, Clocks
  <2>4. ThreadTypes'
    BY <1>0, <1>24 DEF MonitorFail, MonitorFrame, ThreadTypes, WorkerPCs, MonitorPCs, RetryPCs, SchedulerStopPCs, PoolStopPCs
  <2>5. CounterTypes'
    BY <1>0, <1>24 DEF MonitorFail, MonitorFrame, CounterTypes
  <2>6. QED
    BY <2>1, <2>2, <2>3, <2>4, <2>5 DEF TypeOK
<1>25. CASE MonitorRest
  <2>1. TaskTypes'
    BY <1>0, <1>25 DEF MonitorRest, MonitorFrame, TaskTypes, Statuses, Fates
  <2>2. QueueTypes'
    BY <1>0, <1>25 DEF MonitorRest, MonitorFrame, QueueTypes
  <2>3. WorkerTypes'
    BY <1>0, <1>25 DEF MonitorRest, MonitorFrame, WorkerTypes, WorkerStates, Clocks
  <2>4. ThreadTypes'
    BY <1>0, <1>25 DEF MonitorRest, MonitorFrame, ThreadTypes, WorkerPCs, MonitorPCs, RetryPCs, SchedulerStopPCs, PoolStopPCs
  <2>5. CounterTypes'
    BY <1>0, <1>25 DEF MonitorRest, MonitorFrame, CounterTypes
  <2>6. QED
    BY <2>1, <2>2, <2>3, <2>4, <2>5 DEF TypeOK
<1>26. ASSUME NEW w \in Workers, MonitorInspect(w) PROVE TypeOK'
  <2>1. TaskTypes'
    BY <1>0, <1>26 DEF MonitorInspect, MonitorFrame, CurrentTask, TaskTypes, Statuses, Fates
  <2>2. QueueTypes'
    BY <1>0, <1>26 DEF MonitorInspect, MonitorFrame, CurrentTask, QueueTypes
  <2>3. WorkerTypes'
    BY <1>0, <1>26 DEF MonitorInspect, MonitorFrame, CurrentTask, WorkerTypes, WorkerStates, Clocks
  <2>4. ThreadTypes'
    BY <1>0, <1>26 DEF MonitorInspect, MonitorFrame, CurrentTask, ThreadTypes, WorkerPCs, MonitorPCs, RetryPCs, SchedulerStopPCs, PoolStopPCs
  <2>5. CounterTypes'
    BY <1>0, <1>26 DEF MonitorInspect, MonitorFrame, CurrentTask, CounterTypes
  <2>6. QED
    BY <2>1, <2>2, <2>3, <2>4, <2>5 DEF TypeOK
<1>27. ASSUME NEW h \in Threads, RetryCheck(h) PROVE TypeOK'
  <2>1. TaskTypes'
    BY <1>0, <1>27 DEF RetryCheck, RetryFrame, Leave, Put, PutFails, TaskTypes, Statuses, Fates
  <2>2. QueueTypes'
    BY <1>0, <1>27 DEF RetryCheck, RetryFrame, Leave, Put, PutFails, QueueTypes
  <2>3. WorkerTypes'
    BY <1>0, <1>27 DEF RetryCheck, RetryFrame, Leave, Put, PutFails, WorkerTypes, WorkerStates, Clocks
  <2>4. ThreadTypes'
    BY <1>0, <1>27 DEF RetryCheck, RetryFrame, Leave, Put, PutFails, ThreadTypes, WorkerPCs, MonitorPCs, RetryPCs, SchedulerStopPCs, PoolStopPCs
  <2>5. CounterTypes'
    BY <1>0, <1>27 DEF RetryCheck, RetryFrame, Leave, Put, PutFails, CounterTypes
  <2>6. QED
    BY <2>1, <2>2, <2>3, <2>4, <2>5 DEF TypeOK
<1>28. ASSUME NEW h \in Threads, RetryRead(h) PROVE TypeOK'
  <2>1. TaskTypes'
    BY <1>0, <1>28 DEF RetryRead, RetryFrame, Leave, Put, PutFails, TaskTypes, Statuses, Fates
  <2>2. QueueTypes'
    BY <1>0, <1>28 DEF RetryRead, RetryFrame, Leave, Put, PutFails, QueueTypes
  <2>3. WorkerTypes'
    BY <1>0, <1>28 DEF RetryRead, RetryFrame, Leave, Put, PutFails, WorkerTypes, WorkerStates, Clocks
  <2>4. ThreadTypes'
    <3>1. hand[h] \in Tasks
      BY <1>28 DEF Control, RetryRead, RetryPCs
    <3>2. retry[hand[h]] \in Nat
      BY <1>0, <3>1 DEF TaskTypes
    <3>3. QED
      BY <1>0, <1>28, <3>2 DEF RetryRead, RetryFrame, ThreadTypes, WorkerPCs, MonitorPCs, RetryPCs, SchedulerStopPCs, PoolStopPCs
  <2>5. CounterTypes'
    BY <1>0, <1>28 DEF RetryRead, RetryFrame, Leave, Put, PutFails, CounterTypes
  <2>6. QED
    BY <2>1, <2>2, <2>3, <2>4, <2>5 DEF TypeOK
<1>29. ASSUME NEW h \in Threads, RetryWrite(h) PROVE TypeOK'
  <2>1. TaskTypes'
    <3>1. count[h] + 1 \in Nat
      BY <1>0 DEF ThreadTypes
    <3>2. QED
      BY <1>0, <1>29, <3>1 DEF RetryWrite, RetryFrame, TaskTypes, Statuses, Fates
  <2>2. QueueTypes'
    BY <1>0, <1>29 DEF RetryWrite, RetryFrame, Leave, Put, PutFails, QueueTypes
  <2>3. WorkerTypes'
    BY <1>0, <1>29 DEF RetryWrite, RetryFrame, Leave, Put, PutFails, WorkerTypes, WorkerStates, Clocks
  <2>4. ThreadTypes'
    BY <1>0, <1>29 DEF RetryWrite, RetryFrame, Leave, Put, PutFails, ThreadTypes, WorkerPCs, MonitorPCs, RetryPCs, SchedulerStopPCs, PoolStopPCs
  <2>5. CounterTypes'
    BY <1>0, <1>29 DEF RetryWrite, RetryFrame, Leave, Put, PutFails, CounterTypes
  <2>6. QED
    BY <2>1, <2>2, <2>3, <2>4, <2>5 DEF TypeOK
<1>30. ASSUME NEW h \in Threads, RetryDelay(h) PROVE TypeOK'
  <2>1. hand[h] \in Tasks /\ Append(order, hand[h]) \in Seq(Tasks)
    BY <1>0, <1>30, AppendFacts DEF QueueTypes, Control, RetryDelay, RetryPCs
  <2>2. TaskTypes'
    BY <1>0, <1>30 DEF RetryDelay, RetryFrame, Leave, Put, PutFails, TaskTypes, Statuses, Fates
  <2>3. QueueTypes'
    <3>1. delayed' \in [Tasks -> Nat]
      BY <1>0, <1>30 DEF RetryDelay, QueueTypes
    <3>2. QED
      BY <1>0, <1>30, <2>1, <3>1 DEF RetryDelay, RetryFrame, Put, PutFails, QueueTypes
  <2>4. WorkerTypes'
    BY <1>0, <1>30 DEF RetryDelay, RetryFrame, Leave, Put, PutFails, WorkerTypes, WorkerStates, Clocks
  <2>5. ThreadTypes'
    BY <1>0, <1>30, <2>1 DEF RetryDelay, RetryFrame, Leave, Put, PutFails, ThreadTypes, WorkerPCs, MonitorPCs, RetryPCs, SchedulerStopPCs, PoolStopPCs
  <2>6. CounterTypes'
    BY <1>0, <1>30 DEF RetryDelay, RetryFrame, Leave, Put, PutFails, CounterTypes
  <2>7. QED
    BY <2>2, <2>3, <2>4, <2>5, <2>6 DEF TypeOK
<1>31. CASE StopStep
  <2>1. TaskTypes' /\ QueueTypes' /\ CounterTypes'
    BY <1>0, <1>31, StopFacts DEF StopFrame, TaskTypes, QueueTypes, CounterTypes
  <2>2. WorkerTypes'
    <3>1. \/ wstate' = wstate /\ stop' = stop
          \/ \E w \in Workers : /\ wstate' = [wstate EXCEPT ![w] = "STOPPING"]
                               /\ stop' = [stop EXCEPT ![w] = TRUE]
      BY <1>31 DEF StopStep, StopCall, StopAgain, StopScheduler, StopTracker, StopMonitor,
         StopLoop, StopWorkerPool, StopPool, TellWorker, StopWorkers, SchedulerStops, PoolStops
    <3>2. QED
      BY <1>0, <1>31, <3>1, StopFacts DEF StopFrame, WorkerTypes, WorkerStates
  <2>3. ThreadTypes'
    <3>1. mpc' \in SchedulerStopPCs /\ ppc' \in PoolStopPCs /\ overtaken' \in BOOLEAN
      BY <1>0, <1>31 DEF StopStep, StopCall, StopAgain, StopScheduler, StopTracker,
         StopMonitor, StopLoop, StopWorkerPool, StopPool, TellWorker, StopWorkers,
         SchedulerStops, PoolStops, ThreadTypes, SchedulerStopPCs, PoolStopPCs
    <3>2. QED
      BY <1>0, <1>31, <3>1, StopFacts DEF StopFrame, ThreadTypes
  <2>4. QED
    BY <2>1, <2>2, <2>3 DEF TypeOK
<1>32. CASE UNCHANGED vars
  BY <1>0, <1>32 DEF vars, TypeOK, TaskTypes, QueueTypes, WorkerTypes, ThreadTypes,
     CounterTypes
<1>33. QED
  BY <1>1, <1>2, <1>3, <1>4, <1>5, <1>6, <1>7, <1>8, <1>9, <1>10, <1>11, <1>12, <1>13, <1>14, <1>15, <1>16, <1>17, <1>18, <1>19, <1>20, <1>21, <1>22, <1>23, <1>24, <1>25, <1>26, <1>27, <1>28, <1>29, <1>30, <1>31, <1>32
  DEF Next, Client, Loop, Tracker, Worker, RetryStep, Supervisor, MonitorStep

----------------------------------------------------------------------------
(* Control.                                                                *)

\* Initially no thread holds a task.
LEMMA ControlInit == Init => Control
  BY ConstantsAssumption DEF Init, Control, WorkerPCs, MonitorPCs, RetryPCs

\* A worker holds a task exactly while it processes one, and the monitor picks
\* up only tasks with a timeout policy.
LEMMA ControlStep == TypeOK /\ Control /\ [Next]_vars => Control'
<1> SUFFICES ASSUME TypeOK, Control, [Next]_vars PROVE Control'
  OBVIOUS
<1> USE ConstantsAssumption DEF Control
<1>0. QueueTypes /\ ThreadTypes
  BY DEF TypeOK
<1>1. ASSUME NEW t \in Tasks, Submit(t) PROVE Control'
  BY <1>0, <1>1 DEF Submit, Put, PutFails, QueueTypes, ThreadTypes, WorkerPCs, MonitorPCs, RetryPCs
<1>2. ASSUME NEW t \in Tasks, Cancel(t) PROVE Control'
  BY <1>0, <1>2 DEF Cancel, QueueTypes, ThreadTypes, WorkerPCs, MonitorPCs, RetryPCs
<1>3. CASE LoopPoll
  BY <1>0, <1>3 DEF LoopPoll, LoopFrame, QueueTypes, ThreadTypes, WorkerPCs, MonitorPCs, RetryPCs
<1>4. CASE LoopNonempty
  BY <1>0, <1>4 DEF LoopNonempty, LoopFrame, QueueTypes, ThreadTypes, WorkerPCs, MonitorPCs, RetryPCs
<1>5. CASE LoopDequeue
  BY <1>0, <1>5, TailFacts DEF LoopDequeue, LoopFrame, QueueTypes, ThreadTypes, WorkerPCs, MonitorPCs, RetryPCs
<1>6. CASE LoopSubmit
  BY <1>0, <1>6 DEF LoopSubmit, LoopFrame, QueueTypes, ThreadTypes, WorkerPCs, MonitorPCs, RetryPCs
<1>7. CASE TrackerPop
  BY <1>0, <1>7 DEF TrackerPop, QueueTypes, ThreadTypes, WorkerPCs, MonitorPCs, RetryPCs
<1>8. ASSUME NEW t \in Tasks, TrackerFire(t) PROVE Control'
  BY <1>0, <1>8 DEF TrackerFire, Put, PutFails, QueueTypes, ThreadTypes, WorkerPCs, MonitorPCs, RetryPCs
<1>9. ASSUME NEW w \in Workers, WorkerGet(w) PROVE Control'
  BY <1>0, <1>9, TailFacts DEF WorkerGet, WorkerFrame, QueueTypes, ThreadTypes, WorkerPCs, MonitorPCs, RetryPCs
<1>10. ASSUME NEW w \in Workers, WorkerBegin(w) PROVE Control'
  BY <1>0, <1>10 DEF WorkerBegin, WorkerFrame, QueueTypes, ThreadTypes, WorkerPCs, MonitorPCs, RetryPCs
<1>11. ASSUME NEW w \in Workers, WorkerStart(w) PROVE Control'
  BY <1>0, <1>11 DEF WorkerStart, WorkerFrame, QueueTypes, ThreadTypes, WorkerPCs, MonitorPCs, RetryPCs
<1>12. ASSUME NEW w \in Workers, WorkerReturn(w) PROVE Control'
  BY <1>0, <1>12 DEF WorkerReturn, WorkerFrame, QueueTypes, ThreadTypes, WorkerPCs, MonitorPCs, RetryPCs
<1>13. ASSUME NEW w \in Workers, WorkerComplete(w) PROVE Control'
  BY <1>0, <1>13 DEF WorkerComplete, WorkerFrame, QueueTypes, ThreadTypes, WorkerPCs, MonitorPCs, RetryPCs
<1>14. ASSUME NEW w \in Workers, WorkerReport(w) PROVE Control'
  BY <1>0, <1>14 DEF WorkerReport, WorkerFrame, QueueTypes, ThreadTypes, WorkerPCs, MonitorPCs, RetryPCs
<1>15. ASSUME NEW w \in Workers, WorkerRaise(w) PROVE Control'
  BY <1>0, <1>15 DEF WorkerRaise, WorkerFrame, QueueTypes, ThreadTypes, WorkerPCs, MonitorPCs, RetryPCs
<1>16. ASSUME NEW w \in Workers, WorkerExcept(w) PROVE Control'
  BY <1>0, <1>16 DEF WorkerExcept, WorkerFrame, QueueTypes, ThreadTypes, WorkerPCs, MonitorPCs, RetryPCs
<1>17. ASSUME NEW w \in Workers, WorkerQuit(w) PROVE Control'
  BY <1>0, <1>17 DEF WorkerQuit, WorkerFrame, QueueTypes, ThreadTypes, WorkerPCs, MonitorPCs, RetryPCs
<1>18. ASSUME NEW w \in Workers, WorkerFinally(w) PROVE Control'
  BY <1>0, <1>18 DEF WorkerFinally, WorkerFrame, QueueTypes, ThreadTypes, WorkerPCs, MonitorPCs, RetryPCs
<1>19. ASSUME NEW w \in Workers, WorkerExit(w) PROVE Control'
  BY <1>0, <1>19 DEF WorkerExit, WorkerFrame, QueueTypes, ThreadTypes, WorkerPCs, MonitorPCs, RetryPCs
<1>20. ASSUME NEW w \in Workers, NEW v \in Workers, Respawn(w, v) PROVE Control'
  BY <1>0, <1>20 DEF Respawn, QueueTypes, ThreadTypes, WorkerPCs, MonitorPCs, RetryPCs
<1>21. CASE SupervisorDies
  BY <1>0, <1>21 DEF SupervisorDies, QueueTypes, ThreadTypes, WorkerPCs, MonitorPCs, RetryPCs
<1>22. CASE MonitorScan
  BY <1>0, <1>22 DEF MonitorScan, MonitorFrame, QueueTypes, ThreadTypes, WorkerPCs, MonitorPCs, RetryPCs
<1>23. CASE MonitorClear
  BY <1>0, <1>23 DEF MonitorClear, MonitorFrame, QueueTypes, ThreadTypes, WorkerPCs, MonitorPCs, RetryPCs
<1>24. CASE MonitorFail
  BY <1>0, <1>24 DEF MonitorFail, MonitorFrame, QueueTypes, ThreadTypes, WorkerPCs, MonitorPCs, RetryPCs
<1>25. CASE MonitorRest
  BY <1>0, <1>25 DEF MonitorRest, MonitorFrame, QueueTypes, ThreadTypes, WorkerPCs, MonitorPCs, RetryPCs
<1>26. ASSUME NEW w \in Workers, MonitorInspect(w) PROVE Control'
  BY <1>0, <1>26 DEF MonitorInspect, MonitorFrame, CurrentTask, QueueTypes, ThreadTypes, WorkerPCs, MonitorPCs, RetryPCs
<1>27. ASSUME NEW h \in Threads, RetryCheck(h) PROVE Control'
  BY ZenonT(60), <1>0, <1>27 DEF RetryCheck, RetryFrame, Leave, Put, PutFails, QueueTypes, ThreadTypes, WorkerPCs, MonitorPCs, RetryPCs
<1>28. ASSUME NEW h \in Threads, RetryRead(h) PROVE Control'
  BY <1>0, <1>28 DEF RetryRead, RetryFrame, Leave, Put, PutFails, QueueTypes, ThreadTypes, WorkerPCs, MonitorPCs, RetryPCs
<1>29. ASSUME NEW h \in Threads, RetryWrite(h) PROVE Control'
  BY <1>0, <1>29 DEF RetryWrite, RetryFrame, Leave, Put, PutFails, QueueTypes, ThreadTypes, WorkerPCs, MonitorPCs, RetryPCs
<1>30. ASSUME NEW h \in Threads, RetryDelay(h) PROVE Control'
  BY ZenonT(60), <1>0, <1>30 DEF RetryDelay, RetryFrame, Leave, Put, PutFails, QueueTypes, ThreadTypes, WorkerPCs, MonitorPCs, RetryPCs
<1>31. CASE StopStep
  BY <1>0, <1>31, StopFacts DEF StopFrame
<1>32. CASE UNCHANGED vars
  BY <1>32 DEF vars
<1>33. QED
  BY <1>1, <1>2, <1>3, <1>4, <1>5, <1>6, <1>7, <1>8, <1>9, <1>10, <1>11, <1>12, <1>13, <1>14, <1>15, <1>16, <1>17, <1>18, <1>19, <1>20, <1>21, <1>22, <1>23, <1>24, <1>25, <1>26, <1>27, <1>28, <1>29, <1>30, <1>31, <1>32
  DEF Next, Client, Loop, Tracker, Worker, RetryStep, Supervisor, MonitorStep

----------------------------------------------------------------------------
(* A task without a timeout policy is in one place.                        *)

\* The step leaves t where it is, outside the workers ...
RestSame(t) ==
    /\ (t \in storage') <=> (t \in storage)
    /\ (shand' = t) <=> (shand = t)
    /\ InSeq(poolq', t) <=> InSeq(poolq, t)
    /\ delayed'[t] = delayed[t]
    /\ (t \in due') <=> (t \in due)
    /\ InSeq(order', t) <=> InSeq(order, t)
    /\ Once(order', t) /\ Once(poolq', t)

\* ... in the workers ...
WorkSame(t) ==
    \A w \in Workers : /\ Working(w, t)' <=> Working(w, t)
                       /\ Working(w, t) => pc'[w] = pc[w] /\ count'[w] = count[w]

\* ... and as it is.
TaskSame(t) == /\ status'[t] = status[t]
               /\ retry'[t] = retry[t]
               /\ attempts'[t] = attempts[t]

\* Where t is, it is alone.
LEMMA Alone ==
    ASSUME TypeOK, NEW t \in Plain, PlainInv(t)
    PROVE  /\ t \in storage => /\ shand # t /\ ~InSeq(poolq, t) /\ delayed[t] = 0
                               /\ t \notin due /\ ~Busy(t)
           /\ shand = t => /\ t \notin storage /\ ~InSeq(poolq, t) /\ delayed[t] = 0
                           /\ t \notin due /\ ~Busy(t)
           /\ InSeq(poolq, t) => /\ t \notin storage /\ shand # t /\ delayed[t] = 0
                                 /\ t \notin due /\ ~Busy(t)
           /\ delayed[t] # 0 => /\ t \notin storage /\ shand # t /\ ~InSeq(poolq, t)
                                /\ delayed[t] = 1 /\ t \notin due /\ ~Busy(t)
           /\ t \in due => /\ t \notin storage /\ shand # t /\ ~InSeq(poolq, t)
                           /\ delayed[t] = 0 /\ ~Busy(t)
           /\ Busy(t) => /\ t \notin storage /\ shand # t /\ ~InSeq(poolq, t)
                         /\ delayed[t] = 0 /\ t \notin due
<1>1. delayed[t] \in Nat
  BY DEF TypeOK, QueueTypes, Plain
<1>2. Tally(t) <= 1
  BY DEF PlainInv
<1>3. QED
  BY <1>1, <1>2 DEF Tally, Bit

\* A step that has nothing to do with t keeps its invariant.
LEMMA Unaffected ==
    ASSUME NEW t \in Plain, PlainInv(t), RestSame(t), WorkSame(t), TaskSame(t)
    PROVE  PlainInv(t)'
<1>1. Busy(t)' <=> Busy(t)
  BY DEF Busy, WorkSame
<1>2. Tally(t)' = Tally(t)
  BY <1>1 DEF Tally, Bit, RestSame
<1>3. (\A v, w \in Workers : Working(v, t) /\ Working(w, t) => v = w)'
  BY DEF PlainInv, WorkSame
<1>4. (\A w \in Workers : Working(w, t) =>
          /\ status[t] \in StatusAt(pc[w])
          /\ pc[w] \in {"read", "write"} => retry[t] < MaxRetries[t]
          /\ pc[w] = "write" => count[w] = retry[t])'
  BY DEF PlainInv, WorkSame, TaskSame, StatusAt
<1>5. QED
  BY <1>1, <1>2, <1>3, <1>4 DEF PlainInv, RestSame, TaskSame

\* A step of the worker that has t, which keeps it.
LEMMA OwnerStep ==
    ASSUME TypeOK, NEW t \in Plain, PlainInv(t), RestSame(t),
           NEW w \in Workers, Working(w, t), Working(w, t)',
           \A v \in Workers \ {w} : Working(v, t)' <=> Working(v, t),
           status'[t] \in StatusAt(pc'[w]), status'[t] # "NEW",
           pc'[w] \in {"read", "write"} => retry'[t] < MaxRetries[t],
           pc'[w] = "write" => count'[w] = retry'[t],
           retry'[t] <= MaxRetries[t],
           attempts'[t] = IF status'[t] \in {"NEW", "PENDING"} THEN retry'[t]
                          ELSE retry'[t] + 1
    PROVE  PlainInv(t)'
<1>1. Busy(t) /\ Busy(t)'
  BY DEF Busy
<1>2. Tally(t)' = Tally(t)
  BY <1>1 DEF Tally, Bit, RestSame
<1>3. \A v \in Workers : Working(v, t)' => v = w
  BY DEF PlainInv
<1>4. (\A v \in Workers : Working(v, t) =>
          /\ status[t] \in StatusAt(pc[v])
          /\ pc[v] \in {"read", "write"} => retry[t] < MaxRetries[t]
          /\ pc[v] = "write" => count[v] = retry[t])'
  BY <1>3
<1>5. QED
  BY <1>1, <1>2, <1>3, <1>4 DEF PlainInv, RestSame

\* After the step no worker has t.
LEMMA NotBusyStep ==
    ASSUME NEW t \in Plain, \A w \in Workers : ~Working(w, t)',
           Tally(t)' <= 1,
           Once(order', t), Once(poolq', t), InSeq(order', t) <=> t \in storage',
           Tally(t)' = 1 => status'[t] = "PENDING",
           status'[t] = "NEW" => Tally(t)' = 0,
           retry'[t] <= MaxRetries[t],
           attempts'[t] = IF status'[t] \in {"NEW", "PENDING"} THEN retry'[t]
                          ELSE retry'[t] + 1
    PROVE  PlainInv(t)'
<1>1. ~Busy(t)'
  BY DEF Busy
<1>2. QED
  BY <1>1 DEF PlainInv

\* A step of one thread changes what that thread has, and no other's.
LEMMA OneThread ==
    ASSUME NEW t, NEW h \in Threads,
           \A x \in Threads \ {h} :
              pc'[x] = pc[x] /\ hand'[x] = hand[x] /\ count'[x] = count[x]
    PROVE  \A w \in Workers \ {h} : /\ Working(w, t)' <=> Working(w, t)
                                    /\ pc'[w] = pc[w] /\ count'[w] = count[w]
  BY DEF Working

\* So a step of a thread that has t neither before nor after leaves t with
\* whatever worker has it.
LEMMA NotMine ==
    ASSUME NEW t \in Plain, NEW h \in Threads,
           \A x \in Threads \ {h} :
              pc'[x] = pc[x] /\ hand'[x] = hand[x] /\ count'[x] = count[x],
           h \in Workers => ~Working(h, t) /\ ~Working(h, t)'
    PROVE  WorkSame(t)
  BY OneThread DEF WorkSame

\* The clients' steps.
LEMMA ClientStep ==
    ASSUME IInv, Client, NEW t \in Plain
    PROVE  PlainInv(t)'
<1> USE ConstantsAssumption
<1>0. t \in Tasks /\ TypeOK /\ Control /\ PlainInv(t)
  BY DEF IInv, Plain
<1>1. QueueTypes /\ TaskTypes
  BY <1>0 DEF TypeOK
<1>2. UNCHANGED <<pc, hand, count, shand, poolq, due, retry, attempts>>
  BY DEF Client, Submit, Cancel
<1>3. WorkSame(t) /\ (Busy(t)' <=> Busy(t))
  BY <1>2 DEF WorkSame, Working, Busy
<1>4. Once(order, t) /\ Once(poolq, t) /\ (InSeq(order, t) <=> t \in storage)
  BY <1>0 DEF PlainInv
<1>5. ASSUME NEW u \in Tasks, Submit(u) PROVE PlainInv(t)'
  <2>1. /\ InSeq(Append(order, u), t) <=> InSeq(order, t) \/ u = t
        /\ ~(InSeq(order, t) /\ u = t) => Once(Append(order, u), t)
    BY <1>1, <1>4, AppendFacts DEF QueueTypes
  <2>2. CASE u # t
    <3>1. TaskSame(t) /\ delayed'[t] = delayed[t]
      BY <1>0, <1>1, <1>2, <1>5, <2>2 DEF TaskSame, Submit, TaskTypes, QueueTypes
    <3>2. order' \in {order, Append(order, u)} /\ storage' \in {storage, storage \cup {u}}
      BY <1>5 DEF Submit, Put, PutFails
    <3>3. RestSame(t)
      BY <1>2, <1>4, <2>1, <2>2, <3>1, <3>2 DEF RestSame
    <3>4. QED
      BY <1>0, <1>3, <3>1, <3>3, Unaffected
  <2>3. CASE u = t
    <3>1. status[t] = "NEW" /\ status'[t] = "PENDING"
      BY <1>1, <1>5, <2>3 DEF Submit, TaskTypes
    <3>2. Tally(t) = 0
      BY <1>0, <3>1 DEF PlainInv
    <3>3. delayed[t] \in Nat
      BY <1>0, <1>1 DEF QueueTypes
    <3>4. /\ t \notin storage /\ shand # t /\ ~InSeq(poolq, t) /\ delayed[t] = 0
          /\ t \notin due /\ ~Busy(t)
      BY <3>2, <3>3 DEF Tally, Bit
    <3>5. \/ storage' = storage /\ order' = order /\ delayed' = delayed
          \/ /\ storage' = storage /\ order' = order
             /\ delayed' = [delayed EXCEPT ![t] = @ + 1]
          \/ storage' = storage \cup {t} /\ order' = Append(order, t) /\ delayed' = delayed
      BY <1>5, <2>3 DEF Submit, Put, PutFails
    <3>6. delayed'[t] \in {0, 1} /\ (t \in storage' => delayed'[t] = 0)
      BY <1>0, <1>1, <3>4, <3>5 DEF QueueTypes
    <3>7. Tally(t)' <= 1
      BY <1>2, <1>3, <3>4, <3>6 DEF Tally, Bit
    <3>8. Once(order', t) /\ (InSeq(order', t) <=> t \in storage')
      BY <1>4, <2>1, <2>3, <3>4, <3>5
    <3>9. \A w \in Workers : ~Working(w, t)'
      BY <1>3, <3>4 DEF Busy
    <3>10. /\ retry'[t] <= MaxRetries[t]
           /\ attempts'[t] = IF status'[t] \in {"NEW", "PENDING"} THEN retry'[t]
                             ELSE retry'[t] + 1
      BY <1>0, <1>2, <3>1 DEF PlainInv
    <3>11. QED
      BY <1>2, <1>4, <3>1, <3>7, <3>8, <3>9, <3>10, NotBusyStep
  <2>4. QED
    BY <2>2, <2>3
<1>6. ASSUME NEW u \in Tasks, Cancel(u) PROVE PlainInv(t)'
  <2>1. /\ u # t => (InSeq(WithoutFirst(order, u), t) <=> InSeq(order, t))
        /\ Once(WithoutFirst(order, u), t)
        /\ u = t => ~InSeq(WithoutFirst(order, u), t)
    BY <1>1, <1>4, WithoutFirstFacts DEF QueueTypes
  <2>2. TaskSame(t) /\ delayed' = delayed
    BY <1>6 DEF TaskSame, Cancel
  <2>3. storage' = storage \ {u} /\ order' = WithoutFirst(order, u) /\ u \in storage
    BY <1>6 DEF Cancel
  <2>4. CASE u # t
    <3>1. RestSame(t)
      BY <1>2, <1>4, <2>1, <2>2, <2>3, <2>4 DEF RestSame
    <3>2. QED
      BY <1>0, <1>3, <2>2, <3>1, Unaffected
  <2>5. CASE u = t
    <3>1. shand # t /\ ~InSeq(poolq, t) /\ delayed[t] = 0 /\ t \notin due /\ ~Busy(t)
      BY <1>0, <2>3, <2>5, Alone
    <3>2. Tally(t)' = 0
      BY <1>2, <1>3, <2>2, <2>3, <2>5, <3>1 DEF Tally, Bit
    <3>3. \A w \in Workers : ~Working(w, t)'
      BY <1>3, <3>1 DEF Busy
    <3>4. /\ retry'[t] <= MaxRetries[t]
          /\ attempts'[t] = IF status'[t] \in {"NEW", "PENDING"} THEN retry'[t]
                            ELSE retry'[t] + 1
      BY <1>0, <2>2 DEF PlainInv, TaskSame
    <3>5. QED
      BY <1>2, <1>4, <2>1, <2>3, <2>5, <3>2, <3>3, <3>4, NotBusyStep
  <2>6. QED
    BY <2>4, <2>5
<1>7. QED
  BY <1>5, <1>6 DEF Client

\* The budget facts of PlainInv carry over when the task itself does not change.
LEMMA BudgetSame ==
    ASSUME NEW t \in Plain, PlainInv(t), TaskSame(t)
    PROVE  /\ retry'[t] <= MaxRetries[t]
           /\ attempts'[t] = IF status'[t] \in {"NEW", "PENDING"} THEN retry'[t]
                             ELSE retry'[t] + 1
  BY DEF PlainInv, TaskSame

\* The scheduler loop's steps.
LEMMA LoopStep ==
    ASSUME IInv, Loop, NEW t \in Plain
    PROVE  PlainInv(t)'
<1> USE ConstantsAssumption
<1>0. t \in Tasks /\ TypeOK /\ Control /\ PlainInv(t)
  BY DEF IInv, Plain
<1>1. QueueTypes
  BY <1>0 DEF TypeOK
<1>2. UNCHANGED <<pc, hand, count, delayed, due, status, retry, attempts>>
  BY DEF Loop, LoopPoll, LoopNonempty, LoopDequeue, LoopSubmit, LoopFrame
<1>3. WorkSame(t) /\ (Busy(t)' <=> Busy(t)) /\ TaskSame(t)
  BY <1>2 DEF WorkSame, Working, Busy, TaskSame
<1>4. Once(order, t) /\ Once(poolq, t) /\ (InSeq(order, t) <=> t \in storage)
  BY <1>0 DEF PlainInv
<1>5. ~Busy(t) => \A w \in Workers : ~Working(w, t)'
  BY <1>3 DEF Busy
<1>6. CASE LoopPoll \/ LoopNonempty
  <2>1. RestSame(t)
    BY <1>2, <1>4, <1>6 DEF RestSame, LoopPoll, LoopNonempty
  <2>2. QED
    BY <1>0, <1>3, <2>1, Unaffected
<1>7. CASE LoopDequeue
  <2>1. order # << >> =>
          /\ InSeq(order, Head(order))
          /\ Head(order) # t => (InSeq(Tail(order), t) <=> InSeq(order, t))
          /\ Once(Tail(order), t)
          /\ Head(order) = t => ~InSeq(Tail(order), t)
    BY <1>1, <1>4, TailFacts DEF QueueTypes
  <2>2. shand = NoTask /\ poolq' = poolq
    BY <1>0, <1>7 DEF LoopDequeue, Control
  <2>3. CASE order = << >> \/ Head(order) # t
    <3>1. RestSame(t)
      BY <1>0, <1>2, <1>4, <1>7, <2>1, <2>2, <2>3 DEF RestSame, LoopDequeue
    <3>2. QED
      BY <1>0, <1>3, <3>1, Unaffected
  <2>4. CASE order # << >> /\ Head(order) = t
    <3>1. t \in storage
      BY <1>4, <2>1, <2>4
    <3>2. ~InSeq(poolq, t) /\ delayed[t] = 0 /\ t \notin due /\ ~Busy(t) /\ shand # t
      BY <1>0, <3>1, Alone
    <3>3. storage' = storage \ {t} /\ order' = Tail(order)
      BY <1>7, <2>4, <3>1 DEF LoopDequeue
    <3>4. Tally(t)' <= 1
      BY <1>2, <1>3, <2>2, <3>2, <3>3 DEF Tally, Bit
    <3>5. status[t] = "PENDING"
      <4>1. Tally(t) = 1
        BY <3>1, <3>2 DEF Tally, Bit
      <4>2. QED
        BY <1>0, <3>2, <4>1 DEF PlainInv
    <3>6. QED
      BY <1>0, <1>2, <1>3, <1>4, <1>5, <2>1, <2>2, <2>4, <3>2, <3>3, <3>4, <3>5,
         BudgetSame, NotBusyStep
  <2>5. QED
    BY <2>3, <2>4
<1>8. CASE LoopSubmit
  <2>1. shand \in Tasks
    BY <1>0, <1>1, <1>8 DEF LoopSubmit, Control, QueueTypes
  <2>2. /\ InSeq(Append(poolq, shand), t) <=> InSeq(poolq, t) \/ shand = t
        /\ ~(InSeq(poolq, t) /\ shand = t) => Once(Append(poolq, shand), t)
    BY <1>1, <1>4, <2>1, AppendFacts DEF QueueTypes
  <2>3. /\ poolq' \in {poolq, Append(poolq, shand)}
        /\ shand' = NoTask /\ storage' = storage /\ order' = order
    BY <1>8 DEF LoopSubmit
  <2>4. CASE shand # t
    <3>1. RestSame(t)
      BY <1>0, <1>2, <1>4, <2>2, <2>3, <2>4 DEF RestSame
    <3>2. QED
      BY <1>0, <1>3, <3>1, Unaffected
  <2>5. CASE shand = t
    <3>1. /\ t \notin storage /\ ~InSeq(poolq, t) /\ delayed[t] = 0
          /\ t \notin due /\ ~Busy(t)
      BY <1>0, <2>5, Alone
    <3>2. Tally(t)' <= 1
      BY <1>0, <1>2, <1>3, <2>3, <3>1 DEF Tally, Bit
    <3>3. status[t] = "PENDING"
      <4>1. Tally(t) = 1
        BY <2>5, <3>1 DEF Tally, Bit
      <4>2. QED
        BY <1>0, <3>1, <4>1 DEF PlainInv
    <3>4. Once(poolq', t)
      BY <1>4, <2>2, <2>3, <3>1
    <3>5. QED
      BY <1>0, <1>2, <1>3, <1>4, <1>5, <2>3, <3>1, <3>2, <3>3, <3>4,
         BudgetSame, NotBusyStep
  <2>6. QED
    BY <2>4, <2>5
<1>9. QED
  BY <1>6, <1>7, <1>8 DEF Loop

\* The tracker's steps.
LEMMA TrackerStep ==
    ASSUME IInv, Tracker, NEW t \in Plain
    PROVE  PlainInv(t)'
<1> USE ConstantsAssumption
<1>0. t \in Tasks /\ TypeOK /\ Control /\ PlainInv(t)
  BY DEF IInv, Plain
<1>1. QueueTypes
  BY <1>0 DEF TypeOK
<1>2. UNCHANGED <<pc, hand, count, shand, poolq, status, retry, attempts>>
  BY DEF Tracker, TrackerPop, TrackerFire
<1>3. WorkSame(t) /\ (Busy(t)' <=> Busy(t)) /\ TaskSame(t)
  BY <1>2 DEF WorkSame, Working, Busy, TaskSame
<1>4. Once(order, t) /\ Once(poolq, t) /\ (InSeq(order, t) <=> t \in storage)
  BY <1>0 DEF PlainInv
<1>5. ~Busy(t) => \A w \in Workers : ~Working(w, t)'
  BY <1>3 DEF Busy
<1>6. CASE TrackerPop
  <2>1. PICK matured \in SUBSET {u \in Tasks : delayed[u] > 0} :
           /\ due' = matured
           /\ delayed' = [u \in Tasks |-> IF u \in matured THEN delayed[u] - 1
                                          ELSE delayed[u]]
    BY <1>6 DEF TrackerPop
  <2>2. storage' = storage /\ order' = order /\ due = {}
    BY <1>6 DEF TrackerPop
  <2>3. CASE t \notin matured
    <3>1. RestSame(t)
      BY <1>0, <1>2, <1>4, <2>1, <2>2, <2>3 DEF RestSame
    <3>2. QED
      BY <1>0, <1>3, <3>1, Unaffected
  <2>4. CASE t \in matured
    <3>1. delayed[t] # 0
      BY <2>4
    <3>2. /\ t \notin storage /\ shand # t /\ ~InSeq(poolq, t)
          /\ delayed[t] = 1 /\ ~Busy(t)
      BY <1>0, <3>1, Alone
    <3>3. delayed'[t] = 0
      BY <1>0, <2>1, <2>4, <3>2
    <3>4. Tally(t)' = 1
      BY <1>2, <1>3, <2>1, <2>2, <2>4, <3>2, <3>3 DEF Tally, Bit
    <3>5. status[t] = "PENDING"
      <4>1. Tally(t) = 1
        BY <2>2, <3>2 DEF Tally, Bit
      <4>2. QED
        BY <1>0, <3>2, <4>1 DEF PlainInv
    <3>6. QED
      BY <1>0, <1>2, <1>3, <1>4, <1>5, <2>2, <3>2, <3>4, <3>5, BudgetSame, NotBusyStep
  <2>5. QED
    BY <2>3, <2>4
<1>7. ASSUME NEW u \in Tasks, TrackerFire(u) PROVE PlainInv(t)'
  <2>1. /\ InSeq(Append(order, u), t) <=> InSeq(order, t) \/ u = t
        /\ ~(InSeq(order, t) /\ u = t) => Once(Append(order, u), t)
    BY <1>1, <1>4, AppendFacts DEF QueueTypes
  <2>2. /\ u \in due /\ due' = due \ {u} /\ delayed' = delayed
        /\ \/ storage' = storage /\ order' = order
           \/ storage' = storage \cup {u} /\ order' = Append(order, u)
    BY <1>7 DEF TrackerFire, Put, PutFails
  <2>3. CASE u # t
    <3>1. RestSame(t)
      BY <1>2, <1>4, <2>1, <2>2, <2>3 DEF RestSame
    <3>2. QED
      BY <1>0, <1>3, <3>1, Unaffected
  <2>4. CASE u = t
    <3>1. /\ t \notin storage /\ shand # t /\ ~InSeq(poolq, t)
          /\ delayed[t] = 0 /\ ~Busy(t)
      BY <1>0, <2>2, <2>4, Alone
    <3>2. Tally(t)' <= 1
      BY <1>2, <1>3, <2>2, <2>4, <3>1 DEF Tally, Bit
    <3>3. status[t] = "PENDING"
      <4>1. Tally(t) = 1
        BY <2>2, <2>4, <3>1 DEF Tally, Bit
      <4>2. QED
        BY <1>0, <3>1, <4>1 DEF PlainInv
    <3>4. Once(order', t) /\ (InSeq(order', t) <=> t \in storage')
      BY <1>4, <2>1, <2>2, <2>4, <3>1
    <3>5. QED
      BY <1>0, <1>2, <1>3, <1>4, <1>5, <3>1, <3>2, <3>3, <3>4, BudgetSame, NotBusyStep
  <2>5. QED
    BY <2>3, <2>4
<1>8. QED
  BY <1>6, <1>7 DEF Tracker

\* The steps of worker w other than fetching a task and handling a failure.
WorkerOwn(w) ==
    \/ WorkerBegin(w) \/ WorkerStart(w) \/ WorkerReturn(w) \/ WorkerComplete(w)
    \/ WorkerReport(w) \/ WorkerRaise(w) \/ WorkerExcept(w) \/ WorkerQuit(w)
    \/ WorkerFinally(w) \/ WorkerExit(w)

\* Those steps touch no queue, no other thread and no task but the worker's.
LEMMA WorkerOwnFrame ==
    ASSUME TypeOK, NEW w \in Workers, WorkerOwn(w), NEW t \in Plain, PlainInv(t)
    PROVE  /\ RestSame(t)
           /\ \A x \in Threads \ {w} :
                 pc'[x] = pc[x] /\ hand'[x] = hand[x] /\ count'[x] = count[x]
           /\ hand'[w] \in {hand[w], NoTask}
           /\ retry' = retry
           /\ hand[w] # t => TaskSame(t)
<1> USE ConstantsAssumption
<1>0. ThreadTypes /\ TaskTypes /\ t \in Tasks
  BY DEF TypeOK, Plain
<1>1. UNCHANGED <<order, storage, delayed, due, shand, poolq, retry, count>>
  BY DEF WorkerOwn, WorkerFrame, WorkerBegin, WorkerStart, WorkerReturn, WorkerComplete,
     WorkerReport, WorkerRaise, WorkerExcept, WorkerQuit, WorkerFinally, WorkerExit
<1>2. RestSame(t)
  BY <1>1 DEF RestSame, PlainInv
<1>3. \A x \in Threads \ {w} : pc'[x] = pc[x] /\ hand'[x] = hand[x]
  BY <1>0 DEF ThreadTypes, WorkerOwn, WorkerBegin, WorkerStart, WorkerReturn,
     WorkerComplete, WorkerReport, WorkerRaise, WorkerExcept, WorkerQuit, WorkerFinally,
     WorkerExit
<1>4. hand'[w] \in {hand[w], NoTask}
  BY <1>0 DEF ThreadTypes, WorkerOwn, WorkerBegin, WorkerStart, WorkerReturn,
     WorkerComplete, WorkerReport, WorkerRaise, WorkerExcept, WorkerQuit, WorkerFinally,
     WorkerExit
<1>5. hand[w] # t => status'[t] = status[t] /\ attempts'[t] = attempts[t]
  BY <1>0 DEF TaskTypes, WorkerOwn, WorkerBegin, WorkerStart, WorkerReturn,
     WorkerComplete, WorkerReport, WorkerRaise, WorkerExcept, WorkerQuit, WorkerFinally,
     WorkerExit
<1>6. QED
  BY <1>1, <1>2, <1>3, <1>4, <1>5 DEF TaskSame

\* A worker with t goes on with it: its status and attempts follow the step.
LEMMA WorkerOwnStep ==
    ASSUME IInv, NEW w \in Workers, WorkerOwn(w), NEW t \in Plain
    PROVE  PlainInv(t)'
<1> USE ConstantsAssumption
<1>0. t \in Tasks /\ TypeOK /\ Control /\ PlainInv(t)
  BY DEF IInv, Plain
<1>1. ThreadTypes /\ TaskTypes /\ w \in Threads /\ t # NoTask
  BY <1>0 DEF TypeOK
<1>2. /\ RestSame(t)
      /\ \A x \in Threads \ {w} :
            pc'[x] = pc[x] /\ hand'[x] = hand[x] /\ count'[x] = count[x]
      /\ hand'[w] \in {hand[w], NoTask}
      /\ retry' = retry
      /\ hand[w] # t => TaskSame(t)
  BY <1>0, WorkerOwnFrame
<1>3. \A v \in Workers \ {w} : Working(v, t)' <=> Working(v, t)
  BY <1>1, <1>2, OneThread
<1>4. CASE hand[w] # t
  <2>1. ~Working(w, t) /\ ~Working(w, t)'
    BY <1>1, <1>2, <1>4 DEF Working
  <2>2. WorkSame(t)
    BY <1>1, <1>2, <2>1, NotMine
  <2>3. QED
    BY <1>0, <1>2, <1>4, <2>2, Unaffected
<1>5. CASE hand[w] = t /\ ~Working(w, t)
  <2>1. pc[w] \in {"finally", "dead"}
    BY <1>5 DEF Working
  <2>2. WorkerFinally(w)
    BY <2>1 DEF WorkerOwn, WorkerBegin, WorkerStart, WorkerReturn, WorkerComplete,
       WorkerReport, WorkerRaise, WorkerExcept, WorkerQuit, WorkerFinally, WorkerExit
  <2>3. TaskSame(t) /\ hand'[w] = NoTask
    BY <1>1, <2>2 DEF TaskSame, WorkerFinally, ThreadTypes
  <2>4. ~Working(w, t)'
    BY <1>1, <2>3 DEF Working
  <2>5. WorkSame(t)
    BY <1>1, <1>2, <1>5, <2>4, NotMine
  <2>6. QED
    BY <1>0, <1>2, <2>3, <2>5, Unaffected
<1>6. CASE Working(w, t)
  <2>0. hand[w] = t /\ pc[w] \notin {"finally", "dead"}
    BY <1>6 DEF Working
  <2>1. /\ status[t] \in StatusAt(pc[w])
        /\ retry[t] <= MaxRetries[t]
        /\ attempts[t] = IF status[t] \in {"NEW", "PENDING"} THEN retry[t]
                         ELSE retry[t] + 1
        /\ \A v \in Workers \ {w} : ~Working(v, t)
        /\ Once(order, t) /\ Once(poolq, t) /\ (InSeq(order, t) <=> t \in storage)
    BY <1>0, <1>6 DEF PlainInv
  <2>2. /\ t \notin storage /\ shand # t /\ ~InSeq(poolq, t)
        /\ delayed[t] = 0 /\ t \notin due
    BY <1>0, <1>6, Alone DEF Busy
  <2>3. retry[t] \in Nat /\ attempts[t] \in Nat
    BY <1>0, <1>1 DEF TaskTypes
  <2>4. ASSUME hand'[w] = t, pc'[w] \notin {"finally", "dead", "read", "write"},
               status'[t] \in StatusAt(pc'[w]), status'[t] # "NEW",
               attempts'[t] = IF status'[t] \in {"NEW", "PENDING"} THEN retry[t]
                              ELSE retry[t] + 1
        PROVE  PlainInv(t)'
    <3>1. Working(w, t)'
      BY <2>4 DEF Working
    <3>2. QED
      BY <1>0, <1>2, <1>3, <1>6, <2>1, <2>4, <3>1, OwnerStep
  <2>5. ASSUME pc'[w] \in {"finally", "dead"}, status'[t] = status[t],
               attempts'[t] = attempts[t], status[t] # "NEW"
        PROVE  PlainInv(t)'
    <3>1. \A v \in Workers : ~Working(v, t)'
      BY <1>3, <2>1, <2>5 DEF Working
    <3>2. ~Busy(t)'
      BY <3>1 DEF Busy
    <3>3. Tally(t)' = 0
      BY <1>2, <2>2, <3>2 DEF Tally, Bit, RestSame
    <3>4. QED
      BY <1>2, <2>1, <2>5, <3>1, <3>3, NotBusyStep DEF RestSame
  <2>6. CASE WorkerBegin(w)
    BY <1>0, <1>1, <2>0, <2>1, <2>4, <2>6
    DEF WorkerBegin, ThreadTypes, StatusAt
  <2>7. CASE WorkerStart(w)
    <3>1. pc[w] = "start" /\ status[t] = "PENDING" /\ attempts[t] = retry[t]
      BY <2>1, <2>7 DEF WorkerStart, StatusAt
    <3>2. CASE pc'[w] = "dead"
      BY <1>0, <1>1, <2>0, <2>5, <2>7, <3>1, <3>2 DEF WorkerStart, ThreadTypes
    <3>3. CASE pc'[w] = "exec"
      <4>1. /\ hand' = hand /\ status'[t] = "RUNNING"
            /\ attempts'[t] = attempts[t] + 1
        BY <1>0, <1>1, <2>0, <2>7, <3>3 DEF WorkerStart, ThreadTypes, TaskTypes
      <4>2. QED
        BY <1>1, <2>0, <2>4, <3>1, <3>3, <4>1 DEF StatusAt
    <3>4. QED
      BY <1>1, <2>7, <3>2, <3>3 DEF WorkerStart, ThreadTypes
  <2>8. CASE WorkerReturn(w)
    <3>1. pc[w] = "exec" /\ status[t] = "RUNNING"
      BY <2>1, <2>8 DEF WorkerReturn, StatusAt
    <3>2. QED
      BY <1>1, <2>0, <2>1, <2>4, <2>8, <3>1 DEF WorkerReturn, ThreadTypes, StatusAt
  <2>9. CASE WorkerComplete(w)
    <3>1. pc[w] = "complete" /\ status[t] = "RUNNING"
      BY <2>1, <2>9 DEF WorkerComplete, StatusAt
    <3>2. status'[t] = "COMPLETED"
      BY <1>0, <1>1, <2>0, <2>9 DEF WorkerComplete, TaskTypes
    <3>3. QED
      BY <1>1, <2>0, <2>1, <2>4, <2>9, <3>1, <3>2 DEF WorkerComplete, ThreadTypes, StatusAt
  <2>10. CASE WorkerReport(w)
    <3>1. pc[w] = "report" /\ status[t] = "COMPLETED"
      BY <2>1, <2>10 DEF WorkerReport, StatusAt
    <3>2. CASE pc'[w] = "finally"
      BY <2>5, <2>10, <3>1, <3>2 DEF WorkerReport
    <3>3. CASE pc'[w] = "except"
      BY <1>1, <2>0, <2>1, <2>4, <2>10, <3>1, <3>3 DEF WorkerReport, StatusAt
    <3>4. QED
      BY <1>1, <2>10, <3>2, <3>3 DEF WorkerReport, ThreadTypes
  <2>11. CASE WorkerRaise(w)
    <3>1. pc[w] = "exec" /\ status[t] = "RUNNING"
      BY <2>1, <2>11 DEF WorkerRaise, StatusAt
    <3>2. QED
      BY <1>1, <2>0, <2>1, <2>4, <2>11, <3>1 DEF WorkerRaise, ThreadTypes, StatusAt
  <2>12. CASE WorkerExcept(w)
    <3>1. pc[w] = "except" /\ status[t] \in {"RUNNING", "COMPLETED"}
      BY <2>1, <2>12 DEF WorkerExcept, StatusAt
    <3>2. status'[t] = "FAILED" /\ pc'[w] = "check"
      BY <1>0, <1>1, <2>0, <2>12 DEF WorkerExcept, TaskTypes, ThreadTypes
    <3>3. QED
      BY <2>0, <2>1, <2>4, <2>12, <3>1, <3>2 DEF WorkerExcept, StatusAt
  <2>13. CASE WorkerQuit(w)
    <3>1. pc[w] = "exec" /\ status[t] = "RUNNING"
      BY <2>1, <2>13 DEF WorkerQuit, StatusAt
    <3>2. QED
      BY <1>1, <2>5, <2>13, <3>1 DEF WorkerQuit, ThreadTypes
  <2>14. CASE WorkerFinally(w)
    BY <2>0, <2>14 DEF WorkerFinally
  <2>15. CASE WorkerExit(w)
    BY <1>0, <1>1, <2>0, <2>15 DEF WorkerExit, Control
  <2>16. QED
    BY <2>6, <2>7, <2>8, <2>9, <2>10, <2>11, <2>12, <2>13, <2>14, <2>15 DEF WorkerOwn
<1>7. QED
  BY <1>4, <1>5, <1>6

\* A worker fetches a task from the pool's queue.
LEMMA WorkerGetStep ==
    ASSUME IInv, NEW w \in Workers, WorkerGet(w), NEW t \in Plain
    PROVE  PlainInv(t)'
<1> USE ConstantsAssumption
<1>0. t \in Tasks /\ TypeOK /\ Control /\ PlainInv(t)
  BY DEF IInv, Plain
<1>1. ThreadTypes /\ QueueTypes /\ w \in Threads /\ t # NoTask
  BY <1>0 DEF TypeOK
<1>2. /\ UNCHANGED <<order, storage, delayed, due, shand, status, retry, attempts, count>>
      /\ poolq # << >> /\ poolq' = Tail(poolq)
      /\ pc'[w] = "begin" /\ hand'[w] = Head(poolq)
      /\ \A x \in Threads \ {w} : pc'[x] = pc[x] /\ hand'[x] = hand[x]
  BY <1>1 DEF WorkerGet, WorkerFrame, ThreadTypes
<1>3. hand[w] = NoTask
  BY <1>0 DEF WorkerGet, Control
<1>4. ~Working(w, t)
  BY <1>1, <1>3 DEF Working
<1>5. Once(order, t) /\ Once(poolq, t) /\ (InSeq(order, t) <=> t \in storage)
  BY <1>0 DEF PlainInv
<1>6. /\ InSeq(poolq, Head(poolq))
      /\ Head(poolq) # t => (InSeq(Tail(poolq), t) <=> InSeq(poolq, t))
      /\ Once(Tail(poolq), t)
      /\ Head(poolq) = t => ~InSeq(Tail(poolq), t)
  BY <1>1, <1>2, <1>5, TailFacts DEF QueueTypes
<1>7. \A v \in Workers \ {w} : Working(v, t)' <=> Working(v, t)
  BY <1>1, <1>2, OneThread
<1>8. TaskSame(t)
  BY <1>2 DEF TaskSame
<1>9. CASE Head(poolq) # t
  <2>1. RestSame(t)
    BY <1>2, <1>5, <1>6, <1>9 DEF RestSame
  <2>2. ~Working(w, t)'
    BY <1>2, <1>9 DEF Working
  <2>3. WorkSame(t)
    BY <1>1, <1>2, <1>4, <2>2, NotMine
  <2>4. QED
    BY <1>0, <1>8, <2>1, <2>3, Unaffected
<1>10. CASE Head(poolq) = t
  <2>1. InSeq(poolq, t)
    BY <1>6, <1>10
  <2>2. t \notin storage /\ shand # t /\ delayed[t] = 0 /\ t \notin due /\ ~Busy(t)
    BY <1>0, <2>1, Alone
  <2>3. status[t] = "PENDING"
    <3>1. Tally(t) = 1
      BY <2>1, <2>2 DEF Tally, Bit
    <3>2. QED
      BY <1>0, <2>2, <3>1 DEF PlainInv
  <2>4. \A v \in Workers : ~Working(v, t)
    BY <2>2 DEF Busy
  <2>5. Working(w, t)'
    BY <1>2, <1>10 DEF Working
  <2>6. \A v \in Workers : Working(v, t)' => v = w
    BY <1>7, <2>4
  <2>7. Busy(t)'
    BY <2>5 DEF Busy
  <2>8. Tally(t)' = 1
    BY <1>2, <1>6, <1>10, <2>2, <2>7 DEF Tally, Bit
  <2>9. (\A v \in Workers : Working(v, t) =>
            /\ status[t] \in StatusAt(pc[v])
            /\ pc[v] \in {"read", "write"} => retry[t] < MaxRetries[t]
            /\ pc[v] = "write" => count[v] = retry[t])'
    <3>1. SUFFICES ASSUME NEW v \in Workers, Working(v, t)'
                   PROVE  status'[t] \in StatusAt(pc'[v]) /\ pc'[v] = "begin"
      OBVIOUS
    <3>2. QED
      BY <1>2, <2>3, <2>6, <3>1 DEF StatusAt
  <2>10. QED
    BY <1>0, <1>2, <1>5, <1>6, <1>8, <2>3, <2>6, <2>7, <2>8, <2>9, BudgetSame DEF PlainInv
<1>11. QED
  BY <1>9, <1>10

\* What a step of the failure handler leaves alone, whichever thread runs it.
LEMMA RetryFacts ==
    ASSUME TypeOK, NEW h \in Threads, RetryStep(h), NEW t \in Tasks
    PROVE  /\ UNCHANGED <<due, shand, poolq, attempts>>
           /\ \A x \in Threads \ {h} :
                 pc'[x] = pc[x] /\ hand'[x] = hand[x] /\ count'[x] = count[x]
           /\ hand'[h] \in {hand[h], NoTask}
           /\ hand[h] # t => /\ status'[t] = status[t] /\ retry'[t] = retry[t]
                             /\ delayed'[t] = delayed[t]
           /\ \/ UNCHANGED <<order, storage>>
              \/ /\ storage' = storage \cup {hand[h]}
                 /\ order' = Append(order, hand[h])
<1> USE ConstantsAssumption
<1>0. ThreadTypes /\ TaskTypes /\ QueueTypes
  BY DEF TypeOK
<1>1. UNCHANGED <<due, shand, poolq, attempts>>
  BY DEF RetryStep, RetryCheck, RetryRead, RetryWrite, RetryDelay, RetryFrame
<1>2. \A x \in Threads \ {h} : pc'[x] = pc[x] /\ hand'[x] = hand[x] /\ count'[x] = count[x]
  BY <1>0 DEF ThreadTypes, RetryStep, RetryCheck, RetryRead, RetryWrite, RetryDelay, Leave
<1>3. hand'[h] \in {hand[h], NoTask}
  BY <1>0 DEF ThreadTypes, RetryStep, RetryCheck, RetryRead, RetryWrite, RetryDelay, Leave
<1>4. hand[h] # t => /\ status'[t] = status[t] /\ retry'[t] = retry[t]
                     /\ delayed'[t] = delayed[t]
  BY <1>0 DEF TaskTypes, QueueTypes, RetryStep, RetryCheck, RetryRead, RetryWrite, RetryDelay
<1>5. \/ UNCHANGED <<order, storage>>
      \/ /\ storage' = storage \cup {hand[h]}
         /\ order' = Append(order, hand[h])
  BY DEF RetryStep, RetryCheck, RetryRead, RetryWrite, RetryDelay, Put, PutFails
<1>6. QED
  BY <1>1, <1>2, <1>3, <1>4, <1>5

\* The failure handler run for another task.
LEMMA RetryOther ==
    ASSUME IInv, NEW h \in Threads, RetryStep(h), NEW t \in Plain, hand[h] # t
    PROVE  PlainInv(t)'
<1> USE ConstantsAssumption
<1>0. t \in Tasks /\ TypeOK /\ Control /\ PlainInv(t)
  BY DEF IInv, Plain
<1>1. ThreadTypes /\ QueueTypes /\ t # NoTask
  BY <1>0 DEF TypeOK
<1>2. hand[h] \in Tasks
  BY <1>0, <1>1 DEF Control, RetryStep, RetryCheck, RetryRead, RetryWrite, RetryDelay,
     RetryPCs, Plain
<1>3. /\ UNCHANGED <<due, shand, poolq, attempts>>
      /\ \A x \in Threads \ {h} :
            pc'[x] = pc[x] /\ hand'[x] = hand[x] /\ count'[x] = count[x]
      /\ hand'[h] # t
      /\ status'[t] = status[t] /\ retry'[t] = retry[t] /\ delayed'[t] = delayed[t]
      /\ \/ UNCHANGED <<order, storage>>
         \/ storage' = storage \cup {hand[h]} /\ order' = Append(order, hand[h])
  BY <1>0, <1>1, RetryFacts
<1>4. Once(order, t) /\ Once(poolq, t) /\ (InSeq(order, t) <=> t \in storage)
  BY <1>0 DEF PlainInv
<1>5. /\ InSeq(Append(order, hand[h]), t) <=> InSeq(order, t)
      /\ Once(Append(order, hand[h]), t)
  BY <1>1, <1>2, <1>4, AppendFacts DEF QueueTypes
<1>6. RestSame(t)
  BY <1>3, <1>4, <1>5 DEF RestSame
<1>7. ~Working(h, t) /\ ~Working(h, t)'
  BY <1>3 DEF Working
<1>8. WorkSame(t)
  BY <1>3, <1>7, NotMine
<1>9. TaskSame(t)
  BY <1>3 DEF TaskSame
<1>10. QED
  BY <1>0, <1>6, <1>8, <1>9, Unaffected

\* The failure handler run by the worker that has t: the budget is read,
\* checked and spent with nobody in between, and t leaves the worker once.
LEMMA RetryOwn ==
    ASSUME IInv, NEW w \in Workers, RetryStep(w), NEW t \in Plain, hand[w] = t
    PROVE  PlainInv(t)'
<1> USE ConstantsAssumption
<1>0. t \in Tasks /\ TypeOK /\ Control /\ PlainInv(t)
  BY DEF IInv, Plain
<1>1. /\ ThreadTypes /\ QueueTypes /\ TaskTypes
      /\ w \in Threads /\ w # Monitor /\ t # NoTask
  BY <1>0 DEF TypeOK
<1>2. pc[w] \in RetryPCs
  BY DEF RetryStep, RetryCheck, RetryRead, RetryWrite, RetryDelay, RetryPCs
<1>3. Working(w, t) /\ Busy(t)
  BY <1>2 DEF Working, Busy, RetryPCs
<1>4. /\ UNCHANGED <<due, shand, poolq, attempts>>
      /\ \A x \in Threads \ {w} :
            pc'[x] = pc[x] /\ hand'[x] = hand[x] /\ count'[x] = count[x]
  BY <1>0, <1>1, RetryFacts
<1>5. /\ status[t] \in StatusAt(pc[w])
      /\ pc[w] \in {"read", "write"} => retry[t] < MaxRetries[t]
      /\ pc[w] = "write" => count[w] = retry[t]
      /\ retry[t] <= MaxRetries[t]
      /\ attempts[t] = IF status[t] \in {"NEW", "PENDING"} THEN retry[t] ELSE retry[t] + 1
      /\ \A v \in Workers \ {w} : ~Working(v, t)
      /\ Once(order, t) /\ Once(poolq, t) /\ (InSeq(order, t) <=> t \in storage)
  BY <1>0, <1>3 DEF PlainInv
<1>6. /\ t \notin storage /\ shand # t /\ ~InSeq(poolq, t)
      /\ delayed[t] = 0 /\ t \notin due
  BY <1>0, <1>3, Alone
<1>7. \A v \in Workers \ {w} : Working(v, t)' <=> Working(v, t)
  BY <1>1, <1>4, OneThread
<1>8. retry[t] \in Nat /\ MaxRetries[t] \in Nat
  BY <1>0, <1>1 DEF TaskTypes
<1>9. ASSUME UNCHANGED <<order, storage, delayed>> PROVE RestSame(t)
  BY <1>4, <1>5, <1>9 DEF RestSame
<1>10. ASSUME pc'[w] = "finally"
       PROVE  (\A v \in Workers : ~Working(v, t)') /\ ~Busy(t)'
  BY <1>5, <1>7, <1>10 DEF Working, Busy
<1>11. CASE RetryCheck(w)
  <2>1. UNCHANGED <<order, storage, delayed, status, retry, count, hand>>
    BY <1>1, <1>11 DEF RetryCheck, Leave
  <2>2. status[t] = "FAILED"
    BY <1>5, <1>11 DEF RetryCheck, StatusAt
  <2>3. CASE pc'[w] = "read"
    <3>1. Working(w, t)'
      BY <2>1, <2>3 DEF Working
    <3>2. retry[t] < MaxRetries[t]
      BY <1>1, <1>11, <2>3 DEF RetryCheck, Leave, ThreadTypes
    <3>3. status'[t] \in StatusAt(pc'[w])
      BY <2>1, <2>2, <2>3 DEF StatusAt
    <3>4. QED
      BY <1>0, <1>3, <1>4, <1>5, <1>7, <1>9, <2>1, <2>2, <2>3, <3>1, <3>2, <3>3, OwnerStep
  <2>4. CASE pc'[w] = "finally"
    <3>1. Tally(t)' = 0
      BY <1>4, <1>6, <1>10, <2>1, <2>4 DEF Tally, Bit
    <3>2. QED
      BY <1>4, <1>5, <1>10, <2>1, <2>2, <2>4, <3>1, NotBusyStep
  <2>5. QED
    BY <1>1, <1>11, <2>3, <2>4 DEF RetryCheck, Leave, ThreadTypes
<1>12. CASE RetryRead(w)
  <2>1. /\ UNCHANGED <<order, storage, delayed, status, retry, hand>>
        /\ pc[w] = "read" /\ pc'[w] = "write" /\ count'[w] = retry[t]
    BY <1>1, <1>12 DEF RetryRead, ThreadTypes
  <2>2. status[t] = "FAILED"
    BY <1>5, <2>1 DEF StatusAt
  <2>3. Working(w, t)' /\ status'[t] \in StatusAt(pc'[w])
    BY <2>1, <2>2 DEF Working, StatusAt
  <2>4. QED
    BY <1>0, <1>3, <1>4, <1>5, <1>7, <1>9, <2>1, <2>2, <2>3, OwnerStep
<1>13. CASE RetryWrite(w)
  <2>1. /\ UNCHANGED <<order, storage, delayed, hand, count>>
        /\ pc[w] = "write" /\ pc'[w] = "delay"
        /\ status'[t] = "PENDING" /\ retry'[t] = count[w] + 1
    BY <1>0, <1>1, <1>13 DEF RetryWrite, ThreadTypes, TaskTypes
  <2>2. status[t] = "FAILED"
    BY <1>5, <2>1 DEF StatusAt
  <2>3. retry'[t] = retry[t] + 1 /\ retry'[t] <= MaxRetries[t] /\ attempts'[t] = retry'[t]
    BY <1>4, <1>5, <1>8, <2>1, <2>2
  <2>4. Working(w, t)' /\ status'[t] \in StatusAt(pc'[w])
    BY <2>1 DEF Working, StatusAt
  <2>5. QED
    BY <1>0, <1>3, <1>7, <1>9, <2>1, <2>3, <2>4, OwnerStep
<1>14. CASE RetryDelay(w)
  <2>1. UNCHANGED <<status, retry>> /\ pc[w] = "delay" /\ pc'[w] = "finally"
    BY <1>1, <1>14 DEF RetryDelay, Leave, ThreadTypes
  <2>2. status[t] = "PENDING"
    BY <1>5, <2>1 DEF StatusAt
  <2>3. /\ InSeq(Append(order, t), t)
        /\ Once(Append(order, t), t)
    BY <1>0, <1>1, <1>5, <1>6, AppendFacts DEF QueueTypes
  <2>4. \/ order' = order /\ storage' = storage /\ delayed'[t] \in {0, 1}
        \/ order' = Append(order, t) /\ storage' = storage \cup {t} /\ delayed'[t] = 0
    BY <1>0, <1>1, <1>6, <1>14 DEF RetryDelay, Put, PutFails, QueueTypes
  <2>5. Tally(t)' <= 1
    BY <1>4, <1>6, <1>10, <2>1, <2>4 DEF Tally, Bit
  <2>6. Once(order', t) /\ (InSeq(order', t) <=> t \in storage')
    BY <1>5, <2>3, <2>4
  <2>7. QED
    BY <1>4, <1>5, <1>10, <2>1, <2>2, <2>5, <2>6, NotBusyStep
<1>15. QED
  BY <1>11, <1>12, <1>13, <1>14 DEF RetryStep

\* A worker's steps.
LEMMA WorkerStep ==
    ASSUME IInv, NEW w \in Workers, Worker(w), NEW t \in Plain
    PROVE  PlainInv(t)'
<1>1. CASE WorkerGet(w)
  BY <1>1, WorkerGetStep
<1>2. CASE WorkerOwn(w)
  BY <1>2, WorkerOwnStep
<1>3. CASE RetryStep(w)
  BY <1>3, RetryOwn, RetryOther
<1>4. QED
  BY <1>1, <1>2, <1>3 DEF Worker, WorkerOwn

\* The monitor's steps: it only ever deals with timed tasks.
LEMMA MonitorStepKeeps ==
    ASSUME IInv, MonitorStep, NEW t \in Plain
    PROVE  PlainInv(t)'
<1> USE ConstantsAssumption
<1>0. t \in Tasks /\ t \notin Timed /\ t # NoTask /\ TypeOK /\ Control /\ PlainInv(t)
  BY DEF IInv, Plain
<1>1. ThreadTypes /\ TaskTypes /\ Monitor \in Threads /\ Monitor \notin Workers
  BY <1>0 DEF TypeOK
<1>2. hand[Monitor] # t
  BY <1>0 DEF Control
<1>3. CASE RetryStep(Monitor)
  BY <1>1, <1>2, <1>3, RetryOther
<1>4. CASE \/ MonitorScan \/ MonitorClear \/ MonitorFail \/ MonitorRest
           \/ \E w \in Workers : MonitorInspect(w)
  <2>1. /\ UNCHANGED <<order, storage, delayed, due, shand, poolq, retry, attempts, count>>
        /\ \A x \in Threads \ {Monitor} : pc'[x] = pc[x] /\ hand'[x] = hand[x]
    BY <1>1, <1>4 DEF MonitorScan, MonitorClear, MonitorFail, MonitorRest,
       MonitorInspect, MonitorFrame, ThreadTypes
  <2>2. status'[t] = status[t]
    BY <1>0, <1>1, <1>2, <1>4 DEF MonitorScan, MonitorClear, MonitorFail, MonitorRest,
       MonitorInspect, TaskTypes
  <2>3. RestSame(t) /\ TaskSame(t)
    BY <1>0, <2>1, <2>2 DEF RestSame, TaskSame, PlainInv
  <2>4. WorkSame(t)
    BY <1>1, <2>1, NotMine
  <2>5. QED
    BY <1>0, <2>3, <2>4, Unaffected
<1>5. QED
  BY <1>3, <1>4 DEF MonitorStep

\* The supervisor's steps: a new worker starts with no task.
LEMMA SupervisorStep ==
    ASSUME IInv, Supervisor, NEW t \in Plain
    PROVE  PlainInv(t)'
<1> USE ConstantsAssumption
<1>0. t \in Tasks /\ t # NoTask /\ TypeOK /\ Control /\ PlainInv(t)
  BY DEF IInv, Plain
<1>1. ThreadTypes
  BY <1>0 DEF TypeOK
<1>2. UNCHANGED <<order, storage, delayed, due, shand, poolq, status, retry, attempts,
                  hand, count>>
  BY DEF Supervisor, SupervisorDies, Respawn
<1>3. RestSame(t) /\ TaskSame(t)
  BY <1>0, <1>2 DEF RestSame, TaskSame, PlainInv
<1>4. CASE SupervisorDies
  <2>1. WorkSame(t)
    BY <1>2, <1>4 DEF SupervisorDies, WorkSame, Working
  <2>2. QED
    BY <1>0, <1>3, <2>1, Unaffected
<1>5. ASSUME NEW w \in Workers, NEW v \in Workers, Respawn(w, v) PROVE PlainInv(t)'
  <2>1. hand[v] = NoTask
    BY <1>0, <1>5 DEF Respawn, Control
  <2>2. ~Working(v, t) /\ ~Working(v, t)'
    BY <1>0, <1>2, <2>1 DEF Working
  <2>3. \A x \in Threads \ {v} : pc'[x] = pc[x]
    BY <1>1, <1>5 DEF Respawn, ThreadTypes
  <2>4. WorkSame(t)
    BY <1>2, <2>2, <2>3, NotMine
  <2>5. QED
    BY <1>0, <1>3, <2>4, Unaffected
<1>6. QED
  BY <1>4, <1>5 DEF Supervisor

\* Runtime.stop, and steps of nobody.
LEMMA IdleStep ==
    ASSUME IInv, StopStep \/ UNCHANGED vars, NEW t \in Plain
    PROVE  PlainInv(t)'
<1>0. PlainInv(t)
  BY DEF IInv
<1>1. UNCHANGED <<order, storage, delayed, due, shand, poolq, status, retry, attempts,
                  pc, hand, count>>
  BY StopFacts DEF StopFrame, vars
<1>2. RestSame(t) /\ TaskSame(t) /\ WorkSame(t)
  BY <1>0, <1>1 DEF RestSame, TaskSame, WorkSame, Working, PlainInv
<1>3. QED
  BY <1>0, <1>2, Unaffected

----------------------------------------------------------------------------
(* The theorems.                                                           *)

\* Before anything is submitted no task is anywhere.
LEMMA IInvInit == Init => IInv
<1> USE ConstantsAssumption
<1>1. SUFFICES ASSUME Init, NEW t \in Plain PROVE PlainInv(t)
  BY TypeInit, ControlInit DEF IInv
<1>2. t \in Tasks /\ t # NoTask
  BY DEF Plain
<1>3. \A w \in Workers : ~Working(w, t)
  BY <1>1, <1>2 DEF Init, Working
<1>4. ~InSeq(order, t) /\ ~InSeq(poolq, t) /\ Once(order, t) /\ Once(poolq, t)
  BY <1>1 DEF Init, InSeq, Once
<1>5. /\ t \notin storage /\ shand # t /\ delayed[t] = 0 /\ t \notin due
      /\ status[t] = "NEW" /\ retry[t] = 0 /\ attempts[t] = 0
  BY <1>1, <1>2 DEF Init
<1>6. ~Busy(t)
  BY <1>3 DEF Busy
<1>7. Tally(t) = 0
  BY <1>4, <1>5, <1>6 DEF Tally, Bit
<1>8. 0 <= MaxRetries[t]
  BY <1>2
<1>9. QED
  BY <1>3, <1>4, <1>5, <1>7, <1>8 DEF PlainInv

\* Every step keeps the inductive invariant.
LEMMA IInvStep == IInv /\ [Next]_vars => IInv'
<1>1. SUFFICES ASSUME IInv, [Next]_vars PROVE IInv'
  OBVIOUS
<1>2. TypeOK' /\ Control'
  BY <1>1, TypeStep, ControlStep DEF IInv
<1>3. ASSUME NEW t \in Plain PROVE PlainInv(t)'
  <2>1. CASE Client
    BY <1>1, <2>1, ClientStep
  <2>2. CASE Loop
    BY <1>1, <2>2, LoopStep
  <2>3. CASE Tracker
    BY <1>1, <2>3, TrackerStep
  <2>4. CASE \E w \in Workers : Worker(w)
    BY <1>1, <2>4, WorkerStep
  <2>5. CASE Supervisor
    BY <1>1, <2>5, SupervisorStep
  <2>6. CASE MonitorStep
    BY <1>1, <2>6, MonitorStepKeeps
  <2>7. CASE StopStep \/ UNCHANGED vars
    BY <1>1, <2>7, IdleStep
  <2>8. QED
    BY <1>1, <2>1, <2>2, <2>3, <2>4, <2>5, <2>6, <2>7 DEF Next
<1>4. (\A t \in Plain : PlainInv(t))'
  BY <1>3 DEF Plain
<1>5. QED
  BY <1>2, <1>4 DEF IInv

\* The engine's inductive invariant holds in every reachable state.
THEOREM Invariance == Spec => []IInv
  BY IInvInit, IInvStep, PTL DEF Spec

\* Every variable keeps its type: in particular a worker and the monitor hold
\* tasks or nothing, and no queue holds anything but tasks.
THEOREM Typing == Spec => []TypeOK
<1>1. IInv => TypeOK
  BY DEF IInv
<1>2. QED
  BY <1>1, Invariance, PTL

\* A task without a timeout policy is in one place at a time: the queue, the
\* loop, the pool's queue, the delay heap, the tracker's hands or one worker.
THEOREM Exclusive == Spec => []SinglePlace
<1>1. IInv => SinglePlace
  <2>1. SUFFICES ASSUME IInv, NEW t \in Plain
                 PROVE  /\ \A p, q \in Places : At(p, t) /\ At(q, t) => p = q
                        /\ \A v, w \in Workers : Working(v, t) /\ Working(w, t) => v = w
                        /\ Once(order, t) /\ Once(poolq, t) /\ delayed[t] <= 1
    BY DEF SinglePlace
  <2>2. TypeOK /\ PlainInv(t) /\ t \in Tasks
    BY <2>1 DEF IInv, Plain
  <2>3. delayed[t] \in Nat
    BY <2>2 DEF TypeOK, QueueTypes
  <2>4. delayed[t] <= 1
    BY <2>2, <2>3, Alone
  <2>5. ASSUME NEW p \in Places, NEW q \in Places, At(p, t), At(q, t) PROVE p = q
    <3>1. At("worker", t) <=> Busy(t)
      BY DEF At, Busy
    <3>2. delayed[t] > 0 <=> delayed[t] # 0
      BY <2>3
    <3>3. QED
      BY <2>2, <2>5, <3>1, <3>2, Alone DEF At, Places
  <2>6. QED
    BY <2>2, <2>4, <2>5 DEF PlainInv
<1>2. QED
  BY <1>1, Invariance, PTL

\* A task without a timeout policy is never retried beyond its policy's limit,
\* and it is started once, and once more for every retry.
THEOREM Budget == Spec => []RetryBudget
<1>1. IInv => RetryBudget
  BY DEF IInv, PlainInv, RetryBudget
<1>2. QED
  BY <1>1, Invariance, PTL

----------------------------------------------------------------------------
(* Shutdown.                                                               *)

\* What has been joined is quiet: the loop, the tracker, the monitor.
LoopDown == mpc \in {"joined", "raised"} => spc = "poll"
TrackerDown == mpc \notin {"up", "tracker"} => due = {}
MonitorDown ==
    /\ mpc \notin {"up", "tracker", "monitor"} => pc[Monitor] = "scan"
    /\ pc[Monitor] \in {"scan", "inspect"} => hand[Monitor] = NoTask

\* A worker that is not in the pool has no thread, nor has one that is FAILED.
PoolDown ==
    /\ \A w \in Workers : /\ wstate[w] = "FAILED" => pc[w] = "dead"
                          /\ w \notin pool => pc[w] \in {"new", "dead"}
    /\ ppc = "down" => \A w \in pool : pc[w] = "dead"

\* The pool is stopped once the loop is joined, or by a call that overtakes.
Ordered ==
    /\ overtaken => mpc # "up" /\ ~Started
    /\ ~Started => mpc \in {"joined", "raised"} \/ overtaken

Quiet == LoopDown /\ TrackerDown /\ MonitorDown /\ PoolDown /\ Ordered

\* At the start everything is up and idle.
LEMMA QuietInit == Init => Quiet
<1> USE ConstantsAssumption
<1> SUFFICES ASSUME Init PROVE Quiet
  OBVIOUS
<1>1. LoopDown /\ TrackerDown
  BY DEF Init, LoopDown, TrackerDown
<1>2. MonitorDown
  BY DEF Init, MonitorDown
<1>3. PoolDown
  BY DEF Init, PoolDown
<1>4. Ordered
  BY DEF Init, Ordered, Started
<1>5. QED
  BY <1>1, <1>2, <1>3, <1>4 DEF Quiet

\* The loop starts a round only while nobody stops the engine.
LEMMA LoopDownStep == IInv /\ Quiet /\ [Next]_vars => LoopDown'
<1> SUFFICES ASSUME IInv, Quiet, [Next]_vars PROVE LoopDown'
  OBVIOUS
<1>1. CASE Loop
  BY <1>1 DEF Quiet, LoopDown, Loop, LoopPoll, LoopNonempty, LoopDequeue, LoopSubmit, LoopFrame
<1>2. CASE StopStep
  BY <1>2, StopFacts DEF Quiet, LoopDown, StopStep, StopCall, StopAgain, StopScheduler,
     StopTracker, StopMonitor, StopLoop, StopWorkerPool, StopPool, TellWorker, StopWorkers,
     SchedulerStops, PoolStops, StopFrame
<1>3. CASE spc' = spc /\ mpc' = mpc
  BY <1>3 DEF Quiet, LoopDown
<1>4. QED
  BY <1>1, <1>2, <1>3 DEF Next, Client, Submit, Cancel, Tracker, TrackerPop, TrackerFire,
     Worker, WorkerFrame, WorkerGet, WorkerBegin, WorkerStart, WorkerReturn, WorkerComplete,
     WorkerReport, WorkerRaise, WorkerExcept, WorkerQuit, WorkerFinally, WorkerExit,
     RetryStep, RetryFrame, RetryCheck, RetryRead, RetryWrite, RetryDelay, Supervisor,
     SupervisorDies, Respawn, MonitorStep, MonitorFrame, MonitorScan, MonitorClear,
     MonitorFail, MonitorRest, MonitorInspect, vars

\* So does the tracker.
LEMMA TrackerDownStep == IInv /\ Quiet /\ [Next]_vars => TrackerDown'
<1> SUFFICES ASSUME IInv, Quiet, [Next]_vars PROVE TrackerDown'
  OBVIOUS
<1>1. CASE Tracker
  BY <1>1 DEF Quiet, TrackerDown, Tracker, TrackerPop, TrackerFire
<1>2. CASE StopStep
  BY <1>2, StopFacts DEF Quiet, TrackerDown, StopStep, StopCall, StopAgain, StopScheduler,
     StopTracker, StopMonitor, StopLoop, StopWorkerPool, StopPool, TellWorker, StopWorkers,
     SchedulerStops, PoolStops, StopFrame
<1>3. CASE due' = due /\ mpc' = mpc
  BY <1>3 DEF Quiet, TrackerDown
<1>4. QED
  BY <1>1, <1>2, <1>3 DEF Next, Client, Submit, Cancel, Loop, LoopPoll, LoopNonempty,
     LoopDequeue, LoopSubmit, LoopFrame,
     Worker, WorkerFrame, WorkerGet, WorkerBegin, WorkerStart, WorkerReturn, WorkerComplete,
     WorkerReport, WorkerRaise, WorkerExcept, WorkerQuit, WorkerFinally, WorkerExit,
     RetryStep, RetryFrame, RetryCheck, RetryRead, RetryWrite, RetryDelay, Supervisor,
     SupervisorDies, Respawn, MonitorStep, MonitorFrame, MonitorScan, MonitorClear,
     MonitorFail, MonitorRest, MonitorInspect, vars

\* The monitor starts no pass any more, and between two passes holds no task.
LEMMA MonitorDownStep == IInv /\ Quiet /\ [Next]_vars => MonitorDown'
<1> SUFFICES ASSUME IInv, Quiet, [Next]_vars PROVE MonitorDown'
  OBVIOUS
<1> USE ConstantsAssumption
<1>0. ThreadTypes /\ MonitorDown /\ Monitor \in Threads
  BY DEF IInv, TypeOK, Quiet
<1>1. CASE MonitorScan \/ MonitorClear \/ MonitorFail \/ MonitorRest
  BY <1>0, <1>1 DEF ThreadTypes, MonitorDown, MonitorScan, MonitorClear, MonitorFail,
     MonitorRest, MonitorFrame
<1>2. ASSUME NEW w \in Workers, MonitorInspect(w) PROVE MonitorDown'
  BY <1>0, <1>2 DEF ThreadTypes, MonitorDown, MonitorInspect, MonitorFrame
<1>3. CASE RetryStep(Monitor)
  <2>1. mpc' = mpc /\ pc[Monitor] \notin {"scan", "inspect"}
    BY <1>3 DEF RetryStep, RetryCheck, RetryRead, RetryWrite, RetryDelay, RetryFrame
  <2>2. /\ pc'[Monitor] # "scan"
        /\ pc'[Monitor] = "inspect" => hand'[Monitor] = NoTask
    BY <1>0, <1>3 DEF ThreadTypes, RetryStep, RetryCheck, RetryRead, RetryWrite, RetryDelay,
       Leave
  <2>3. QED
    BY <1>0, <2>1, <2>2 DEF MonitorDown
<1>4. CASE StopStep
  BY <1>0, <1>4, StopFacts DEF MonitorDown, StopStep, StopCall, StopAgain, StopScheduler,
     StopTracker, StopMonitor, StopLoop, StopWorkerPool, StopPool, TellWorker, StopWorkers,
     SchedulerStops, PoolStops, StopFrame
<1>5. CASE pc'[Monitor] = pc[Monitor] /\ hand'[Monitor] = hand[Monitor] /\ mpc' = mpc
  BY <1>0, <1>5 DEF MonitorDown
<1>6. ASSUME NEW w \in Workers, Worker(w)
      PROVE  pc'[Monitor] = pc[Monitor] /\ hand'[Monitor] = hand[Monitor] /\ mpc' = mpc
  <2>1. mpc' = mpc
    BY <1>6 DEF Worker, WorkerFrame, WorkerGet, WorkerBegin, WorkerStart, WorkerReturn,
       WorkerComplete, WorkerReport, WorkerRaise, WorkerExcept, WorkerQuit, WorkerFinally,
       WorkerExit, RetryStep, RetryFrame, RetryCheck, RetryRead, RetryWrite, RetryDelay
  <2>2. CASE RetryStep(w)
    <3>1. \A x \in Threads \ {w} : pc'[x] = pc[x] /\ hand'[x] = hand[x]
      BY <1>0, <2>2 DEF ThreadTypes, RetryStep, RetryCheck, RetryRead, RetryWrite,
         RetryDelay, Leave
    <3>2. QED
      BY <2>1, <3>1, <1>0
  <2>3. CASE ~RetryStep(w)
    <3>1. \A x \in Threads \ {w} : pc'[x] = pc[x] /\ hand'[x] = hand[x]
      BY <1>0, <1>6, <2>3 DEF ThreadTypes, Worker, WorkerGet, WorkerBegin, WorkerStart,
         WorkerReturn, WorkerComplete, WorkerReport, WorkerRaise, WorkerExcept, WorkerQuit,
         WorkerFinally, WorkerExit
    <3>2. QED
      BY <2>1, <3>1, <1>0
  <2>4. QED
    BY <2>2, <2>3
<1>7. ASSUME NEW w \in Workers, NEW v \in Workers, Respawn(w, v)
      PROVE  pc'[Monitor] = pc[Monitor] /\ hand'[Monitor] = hand[Monitor] /\ mpc' = mpc
  BY <1>0, <1>7 DEF ThreadTypes, Respawn
<1>8. QED
  BY <1>1, <1>2, <1>3, <1>4, <1>5, <1>6, <1>7 DEF Next, Client, Submit, Cancel, Loop,
     LoopPoll, LoopNonempty, LoopDequeue, LoopSubmit, LoopFrame, Tracker, TrackerPop,
     TrackerFire, Supervisor, SupervisorDies, MonitorStep, vars

\* Who is in the pool: threads end, and only the supervisor replaces a worker.
LEMMA PoolDownStep == IInv /\ Quiet /\ [Next]_vars => PoolDown'
<1> SUFFICES ASSUME IInv, Quiet, [Next]_vars PROVE PoolDown'
  OBVIOUS
<1> USE ConstantsAssumption
<1>0. /\ ThreadTypes /\ WorkerTypes /\ PoolDown /\ Control
  BY DEF IInv, TypeOK, Quiet
<1>1. ASSUME UNCHANGED <<pool, wstate, ppc>>, \A w \in Workers : pc'[w] = pc[w]
      PROVE  PoolDown'
  BY <1>0, <1>1 DEF PoolDown, WorkerTypes
<1>2. ASSUME NEW w \in Workers, UNCHANGED <<pool, ppc>>, pc[w] \notin {"new", "dead"},
             \A v \in Workers \ {w} : pc'[v] = pc[v] /\ wstate'[v] = wstate[v],
             wstate'[w] = "FAILED" => pc'[w] = "dead"
      PROVE  PoolDown'
  BY <1>0, <1>2 DEF PoolDown, WorkerTypes
<1>3. ASSUME NEW w \in Workers, Worker(w) PROVE PoolDown'
  <2>1. UNCHANGED <<pool, ppc>> /\ pc[w] \notin {"new", "dead"}
    BY <1>3 DEF Worker, WorkerFrame, WorkerGet, WorkerBegin, WorkerStart, WorkerReturn,
       WorkerComplete, WorkerReport, WorkerRaise, WorkerExcept, WorkerQuit, WorkerFinally,
       WorkerExit, RetryStep, RetryFrame, RetryCheck, RetryRead, RetryWrite, RetryDelay
  <2>2. wstate[w] # "FAILED"
    BY <1>0, <2>1 DEF PoolDown
  <2>3. CASE RetryStep(w)
    <3>1. wstate' = wstate /\ \A x \in Threads \ {w} : pc'[x] = pc[x]
      BY <1>0, <2>3 DEF ThreadTypes, RetryStep, RetryCheck, RetryRead, RetryWrite,
         RetryDelay, Leave, RetryFrame
    <3>2. QED
      BY <1>2, <2>1, <2>2, <3>1
  <2>4. CASE ~RetryStep(w)
    <3>1. \A x \in Threads \ {w} : pc'[x] = pc[x]
      BY <1>0, <1>3, <2>4 DEF ThreadTypes, Worker, WorkerGet, WorkerBegin, WorkerStart,
         WorkerReturn, WorkerComplete, WorkerReport, WorkerRaise, WorkerExcept, WorkerQuit,
         WorkerFinally, WorkerExit
    <3>2. \A v \in Workers \ {w} : wstate'[v] = wstate[v]
      BY <1>0, <1>3, <2>4 DEF WorkerTypes, Worker, WorkerGet, WorkerBegin, WorkerStart,
         WorkerReturn, WorkerComplete, WorkerReport, WorkerRaise, WorkerExcept, WorkerQuit,
         WorkerFinally, WorkerExit
    <3>3. wstate'[w] = "FAILED" => pc'[w] = "dead"
      BY <1>0, <1>3, <2>2, <2>4 DEF ThreadTypes, WorkerTypes, Worker, WorkerGet, WorkerBegin,
         WorkerStart, WorkerReturn, WorkerComplete, WorkerReport, WorkerRaise, WorkerExcept,
         WorkerQuit, WorkerFinally, WorkerExit
    <3>4. QED
      BY <1>2, <2>1, <3>1, <3>2, <3>3
  <2>5. QED
    BY <2>3, <2>4
<1>4. ASSUME NEW w \in Workers, NEW v \in Workers, Respawn(w, v) PROVE PoolDown'
  <2>1. /\ pool' = (pool \ {w}) \cup {v} /\ wstate[w] = "FAILED" /\ pc[v] = "new"
        /\ pc'[v] = "get" /\ wstate'[v] = "IDLE" /\ ppc' = ppc /\ ppc # "down"
        /\ \A x \in Workers \ {v} : pc'[x] = pc[x] /\ wstate'[x] = wstate[x]
    BY <1>0, <1>4 DEF ThreadTypes, WorkerTypes, Respawn, Started
  <2>2. pc[w] = "dead"
    BY <1>0, <2>1 DEF PoolDown
  <2>3. QED
    BY <1>0, <2>1, <2>2 DEF PoolDown
<1>5. CASE SupervisorDies
  BY <1>1, <1>5 DEF SupervisorDies
<1>6. CASE MonitorStep
  <2>1. UNCHANGED <<pool, wstate, ppc>>
    BY <1>6 DEF MonitorStep, MonitorFrame, MonitorScan, MonitorClear, MonitorFail,
       MonitorRest, MonitorInspect, RetryStep, RetryFrame, RetryCheck, RetryRead, RetryWrite,
       RetryDelay
  <2>2. \A w \in Workers : pc'[w] = pc[w]
    BY <1>0, <1>6 DEF ThreadTypes, MonitorStep, MonitorScan, MonitorClear, MonitorFail,
       MonitorRest, MonitorInspect, RetryStep, RetryCheck, RetryRead, RetryWrite,
       RetryDelay, Leave
  <2>3. QED
    BY <1>1, <2>1, <2>2
<1>7. CASE StopStep
  <2>1. /\ UNCHANGED <<pool, pc>>
        /\ \A w \in Workers : wstate'[w] = "FAILED" => wstate[w] = "FAILED"
        /\ ppc' = "down" => ppc = "down" \/ \A w \in pool : pc[w] = "dead"
    BY <1>0, <1>7, StopFacts DEF StopStep, StopCall, StopAgain, StopScheduler, StopTracker,
       StopMonitor, StopLoop, StopWorkerPool, StopPool, TellWorker, StopWorkers,
       SchedulerStops, PoolStops, StopFrame, WorkerTypes
  <2>2. QED
    BY <1>0, <2>1 DEF PoolDown
<1>8. QED
  BY <1>1, <1>3, <1>4, <1>5, <1>6, <1>7 DEF Next, Client, Submit, Cancel, Loop,
     LoopPoll, LoopNonempty, LoopDequeue, LoopSubmit, LoopFrame, Tracker, TrackerPop,
     TrackerFire, Supervisor, vars

\* No call reaches the pool before the loop is joined, unless it overtakes.
LEMMA OrderedStep == IInv /\ Quiet /\ [Next]_vars => Ordered'
<1> SUFFICES ASSUME IInv, Quiet, [Next]_vars PROVE Ordered'
  OBVIOUS
<1>1. CASE StopStep
  <2>0. Ordered
    BY DEF Quiet
  <2>1. CASE StopCall \/ StopScheduler
    BY <2>0, <2>1 DEF Ordered, Started, StopCall, StopScheduler, StopTracker, StopMonitor,
       StopLoop, SchedulerStops
  <2>2. CASE StopAgain
    BY <2>2 DEF Ordered, Started, StopAgain, PoolStops
  <2>3. CASE StopWorkerPool
    BY <2>0, <2>3 DEF Ordered, Started, StopWorkerPool, StopPool, TellWorker, StopWorkers,
       PoolStops
  <2>4. QED
    BY <1>1, <2>1, <2>2, <2>3 DEF StopStep
<1>2. CASE UNCHANGED stopVars
  BY <1>2 DEF Quiet, Ordered, Started
<1>3. QED
  BY <1>1, <1>2 DEF Next, Client, Submit, Cancel, Loop, LoopPoll, LoopNonempty, LoopDequeue,
     LoopSubmit, LoopFrame, Tracker, TrackerPop, TrackerFire,
     Worker, WorkerFrame, WorkerGet, WorkerBegin, WorkerStart, WorkerReturn, WorkerComplete,
     WorkerReport, WorkerRaise, WorkerExcept, WorkerQuit, WorkerFinally, WorkerExit,
     RetryStep, RetryFrame, RetryCheck, RetryRead, RetryWrite, RetryDelay, Supervisor,
     SupervisorDies, Respawn, MonitorStep, MonitorFrame, MonitorScan, MonitorClear,
     MonitorFail, MonitorRest, MonitorInspect, vars

\* What is joined stays quiet.
LEMMA QuietStep == IInv /\ Quiet /\ [Next]_vars => Quiet'
  BY LoopDownStep, TrackerDownStep, MonitorDownStep, PoolDownStep, OrderedStep DEF Quiet

\* With no bound on the queue and an event store that works, no exception that the
\* engine swallows takes a task with it, but for the one task the loop holds when
\* a second Runtime.stop overtakes the first: no other call reaches the pool before
\* the loop has handed over what it had, and the loop starts no further round.
THEOREM Swallows ==
    ASSUME Capacity <= 0, ~StoreFails
    PROVE  Spec => []NothingDropped
<1> USE ConstantsAssumption
<1>1. Init => IInv /\ Quiet /\ NothingDropped
  <2>1. Init => NothingDropped
    BY DEF Init, NothingDropped
  <2>2. QED
    BY <2>1, IInvInit, QuietInit
<1>2. IInv /\ Quiet /\ NothingDropped /\ [Next]_vars => NothingDropped'
  <2> SUFFICES ASSUME IInv, Quiet, NothingDropped, [Next]_vars PROVE NothingDropped'
    OBVIOUS
  <2>1. ~Full
    BY DEF Full
  <2>2. fate \in [Tasks -> Fates]
    BY DEF IInv, TypeOK, TaskTypes
  <2>3. ASSUME NEW u, NEW why, why # "dropped", fate' = [fate EXCEPT ![u] = why],
               overtaken => overtaken', spc' = spc
        PROVE  NothingDropped'
    BY <2>2, <2>3 DEF NothingDropped
  <2>4. ASSUME fate' = fate, overtaken => overtaken', spc = "poll" => spc' = "poll" \/ ~overtaken
        PROVE  NothingDropped'
    BY <2>4 DEF NothingDropped
  <2>5. ASSUME NEW t \in Tasks, Submit(t) \/ Cancel(t) PROVE NothingDropped'
    BY <2>1, <2>3, <2>4, <2>5 DEF Submit, Cancel, Put, PutFails
  <2>6. CASE LoopSubmit
    <3>1. CASE Started
      BY <2>4, <2>6, <3>1 DEF LoopSubmit, LoopFrame
    <3>2. CASE ~Started
      <4>1. overtaken /\ spc = "submit" /\ shand \in Tasks
        BY <2>6, <3>2 DEF Quiet, Ordered, LoopDown, LoopSubmit, IInv, Control, TypeOK,
           QueueTypes
      <4>2. \A t \in Tasks : fate[t] # "dropped"
        BY <4>1 DEF NothingDropped
      <4>3. fate' = [fate EXCEPT ![shand] = "dropped"] /\ spc' = "poll" /\ overtaken'
        BY <2>6, <3>2, <4>1 DEF LoopSubmit, LoopFrame
      <4>4. QED
        BY <2>2, <4>2, <4>3 DEF NothingDropped
    <3>3. QED
      BY <3>1, <3>2
  <2>7. CASE LoopPoll
    BY <2>4, <2>7 DEF LoopPoll, LoopFrame, Quiet, Ordered
  <2>8. CASE LoopNonempty \/ LoopDequeue
    BY <2>4, <2>8 DEF LoopNonempty, LoopDequeue, LoopFrame
  <2>9. CASE Tracker
    BY <2>1, <2>4, <2>9 DEF Tracker, TrackerPop, TrackerFire, Put, PutFails
  <2>10. ASSUME NEW h \in Threads, RetryStep(h) PROVE NothingDropped'
    BY <2>1, <2>4, <2>10 DEF RetryStep, RetryCheck, RetryRead, RetryWrite, RetryDelay,
       RetryFrame, Put, PutFails
  <2>11. ASSUME NEW w \in Workers, WorkerOwn(w) \/ WorkerGet(w) PROVE NothingDropped'
    <3>1. CASE WorkerQuit(w)
      BY <2>3, <3>1 DEF WorkerQuit, WorkerFrame
    <3>2. CASE ~WorkerQuit(w)
      BY <2>4, <2>11, <3>2 DEF WorkerOwn, WorkerGet, WorkerBegin, WorkerStart, WorkerReturn,
         WorkerComplete, WorkerReport, WorkerRaise, WorkerExcept, WorkerFinally, WorkerExit,
         WorkerFrame
    <3>3. QED
      BY <3>1, <3>2
  <2>12. CASE StopStep
    <3>1. overtaken => overtaken'
      BY <2>12 DEF Quiet, Ordered, Started, StopStep, StopCall, StopAgain, StopScheduler,
         StopTracker, StopMonitor, StopLoop, StopWorkerPool, StopPool, TellWorker,
         StopWorkers, SchedulerStops, PoolStops
    <3>2. QED
      BY <2>4, <2>12, <3>1, StopFacts DEF StopFrame
  <2>13. QED
    BY <2>4, <2>5, <2>6, <2>7, <2>8, <2>9, <2>10, <2>11, <2>12 DEF Next, Client, Loop,
       Worker, WorkerOwn, Supervisor, SupervisorDies, Respawn, MonitorStep, MonitorScan,
       MonitorClear, MonitorFail, MonitorRest, MonitorInspect, MonitorFrame, vars
<1>3. QED
  BY <1>1, <1>2, IInvStep, QuietStep, PTL DEF Spec

----------------------------------------------------------------------------
(* No task without a timeout policy is forgotten.                          *)

Placed(t) == \/ t \in storage \/ shand = t \/ InSeq(poolq, t) \/ delayed[t] > 0
             \/ t \in due \/ Busy(t)

\* A task whose fate is sealed is nowhere.
Gone(t) ==
    /\ fate[t] # "live" => ~Placed(t) /\ status[t] \in {"PENDING", "RUNNING"}
    /\ fate[t] \in {"refused", "cancelled", "dropped"} => status[t] = "PENDING"

\* A live one is somewhere, or has its outcome.
Kept(t) ==
    fate[t] = "live" =>
      /\ status[t] \in {"PENDING", "RUNNING"} => Placed(t)
      /\ status[t] = "FAILED" => Busy(t) \/ retry[t] = MaxRetries[t] \/ t \in Filtered

\* While the event store works, only code that raised makes a task fail.
Honest(t) ==
    ~StoreFails =>
      \A w \in Workers : Working(w, t) /\ pc[w] = "except" => status[t] = "RUNNING"

Traced(t) == Gone(t) /\ Kept(t) /\ Honest(t)

AllTraced == \A t \in Plain : Traced(t)

\* A step that has nothing to do with t.
LEMMA TracedSame ==
    ASSUME NEW t \in Plain, Traced(t), Placed(t)' <=> Placed(t), WorkSame(t), TaskSame(t),
           fate'[t] = fate[t]
    PROVE  Traced(t)'
<1>1. Busy(t)' <=> Busy(t)
  BY DEF Busy, WorkSame
<1>2. Gone(t)' /\ Kept(t)'
  BY <1>1 DEF Traced, Gone, Kept, TaskSame
<1>3. Honest(t)'
  BY DEF Traced, Honest, WorkSame, TaskSame
<1>4. QED
  BY <1>2, <1>3 DEF Traced

\* A step after which t waits, in one of the queues or on the heap.
LEMMA TracedWaits ==
    ASSUME NEW t \in Plain, Traced(t), Placed(t)', \A w \in Workers : ~Working(w, t)',
           status'[t] = "PENDING", fate'[t] = "live"
    PROVE  Traced(t)'
  BY DEF Traced, Gone, Kept, Honest

\* A step after which t is gone.
LEMMA TracedGone ==
    ASSUME NEW t \in Plain, ~Placed(t)', status'[t] = "PENDING", fate'[t] # "live"
    PROVE  Traced(t)'
<1>1. \A w \in Workers : ~Working(w, t)'
  BY DEF Placed, Busy
<1>2. QED
  BY <1>1 DEF Traced, Gone, Kept, Honest

\* A task that is somewhere is live; outside the workers it is PENDING.
LEMMA PlacedFacts ==
    ASSUME TypeOK, NEW t \in Plain, PlainInv(t), Traced(t), Placed(t)
    PROVE  /\ fate[t] = "live"
           /\ ~Busy(t) => status[t] = "PENDING" /\ \A w \in Workers : ~Working(w, t)
<1>1. fate[t] = "live"
  BY DEF Traced, Gone
<1>2. ASSUME ~Busy(t) PROVE status[t] = "PENDING"
  <2>1. delayed[t] \in Nat
    BY DEF TypeOK, QueueTypes, Plain
  <2>2. Tally(t) = 1
    <3>1. Tally(t) <= 1
      BY DEF PlainInv
    <3>2. QED
      BY <1>2, <2>1, <3>1 DEF Tally, Bit, Placed
  <2>3. QED
    BY <1>2, <2>2 DEF PlainInv
<1>3. QED
  BY <1>1, <1>2 DEF Busy

\* The clients.
LEMMA ClientTraced ==
    ASSUME IInv, AllTraced, Client, NEW t \in Plain
    PROVE  Traced(t)'
<1> USE ConstantsAssumption
<1>0. t \in Tasks /\ TypeOK /\ PlainInv(t) /\ Traced(t)
  BY DEF IInv, Plain, AllTraced
<1>1. QueueTypes /\ TaskTypes
  BY <1>0 DEF TypeOK
<1>2. UNCHANGED <<pc, hand, count, shand, poolq, due, retry, attempts>>
  BY DEF Client, Submit, Cancel
<1>3. WorkSame(t) /\ (Busy(t)' <=> Busy(t))
  BY <1>2 DEF WorkSame, Working, Busy
<1>4. ASSUME NEW u \in Tasks, Submit(u) PROVE Traced(t)'
  <2>1. \/ /\ storage' = storage /\ delayed' = delayed
           /\ fate' = [fate EXCEPT ![u] = "refused"]
        \/ storage' = storage /\ delayed' = [delayed EXCEPT ![u] = @ + 1] /\ fate' = fate
        \/ storage' = storage \cup {u} /\ delayed' = delayed /\ fate' = fate
    BY <1>4 DEF Submit, Put, PutFails
  <2>2. status' = [status EXCEPT ![u] = "PENDING"] /\ status[u] = "NEW"
    BY <1>4 DEF Submit
  <2>3. CASE u # t
    <3>1. /\ (t \in storage') <=> (t \in storage)
          /\ delayed'[t] = delayed[t] /\ fate'[t] = fate[t] /\ status'[t] = status[t]
      BY <1>0, <1>1, <2>1, <2>2, <2>3 DEF QueueTypes, TaskTypes
    <3>2. (Placed(t)' <=> Placed(t)) /\ TaskSame(t)
      BY <1>2, <1>3, <3>1 DEF Placed, TaskSame
    <3>3. QED
      BY <1>0, <1>3, <3>1, <3>2, TracedSame
  <2>4. CASE u = t
    <3>1. delayed[t] \in Nat
      BY <1>0, <1>1 DEF QueueTypes
    <3>2. Tally(t) = 0
      BY <1>0, <2>2, <2>4 DEF PlainInv
    <3>3. ~Placed(t)
      BY <3>1, <3>2 DEF Tally, Bit, Placed
    <3>4. fate[t] = "live"
      BY <1>0, <2>2, <2>4 DEF Traced, Gone
    <3>5. status'[t] = "PENDING"
      BY <1>0, <1>1, <2>2, <2>4 DEF TaskTypes
    <3>6. \A w \in Workers : ~Working(w, t)'
      BY <1>3, <3>3 DEF Placed, Busy
    <3>7. CASE storage' = storage /\ delayed' = delayed
               /\ fate' = [fate EXCEPT ![t] = "refused"]
      <4>1. ~Placed(t)' /\ fate'[t] = "refused"
        BY <1>0, <1>1, <1>2, <1>3, <3>3, <3>7 DEF Placed, TaskTypes
      <4>2. QED
        BY <3>5, <4>1, TracedGone
    <3>8. CASE storage' = storage /\ delayed' = [delayed EXCEPT ![t] = @ + 1] /\ fate' = fate
      <4>1. Placed(t)'
        BY <1>0, <1>1, <3>1, <3>8 DEF Placed, QueueTypes
      <4>2. QED
        BY <1>0, <3>4, <3>5, <3>6, <3>8, <4>1, TracedWaits
    <3>9. CASE storage' = storage \cup {t} /\ delayed' = delayed /\ fate' = fate
      <4>1. Placed(t)'
        BY <3>9 DEF Placed
      <4>2. QED
        BY <1>0, <3>4, <3>5, <3>6, <3>9, <4>1, TracedWaits
    <3>10. QED
      BY <2>1, <2>4, <3>7, <3>8, <3>9
  <2>5. QED
    BY <2>3, <2>4
<1>5. ASSUME NEW u \in Tasks, Cancel(u) PROVE Traced(t)'
  <2>1. /\ storage' = storage \ {u} /\ u \in storage /\ fate' = [fate EXCEPT ![u] = "cancelled"]
        /\ delayed' = delayed /\ status' = status
    BY <1>5 DEF Cancel
  <2>2. CASE u # t
    <3>1. (Placed(t)' <=> Placed(t)) /\ TaskSame(t) /\ fate'[t] = fate[t]
      BY <1>0, <1>1, <1>2, <1>3, <2>1, <2>2 DEF Placed, TaskSame, TaskTypes
    <3>2. QED
      BY <1>0, <1>3, <3>1, TracedSame
  <2>3. CASE u = t
    <3>1. shand # t /\ ~InSeq(poolq, t) /\ delayed[t] = 0 /\ t \notin due /\ ~Busy(t)
      BY <1>0, <2>1, <2>3, Alone
    <3>2. Placed(t)
      BY <2>1, <2>3 DEF Placed
    <3>3. status[t] = "PENDING"
      BY <1>0, <3>1, <3>2, PlacedFacts
    <3>4. ~Placed(t)'
      BY <1>2, <1>3, <2>1, <2>3, <3>1 DEF Placed
    <3>5. fate'[t] = "cancelled"
      BY <1>0, <1>1, <2>1, <2>3 DEF TaskTypes
    <3>6. QED
      BY <2>1, <3>3, <3>4, <3>5, TracedGone
  <2>4. QED
    BY <2>2, <2>3
<1>6. QED
  BY <1>4, <1>5 DEF Client

\* The scheduler loop.
LEMMA LoopTraced ==
    ASSUME IInv, AllTraced, Loop, NEW t \in Plain
    PROVE  Traced(t)'
<1> USE ConstantsAssumption
<1>0. t \in Tasks /\ t # NoTask /\ TypeOK /\ Control /\ PlainInv(t) /\ Traced(t)
  BY DEF IInv, Plain, AllTraced
<1>1. QueueTypes /\ TaskTypes
  BY <1>0 DEF TypeOK
<1>2. UNCHANGED <<pc, hand, count, delayed, due, status, retry, attempts>>
  BY DEF Loop, LoopPoll, LoopNonempty, LoopDequeue, LoopSubmit, LoopFrame
<1>3. WorkSame(t) /\ (Busy(t)' <=> Busy(t)) /\ TaskSame(t)
  BY <1>2 DEF WorkSame, Working, Busy, TaskSame
<1>4. CASE LoopPoll \/ LoopNonempty
  <2>1. (Placed(t)' <=> Placed(t)) /\ fate' = fate
    BY <1>2, <1>3, <1>4 DEF Placed, LoopPoll, LoopNonempty
  <2>2. QED
    BY <1>0, <1>3, <2>1, TracedSame
<1>5. CASE LoopDequeue
  <2>1. shand = NoTask /\ poolq' = poolq
    BY <1>0, <1>5 DEF LoopDequeue, Control
  <2>2. CASE storage' = storage
    <3>1. (Placed(t)' <=> Placed(t)) /\ fate' = fate
      <4>1. shand' = shand /\ fate' = fate
        BY <1>5, <2>2 DEF LoopDequeue
      <4>2. QED
        BY <1>2, <1>3, <2>1, <2>2, <4>1 DEF Placed
    <3>2. QED
      BY <1>0, <1>3, <3>1, TracedSame
  <2>3. CASE storage' # storage
    <3>1. PICK u : u = Head(order)
      OBVIOUS
    <3>2. /\ u \in storage /\ storage' = storage \ {u}
          /\ \/ shand' = u /\ fate' = fate
             \/ shand' = shand /\ fate' = [fate EXCEPT ![u] = "dropped"]
      BY <1>5, <2>3, <3>1 DEF LoopDequeue
    <3>3. CASE u # t
      <4>1. (Placed(t)' <=> Placed(t)) /\ fate'[t] = fate[t]
        BY <1>0, <1>1, <1>2, <1>3, <2>1, <3>2, <3>3 DEF Placed, TaskTypes
      <4>2. QED
        BY <1>0, <1>3, <4>1, TracedSame
    <3>4. CASE u = t
      <4>1. ~InSeq(poolq, t) /\ delayed[t] = 0 /\ t \notin due /\ ~Busy(t)
        BY <1>0, <3>2, <3>4, Alone
      <4>2. Placed(t)
        BY <3>2, <3>4 DEF Placed
      <4>3. fate[t] = "live" /\ status[t] = "PENDING" /\ \A w \in Workers : ~Working(w, t)'
        BY <1>0, <1>3, <4>1, <4>2, PlacedFacts DEF WorkSame
      <4>4. CASE shand' = u /\ fate' = fate
        <5>1. Placed(t)'
          BY <3>4, <4>4 DEF Placed
        <5>2. QED
          BY <1>0, <1>2, <4>3, <4>4, <5>1, TracedWaits
      <4>5. CASE shand' = shand /\ fate' = [fate EXCEPT ![u] = "dropped"]
        <5>1. ~Placed(t)' /\ fate'[t] = "dropped"
          BY <1>0, <1>1, <1>2, <1>3, <2>1, <3>2, <3>4, <4>1, <4>5 DEF Placed, TaskTypes
        <5>2. QED
          BY <1>2, <4>3, <5>1, TracedGone
      <4>6. QED
        BY <3>2, <4>4, <4>5
    <3>5. QED
      BY <3>3, <3>4
  <2>4. QED
    BY <2>2, <2>3
<1>6. CASE LoopSubmit
  <2>1. shand \in Tasks
    BY <1>0, <1>1, <1>6 DEF LoopSubmit, Control, QueueTypes
  <2>2. InSeq(Append(poolq, shand), t) <=> InSeq(poolq, t) \/ shand = t
    BY <1>1, <2>1, AppendFacts DEF QueueTypes
  <2>3. /\ shand' = NoTask /\ storage' = storage
        /\ \/ poolq' = Append(poolq, shand) /\ fate' = fate
           \/ poolq' = poolq /\ fate' = [fate EXCEPT ![shand] = "dropped"]
    BY <1>6 DEF LoopSubmit
  <2>4. CASE shand # t
    <3>1. (Placed(t)' <=> Placed(t)) /\ fate'[t] = fate[t]
      BY <1>0, <1>1, <1>2, <1>3, <2>2, <2>3, <2>4 DEF Placed, TaskTypes
    <3>2. QED
      BY <1>0, <1>3, <3>1, TracedSame
  <2>5. CASE shand = t
    <3>1. /\ t \notin storage /\ ~InSeq(poolq, t) /\ delayed[t] = 0
          /\ t \notin due /\ ~Busy(t)
      BY <1>0, <2>5, Alone
    <3>2. Placed(t)
      BY <2>5 DEF Placed
    <3>3. fate[t] = "live" /\ status[t] = "PENDING" /\ \A w \in Workers : ~Working(w, t)'
      BY <1>0, <1>3, <3>1, <3>2, PlacedFacts DEF WorkSame
    <3>4. CASE poolq' = Append(poolq, shand) /\ fate' = fate
      <4>1. Placed(t)'
        BY <2>2, <2>5, <3>4 DEF Placed
      <4>2. QED
        BY <1>0, <1>2, <3>3, <3>4, <4>1, TracedWaits
    <3>5. CASE poolq' = poolq /\ fate' = [fate EXCEPT ![shand] = "dropped"]
      <4>1. ~Placed(t)' /\ fate'[t] = "dropped"
        BY <1>0, <1>1, <1>2, <1>3, <2>3, <2>5, <3>1, <3>5 DEF Placed, TaskTypes
      <4>2. QED
        BY <1>2, <3>3, <4>1, TracedGone
    <3>6. QED
      BY <2>3, <3>4, <3>5
  <2>6. QED
    BY <2>4, <2>5
<1>7. QED
  BY <1>4, <1>5, <1>6 DEF Loop

\* The tracker.
LEMMA TrackerTraced ==
    ASSUME IInv, AllTraced, Tracker, NEW t \in Plain
    PROVE  Traced(t)'
<1> USE ConstantsAssumption
<1>0. t \in Tasks /\ TypeOK /\ PlainInv(t) /\ Traced(t)
  BY DEF IInv, Plain, AllTraced
<1>1. QueueTypes /\ TaskTypes
  BY <1>0 DEF TypeOK
<1>2. UNCHANGED <<pc, hand, count, shand, poolq, status, retry, attempts>>
  BY DEF Tracker, TrackerPop, TrackerFire
<1>3. WorkSame(t) /\ (Busy(t)' <=> Busy(t)) /\ TaskSame(t)
  BY <1>2 DEF WorkSame, Working, Busy, TaskSame
<1>4. CASE TrackerPop
  <2>1. PICK matured \in SUBSET {u \in Tasks : delayed[u] > 0} :
           /\ due' = matured
           /\ delayed' = [u \in Tasks |-> IF u \in matured THEN delayed[u] - 1
                                          ELSE delayed[u]]
    BY <1>4 DEF TrackerPop
  <2>2. storage' = storage /\ fate' = fate /\ due = {}
    BY <1>4 DEF TrackerPop
  <2>3. /\ t \in matured => delayed[t] > 0 /\ t \in due'
        /\ t \notin matured => delayed'[t] = delayed[t] /\ t \notin due'
    BY <1>0, <2>1
  <2>4. Placed(t)' <=> Placed(t)
    BY <1>2, <1>3, <2>2, <2>3 DEF Placed
  <2>5. QED
    BY <1>0, <1>3, <2>2, <2>4, TracedSame
<1>5. ASSUME NEW u \in Tasks, TrackerFire(u) PROVE Traced(t)'
  <2>1. /\ u \in due /\ due' = due \ {u} /\ delayed' = delayed
        /\ \/ storage' = storage /\ fate' = [fate EXCEPT ![u] = "dropped"]
           \/ storage' = storage \cup {u} /\ fate' = fate
    BY <1>5 DEF TrackerFire, Put, PutFails
  <2>2. CASE u # t
    <3>1. (Placed(t)' <=> Placed(t)) /\ fate'[t] = fate[t]
      BY <1>0, <1>1, <1>2, <1>3, <2>1, <2>2 DEF Placed, TaskTypes
    <3>2. QED
      BY <1>0, <1>3, <3>1, TracedSame
  <2>3. CASE u = t
    <3>1. /\ t \notin storage /\ shand # t /\ ~InSeq(poolq, t)
          /\ delayed[t] = 0 /\ ~Busy(t)
      BY <1>0, <2>1, <2>3, Alone
    <3>2. Placed(t)
      BY <2>1, <2>3 DEF Placed
    <3>3. fate[t] = "live" /\ status[t] = "PENDING" /\ \A w \in Workers : ~Working(w, t)'
      BY <1>0, <1>3, <3>1, <3>2, PlacedFacts DEF WorkSame
    <3>4. CASE storage' = storage \cup {u} /\ fate' = fate
      <4>1. Placed(t)'
        BY <2>3, <3>4 DEF Placed
      <4>2. QED
        BY <1>0, <1>2, <3>3, <3>4, <4>1, TracedWaits
    <3>5. CASE storage' = storage /\ fate' = [fate EXCEPT ![u] = "dropped"]
      <4>1. ~Placed(t)' /\ fate'[t] = "dropped"
        BY <1>0, <1>1, <1>2, <1>3, <2>1, <2>3, <3>1, <3>5 DEF Placed, TaskTypes
      <4>2. QED
        BY <1>2, <3>3, <4>1, TracedGone
    <3>6. QED
      BY <2>1, <3>4, <3>5
  <2>4. QED
    BY <2>2, <2>3
<1>6. QED
  BY <1>4, <1>5 DEF Tracker

\* A step after which a worker goes on with t.
LEMMA TracedRuns ==
    ASSUME NEW t \in Plain, NEW w \in Workers, Working(w, t)',
           \A v \in Workers \ {w} : ~Working(v, t)', fate'[t] = "live",
           ~StoreFails /\ pc'[w] = "except" => status'[t] = "RUNNING"
    PROVE  Traced(t)'
<1>1. Busy(t)' /\ Placed(t)'
  BY DEF Busy, Placed
<1>2. Gone(t)' /\ Kept(t)'
  BY <1>1 DEF Gone, Kept
<1>3. Honest(t)'
  BY DEF Honest
<1>4. QED
  BY <1>2, <1>3 DEF Traced

\* A step with which a worker lets go of t, which has its outcome.
LEMMA TracedOver ==
    ASSUME NEW t \in Plain, \A v \in Workers : ~Working(v, t)', fate'[t] = "live",
           \/ status'[t] = "COMPLETED"
           \/ status'[t] = "FAILED" /\ (retry'[t] = MaxRetries[t] \/ t \in Filtered)
    PROVE  Traced(t)'
  BY DEF Traced, Gone, Kept, Honest

\* A step that takes a worker down, and t with it.
LEMMA TracedCrash ==
    ASSUME NEW t \in Plain, ~Placed(t)', status'[t] \in {"PENDING", "RUNNING"},
           fate'[t] = "crashed"
    PROVE  Traced(t)'
<1>1. \A w \in Workers : ~Working(w, t)'
  BY DEF Placed, Busy
<1>2. QED
  BY <1>1 DEF Traced, Gone, Kept, Honest

\* The steps of a worker with its task.
LEMMA WorkerOwnTraced ==
    ASSUME IInv, AllTraced, NEW w \in Workers, WorkerOwn(w), NEW t \in Plain
    PROVE  Traced(t)'
<1> USE ConstantsAssumption
<1>0. t \in Tasks /\ TypeOK /\ Control /\ PlainInv(t) /\ Traced(t)
  BY DEF IInv, Plain, AllTraced
<1>1. ThreadTypes /\ TaskTypes /\ w \in Threads /\ t # NoTask
  BY <1>0 DEF TypeOK
<1>2. /\ RestSame(t)
      /\ \A x \in Threads \ {w} :
            pc'[x] = pc[x] /\ hand'[x] = hand[x] /\ count'[x] = count[x]
      /\ hand'[w] \in {hand[w], NoTask}
      /\ retry' = retry
      /\ hand[w] # t => TaskSame(t)
  BY <1>0, WorkerOwnFrame
<1>3. \A v \in Workers \ {w} : Working(v, t)' <=> Working(v, t)
  BY <1>1, <1>2, OneThread
<1>4. ASSUME WorkSame(t), TaskSame(t), fate'[t] = fate[t] PROVE Traced(t)'
  <2>1. Placed(t)' <=> Placed(t)
    BY <1>2, <1>4 DEF Placed, Busy, RestSame, WorkSame
  <2>2. QED
    BY <1>0, <1>4, <2>1, TracedSame
<1>5. CASE hand[w] # t
  <2>1. ~Working(w, t) /\ ~Working(w, t)'
    BY <1>1, <1>2, <1>5 DEF Working
  <2>2. WorkSame(t)
    BY <1>1, <1>2, <2>1, NotMine
  <2>3. fate'[t] = fate[t]
    BY <1>0, <1>1, <1>5 DEF TaskTypes, WorkerOwn, WorkerBegin, WorkerStart, WorkerReturn,
       WorkerComplete, WorkerReport, WorkerRaise, WorkerExcept, WorkerQuit, WorkerFinally,
       WorkerExit
  <2>4. QED
    BY <1>2, <1>4, <1>5, <2>2, <2>3
<1>6. CASE hand[w] = t /\ ~Working(w, t)
  <2>1. pc[w] \in {"finally", "dead"}
    BY <1>6 DEF Working
  <2>2. WorkerFinally(w)
    BY <2>1 DEF WorkerOwn, WorkerBegin, WorkerStart, WorkerReturn, WorkerComplete,
       WorkerReport, WorkerRaise, WorkerExcept, WorkerQuit, WorkerFinally, WorkerExit
  <2>3. TaskSame(t) /\ hand'[w] = NoTask /\ fate' = fate
    BY <1>1, <2>2 DEF TaskSame, WorkerFinally, ThreadTypes
  <2>4. ~Working(w, t)'
    BY <1>1, <2>3 DEF Working
  <2>5. WorkSame(t)
    BY <1>1, <1>2, <1>6, <2>4, NotMine
  <2>6. QED
    BY <1>4, <2>3, <2>5
<1>7. CASE Working(w, t)
  <2>0. hand[w] = t /\ pc[w] \notin {"finally", "dead"}
    BY <1>7 DEF Working
  <2>1. /\ status[t] \in StatusAt(pc[w])
        /\ \A v \in Workers \ {w} : ~Working(v, t)'
    BY <1>0, <1>3, <1>7 DEF PlainInv
  <2>2. /\ t \notin storage /\ shand # t /\ ~InSeq(poolq, t)
        /\ delayed[t] = 0 /\ t \notin due
    BY <1>0, <1>7, Alone DEF Busy
  <2>3. fate[t] = "live"
    BY <1>0, <1>7, PlacedFacts DEF Placed, Busy
  <2>4. ASSUME hand'[w] = t, fate'[t] = fate[t], pc'[w] \notin {"finally", "dead"},
               ~StoreFails /\ pc'[w] = "except" => status'[t] = "RUNNING"
        PROVE  Traced(t)'
    <3>1. Working(w, t)'
      BY <2>4 DEF Working
    <3>2. QED
      BY <2>1, <2>3, <2>4, <3>1, TracedRuns
  <2>5. ASSUME pc'[w] \in {"finally", "dead"}
        PROVE  (\A v \in Workers : ~Working(v, t)') /\ ~Placed(t)'
    <3>1. ~Working(w, t)'
      BY <2>5 DEF Working
    <3>2. \A v \in Workers : ~Working(v, t)'
      BY <2>1, <3>1
    <3>3. QED
      BY <1>2, <2>2, <3>2 DEF Placed, Busy, RestSame
  <2>6. CASE \/ WorkerBegin(w) \/ WorkerComplete(w) \/ WorkerExcept(w)
    <3>1. /\ hand'[w] = t /\ fate' = fate
          /\ pc'[w] \in {"start", "report", "check"}
      BY <1>1, <2>0, <2>6 DEF WorkerBegin, WorkerComplete, WorkerExcept, ThreadTypes
    <3>2. QED
      BY <2>4, <3>1
  <2>7. CASE WorkerStart(w)
    <3>1. status[t] = "PENDING"
      BY <2>1, <2>7 DEF WorkerStart, StatusAt
    <3>2. CASE pc'[w] = "exec"
      <4>1. hand'[w] = t /\ fate' = fate
        BY <1>1, <2>0, <2>7, <3>2 DEF WorkerStart, ThreadTypes
      <4>2. QED
        BY <2>4, <3>2, <4>1
    <3>3. CASE pc'[w] # "exec"
      <4>1. pc'[w] = "dead" /\ fate'[t] = "crashed" /\ status'[t] = "PENDING"
        BY <1>0, <1>1, <2>0, <2>7, <3>1, <3>3 DEF WorkerStart, ThreadTypes, TaskTypes
      <4>2. QED
        BY <2>5, <4>1, TracedCrash
    <3>4. QED
      BY <3>2, <3>3
  <2>8. CASE WorkerReturn(w) \/ WorkerRaise(w)
    <3>1. status[t] = "RUNNING"
      BY <2>1, <2>8 DEF WorkerReturn, WorkerRaise, StatusAt
    <3>2. /\ hand'[w] = t /\ fate' = fate /\ status' = status
          /\ pc'[w] \in {"complete", "report", "except"}
      BY <1>1, <2>0, <2>8 DEF WorkerReturn, WorkerRaise, ThreadTypes
    <3>3. QED
      BY <2>4, <3>1, <3>2
  <2>9. CASE WorkerReport(w)
    <3>1. status[t] = "COMPLETED"
      BY <2>1, <2>9 DEF WorkerReport, StatusAt
    <3>2. hand'[w] = t /\ fate' = fate /\ status' = status
      BY <1>1, <2>0, <2>9 DEF WorkerReport, ThreadTypes
    <3>3. CASE pc'[w] = "finally"
      BY <2>3, <2>5, <3>1, <3>2, <3>3, TracedOver
    <3>4. CASE pc'[w] # "finally"
      <4>1. StoreFails /\ pc'[w] = "except"
        BY <1>1, <2>9, <3>4 DEF WorkerReport, ThreadTypes
      <4>2. QED
        BY <2>4, <3>2, <4>1
    <3>5. QED
      BY <3>3, <3>4
  <2>10. CASE WorkerQuit(w)
    <3>1. status[t] = "RUNNING"
      BY <2>1, <2>10 DEF WorkerQuit, StatusAt
    <3>2. pc'[w] = "dead" /\ fate'[t] = "crashed" /\ status' = status
      BY <1>0, <1>1, <2>0, <2>10 DEF WorkerQuit, ThreadTypes, TaskTypes
    <3>3. QED
      BY <2>5, <3>1, <3>2, TracedCrash
  <2>11. CASE WorkerFinally(w) \/ WorkerExit(w)
    <3>1. pc[w] = "get"
      BY <2>0, <2>11 DEF WorkerFinally, WorkerExit
    <3>2. QED
      BY <1>0, <1>1, <2>0, <3>1 DEF Control
  <2>12. QED
    BY <2>6, <2>7, <2>8, <2>9, <2>10, <2>11 DEF WorkerOwn
<1>8. QED
  BY <1>5, <1>6, <1>7

\* A worker fetches a task.
LEMMA WorkerGetTraced ==
    ASSUME IInv, AllTraced, NEW w \in Workers, WorkerGet(w), NEW t \in Plain
    PROVE  Traced(t)'
<1> USE ConstantsAssumption
<1>0. t \in Tasks /\ t # NoTask /\ TypeOK /\ Control /\ PlainInv(t) /\ Traced(t)
  BY DEF IInv, Plain, AllTraced
<1>1. ThreadTypes /\ TaskTypes /\ QueueTypes /\ w \in Threads
  BY <1>0 DEF TypeOK
<1>2. /\ UNCHANGED <<storage, delayed, due, shand, count, status, retry, attempts, fate>>
      /\ poolq # << >> /\ poolq' = Tail(poolq)
      /\ hand'[w] = Head(poolq) /\ pc'[w] = "begin" /\ pc[w] = "get"
      /\ \A x \in Threads \ {w} : pc'[x] = pc[x] /\ hand'[x] = hand[x]
  BY <1>1 DEF WorkerGet, WorkerFrame, ThreadTypes
<1>3. ~Working(w, t)
  BY <1>0, <1>2 DEF Working, Control
<1>4. Once(poolq, t)
  BY <1>0 DEF PlainInv
<1>5. /\ InSeq(poolq, Head(poolq))
      /\ Head(poolq) # t => (InSeq(Tail(poolq), t) <=> InSeq(poolq, t))
  BY <1>1, <1>2, <1>4, TailFacts DEF QueueTypes
<1>6. CASE Head(poolq) # t
  <2>1. ~Working(w, t)'
    BY <1>2, <1>6 DEF Working
  <2>2. WorkSame(t)
    BY <1>1, <1>2, <1>3, <2>1, NotMine
  <2>3. Placed(t)' <=> Placed(t)
    BY <1>2, <1>5, <1>6, <2>2 DEF Placed, Busy, WorkSame
  <2>4. QED
    BY <1>0, <1>2, <2>2, <2>3, TracedSame DEF TaskSame
<1>7. CASE Head(poolq) = t
  <2>1. InSeq(poolq, t)
    BY <1>5, <1>7
  <2>2. fate[t] = "live" /\ ~Busy(t)
    BY <1>0, <2>1, Alone, PlacedFacts DEF Placed
  <2>3. \A v \in Workers \ {w} : ~Working(v, t)'
    BY <1>1, <1>2, <2>2, OneThread DEF Busy
  <2>4. Working(w, t)'
    BY <1>2, <1>7 DEF Working
  <2>5. QED
    BY <1>2, <2>2, <2>3, <2>4, TracedRuns
<1>8. QED
  BY <1>6, <1>7

\* The failure handler run for another task.
LEMMA RetryOtherTraced ==
    ASSUME IInv, AllTraced, NEW h \in Threads, RetryStep(h), NEW t \in Plain, hand[h] # t
    PROVE  Traced(t)'
<1> USE ConstantsAssumption
<1>0. t \in Tasks /\ t # NoTask /\ TypeOK /\ Traced(t)
  BY DEF IInv, Plain, AllTraced
<1>1. TaskTypes
  BY <1>0 DEF TypeOK
<1>2. /\ UNCHANGED <<due, shand, poolq, attempts>>
      /\ \A x \in Threads \ {h} :
            pc'[x] = pc[x] /\ hand'[x] = hand[x] /\ count'[x] = count[x]
      /\ hand'[h] # t
      /\ status'[t] = status[t] /\ retry'[t] = retry[t] /\ delayed'[t] = delayed[t]
      /\ (t \in storage') <=> (t \in storage)
  BY <1>0, RetryFacts
<1>3. fate'[t] = fate[t]
  BY <1>0, <1>1 DEF TaskTypes, RetryStep, RetryCheck, RetryRead, RetryWrite, RetryDelay,
     Put, PutFails
<1>4. ~Working(h, t) /\ ~Working(h, t)'
  BY <1>2 DEF Working
<1>5. WorkSame(t)
  BY <1>2, <1>4, NotMine
<1>6. Placed(t)' <=> Placed(t)
  BY <1>2, <1>5 DEF Placed, Busy, WorkSame
<1>7. QED
  BY <1>0, <1>2, <1>3, <1>5, <1>6, TracedSame DEF TaskSame

\* The failure handler run by the worker that has t: it gives t up only when
\* the policy says so.
LEMMA RetryOwnTraced ==
    ASSUME IInv, AllTraced, NEW w \in Workers, RetryStep(w), NEW t \in Plain, hand[w] = t
    PROVE  Traced(t)'
<1> USE ConstantsAssumption
<1>0. t \in Tasks /\ TypeOK /\ PlainInv(t) /\ Traced(t)
  BY DEF IInv, Plain, AllTraced
<1>1. /\ ThreadTypes /\ QueueTypes /\ TaskTypes
      /\ w \in Threads /\ w # Monitor /\ t # NoTask
  BY <1>0 DEF TypeOK
<1>2. pc[w] \in RetryPCs
  BY DEF RetryStep, RetryCheck, RetryRead, RetryWrite, RetryDelay, RetryPCs
<1>3. Working(w, t) /\ Busy(t)
  BY <1>2 DEF Working, Busy, RetryPCs
<1>4. /\ UNCHANGED <<due, shand, poolq>>
      /\ \A x \in Threads \ {w} :
            pc'[x] = pc[x] /\ hand'[x] = hand[x] /\ count'[x] = count[x]
  BY <1>0, <1>1, RetryFacts
<1>5. /\ status[t] \in StatusAt(pc[w])
      /\ retry[t] <= MaxRetries[t]
      /\ \A v \in Workers \ {w} : ~Working(v, t)'
  BY <1>0, <1>1, <1>3, <1>4, OneThread DEF PlainInv
<1>6. /\ t \notin storage /\ shand # t /\ ~InSeq(poolq, t)
      /\ delayed[t] = 0 /\ t \notin due
  BY <1>0, <1>3, Alone
<1>7. fate[t] = "live"
  BY <1>0, <1>3, PlacedFacts DEF Placed
<1>8. ASSUME pc'[w] = "finally" PROVE (\A v \in Workers : ~Working(v, t)') /\ ~Busy(t)'
  BY <1>5, <1>8 DEF Working, Busy
<1>9. ASSUME pc'[w] \in {"read", "write", "delay"}, hand' = hand, fate' = fate
      PROVE  Traced(t)'
  <2>1. Working(w, t)'
    BY <1>9 DEF Working
  <2>2. QED
    BY <1>5, <1>7, <1>9, <2>1, TracedRuns
<1>10. CASE RetryCheck(w)
  <2>1. UNCHANGED <<status, retry, hand, fate>>
    BY <1>1, <1>10 DEF RetryCheck, Leave
  <2>2. status[t] = "FAILED"
    BY <1>5, <1>10 DEF RetryCheck, StatusAt
  <2>3. CASE pc'[w] = "read"
    BY <1>9, <2>1, <2>3
  <2>4. CASE pc'[w] # "read"
    <3>1. pc'[w] = "finally" /\ (retry[t] >= MaxRetries[t] \/ t \in Filtered)
      BY <1>1, <1>10, <2>4 DEF RetryCheck, Leave, ThreadTypes
    <3>2. retry[t] = MaxRetries[t] \/ t \in Filtered
      <4>1. retry[t] \in Nat /\ MaxRetries[t] \in Nat
        BY <1>0, <1>1 DEF TaskTypes
      <4>2. QED
        BY <1>5, <3>1, <4>1
    <3>3. QED
      BY <1>7, <1>8, <2>1, <2>2, <3>1, <3>2, TracedOver
  <2>5. QED
    BY <2>3, <2>4
<1>11. CASE RetryRead(w) \/ RetryWrite(w)
  <2>1. pc'[w] \in {"write", "delay"} /\ hand' = hand /\ fate' = fate
    BY <1>1, <1>11 DEF RetryRead, RetryWrite, ThreadTypes
  <2>2. QED
    BY <1>9, <2>1
<1>12. CASE RetryDelay(w)
  <2>1. status' = status /\ pc[w] = "delay" /\ pc'[w] = "finally"
    BY <1>1, <1>12 DEF RetryDelay, Leave, ThreadTypes
  <2>2. status'[t] = "PENDING"
    BY <1>5, <2>1 DEF StatusAt
  <2>3. \/ storage' = storage /\ delayed'[t] = 1 /\ fate' = fate
        \/ storage' = storage \cup {t} /\ fate' = fate
        \/ storage' = storage /\ delayed' = delayed /\ fate'[t] = "dropped"
    BY <1>0, <1>1, <1>6, <1>12 DEF RetryDelay, Put, PutFails, QueueTypes, TaskTypes
  <2>4. CASE fate' = fate /\ (t \in storage' \/ delayed'[t] = 1)
    <3>1. Placed(t)'
      BY <2>4 DEF Placed
    <3>2. QED
      BY <1>0, <1>7, <1>8, <2>1, <2>2, <2>4, <3>1, TracedWaits
  <2>5. CASE storage' = storage /\ delayed' = delayed /\ fate'[t] = "dropped"
    <3>1. ~Placed(t)'
      BY <1>4, <1>6, <1>8, <2>1, <2>5 DEF Placed
    <3>2. QED
      BY <2>2, <2>5, <3>1, TracedGone
  <2>6. QED
    BY <2>3, <2>4, <2>5
<1>13. QED
  BY <1>10, <1>11, <1>12 DEF RetryStep

\* The monitor and the supervisor.
LEMMA WatchersTraced ==
    ASSUME IInv, AllTraced, MonitorStep \/ Supervisor, NEW t \in Plain
    PROVE  Traced(t)'
<1> USE ConstantsAssumption
<1>0. t \in Tasks /\ t \notin Timed /\ t # NoTask /\ TypeOK /\ Control /\ Traced(t)
  BY DEF IInv, Plain, AllTraced
<1>1. ThreadTypes /\ TaskTypes /\ Monitor \in Threads /\ Monitor \notin Workers
  BY <1>0 DEF TypeOK
<1>2. hand[Monitor] # t
  BY <1>0 DEF Control
<1>3. CASE RetryStep(Monitor)
  BY <1>1, <1>2, <1>3, RetryOtherTraced
<1>4. CASE \/ MonitorScan \/ MonitorClear \/ MonitorFail \/ MonitorRest
           \/ \E w \in Workers : MonitorInspect(w)
  <2>1. /\ UNCHANGED <<storage, delayed, due, shand, poolq, retry, attempts, count, fate>>
        /\ \A x \in Threads \ {Monitor} : pc'[x] = pc[x] /\ hand'[x] = hand[x]
    BY <1>1, <1>4 DEF MonitorScan, MonitorClear, MonitorFail, MonitorRest,
       MonitorInspect, MonitorFrame, ThreadTypes
  <2>2. status'[t] = status[t]
    BY <1>0, <1>1, <1>2, <1>4 DEF MonitorScan, MonitorClear, MonitorFail, MonitorRest,
       MonitorInspect, TaskTypes
  <2>3. WorkSame(t)
    BY <1>1, <2>1, NotMine
  <2>4. Placed(t)' <=> Placed(t)
    BY <2>1, <2>3 DEF Placed, Busy, WorkSame
  <2>5. QED
    BY <1>0, <2>1, <2>2, <2>3, <2>4, TracedSame DEF TaskSame
<1>5. CASE Supervisor
  <2>1. UNCHANGED <<storage, delayed, due, shand, poolq, status, retry, attempts, hand,
                    count, fate>>
    BY <1>5 DEF Supervisor, SupervisorDies, Respawn
  <2>2. WorkSame(t)
    <3>1. CASE SupervisorDies
      BY <2>1, <3>1 DEF SupervisorDies, WorkSame, Working
    <3>2. ASSUME NEW w \in Workers, NEW v \in Workers, Respawn(w, v) PROVE WorkSame(t)
      <4>1. hand[v] = NoTask
        BY <1>0, <3>2 DEF Respawn, Control
      <4>2. ~Working(v, t) /\ ~Working(v, t)'
        BY <1>0, <2>1, <4>1 DEF Working
      <4>3. \A x \in Threads \ {v} : pc'[x] = pc[x]
        BY <1>1, <3>2 DEF Respawn, ThreadTypes
      <4>4. QED
        BY <2>1, <4>2, <4>3, NotMine
    <3>3. QED
      BY <1>5, <3>1, <3>2 DEF Supervisor
  <2>3. Placed(t)' <=> Placed(t)
    BY <2>1, <2>2 DEF Placed, Busy, WorkSame
  <2>4. QED
    BY <1>0, <2>1, <2>2, <2>3, TracedSame DEF TaskSame
<1>6. QED
  BY <1>3, <1>4, <1>5 DEF MonitorStep

\* Runtime.stop, and steps of nobody.
LEMMA IdleTraced ==
    ASSUME AllTraced, StopStep \/ UNCHANGED vars, NEW t \in Plain
    PROVE  Traced(t)'
<1>1. UNCHANGED <<storage, delayed, due, shand, poolq, status, retry, attempts,
                  pc, hand, count, fate>>
  BY StopFacts DEF StopFrame, vars
<1>2. WorkSame(t) /\ TaskSame(t) /\ (Placed(t)' <=> Placed(t))
  BY <1>1 DEF WorkSame, TaskSame, Placed, Busy, Working
<1>3. QED
  BY <1>1, <1>2, TracedSame DEF AllTraced

\* At the start every task is new.
LEMMA AllTracedInit == Init => AllTraced
<1> USE ConstantsAssumption
<1> SUFFICES ASSUME Init, NEW t \in Plain PROVE Traced(t)
  BY DEF AllTraced
<1>1. status[t] = "NEW" /\ fate[t] = "live" /\ \A w \in Workers : hand[w] # t
  BY DEF Init, Plain, Threads
<1>2. QED
  BY <1>1 DEF Traced, Gone, Kept, Honest, Working

\* Every step keeps track of every task without a timeout policy.
LEMMA AllTracedStep == IInv /\ AllTraced /\ [Next]_vars => AllTraced'
<1> SUFFICES ASSUME IInv, AllTraced, [Next]_vars PROVE AllTraced'
  OBVIOUS
<1>1. ASSUME NEW t \in Plain PROVE Traced(t)'
  <2>1. CASE Client
    BY <2>1, ClientTraced
  <2>2. CASE Loop
    BY <2>2, LoopTraced
  <2>3. CASE Tracker
    BY <2>3, TrackerTraced
  <2>4. ASSUME NEW w \in Workers, Worker(w) PROVE Traced(t)'
    <3>1. CASE WorkerGet(w)
      BY <3>1, WorkerGetTraced
    <3>2. CASE WorkerOwn(w)
      BY <3>2, WorkerOwnTraced
    <3>3. CASE RetryStep(w)
      BY <3>3, RetryOwnTraced, RetryOtherTraced DEF Threads
    <3>4. QED
      BY <2>4, <3>1, <3>2, <3>3 DEF Worker, WorkerOwn
  <2>5. CASE MonitorStep \/ Supervisor
    BY <2>5, WatchersTraced
  <2>6. CASE StopStep \/ UNCHANGED vars
    BY <2>6, IdleTraced
  <2>7. QED
    BY <2>1, <2>2, <2>3, <2>4, <2>5, <2>6 DEF Next
<1>2. QED
  BY <1>1 DEF AllTraced, Plain

\* A task the engine accepted is somewhere until it has an outcome, and it ends
\* FAILED only with its retries used up or on an exception not to be retried,
\* whatever crashes, is cancelled, or fails to be stored.
THEOREM Tracking == Spec => []NoneForgotten
<1>1. AllTraced => NoneForgotten
  <2> SUFFICES ASSUME AllTraced, NEW t \in Plain, fate[t] = "live"
               PROVE  /\ status[t] \in {"PENDING", "RUNNING"} => \E p \in Places : At(p, t)
                      /\ status[t] = "FAILED" => \/ At("worker", t)
                                                 \/ retry[t] = MaxRetries[t]
                                                 \/ t \in Filtered
    BY DEF NoneForgotten
  <2>1. Kept(t)
    BY DEF AllTraced, Traced
  <2>2. Busy(t) => At("worker", t)
    BY DEF At, Busy
  <2>3. ASSUME Placed(t) PROVE \E p \in Places : At(p, t)
    BY <2>2, <2>3 DEF Placed, At, Places
  <2>4. QED
    BY <2>1, <2>2, <2>3 DEF Kept
<1>2. QED
  BY <1>1, AllTracedInit, AllTracedStep, Invariance, PTL DEF Spec

\* GracefulStop for the tasks without a timeout policy.
ReleasesPlain ==
    /\ mpc \in {"joined", "raised"} => shand = NoTask /\ due = {} /\ hand[Monitor] = NoTask
    /\ ppc = "down" =>
          /\ \A w \in pool : pc[w] = "dead"
          /\ \A t \in Plain : status[t] = "RUNNING" => fate[t] = "crashed"

\* Whether calls of Runtime.stop overlap or not, IntelligentScheduler.stop goes on
\* only when loop, tracker and monitor let go of their tasks, and WorkerPool.stop
\* returns only when the workers did; the only tasks without a timeout policy that
\* are left RUNNING then are those whose worker thread died under them.
THEOREM LetGo == Spec => []ReleasesPlain
<1> USE ConstantsAssumption
<1>1. IInv /\ Quiet /\ AllTraced => ReleasesPlain
  <2> SUFFICES ASSUME IInv, Quiet, AllTraced PROVE ReleasesPlain
    OBVIOUS
  <2>1. ASSUME mpc \in {"joined", "raised"}
        PROVE  shand = NoTask /\ due = {} /\ hand[Monitor] = NoTask
    BY <2>1 DEF Quiet, LoopDown, TrackerDown, MonitorDown, IInv, Control
  <2>2. ASSUME ppc = "down" PROVE \A w \in Workers : pc[w] \in {"new", "dead"}
    BY <2>2 DEF Quiet, PoolDown, IInv, TypeOK, WorkerTypes
  <2>3. ASSUME ppc = "down", NEW t \in Plain, status[t] = "RUNNING"
        PROVE  fate[t] = "crashed"
    <3>1. t \in Tasks /\ TypeOK /\ PlainInv(t) /\ Traced(t) /\ t # NoTask
      BY <2>3 DEF Plain, IInv, AllTraced
    <3>2. ~Busy(t)
      BY <2>2, <2>3, <3>1 DEF Busy, Working, IInv, Control
    <3>3. ~Placed(t)
      BY <2>3, <3>1, <3>2, PlacedFacts
    <3>4. fate[t] \in Fates
      BY <3>1 DEF TypeOK, TaskTypes
    <3>5. QED
      BY <2>3, <3>1, <3>3, <3>4 DEF Traced, Gone, Kept, Fates
  <2>4. QED
    BY <2>1, <2>3 DEF ReleasesPlain, Quiet, PoolDown
<1>2. QED
  BY <1>1, AllTracedInit, AllTracedStep, QuietInit, QuietStep, Invariance, PTL DEF Spec

\* Where no task has a timeout policy that is GracefulStop.  (A timed task may
\* be queued again while the worker that timed out still runs it, so what
\* becomes of one of the two tells nothing about the other.)
THEOREM Shutdown == ASSUME Timed = {} PROVE Spec => []GracefulStop
<1>1. ReleasesPlain => GracefulStop
  BY DEF ReleasesPlain, GracefulStop, Plain
<1>2. QED
  BY <1>1, LetGo, PTL

----------------------------------------------------------------------------
(* The engine implements TaskLifecycle for tasks without a timeout policy. *)

Unmoved == \A t \in Plain : status'[t] = status[t] /\ retry'[t] = retry[t]

\* A step that writes no such task is none of the life cycle.
LEMMA LifeStutters ==
    ASSUME Unmoved
    PROVE  UNCHANGED <<[t \in Plain |-> status[t]], [t \in Plain |-> retry[t]]>>
  BY DEF Unmoved

\* A step that writes the status of one task.
LEMMA LifeMoves ==
    ASSUME TypeOK, NEW u \in Tasks, NEW from, NEW to, status[u] = from,
           status' = [status EXCEPT ![u] = to], retry' = retry,
           <<from, to>> \in {<<"NEW", "PENDING">>, <<"PENDING", "RUNNING">>,
                             <<"RUNNING", "COMPLETED">>, <<"RUNNING", "FAILED">>}
    PROVE  Unmoved \/ Lifecycle!Next
<1>1. status \in [Tasks -> Statuses]
  BY DEF TypeOK, TaskTypes
<1>2. CASE u \notin Plain
  BY <1>1, <1>2 DEF Unmoved, Plain
<1>3. CASE u \in Plain
  <2>1. /\ [t \in Plain |-> status[t]][u] = from
        /\ [t \in Plain |-> status'[t]] = [[t \in Plain |-> status[t]] EXCEPT ![u] = to]
    BY <1>1, <1>3 DEF Plain
  <2>2. [t \in Plain |-> retry'[t]] = [t \in Plain |-> retry[t]]
    OBVIOUS
  <2>3. Lifecycle!Create(u) \/ Lifecycle!Start(u) \/ Lifecycle!Complete(u) \/ Lifecycle!Fail(u)
    BY <2>1, <2>2 DEF Lifecycle!Create, Lifecycle!Start, Lifecycle!Complete, Lifecycle!Fail,
       Lifecycle!Move
  <2>4. QED
    BY <1>3, <2>3 DEF Lifecycle!Next
<1>4. QED
  BY <1>2, <1>3

\* A step that puts a failed task back.
LEMMA LifeRetries ==
    ASSUME TypeOK, NEW u \in Plain, status[u] = "FAILED", retry[u] < MaxRetries[u],
           status' = [status EXCEPT ![u] = "PENDING"],
           retry' = [retry EXCEPT ![u] = retry[u] + 1]
    PROVE  Lifecycle!Next
<1>1. status \in [Tasks -> Statuses] /\ retry \in [Tasks -> Nat]
  BY DEF TypeOK, TaskTypes
<1>2. /\ [t \in Plain |-> status[t]][u] = "FAILED"
      /\ [t \in Plain |-> status'[t]] = [[t \in Plain |-> status[t]] EXCEPT ![u] = "PENDING"]
  BY <1>1 DEF Plain
<1>3. /\ [t \in Plain |-> retry[t]][u] < [t \in Plain |-> MaxRetries[t]][u]
      /\ [t \in Plain |-> retry'[t]]
           = [[t \in Plain |-> retry[t]] EXCEPT ![u] = [t \in Plain |-> retry[t]][u] + 1]
  BY <1>1 DEF Plain
<1>4. Lifecycle!Retry(u)
  BY <1>2, <1>3 DEF Lifecycle!Retry, Lifecycle!Move
<1>5. QED
  BY <1>4 DEF Lifecycle!Next

\* The steps of a worker with its task.
LEMMA WorkerLife ==
    ASSUME ~StoreFails, IInv, AllTraced, NEW w \in Workers, Worker(w)
    PROVE  Unmoved \/ Lifecycle!Next
<1> USE ConstantsAssumption
<1>0. TypeOK /\ Control /\ TaskTypes /\ w # Monitor
  BY DEF IInv, TypeOK
<1>1. ASSUME UNCHANGED <<status, retry>> PROVE Unmoved
  BY <1>1 DEF Unmoved
<1>2. PICK u : u = hand[w]
  OBVIOUS
<1>3. ASSUME pc[w] \notin {"new", "get", "dead", "finally"}
      PROVE  /\ u \in Tasks /\ Working(w, u)
             /\ u \in Plain => PlainInv(u) /\ Traced(u) /\ status[u] \in StatusAt(pc[w])
  BY <1>0, <1>2, <1>3 DEF Control, Working, IInv, AllTraced, PlainInv
<1>4. ASSUME u \notin Plain, NEW to, status' = [status EXCEPT ![u] = to],
             retry' = retry \/ retry' = [retry EXCEPT ![u] = count[w] + 1]
      PROVE  Unmoved
  BY <1>0, <1>4 DEF Unmoved, TaskTypes, Plain
<1>5. CASE WorkerStart(w)
  <2>1. pc[w] = "start" /\ retry' = retry
        /\ (status' = status \/ status' = [status EXCEPT ![u] = "RUNNING"])
    BY <1>2, <1>5 DEF WorkerStart
  <2>2. u \in Plain => status[u] = "PENDING"
    BY <1>3, <2>1 DEF StatusAt
  <2>3. QED
    BY <1>0, <1>1, <1>3, <1>4, <2>1, <2>2, LifeMoves
<1>6. CASE WorkerComplete(w)
  <2>1. pc[w] = "complete" /\ retry' = retry /\ status' = [status EXCEPT ![u] = "COMPLETED"]
    BY <1>2, <1>6 DEF WorkerComplete
  <2>2. u \in Plain => status[u] = "RUNNING"
    BY <1>3, <2>1 DEF StatusAt
  <2>3. QED
    BY <1>0, <1>3, <1>4, <2>1, <2>2, LifeMoves
<1>7. CASE WorkerExcept(w)
  <2>1. pc[w] = "except" /\ retry' = retry /\ status' = [status EXCEPT ![u] = "FAILED"]
    BY <1>2, <1>7 DEF WorkerExcept
  <2>2. u \in Plain => status[u] = "RUNNING"
    BY <1>3, <2>1 DEF Traced, Honest
  <2>3. QED
    BY <1>0, <1>3, <1>4, <2>1, <2>2, LifeMoves
<1>8. CASE RetryWrite(w)
  <2>1. /\ pc[w] = "write" /\ status' = [status EXCEPT ![u] = "PENDING"]
        /\ retry' = [retry EXCEPT ![u] = count[w] + 1]
    BY <1>2, <1>8 DEF RetryWrite
  <2>2. CASE u \in Plain
    <3>1. status[u] = "FAILED"
      BY <1>3, <2>1, <2>2 DEF StatusAt
    <3>2. retry[u] < MaxRetries[u] /\ count[w] = retry[u]
      BY <1>3, <2>1, <2>2 DEF PlainInv
    <3>3. QED
      BY <1>0, <2>1, <2>2, <3>1, <3>2, LifeRetries
  <2>3. QED
    BY <1>4, <2>1, <2>2
<1>9. CASE \/ WorkerGet(w) \/ WorkerBegin(w) \/ WorkerReturn(w) \/ WorkerReport(w)
           \/ WorkerRaise(w) \/ WorkerQuit(w) \/ WorkerFinally(w) \/ WorkerExit(w)
           \/ RetryCheck(w) \/ RetryRead(w) \/ RetryDelay(w)
  BY <1>1, <1>9 DEF WorkerGet, WorkerBegin, WorkerReturn, WorkerReport, WorkerRaise,
     WorkerQuit, WorkerFinally, WorkerExit, RetryCheck, RetryRead, RetryDelay, taskVars
<1>10. QED
  BY <1>5, <1>6, <1>7, <1>8, <1>9 DEF Worker, RetryStep

\* The monitor writes no task but timed ones.
LEMMA MonitorLife == ASSUME IInv, MonitorStep PROVE Unmoved
<1> USE ConstantsAssumption
<1>0. TypeOK /\ Control /\ TaskTypes
  BY DEF IInv, TypeOK
<1> SUFFICES ASSUME NEW t \in Plain PROVE status'[t] = status[t] /\ retry'[t] = retry[t]
  BY DEF Unmoved
<1>1. t \in Tasks /\ hand[Monitor] # t
  BY <1>0 DEF Control, Plain
<1>2. QED
  BY <1>0, <1>1 DEF MonitorStep, MonitorScan, MonitorClear, MonitorFail, MonitorRest,
     MonitorInspect, RetryStep, RetryCheck, RetryRead, RetryWrite, RetryDelay, TaskTypes,
     taskVars

\* With an event store that works, a task without a timeout policy lives the
\* life TaskLifecycle describes: each step of the engine is one step of at most
\* one such task's life.  (A TaskCompleted event that cannot be stored makes the
\* worker fail a COMPLETED task, which is no step of that life.)
THEOREM Refinement == ASSUME ~StoreFails PROVE Spec => KeepsLifecycle
<1> USE ConstantsAssumption
<1>1. Init => Lifecycle!Init
  BY DEF Init, Lifecycle!Init, Plain
<1>2. IInv /\ AllTraced /\ [Next]_vars
      => [Lifecycle!Next]_<<[t \in Plain |-> status[t]], [t \in Plain |-> retry[t]]>>
  <2> SUFFICES ASSUME IInv, AllTraced, [Next]_vars PROVE Unmoved \/ Lifecycle!Next
    BY LifeStutters
  <2>1. CASE Client
    <3>1. PICK u \in Tasks : Submit(u) \/ Cancel(u)
      BY <2>1 DEF Client
    <3>2. \/ status[u] = "NEW" /\ status' = [status EXCEPT ![u] = "PENDING"] /\ retry' = retry
          \/ status' = status /\ retry' = retry
      BY <3>1 DEF Submit, Cancel, taskVars
    <3>3. QED
      BY <3>2, LifeMoves DEF IInv, Unmoved
  <2>2. CASE Loop \/ Tracker \/ Supervisor \/ StopStep \/ UNCHANGED vars
    BY <2>2, StopFacts DEF Loop, LoopPoll, LoopNonempty, LoopDequeue, LoopSubmit, LoopFrame,
       Tracker, TrackerPop, TrackerFire, Supervisor, SupervisorDies, Respawn, StopFrame,
       vars, taskVars, Unmoved
  <2>3. CASE \E w \in Workers : Worker(w)
    BY <2>3, WorkerLife
  <2>4. CASE MonitorStep
    BY <2>4, MonitorLife
  <2>5. QED
    BY <2>1, <2>2, <2>3, <2>4 DEF Next
<1>3. QED
  BY <1>1, <1>2, AllTracedInit, AllTracedStep, Invariance, PTL
     DEF Spec, KeepsLifecycle, Lifecycle!Spec

----------------------------------------------------------------------------
(* Sums and counts over a finite set.                                      *)

\* A set of natural numbers that is not empty has a least element.
LEMMA Least ==
    ASSUME NEW T, T \subseteq Nat, T # {}
    PROVE  \E x \in T : \A y \in T : x <= y
<1>1. PICK R : R = OpToRel(<, Nat)
  OBVIOUS
<1>2. IsWellFoundedOn(R, Nat)
  BY <1>1, NatLessThanWellFounded, Zenon
<1>3. \A x, y \in Nat : x < y => <<x, y>> \in R
  BY <1>1 DEF OpToRel
<1>4. PICK x \in T : \A y \in T : ~ (<<y, x>> \in R)
  BY <1>2, WFMin
<1>5. ASSUME NEW y \in T PROVE x <= y
  <2>1. x \in Nat /\ y \in Nat
    OBVIOUS
  <2>2. ~(y < x)
    BY <2>1, <1>3, <1>4
  <2>3. QED
    BY <2>1, <2>2
<1>6. QED
  BY <1>5

\* One element of a set, as the fold of Functions picks it.
Pick(s) == CHOOSE x \in s : TRUE

\* g sums f over the sets of D, the way that fold does.
Sums(g, f, D) ==
    g = [s \in D |-> IF s = {} THEN 0 ELSE f[Pick(s)] + g[s \ {Pick(s)}]]

Small(S, n) == {s \in SUBSET S : Cardinality(s) <= n}

LEMMA PickSmaller ==
    ASSUME NEW S, IsFiniteSet(S), NEW s \in SUBSET S, s # {}
    PROVE  /\ Pick(s) \in s /\ s \ {Pick(s)} \in SUBSET S
           /\ Cardinality(s) \in Nat /\ Cardinality(s \ {Pick(s)}) = Cardinality(s) - 1
           /\ Cardinality(s \ {Pick(s)}) \in Nat
<1>1. Pick(s) \in s
  BY DEF Pick
<1>2. IsFiniteSet(s) /\ IsFiniteSet(s \ {Pick(s)})
  BY FS_Subset, FS_RemoveElement
<1>3. QED
  BY <1>1, <1>2, FS_CardinalityType, FS_RemoveElement

\* There is such a function for the sets of at most n elements ...
LEMMA SumsSmall ==
    ASSUME NEW S, IsFiniteSet(S), NEW f, NEW n \in Nat
    PROVE  \E g : Sums(g, f, Small(S, n))
<1> DEFINE B == {m \in Nat : ~ \E g : Sums(g, f, Small(S, m))}
<1>1. SUFFICES ASSUME B # {} PROVE FALSE
  OBVIOUS
<1>2. PICK m \in B : \A k \in B : m <= k
  <2>1. B \subseteq Nat
    OBVIOUS
  <2> HIDE DEF B
  <2>2. QED
    BY <1>1, <2>1, Least
<1>3. m \in Nat /\ ~ \E g : Sums(g, f, Small(S, m))
  OBVIOUS
<1>4. CASE m = 0
  <2> DEFINE g == [s \in Small(S, m) |-> 0]
  <2>1. ASSUME NEW s \in Small(S, m) PROVE s = {}
    BY <1>4, FS_Subset, FS_CardinalityType, FS_EmptySet DEF Small
  <2>2. Sums(g, f, Small(S, m))
    BY <2>1 DEF Sums
  <2>3. QED
    BY <1>3, <2>2
<1>5. CASE m # 0
  <2>1. m - 1 \in Nat /\ m - 1 \notin B
    BY <1>2, <1>5
  <2>2. PICK g : Sums(g, f, Small(S, m - 1))
    BY <2>1
  <2> DEFINE V(s, e) == IF s = {} THEN 0 ELSE f[Pick(s)] + e[s \ {Pick(s)}]
             h == [s \in Small(S, m) |-> V(s, g)]
  <2>3. \A s \in Small(S, m - 1) : g[s] = V(s, g) /\ s \in Small(S, m)
    <3>1. \A s \in Small(S, m - 1) : g[s] = V(s, g)
      BY <2>2 DEF Sums
    <3>2. ASSUME NEW s \in Small(S, m - 1) PROVE s \in Small(S, m)
      <4>1. Cardinality(s) \in Nat
        BY FS_Subset, FS_CardinalityType DEF Small
      <4>2. QED
        BY <4>1, <1>3 DEF Small
    <3>3. QED
      BY <3>1, <3>2
  <2>4. ASSUME NEW s \in Small(S, m) PROVE V(s, h) = V(s, g)
    <3>1. CASE s = {}
      BY <3>1
    <3>2. CASE s # {}
      <4>1. s \ {Pick(s)} \in Small(S, m - 1)
        BY <3>2, <1>3, PickSmaller DEF Small
      <4>2. h[s \ {Pick(s)}] = g[s \ {Pick(s)}]
        <5>1. PICK r : r = s \ {Pick(s)}
          OBVIOUS
        <5>2. h[r] = V(r, g) /\ g[r] = V(r, g)
          <6>1. r \in Small(S, m - 1) /\ r \in Small(S, m)
            BY <4>1, <5>1, <2>3
          <6> HIDE DEF V
          <6>2. QED
            BY <6>1, <2>3
        <5>3. QED
          BY <5>1, <5>2
      <4> HIDE DEF h
      <4>3. QED
        BY <4>2
    <3>3. QED
      BY <3>1, <3>2
  <2>5. h = [s \in Small(S, m) |-> V(s, h)]
    <3>1. PICK e : e = h
      OBVIOUS
    <3>2. \A s \in Small(S, m) : V(s, e) = V(s, g)
      BY <2>4, <3>1
    <3>3. e = [s \in Small(S, m) |-> V(s, g)]
      BY <3>1
    <3> HIDE DEF V, h
    <3>4. e = [s \in Small(S, m) |-> V(s, e)]
      BY <3>2, <3>3
    <3>5. QED
      BY <3>1, <3>4
  <2>6. Sums(h, f, Small(S, m))
    <3> HIDE DEF h
    <3>1. QED
      BY <2>5 DEF Sums
  <2>7. QED
    BY <1>3, <2>6
<1>6. QED
  BY <1>4, <1>5

\* ... and so for all subsets of a finite set; the community fold is its value.
LEMMA SumOfSet ==
    ASSUME NEW S, IsFiniteSet(S), NEW f
    PROVE  \E g : Sums(g, f, SUBSET S) /\ Funs!SumFunctionOnSet(f, S) = g[S]
<1>1. Cardinality(S) \in Nat
  BY FS_CardinalityType
<1>2. SUBSET S = Small(S, Cardinality(S))
  BY FS_Subset DEF Small
<1>3. \E g : Sums(g, f, SUBSET S)
  <2>1. PICK n \in Nat : SUBSET S = Small(S, n)
    BY <1>1, <1>2
  <2>2. \E g : Sums(g, f, Small(S, n))
    BY SumsSmall
  <2>3. QED
    BY <2>1, <2>2
<1>4. PICK h : h = CHOOSE g : Sums(g, f, SUBSET S)
  OBVIOUS
<1>5. Sums(h, f, SUBSET S)
  BY <1>3, <1>4
<1>6. Funs!SumFunctionOnSet(f, S) = h[S]
  BY <1>4, Zenon DEF Funs!SumFunctionOnSet, Funs!FoldFunctionOnSet, Sums, Pick,
     Funs!MapThenFoldSet
<1>7. QED
  BY <1>5, <1>6

\* Two functions that differ by one at u have sums that differ by one.
LEMMA SumAdds ==
    ASSUME NEW S, IsFiniteSet(S), NEW f \in [S -> Nat], NEW u \in S
    PROVE  /\ Funs!SumFunctionOnSet(f, S) \in Nat
           /\ Funs!SumFunctionOnSet([f EXCEPT ![u] = @ + 1], S)
                = Funs!SumFunctionOnSet(f, S) + 1
<1>0. PICK e : e = [f EXCEPT ![u] = @ + 1]
  OBVIOUS
<1>1. PICK g : Sums(g, f, SUBSET S) /\ Funs!SumFunctionOnSet(f, S) = g[S]
  BY SumOfSet
<1>2. PICK h : Sums(h, e, SUBSET S) /\ Funs!SumFunctionOnSet(e, S) = h[S]
  BY SumOfSet
<1> DEFINE Good(s) == g[s] \in Nat /\ h[s] = IF u \in s THEN g[s] + 1 ELSE g[s]
           B == {m \in Nat : \E s \in SUBSET S : Cardinality(s) = m /\ ~Good(s)}
<1>3. SUFFICES ASSUME ~Good(S) PROVE FALSE
  BY <1>0, <1>1, <1>2
<1>4. B # {}
  BY <1>3, FS_CardinalityType
<1>5. PICK m \in B : \A k \in B : m <= k
  <2>1. B \subseteq Nat
    OBVIOUS
  <2> HIDE DEF B
  <2>2. QED
    BY <1>4, <2>1, Least
<1>6. PICK s \in SUBSET S : Cardinality(s) = m /\ ~Good(s)
  OBVIOUS
<1>7. s # {}
  BY <1>1, <1>2, <1>6 DEF Sums
<1>8. PICK x, r : x = Pick(s) /\ r = s \ {Pick(s)}
  OBVIOUS
<1>9. x \in s /\ r \in SUBSET S /\ Cardinality(r) = m - 1 /\ m - 1 \in Nat
  <2>1. /\ Pick(s) \in s /\ s \ {Pick(s)} \in SUBSET S
        /\ Cardinality(s) \in Nat /\ Cardinality(s \ {Pick(s)}) = Cardinality(s) - 1
        /\ Cardinality(s \ {Pick(s)}) \in Nat
    BY <1>7, PickSmaller, Zenon
  <2>2. QED
    BY <1>6, <1>8, <2>1
<1>10. Good(r)
  <2>1. m - 1 \notin B
    BY <1>5, <1>9
  <2> HIDE DEF Good
  <2>2. QED
    BY <2>1, <1>9
<1>11. g[s] = f[x] + g[r] /\ h[s] = e[x] + h[r]
  BY <1>1, <1>2, <1>7, <1>8 DEF Sums
<1>12. f[x] \in Nat /\ e[x] = IF x = u THEN f[x] + 1 ELSE f[x]
  BY <1>0, <1>9
<1>13. u \in s <=> u = x \/ u \in r
  BY <1>8, <1>9
<1>14. x \notin r
  BY <1>8
<1>15. QED
  BY <1>6, <1>10, <1>11, <1>12, <1>13, <1>14

\* Zeros sum to zero.
LEMMA SumOfZeros ==
    ASSUME NEW S, IsFiniteSet(S)
    PROVE  Funs!SumFunctionOnSet([x \in S |-> 0], S) = 0
<1>0. PICK f : f = [x \in S |-> 0]
  OBVIOUS
<1>1. PICK g : Sums(g, f, SUBSET S) /\ Funs!SumFunctionOnSet(f, S) = g[S]
  BY SumOfSet
<1> DEFINE B == {m \in Nat : \E s \in SUBSET S : Cardinality(s) = m /\ g[s] # 0}
<1>2. SUFFICES ASSUME g[S] # 0 PROVE FALSE
  BY <1>0, <1>1
<1>3. B # {}
  BY <1>2, FS_CardinalityType
<1>4. PICK m \in B : \A k \in B : m <= k
  <2>1. B \subseteq Nat
    OBVIOUS
  <2> HIDE DEF B
  <2>2. QED
    BY <1>3, <2>1, Least
<1>5. PICK s \in SUBSET S : Cardinality(s) = m /\ g[s] # 0
  OBVIOUS
<1>6. s # {}
  BY <1>1, <1>5 DEF Sums
<1>7. PICK x, r : x = Pick(s) /\ r = s \ {Pick(s)}
  OBVIOUS
<1>8. x \in s /\ r \in SUBSET S /\ Cardinality(r) = m - 1 /\ m - 1 \in Nat
  <2>1. /\ Pick(s) \in s /\ s \ {Pick(s)} \in SUBSET S
        /\ Cardinality(s) \in Nat /\ Cardinality(s \ {Pick(s)}) = Cardinality(s) - 1
        /\ Cardinality(s \ {Pick(s)}) \in Nat
    BY <1>6, PickSmaller, Zenon
  <2>2. QED
    BY <1>5, <1>7, <2>1
<1>9. g[r] = 0
  BY <1>4, <1>8
<1>10. g[s] = f[x] + g[r]
  BY <1>1, <1>6, <1>7 DEF Sums
<1>11. QED
  BY <1>0, <1>5, <1>8, <1>9, <1>10

\* Two subsets of a finite set that differ in u at most.
LEMMA CountMoves ==
    ASSUME NEW S, IsFiniteSet(S), NEW A \in SUBSET S, NEW B \in SUBSET S, NEW u \in S,
           A \ {u} = B \ {u}
    PROVE  /\ Cardinality(A) \in Nat /\ Cardinality(B) \in Nat
           /\ Cardinality(B) + (IF u \in A THEN 1 ELSE 0)
                = Cardinality(A) + (IF u \in B THEN 1 ELSE 0)
<1>1. IsFiniteSet(A) /\ IsFiniteSet(B)
  BY FS_Subset
<1>2. Cardinality(A) \in Nat /\ Cardinality(B) \in Nat
  BY <1>1, FS_CardinalityType
<1>3. /\ Cardinality(A \ {u}) = IF u \in A THEN Cardinality(A) - 1 ELSE Cardinality(A)
      /\ Cardinality(B \ {u}) = IF u \in B THEN Cardinality(B) - 1 ELSE Cardinality(B)
  BY <1>1, FS_RemoveElement
<1>4. QED
  BY <1>2, <1>3

----------------------------------------------------------------------------
(* The pool's counters.                                                    *)

With(st) == Cardinality({t \in Tasks : status[t] = st})
Reporting == Cardinality({w \in Workers : pc[w] = "report"})

\* The counters agree after a step that moves one task and one worker if the
\* step's bookkeeping does.
LEMMA CountersMove ==
    ASSUME IsFiniteSet(Tasks), IsFiniteSet(Workers), TypeOK, MetricsAgree,
           NEW u \in Tasks, \A t \in Tasks \ {u} : status'[t] = status[t],
           NEW w \in Workers, \A x \in Workers \ {w} : pc'[x] = pc[x],
           NEW k \in {0, 1},
           attempts' = IF k = 1 THEN [attempts EXCEPT ![u] = @ + 1] ELSE attempts,
           completed' \in Nat, failed' \in Nat,
           completed' + Bit(pc'[w] = "report") + Bit(status[u] = "COMPLETED")
             = completed + Bit(pc[w] = "report") + Bit(status'[u] = "COMPLETED"),
           failed' + Bit(status'[u] = "COMPLETED") + Bit(status'[u] = "RUNNING")
             = failed + Bit(status[u] = "COMPLETED") + Bit(status[u] = "RUNNING") + k
    PROVE  MetricsAgree'
<1>1. /\ completed \in Nat /\ failed \in Nat /\ attempts \in [Tasks -> Nat]
  BY DEF TypeOK, CounterTypes, TaskTypes
<1>3. ASSUME NEW st
      PROVE  /\ With(st) \in Nat /\ With(st)' \in Nat
             /\ With(st)' + Bit(status[u] = st) = With(st) + Bit(status'[u] = st)
  <2>1. PICK A, B : A = {t \in Tasks : status[t] = st} /\ B = {t \in Tasks : status'[t] = st}
    OBVIOUS
  <2>2. A \in SUBSET Tasks /\ B \in SUBSET Tasks /\ A \ {u} = B \ {u}
    BY <2>1
  <2>3. /\ Cardinality(A) \in Nat /\ Cardinality(B) \in Nat
        /\ Cardinality(B) + (IF u \in A THEN 1 ELSE 0)
             = Cardinality(A) + (IF u \in B THEN 1 ELSE 0)
    BY <2>2, CountMoves
  <2>4. /\ Bit(status[u] = st) = IF u \in A THEN 1 ELSE 0
        /\ Bit(status'[u] = st) = IF u \in B THEN 1 ELSE 0
    BY <2>1 DEF Bit
  <2>5. With(st) = Cardinality(A) /\ With(st)' = Cardinality(B)
    BY <2>1 DEF With
  <2>6. QED
    BY <2>3, <2>4, <2>5
<1>4. /\ Reporting \in Nat /\ Reporting' \in Nat
      /\ Reporting' + Bit(pc[w] = "report") = Reporting + Bit(pc'[w] = "report")
  <2>1. PICK A, B : /\ A = {x \in Workers : pc[x] = "report"}
                    /\ B = {x \in Workers : pc'[x] = "report"}
    OBVIOUS
  <2>2. A \in SUBSET Workers /\ B \in SUBSET Workers /\ A \ {w} = B \ {w}
    BY <2>1
  <2>3. /\ Cardinality(A) \in Nat /\ Cardinality(B) \in Nat
        /\ Cardinality(B) + (IF w \in A THEN 1 ELSE 0)
             = Cardinality(A) + (IF w \in B THEN 1 ELSE 0)
    BY <2>2, CountMoves
  <2>4. /\ Bit(pc[w] = "report") = IF w \in A THEN 1 ELSE 0
        /\ Bit(pc'[w] = "report") = IF w \in B THEN 1 ELSE 0
    BY <2>1 DEF Bit
  <2>5. Reporting = Cardinality(A) /\ Reporting' = Cardinality(B)
    BY <2>1 DEF Reporting
  <2>6. QED
    BY <2>3, <2>4, <2>5
<1>5. /\ Funs!SumFunctionOnSet(attempts, Tasks) \in Nat
      /\ Funs!SumFunctionOnSet(attempts', Tasks) = Funs!SumFunctionOnSet(attempts, Tasks) + k
  <2>1. PICK a : a = attempts
    OBVIOUS
  <2>2. /\ Funs!SumFunctionOnSet(a, Tasks) \in Nat
        /\ Funs!SumFunctionOnSet([a EXCEPT ![u] = @ + 1], Tasks)
             = Funs!SumFunctionOnSet(a, Tasks) + 1
    BY <1>1, <2>1, SumAdds
  <2>3. CASE k = 1
    BY <2>1, <2>2, <2>3
  <2>4. CASE k = 0
    BY <2>1, <2>2, <2>4
  <2>5. QED
    BY <2>3, <2>4
<1>6. /\ completed + Reporting = With("COMPLETED")
      /\ failed + With("COMPLETED") + With("RUNNING")
           = Funs!SumFunctionOnSet(attempts, Tasks)
  BY DEF MetricsAgree, With, Reporting
<1>7. /\ completed' + Reporting' = With("COMPLETED")'
      /\ failed' + With("COMPLETED")' + With("RUNNING")'
           = Funs!SumFunctionOnSet(attempts', Tasks)
  <2>1. \A b : Bit(b) \in {0, 1}
    BY DEF Bit
  <2>2. completed' + Reporting' = With("COMPLETED")'
    BY <1>1, <1>3, <1>4, <1>6, <2>1
  <2>3. failed' + With("COMPLETED")' + With("RUNNING")'
           = Funs!SumFunctionOnSet(attempts', Tasks)
    BY <1>1, <1>3, <1>5, <1>6, <2>1
  <2>4. QED
    BY <2>2, <2>3
<1>8. QED
  BY <1>7 DEF MetricsAgree, With, Reporting

\* A step that moves no task and no worker from or to a report.
LEMMA CountersKeep ==
    ASSUME MetricsAgree, UNCHANGED <<status, completed, failed, attempts>>,
           \A w \in Workers : (pc'[w] = "report") <=> (pc[w] = "report")
    PROVE  MetricsAgree'
<1>1. {w \in Workers : pc'[w] = "report"} = {w \in Workers : pc[w] = "report"}
  OBVIOUS
<1>2. QED
  BY <1>1 DEF MetricsAgree

\* The steps of a worker.
LEMMA WorkerCounters ==
    ASSUME IsFiniteSet(Tasks), IsFiniteSet(Workers), Timed = {}, ~StoreFails,
           IInv, AllTraced, MetricsAgree, NEW w \in Workers, Worker(w)
    PROVE  MetricsAgree'
<1> USE ConstantsAssumption
<1>0. TypeOK /\ Control /\ w # Monitor /\ pc \in [Threads -> WorkerPCs \cup MonitorPCs \cup RetryPCs]
      /\ status \in [Tasks -> Statuses] /\ w \in Threads /\ completed \in Nat /\ failed \in Nat
  BY DEF IInv, TypeOK, ThreadTypes, TaskTypes, Threads, CounterTypes
<1>1. PICK u : u = hand[w]
  OBVIOUS
<1>2. ASSUME pc[w] \notin {"new", "get", "dead", "finally"}
      PROVE  /\ u \in Tasks /\ status[u] \in StatusAt(pc[w])
             /\ pc[w] = "except" => status[u] = "RUNNING"
  <2>1. u \in Plain /\ u \in Tasks /\ Working(w, u)
    BY <1>0, <1>1, <1>2 DEF Control, Plain, Working
  <2>2. QED
    BY <2>1 DEF IInv, PlainInv, AllTraced, Traced, Honest
<1>3. CASE WorkerStart(w)
  <2>1. /\ pc[w] = "start" /\ pc' = [pc EXCEPT ![w] = "exec"]
        /\ status' = [status EXCEPT ![u] = "RUNNING"]
        /\ attempts' = [attempts EXCEPT ![u] = @ + 1]
        /\ completed' = completed /\ failed' = failed
    BY <1>1, <1>3 DEF WorkerStart, Goto, metricVars
  <2>2. u \in Tasks /\ status[u] = "PENDING"
    BY <1>2, <2>1 DEF StatusAt
  <2>3. /\ \A t \in Tasks \ {u} : status'[t] = status[t]
        /\ \A x \in Workers \ {w} : pc'[x] = pc[x]
        /\ pc'[w] = "exec" /\ status'[u] = "RUNNING"
    BY <1>0, <2>1, <2>2 DEF Threads
  <2>4. /\ completed' + Bit(pc'[w] = "report") + Bit(status[u] = "COMPLETED")
             = completed + Bit(pc[w] = "report") + Bit(status'[u] = "COMPLETED")
        /\ failed' + Bit(status'[u] = "COMPLETED") + Bit(status'[u] = "RUNNING")
             = failed + Bit(status[u] = "COMPLETED") + Bit(status[u] = "RUNNING") + 1
    BY <1>0, <2>1, <2>2, <2>3 DEF Bit
  <2>5. PICK k \in {0, 1} : k = 1
    OBVIOUS
  <2>6. QED
    BY <1>0, <2>1, <2>2, <2>3, <2>4, <2>5, CountersMove
<1>4. CASE WorkerComplete(w)
  <2>1. /\ pc[w] = "complete" /\ pc' = [pc EXCEPT ![w] = "report"]
        /\ status' = [status EXCEPT ![u] = "COMPLETED"]
        /\ attempts' = attempts
        /\ completed' = completed /\ failed' = failed
    BY <1>1, <1>4 DEF WorkerComplete, Goto, metricVars
  <2>2. u \in Tasks /\ status[u] = "RUNNING"
    BY <1>2, <2>1 DEF StatusAt
  <2>3. /\ \A t \in Tasks \ {u} : status'[t] = status[t]
        /\ \A x \in Workers \ {w} : pc'[x] = pc[x]
        /\ pc'[w] = "report" /\ status'[u] = "COMPLETED"
    BY <1>0, <2>1, <2>2 DEF Threads
  <2>4. /\ completed' + Bit(pc'[w] = "report") + Bit(status[u] = "COMPLETED")
             = completed + Bit(pc[w] = "report") + Bit(status'[u] = "COMPLETED")
        /\ failed' + Bit(status'[u] = "COMPLETED") + Bit(status'[u] = "RUNNING")
             = failed + Bit(status[u] = "COMPLETED") + Bit(status[u] = "RUNNING") + 0
    BY <1>0, <2>1, <2>2, <2>3 DEF Bit
  <2>5. PICK k \in {0, 1} : k = 0
    OBVIOUS
  <2>6. QED
    BY <1>0, <2>1, <2>2, <2>3, <2>4, <2>5, CountersMove
<1>5. CASE WorkerReport(w)
  <2>1. /\ pc[w] = "report" /\ pc' = [pc EXCEPT ![w] = "finally"]
        /\ status' = status /\ attempts' = attempts
        /\ completed' = completed + 1 /\ failed' = failed
    BY <1>1, <1>5 DEF WorkerReport, Goto, taskVars
  <2>2. u \in Tasks
    BY <1>2, <2>1
  <2>3. /\ \A t \in Tasks \ {u} : status'[t] = status[t]
        /\ \A x \in Workers \ {w} : pc'[x] = pc[x]
        /\ pc'[w] = "finally" /\ status'[u] = status[u]
    BY <1>0, <2>1, <2>2 DEF Threads
  <2>4. /\ completed' + Bit(pc'[w] = "report") + Bit(status[u] = "COMPLETED")
             = completed + Bit(pc[w] = "report") + Bit(status'[u] = "COMPLETED")
        /\ failed' + Bit(status'[u] = "COMPLETED") + Bit(status'[u] = "RUNNING")
             = failed + Bit(status[u] = "COMPLETED") + Bit(status[u] = "RUNNING") + 0
    BY <1>0, <2>1, <2>2, <2>3 DEF Bit
  <2>5. PICK k \in {0, 1} : k = 0
    OBVIOUS
  <2>6. QED
    BY <1>0, <2>1, <2>2, <2>3, <2>4, <2>5, CountersMove
<1>6. CASE WorkerExcept(w)
  <2>1. /\ pc[w] = "except" /\ pc' = [pc EXCEPT ![w] = "check"]
        /\ status' = [status EXCEPT ![u] = "FAILED"] /\ attempts' = attempts
        /\ completed' = completed /\ failed' = failed + 1
    BY <1>1, <1>6 DEF WorkerExcept, Goto
  <2>2. u \in Tasks /\ status[u] = "RUNNING"
    BY <1>2, <2>1
  <2>3. /\ \A t \in Tasks \ {u} : status'[t] = status[t]
        /\ \A x \in Workers \ {w} : pc'[x] = pc[x]
        /\ pc'[w] = "check" /\ status'[u] = "FAILED"
    BY <1>0, <2>1, <2>2 DEF Threads
  <2>4. /\ completed' + Bit(pc'[w] = "report") + Bit(status[u] = "COMPLETED")
             = completed + Bit(pc[w] = "report") + Bit(status'[u] = "COMPLETED")
        /\ failed' + Bit(status'[u] = "COMPLETED") + Bit(status'[u] = "RUNNING")
             = failed + Bit(status[u] = "COMPLETED") + Bit(status[u] = "RUNNING") + 0
    BY <1>0, <2>1, <2>2, <2>3 DEF Bit
  <2>5. PICK k \in {0, 1} : k = 0
    OBVIOUS
  <2>6. QED
    BY <1>0, <2>1, <2>2, <2>3, <2>4, <2>5, CountersMove
<1>7. CASE RetryWrite(w)
  <2>1. /\ pc[w] = "write" /\ pc' = [pc EXCEPT ![w] = "delay"]
        /\ status' = [status EXCEPT ![u] = "PENDING"] /\ attempts' = attempts
        /\ completed' = completed /\ failed' = failed
    BY <1>1, <1>7 DEF RetryWrite, Goto, RetryFrame, metricVars
  <2>2. u \in Tasks /\ status[u] = "FAILED"
    BY <1>2, <2>1 DEF StatusAt
  <2>3. /\ \A t \in Tasks \ {u} : status'[t] = status[t]
        /\ \A x \in Workers \ {w} : pc'[x] = pc[x]
        /\ pc'[w] = "delay" /\ status'[u] = "PENDING"
    BY <1>0, <2>1, <2>2 DEF Threads
  <2>4. /\ completed' + Bit(pc'[w] = "report") + Bit(status[u] = "COMPLETED")
             = completed + Bit(pc[w] = "report") + Bit(status'[u] = "COMPLETED")
        /\ failed' + Bit(status'[u] = "COMPLETED") + Bit(status'[u] = "RUNNING")
             = failed + Bit(status[u] = "COMPLETED") + Bit(status[u] = "RUNNING") + 0
    BY <1>0, <2>1, <2>2, <2>3 DEF Bit
  <2>5. PICK k \in {0, 1} : k = 0
    OBVIOUS
  <2>6. QED
    BY <1>0, <2>1, <2>2, <2>3, <2>4, <2>5, CountersMove
<1>8. ASSUME UNCHANGED <<status, completed, failed, attempts>>,
             NEW l, l # "report", pc[w] # "report", pc' = [pc EXCEPT ![w] = l]
      PROVE  MetricsAgree'
  <2>1. \A x \in Workers : (pc'[x] = "report") <=> (pc[x] = "report")
    BY <1>0, <1>8 DEF Threads
  <2>2. QED
    BY <1>8, <2>1, CountersKeep
<1>9. CASE WorkerReturn(w)
  <2>1. pc[w] = "exec" /\ pc' = [pc EXCEPT ![w] = IF status[u] # "FAILED" THEN "complete" ELSE "report"]
        /\ UNCHANGED <<status, completed, failed, attempts>>
    BY <1>1, <1>9 DEF WorkerReturn, Goto, taskVars, metricVars
  <2>2. status[u] = "RUNNING"
    BY <1>2, <2>1 DEF StatusAt
  <2>3. QED
    BY <1>8, <2>1, <2>2
<1>10. CASE WorkerGet(w) \/ WorkerBegin(w) \/ WorkerRaise(w) \/ WorkerQuit(w)
            \/ WorkerFinally(w) \/ WorkerExit(w)
  BY <1>8, <1>10 DEF WorkerGet, WorkerBegin, WorkerRaise, WorkerQuit, WorkerFinally,
     WorkerExit, Goto, taskVars, metricVars
<1>11. CASE RetryCheck(w) \/ RetryRead(w) \/ RetryDelay(w)
  BY <1>0, <1>8, <1>11 DEF RetryCheck, RetryRead, RetryDelay, Leave, RetryFrame, Goto,
     taskVars, metricVars
<1>12. QED
  BY <1>3, <1>4, <1>5, <1>6, <1>7, <1>9, <1>10, <1>11 DEF Worker, RetryStep

\* A submitted task is PENDING; whether there is a worker or not, nothing is
\* counted.
LEMMA ClientCounters ==
    ASSUME TypeOK, MetricsAgree, NEW u \in Tasks, Submit(u)
    PROVE  MetricsAgree'
<1>1. /\ status[u] = "NEW" /\ status' = [status EXCEPT ![u] = "PENDING"]
      /\ UNCHANGED <<completed, failed, attempts, pc>>
  BY DEF Submit, metricVars, threadVars
<1>2. ASSUME NEW st \in {"COMPLETED", "RUNNING"}
      PROVE  {t \in Tasks : status'[t] = st} = {t \in Tasks : status[t] = st}
  BY <1>1 DEF TypeOK, TaskTypes
<1>3. /\ {t \in Tasks : status'[t] = "COMPLETED"} = {t \in Tasks : status[t] = "COMPLETED"}
      /\ {t \in Tasks : status'[t] = "RUNNING"} = {t \in Tasks : status[t] = "RUNNING"}
  BY <1>2
<1>4. QED
  BY <1>1, <1>3 DEF MetricsAgree

\* Before anything happened there is nothing to count.
LEMMA CountersInit ==
    ASSUME IsFiniteSet(Tasks), Init
    PROVE  MetricsAgree
<1> USE ConstantsAssumption
<1>1. /\ {t \in Tasks : status[t] = "COMPLETED"} = {}
      /\ {t \in Tasks : status[t] = "RUNNING"} = {}
  BY DEF Init
<1>2. {w \in Workers : pc[w] = "report"} = {}
  BY DEF Init, Threads
<1>3. Funs!SumFunctionOnSet(attempts, Tasks) = 0
  <2>1. PICK a : a = [t \in Tasks |-> 0]
    OBVIOUS
  <2>2. Funs!SumFunctionOnSet(a, Tasks) = 0
    BY <2>1, SumOfZeros
  <2>3. QED
    BY <2>1, <2>2 DEF Init
<1>4. QED
  <2>1. completed = 0 /\ failed = 0 /\ Cardinality({}) = 0
    BY FS_EmptySet DEF Init
  <2>2. With("COMPLETED") = 0 /\ With("RUNNING") = 0 /\ Reporting = 0
    BY <1>1, <1>2, <2>1, Zenon DEF With, Reporting
  <2>3. /\ completed + Reporting = With("COMPLETED")
        /\ failed + With("COMPLETED") + With("RUNNING")
             = Funs!SumFunctionOnSet(attempts, Tasks)
    BY <1>3, <2>1, <2>2
  <2>4. QED
    BY <2>3, Zenon DEF MetricsAgree, With, Reporting

\* Where no task has a timeout policy and the event store works, the pool's
\* counters tell the truth: completed counts the COMPLETED tasks but those a
\* worker is about to report, failed the attempts that neither completed nor
\* still run.
THEOREM Counting ==
    ASSUME Timed = {}, ~StoreFails, IsFiniteSet(Tasks), IsFiniteSet(Workers)
    PROVE  Spec => []MetricsAgree
<1> USE ConstantsAssumption
<1>1. Init => MetricsAgree
  BY CountersInit
<1>2. IInv /\ AllTraced /\ MetricsAgree /\ [Next]_vars => MetricsAgree'
  <2> SUFFICES ASSUME IInv, AllTraced, MetricsAgree, [Next]_vars PROVE MetricsAgree'
    OBVIOUS
  <2>0. /\ pc \in [Threads -> WorkerPCs \cup MonitorPCs \cup RetryPCs] /\ Control
        /\ status \in [Tasks -> Statuses] /\ completed \in Nat /\ failed \in Nat
        /\ Monitor \in Threads /\ TypeOK
    BY DEF IInv, TypeOK, ThreadTypes, TaskTypes, Threads, CounterTypes
  <2>1. CASE Client
    <3>1. PICK u \in Tasks : Submit(u) \/ Cancel(u)
      BY <2>1 DEF Client
    <3>2. CASE Cancel(u)
      BY <3>2, CountersKeep DEF Cancel, taskVars, metricVars, threadVars
    <3>3. CASE Submit(u)
      BY <2>0, <3>3, ClientCounters
    <3>4. QED
      BY <3>1, <3>2, <3>3
  <2>2. CASE Loop \/ Tracker \/ StopStep \/ SupervisorDies \/ UNCHANGED vars
    <3>1. UNCHANGED <<status, completed, failed, attempts, pc>>
      BY <2>2, StopFacts DEF Loop, LoopPoll, LoopNonempty, LoopDequeue, LoopSubmit,
       LoopFrame, Tracker, TrackerPop, TrackerFire, SupervisorDies, StopFrame, vars,
       taskVars, metricVars, threadVars
    <3>2. QED
      BY <3>1, CountersKeep
  <2>3. CASE \E w \in Workers : Worker(w)
    BY <2>3, WorkerCounters
  <2>4. CASE \E w, v \in Workers : Respawn(w, v)
    <3>1. PICK w \in Workers, v \in Workers : Respawn(w, v)
      BY <2>4
    <3>2. /\ pc[v] = "new" /\ pc' = [pc EXCEPT ![v] = "get"]
          /\ UNCHANGED <<status, completed, failed, attempts>>
      BY <3>1 DEF Respawn, Goto, taskVars, metricVars
    <3>3. \A x \in Workers : (pc'[x] = "report") <=> (pc[x] = "report")
      BY <2>0, <3>2 DEF Threads
    <3>4. QED
      BY <3>2, <3>3, CountersKeep
  <2>5. CASE MonitorStep
    <3>1. pc[Monitor] \notin {"clear", "fail"} \cup RetryPCs
      BY <2>0 DEF Control
    <3>2. UNCHANGED <<status, completed, failed, attempts>>
      BY <2>5, <3>1 DEF MonitorStep, MonitorScan, MonitorClear, MonitorFail, MonitorRest,
       MonitorInspect, MonitorFrame, RetryStep, RetryCheck, RetryRead, RetryWrite, RetryDelay,
       taskVars, metricVars, RetryPCs
    <3>3. \A x \in Workers : pc'[x] = pc[x]
      BY <2>0, <2>5, <3>1 DEF MonitorStep, MonitorScan, MonitorClear, MonitorFail, MonitorRest,
       MonitorInspect, MonitorFrame, RetryStep, RetryCheck, RetryRead, RetryWrite, RetryDelay,
       RetryPCs, Goto, Threads
    <3>4. QED
      BY <3>2, <3>3, CountersKeep
  <2>6. QED
    BY <2>1, <2>2, <2>3, <2>4, <2>5 DEF Next, Supervisor
<1>3. QED
  BY <1>1, <1>2, AllTracedInit, AllTracedStep, Invariance, PTL DEF Spec
=============================================================================
