-------------------------- MODULE TelemetryProofs --------------------------
(***************************************************************************)
(* Proofs about Telemetry, for any tasks and workers: spans nest and close *)
(* as they should, and the counters agree with the log.                    *)
(***************************************************************************)
EXTENDS Telemetry, FiniteSetTheorems, SequenceTheorems, TLAPS

----------------------------------------------------------------------------
(* The invariants.                                                         *)

\* A worker appends the events of its attempt, the monitor those of a timeout,
\* a caller those of its own calls.
WorkerControl(w) ==
    /\ died[w] # None => phase[w] = "free"
    /\ phase[w] = "free" <=> hand[w] = None
    /\ phase[w] = "free" => Quiet(w)
    /\ ~Quiet(w) => /\ event[w].task = hand[w]
                    /\ event[w].kind # "TaskSubmitted"
                    /\ event[w].kind = "TaskStarted" <=> phase[w] = "exec"

MonitorControl ==
    /\ overdue \in Timed \cup {None}
    /\ ~Quiet(Monitor) => event[Monitor].task \in Timed /\ event[Monitor].kind # "TaskStarted"

CallerControl(h) ==
    ~Quiet(h) => \/ /\ event[h].kind = "TaskSubmitted" /\ asked[h] # None
                    /\ event[h].task = asked[h]
                 \/ /\ event[h].kind = "TaskCancelled" /\ asked[h] = None
                    /\ event[h].task \in Nodes

\* A task is submitted once, by one caller.
AskControl ==
    /\ fresh \cap Nodes = {}
    /\ \A h \in Callers : asked[h] # None =>
         /\ asked[h] \notin fresh \cup Nodes
         /\ \A g \in Callers : asked[g] = asked[h] => g = h

BusControl(h) ==
    /\ Quiet(h) => left[h] = {} /\ held[h] = 0
    /\ held[h] # 0 => "obs" \notin left[h]
    /\ ~Quiet(h) /\ event[h].kind = "TaskRetried" => tries[event[h].task] > 0

\* Span ids are those of spans of the task they are used for.
SpanControl ==
    /\ \A h \in Threads : held[h] # 0 => /\ held[h] \in 1..Len(spans)
                                         /\ spans[held[h]].task = event[h].task
    /\ \A t \in Tasks : active[t] # 0 => /\ active[t] \in 1..Len(spans)
                                         /\ spans[active[t]].task = t

Control == /\ \A w \in Workers : WorkerControl(w)
           /\ MonitorControl
           /\ \A h \in Callers : CallerControl(h)
           /\ AskControl
           /\ \A h \in Threads : BusControl(h)
           /\ SpanControl

Base == TypeOK /\ Control

\* Where a worker is with the span of its attempt: it has to start it, ...
ToStart(w) == ~Quiet(w) /\ event[w].kind = "TaskStarted" /\ "obs" \in left[w]

\* ... it has one to be registered, ended or being ended, or it is through.
Current(w) == \/ held[w] # 0
              \/ phase[w] = "exec" /\ ~ToStart(w)
              \/ phase[w] = "end" /\ ~Quiet(w) /\ "obs" \in left[w]

SpanOf(w) == IF held[w] # 0 THEN held[w] ELSE active[hand[w]]

\* Worker w has no later span than i.
Newest(w, i) == \A j \in 1..Len(spans) : spans[j].thread = w => j <= i

\* What a worker is going to end is its own newest span or another's.
Own(w) ==
    Current(w) /\ SpanOf(w) # 0 =>
        /\ spans[SpanOf(w)].thread = w => Newest(w, SpanOf(w))
        /\ held[w] # 0 /\ event[w].kind = "TaskStarted" => spans[held[w]].thread = w

OwnInv == \A w \in Workers : Own(w)

\* A span in a thread's context was started and not ended by that thread, and so
\* were the parents of spans.
ContextInv ==
    \A h \in Threads : context[h] # 0 => /\ context[h] \in 1..Len(spans)
                                         /\ spans[context[h]].thread = h
                                         /\ spans[context[h]].ender # h

ParentInv ==
    \A i \in 1..Len(spans) : spans[i].parent # 0 =>
        /\ spans[i].parent \in 1..(i - 1)
        /\ spans[spans[i].parent].thread = spans[i].thread
        /\ spans[spans[i].parent].ender # spans[i].thread

Nesting == OwnInv /\ ContextInv /\ ParentInv

\* The spans of task t, and those of them that are over as they should be.
SpansOf(t) == {i \in 1..Len(spans) : spans[i].task = t}
Over(i) == ~spans[i].open /\ spans[i].ender = spans[i].thread

\* Task t is being submitted or was cancelled: ...
Pending(t) == \/ t \in fresh
              \/ \E h \in Callers : asked[h] = t \/ (~Quiet(h) /\ event[h].task = t)

\* ... nobody works on it and it has no span.
Unseen(t) == /\ ready[t] = 0 /\ active[t] = 0 /\ SpansOf(t) = {}
             /\ \A w \in Workers : hand[w] # t

\* The one attempt of an undisturbed task.
Attempt(w, t) ==
    /\ ready[t] = 0 /\ ~Exited(t)
    /\ \A v \in Workers : hand[v] = t => v = w
    /\ ToStart(w) => active[t] = 0 /\ SpansOf(t) = {}
    /\ Current(w) => /\ SpanOf(w) # 0 /\ SpansOf(t) = {SpanOf(w)}
                     /\ spans[SpanOf(w)].thread = w /\ spans[SpanOf(w)].open
                     /\ held[w] # 0 => active[t] = 0
    /\ ~ToStart(w) /\ ~Current(w) => active[t] = 0 /\ \A i \in SpansOf(t) : Over(i)

\* Before and after it.
Idle(t) == ~Exited(t) /\ (\A w \in Workers : hand[w] # t) =>
             /\ ready[t] \in {0, 1} /\ active[t] = 0
             /\ ready[t] = 1 => SpansOf(t) = {}
             /\ \A i \in SpansOf(t) : Over(i)

\* After one that ended its thread.
Abandoned(t) == Exited(t) => /\ ready[t] = 0 /\ SpansOf(t) # {}
                             /\ \A i \in SpansOf(t) : spans[i].open

Calm(t) == /\ Idle(t) /\ Abandoned(t) /\ (Pending(t) => Unseen(t))
           /\ \A w \in Workers : hand[w] = t => Attempt(w, t)

CalmInv == \A t \in Tasks : Undisturbed(t) => Calm(t)

\* A thread's context is left with an undisturbed task's span only during its
\* attempt, or after it ended the thread.
Trail(w) ==
    context[w] # 0 /\ Undisturbed(spans[context[w]].task) /\ died[w] = None =>
        hand[w] = spans[context[w]].task /\ Current(w)

Rooted == \A i \in 1..Len(spans) :
            spans[i].parent # 0 => ~Undisturbed(spans[spans[i].parent].task)

TraceInv == Rooted /\ \A w \in Workers : Trail(w)

\* Threads that have yet to call subscriber s with an event of one of the kinds.
Due(kinds, s) == {h \in Threads : ~Quiet(h) /\ event[h].kind \in kinds /\ s \in left[h]}

Failures == {"TaskFailed", "TaskCancelled", "TaskTimedOut"}

CountInv ==
    /\ counter["submitted"] + Cardinality(Due({"TaskSubmitted"}, "obs"))
         = Seen("TaskSubmitted") + Cardinality(Due({"TaskSubmitted"}, "store"))
    /\ counter["started"] + Cardinality(Due({"TaskStarted"}, "obs"))
         = Seen("TaskStarted") + Cardinality(Due({"TaskStarted"}, "store"))
    /\ counter["completed"] + Cardinality(Due({"TaskCompleted"}, "obs"))
         = Seen("TaskCompleted") + Cardinality(Due({"TaskCompleted"}, "store"))
    /\ counter["failed"] + Cardinality(Due(Failures, "obs"))
         = Seen("TaskFailed") + Seen("TaskTimedOut") + Seen("TaskCancelled")
           + Cardinality(Due(Failures, "store"))

----------------------------------------------------------------------------
(* Typing and control.                                                     *)

\* Which counter an event increments (CounterOf), case by case.
LEMMA CounterCases ==
    /\ CounterOf("TaskSubmitted") = "submitted"
    /\ CounterOf("TaskStarted") = "started"
    /\ CounterOf("TaskCompleted") = "completed"
    /\ CounterOf("TaskFailed") = "failed"
    /\ CounterOf("TaskTimedOut") = "failed"
    /\ CounterOf("TaskCancelled") = "failed"
    /\ CounterOf("TaskRetried") = None
  BY Zenon DEF CounterOf

\* What it says of the kind.
LEMMA CounterFacts ==
    ASSUME NEW k \in Kinds
    PROVE  /\ CounterOf(k) \in Counters \cup {None}
           /\ CounterOf(k) = "submitted" <=> k = "TaskSubmitted"
           /\ CounterOf(k) = "started" <=> k = "TaskStarted"
           /\ CounterOf(k) = "completed" <=> k = "TaskCompleted"
           /\ CounterOf(k) = "failed" <=> k \in Failures
           /\ CounterOf(k) = None <=> k = "TaskRetried"
<1>1. None \notin Counters
  BY ConstantsAssumption
<1>2. QED
  BY <1>1, CounterCases DEF Kinds, Counters, Failures

\* An event is a record that is not None.
LEMMA EventFacts ==
    ASSUME TypeOK, NEW h \in Threads, ~Quiet(h)
    PROVE  event[h] \in Events /\ event[h].kind \in Kinds /\ event[h].task \in Tasks
  BY DEF TypeOK, Quiet, Events

\* A new event is a record that is not None.
LEMMA NewEvent ==
    ASSUME NEW k \in Kinds, NEW t \in Tasks
    PROVE  /\ [kind |-> k, task |-> t] \in Events /\ [kind |-> k, task |-> t] # None
           /\ [kind |-> k, task |-> t].kind = k /\ [kind |-> k, task |-> t].task = t
<1>1. [kind |-> k, task |-> t] \in Events
  BY DEF Events
<1>2. QED
  BY <1>1, ConstantsAssumption

\* A span is appended with the next number.
LEMMA SpanAppended ==
    ASSUME NEW s \in Seq(Spans), NEW x \in Spans
    PROVE  /\ Append(s, x) \in Seq(Spans) /\ Len(Append(s, x)) = Len(s) + 1
           /\ Len(s) \in Nat /\ Append(s, x)[Len(s) + 1] = x
           /\ \A j \in 1..Len(s) : Append(s, x)[j] = s[j]
  OBVIOUS

\* Everything starts empty.
LEMMA BaseInit == Init => Base
<1> USE ConstantsAssumption
<1> SUFFICES ASSUME Init PROVE Base
  OBVIOUS
<1>1. TypeOK
  BY DEF Init, TypeOK, Threads
<1>2. Control
  BY DEF Init, Control, WorkerControl, MonitorControl, CallerControl, AskControl, BusControl,
         SpanControl, Quiet, Threads
<1>3. QED
  BY <1>1, <1>2 DEF Base

\* What a worker's or the monitor's own step leaves alone, and the event it
\* leaves the thread with.
EngineFrame == UNCHANGED <<traceVars, logVars>>

EventsKept(h) == \A x \in Threads \ {h} : event'[x] = event[x] /\ left'[x] = left[x]

Appended(h, k, t) ==
    /\ event'[h] \in Events /\ event'[h] # None
    /\ event'[h].kind = k /\ event'[h].task = t /\ left'[h] = Subscribers
    /\ EventsKept(h)

\* An append puts its event in the thread's hands.
LEMMA AppendFacts ==
    ASSUME TypeOK, NEW h \in Threads, NEW k \in Kinds, NEW t \in Tasks, AppendEvent(h, k, t)
    PROVE  /\ Appended(h, k, t)
           /\ event' \in [Threads -> Events \cup {None}]
           /\ left' \in [Threads -> SUBSET Subscribers]
<1>1. PICK e : e = [kind |-> k, task |-> t]
  OBVIOUS
<1>2. e \in Events /\ e # None /\ e.kind = k /\ e.task = t
  BY <1>1, NewEvent
<1>3. event' = [event EXCEPT ![h] = e] /\ left' = [left EXCEPT ![h] = Subscribers]
  BY <1>1 DEF AppendEvent
<1>4. QED
  BY <1>2, <1>3 DEF TypeOK, Appended, EventsKept

\* What a failure handler does.
LEMMA FailureFacts ==
    ASSUME TypeOK, NEW h \in Threads, NEW t \in Tasks, HandleFailure(h, t)
    PROVE  /\ event' \in [Threads -> Events \cup {None}]
           /\ left' \in [Threads -> SUBSET Subscribers]
           /\ ready' \in [Tasks -> Nat] /\ tries' \in [Tasks -> Nat]
           /\ \/ Appended(h, "TaskFailed", t) /\ ready' = ready /\ tries' = tries
              \/ /\ Appended(h, "TaskRetried", t)
                 /\ tries'[t] > 0
                 /\ \A u \in Tasks \ {t} : tries'[u] = tries[u] /\ ready'[u] = ready[u]
<1>1. CASE AppendEvent(h, "TaskRetried", t) /\ tries' = [tries EXCEPT ![t] = @ + 1]
           /\ ready' = [ready EXCEPT ![t] = @ + 1]
  <2>1. "TaskRetried" \in Kinds
    BY DEF Kinds
  <2>2. /\ Appended(h, "TaskRetried", t)
        /\ event' \in [Threads -> Events \cup {None}] /\ left' \in [Threads -> SUBSET Subscribers]
    BY <1>1, <2>1, AppendFacts
  <2>3. /\ tries' \in [Tasks -> Nat] /\ ready' \in [Tasks -> Nat] /\ tries'[t] > 0
        /\ \A u \in Tasks \ {t} : tries'[u] = tries[u] /\ ready'[u] = ready[u]
    BY SMTT(30), <1>1 DEF TypeOK
  <2>4. QED
    BY <2>2, <2>3
<1>2. CASE AppendEvent(h, "TaskFailed", t) /\ ready' = ready /\ tries' = tries
  <2>1. "TaskFailed" \in Kinds
    BY DEF Kinds
  <2>2. QED
    BY <1>2, <2>1, AppendFacts DEF TypeOK
<1>3. QED
  BY <1>1, <1>2 DEF HandleFailure

\* A thread goes on with its event, or is through with it.
LEMMA ProceedFacts ==
    ASSUME TypeOK, NEW h \in Threads, NEW rest \in SUBSET Subscribers, NEW i, Proceed(h, rest, i)
    PROVE  /\ event' \in [Threads -> Events \cup {None}]
           /\ left' \in [Threads -> SUBSET Subscribers]
           /\ EventsKept(h) /\ left'[h] = rest
           /\ rest = {} /\ i = 0 => event'[h] = None
           /\ rest # {} \/ i # 0 => event'[h] = event[h]
  BY DEF TypeOK, Proceed, EventsKept

\* The workers other than w are as they were.
OthersKept(w) == \A v \in Workers \ {w} :
                   hand'[v] = hand[v] /\ phase'[v] = phase[v] /\ died'[v] = died[v]

\* A worker takes a task and appends TaskStarted.
LEMMA TakeFacts ==
    ASSUME Base, NEW w \in Workers, WorkerTake(w)
    PROVE  /\ TypeOK' /\ phase[w] = "free" /\ died[w] = None /\ phase'[w] = "exec" /\ OthersKept(w)
           /\ UNCHANGED <<fresh, asked, tries, died, overdue, traceVars, logVars>>
           /\ \E t \in Tasks : /\ ready[t] > 0 /\ ready'[t] = ready[t] - 1
                               /\ \A u \in Tasks \ {t} : ready'[u] = ready[u]
                               /\ hand'[w] = t /\ Appended(w, "TaskStarted", t)
<1> USE ConstantsAssumption
<1>0. TypeOK /\ w \in Threads
  BY DEF Base, Threads
<1>1. PICK t \in Tasks : /\ phase[w] = "free" /\ died[w] = None /\ ready[t] > 0
                         /\ ready' = [ready EXCEPT ![t] = @ - 1]
                         /\ hand' = [hand EXCEPT ![w] = t]
                         /\ phase' = [phase EXCEPT ![w] = "exec"]
                         /\ clock' = [clock EXCEPT ![w] = TRUE]
                         /\ AppendEvent(w, "TaskStarted", t)
                         /\ UNCHANGED <<fresh, asked, tries, died, overdue, traceVars, logVars>>
  BY DEF WorkerTake
<1>2. "TaskStarted" \in Kinds
  BY DEF Kinds
<1>3. /\ Appended(w, "TaskStarted", t)
      /\ event' \in [Threads -> Events \cup {None}] /\ left' \in [Threads -> SUBSET Subscribers]
  BY <1>0, <1>1, <1>2, AppendFacts
<1>4. /\ ready' \in [Tasks -> Nat] /\ ready'[t] = ready[t] - 1
      /\ \A u \in Tasks \ {t} : ready'[u] = ready[u]
  BY <1>0, <1>1 DEF TypeOK
<1>5. /\ hand' \in [Workers -> Tasks \cup {None}] /\ hand'[w] = t
      /\ phase' \in [Workers -> {"free", "exec", "end"}] /\ phase'[w] = "exec"
      /\ clock' \in [Workers -> BOOLEAN]
      /\ OthersKept(w)
  BY <1>0, <1>1 DEF TypeOK, OthersKept
<1>6. TypeOK'
  BY <1>0, <1>1, <1>3, <1>4, <1>5 DEF TypeOK, traceVars, logVars
<1>7. QED
  BY <1>1, <1>3, <1>4, <1>5, <1>6

\* The code of a worker's task returned or raised.
LEMMA TurnFacts ==
    ASSUME Base, NEW w \in Workers, WorkerReturn(w) \/ WorkerRaise(w)
    PROVE  /\ TypeOK' /\ hand[w] \in Tasks /\ phase[w] = "exec" /\ Quiet(w)
           /\ phase'[w] = "end" /\ OthersKept(w) /\ hand' = hand
           /\ UNCHANGED <<fresh, asked, died, overdue, traceVars, logVars>>
           /\ \/ /\ \E k \in {"TaskCompleted", "TaskFailed"} : Appended(w, k, hand[w])
                 /\ ready' = ready /\ tries' = tries
              \/ /\ Appended(w, "TaskRetried", hand[w]) /\ tries'[hand[w]] > 0
                 /\ \A u \in Tasks \ {hand[w]} : tries'[u] = tries[u] /\ ready'[u] = ready[u]
<1> USE ConstantsAssumption
<1>0. TypeOK /\ w \in Threads /\ WorkerControl(w)
  BY DEF Base, Threads, Control
<1>1. /\ phase[w] = "exec" /\ Quiet(w) /\ phase' = [phase EXCEPT ![w] = "end"]
      /\ UNCHANGED <<fresh, asked, hand, clock, died, overdue, traceVars, logVars>>
  BY DEF WorkerReturn, WorkerRaise
<1>2. hand[w] \in Tasks
  BY <1>0, <1>1 DEF WorkerControl, TypeOK
<1>3. phase' \in [Workers -> {"free", "exec", "end"}] /\ phase'[w] = "end" /\ OthersKept(w)
  BY <1>0, <1>1 DEF TypeOK, OthersKept
<1>4. /\ event' \in [Threads -> Events \cup {None}] /\ left' \in [Threads -> SUBSET Subscribers]
      /\ ready' \in [Tasks -> Nat] /\ tries' \in [Tasks -> Nat]
      /\ \/ /\ \E k \in {"TaskCompleted", "TaskFailed"} : Appended(w, k, hand[w])
            /\ ready' = ready /\ tries' = tries
         \/ /\ Appended(w, "TaskRetried", hand[w]) /\ tries'[hand[w]] > 0
            /\ \A u \in Tasks \ {hand[w]} : tries'[u] = tries[u] /\ ready'[u] = ready[u]
  <2>1. CASE WorkerReturn(w)
    <3>1. "TaskCompleted" \in Kinds
      BY DEF Kinds
    <3>2. AppendEvent(w, "TaskCompleted", hand[w]) /\ ready' = ready /\ tries' = tries
      BY <2>1 DEF WorkerReturn
    <3>3. /\ Appended(w, "TaskCompleted", hand[w])
          /\ event' \in [Threads -> Events \cup {None}]
          /\ left' \in [Threads -> SUBSET Subscribers]
      BY <1>0, <1>2, <3>1, <3>2, AppendFacts
    <3>4. QED
      BY <1>0, <3>2, <3>3 DEF TypeOK
  <2>2. CASE WorkerRaise(w)
    <3>1. HandleFailure(w, hand[w])
      BY <2>2 DEF WorkerRaise
    <3>2. QED
      BY <1>0, <1>2, <3>1, FailureFacts
  <2>3. QED
    BY <2>1, <2>2
<1>5. TypeOK'
  BY <1>0, <1>1, <1>3, <1>4 DEF TypeOK, traceVars, logVars
<1>6. QED
  BY <1>1, <1>2, <1>3, <1>4, <1>5

\* A worker lets go of its task.
LEMMA FinallyFacts ==
    ASSUME Base, NEW w \in Workers, WorkerFinally(w)
    PROVE  /\ TypeOK' /\ phase[w] = "end" /\ Quiet(w)
           /\ phase'[w] = "free" /\ hand'[w] = None /\ OthersKept(w)
           /\ UNCHANGED <<fresh, asked, ready, tries, died, overdue, busVars, traceVars, logVars>>
<1>0. TypeOK
  BY DEF Base
<1>1. /\ phase[w] = "end" /\ Quiet(w)
      /\ UNCHANGED <<fresh, asked, ready, tries, died, overdue, busVars, traceVars, logVars>>
  BY DEF WorkerFinally
<1>2. /\ phase' \in [Workers -> {"free", "exec", "end"}] /\ phase'[w] = "free"
      /\ hand' \in [Workers -> Tasks \cup {None}] /\ hand'[w] = None
      /\ clock' \in [Workers -> BOOLEAN] /\ OthersKept(w)
  BY <1>0 DEF WorkerFinally, TypeOK, OthersKept
<1>3. TypeOK'
  BY <1>0, <1>1, <1>2 DEF TypeOK, busVars, traceVars, logVars
<1>4. QED
  BY <1>1, <1>2, <1>3

\* A worker's thread ends with its task.
LEMMA QuitFacts ==
    ASSUME Base, NEW w \in Workers, WorkerQuit(w)
    PROVE  /\ TypeOK' /\ phase[w] = "exec" /\ Quiet(w) /\ hand[w] \in Tasks
           /\ died[w] = None /\ died'[w] = hand[w]
           /\ phase'[w] = "free" /\ hand'[w] = None /\ OthersKept(w)
           /\ UNCHANGED <<fresh, asked, ready, tries, overdue, busVars, traceVars, logVars>>
<1>0. TypeOK /\ WorkerControl(w)
  BY DEF Base, Control
<1>1. /\ phase[w] = "exec" /\ Quiet(w)
      /\ UNCHANGED <<fresh, asked, ready, tries, overdue, busVars, traceVars, logVars>>
  BY DEF WorkerQuit
<1>2. hand[w] \in Tasks /\ died[w] = None
  BY <1>0, <1>1 DEF WorkerControl, TypeOK
<1>3. /\ phase' \in [Workers -> {"free", "exec", "end"}] /\ phase'[w] = "free"
      /\ hand' \in [Workers -> Tasks \cup {None}] /\ hand'[w] = None
      /\ clock' \in [Workers -> BOOLEAN] /\ OthersKept(w)
      /\ died' \in [Workers -> Tasks \cup {None}] /\ died'[w] = hand[w]
  BY <1>0, <1>2 DEF WorkerQuit, TypeOK, OthersKept
<1>4. TypeOK'
  BY <1>0, <1>1, <1>3 DEF TypeOK, busVars, traceVars, logVars
<1>5. QED
  BY <1>1, <1>2, <1>3, <1>4

\* What a caller's call does to task t.
Submitted(h, t) == /\ t \in fresh /\ fresh' = fresh \ {t} /\ ready' = ready
                   /\ asked[h] = None /\ asked'[h] = t /\ Appended(h, "TaskSubmitted", t)

Scheduled(h, t) == /\ fresh' = fresh /\ asked[h] = t /\ asked'[h] = None
                   /\ ready'[t] = ready[t] + 1 /\ \A u \in Tasks \ {t} : ready'[u] = ready[u]
                   /\ UNCHANGED busVars

Cancelled(h, t) == /\ t \in Nodes /\ ready[t] > 0 /\ asked[h] = None
                   /\ fresh' = fresh /\ asked' = asked
                   /\ ready'[t] = ready[t] - 1 /\ \A u \in Tasks \ {t} : ready'[u] = ready[u]
                   /\ Appended(h, "TaskCancelled", t)

\* A caller submits a task, schedules the one it submitted, or cancels one.
LEMMA CallerFacts ==
    ASSUME Base, NEW h \in Callers, Submit(h) \/ Schedule(h) \/ Cancel(h)
    PROVE  /\ TypeOK' /\ Quiet(h) /\ EventsKept(h)
           /\ \A g \in Callers \ {h} : asked'[g] = asked[g]
           /\ UNCHANGED <<tries, hand, phase, died, overdue, traceVars, logVars>>
           /\ \E t \in Tasks : Submitted(h, t) \/ Scheduled(h, t) \/ Cancelled(h, t)
<1> USE ConstantsAssumption
<1>0. TypeOK /\ h \in Threads
  BY DEF Base, Threads
<1>1. ASSUME NEW t \in fresh, asked[h] = None, Quiet(h),
             fresh' = fresh \ {t}, asked' = [asked EXCEPT ![h] = t],
             AppendEvent(h, "TaskSubmitted", t),
             UNCHANGED <<ready, tries, hand, phase, clock, died, overdue, traceVars, logVars>>
      PROVE  /\ TypeOK' /\ EventsKept(h) /\ Submitted(h, t) /\ t \in Tasks
             /\ \A g \in Callers \ {h} : asked'[g] = asked[g]
  <2>1. t \in Tasks /\ "TaskSubmitted" \in Kinds
    BY <1>0 DEF TypeOK, Kinds
  <2>2. /\ Appended(h, "TaskSubmitted", t)
        /\ event' \in [Threads -> Events \cup {None}] /\ left' \in [Threads -> SUBSET Subscribers]
    BY <1>0, <1>1, <2>1, AppendFacts
  <2>3. /\ fresh' \in SUBSET Tasks /\ asked' \in [Callers -> Tasks \cup {None}] /\ asked'[h] = t
        /\ \A g \in Callers \ {h} : asked'[g] = asked[g]
    BY <1>0, <1>1, <2>1 DEF TypeOK
  <2>4. TypeOK'
    BY <1>0, <1>1, <2>2, <2>3 DEF TypeOK, traceVars, logVars
  <2>5. QED
    BY <1>1, <2>1, <2>2, <2>3, <2>4 DEF Submitted, Appended
<1>2. ASSUME NEW t, t = asked[h], t # None, Quiet(h), Schedule(h)
      PROVE  /\ TypeOK' /\ EventsKept(h) /\ Scheduled(h, t) /\ t \in Tasks
             /\ \A g \in Callers \ {h} : asked'[g] = asked[g]
  <2>1. /\ t \in Tasks /\ ready' = [ready EXCEPT ![t] = @ + 1]
        /\ asked' = [asked EXCEPT ![h] = None]
        /\ UNCHANGED <<fresh, tries, hand, phase, clock, died, overdue, busVars, traceVars, logVars>>
    BY <1>0, <1>2 DEF TypeOK, Schedule
  <2>2. /\ ready' \in [Tasks -> Nat] /\ ready'[t] = ready[t] + 1
        /\ \A u \in Tasks \ {t} : ready'[u] = ready[u]
    BY <1>0, <2>1 DEF TypeOK
  <2>3. /\ asked' \in [Callers -> Tasks \cup {None}] /\ asked'[h] = None
        /\ \A g \in Callers \ {h} : asked'[g] = asked[g]
    BY <1>0, <2>1 DEF TypeOK
  <2>4. TypeOK'
    BY <1>0, <2>1, <2>2, <2>3 DEF TypeOK, busVars, traceVars, logVars
  <2>5. QED
    BY <1>2, <2>1, <2>2, <2>3, <2>4 DEF Scheduled, EventsKept, busVars
<1>3. ASSUME NEW t \in Nodes, asked[h] = None, Quiet(h), ready[t] > 0,
             ready' = [ready EXCEPT ![t] = @ - 1], AppendEvent(h, "TaskCancelled", t),
             UNCHANGED <<fresh, asked, tries, hand, phase, clock, died, overdue, traceVars, logVars>>
      PROVE  TypeOK' /\ EventsKept(h) /\ Cancelled(h, t) /\ t \in Tasks
  <2>1. t \in Tasks /\ "TaskCancelled" \in Kinds
    BY DEF Kinds
  <2>2. /\ Appended(h, "TaskCancelled", t)
        /\ event' \in [Threads -> Events \cup {None}] /\ left' \in [Threads -> SUBSET Subscribers]
    BY <1>0, <1>3, <2>1, AppendFacts
  <2>3. /\ ready' \in [Tasks -> Nat] /\ ready'[t] = ready[t] - 1
        /\ \A u \in Tasks \ {t} : ready'[u] = ready[u]
    BY <1>0, <1>3, <2>1 DEF TypeOK
  <2>4. TypeOK'
    BY <1>0, <1>3, <2>2, <2>3 DEF TypeOK, traceVars, logVars
  <2>5. QED
    BY <1>3, <2>1, <2>2, <2>3, <2>4 DEF Cancelled, Appended
<1>4. CASE Submit(h)
  <2>1. /\ Quiet(h) /\ UNCHANGED <<tries, hand, phase, died, overdue, traceVars, logVars>>
    BY <1>4 DEF Submit
  <2>2. PICK t \in fresh : /\ asked[h] = None /\ Quiet(h)
          /\ fresh' = fresh \ {t} /\ asked' = [asked EXCEPT ![h] = t]
          /\ AppendEvent(h, "TaskSubmitted", t)
          /\ UNCHANGED <<ready, tries, hand, phase, clock, died, overdue, traceVars, logVars>>
    BY <1>4 DEF Submit
  <2>3. QED
    BY <1>1, <2>1, <2>2
<1>5. CASE Schedule(h)
  <2>1. /\ Quiet(h) /\ UNCHANGED <<tries, hand, phase, died, overdue, traceVars, logVars>>
        /\ asked[h] # None
    BY <1>5 DEF Schedule
  <2>2. QED
    BY <1>2, <1>5, <2>1
<1>6. CASE Cancel(h)
  <2>1. /\ Quiet(h) /\ asked' = asked
        /\ UNCHANGED <<tries, hand, phase, died, overdue, traceVars, logVars>>
    BY <1>6 DEF Cancel
  <2>2. PICK t \in Nodes : /\ asked[h] = None /\ Quiet(h) /\ ready[t] > 0
          /\ ready' = [ready EXCEPT ![t] = @ - 1] /\ AppendEvent(h, "TaskCancelled", t)
          /\ UNCHANGED <<fresh, asked, tries, hand, phase, clock, died, overdue, traceVars, logVars>>
    BY <1>6 DEF Cancel
  <2>3. QED
    BY <1>3, <2>1, <2>2
<1>7. QED
  BY <1>4, <1>5, <1>6

\* The monitor finds a task overdue, or fails one.
LEMMA MonitorFacts ==
    ASSUME Base, MonitorFail \/ \E w \in Workers : MonitorExpire(w)
    PROVE  /\ TypeOK' /\ Quiet(Monitor) /\ overdue' \in Timed \cup {None}
           /\ UNCHANGED <<fresh, asked, hand, phase, died, traceVars, logVars>>
           /\ \E t \in Timed :
                \/ /\ \E k \in {"TaskTimedOut", "TaskFailed"} : Appended(Monitor, k, t)
                   /\ ready' = ready /\ tries' = tries
                \/ /\ Appended(Monitor, "TaskRetried", t) /\ tries'[t] > 0
                   /\ \A u \in Tasks \ {t} : tries'[u] = tries[u] /\ ready'[u] = ready[u]
<1> USE ConstantsAssumption
<1>0. TypeOK /\ Monitor \in Threads /\ MonitorControl
  BY DEF Base, Threads, Control
<1>1. CASE MonitorFail
  <2>1. PICK t : t = overdue
    OBVIOUS
  <2>2. /\ t \in Timed /\ Quiet(Monitor) /\ overdue' = None /\ HandleFailure(Monitor, t)
        /\ UNCHANGED <<fresh, asked, hand, phase, clock, died, traceVars, logVars>>
    BY <1>0, <1>1, <2>1 DEF MonitorFail, MonitorControl
  <2>3. /\ event' \in [Threads -> Events \cup {None}]
        /\ left' \in [Threads -> SUBSET Subscribers]
        /\ ready' \in [Tasks -> Nat] /\ tries' \in [Tasks -> Nat]
        /\ \/ Appended(Monitor, "TaskFailed", t) /\ ready' = ready /\ tries' = tries
           \/ /\ Appended(Monitor, "TaskRetried", t)
              /\ tries'[t] > 0
              /\ \A u \in Tasks \ {t} : tries'[u] = tries[u] /\ ready'[u] = ready[u]
    BY <1>0, <2>2, FailureFacts
  <2>4. TypeOK'
    BY <1>0, <2>2, <2>3 DEF TypeOK, traceVars, logVars
  <2>5. QED
    BY <2>2, <2>3, <2>4
<1>2. ASSUME NEW w \in Workers, MonitorExpire(w)
      PROVE  /\ TypeOK' /\ Quiet(Monitor) /\ overdue' \in Timed
             /\ UNCHANGED <<fresh, asked, hand, phase, died, ready, tries, traceVars, logVars>>
             /\ Appended(Monitor, "TaskTimedOut", overdue')
  <2>1. PICK t : t = hand[w]
    OBVIOUS
  <2>2. /\ t \in Timed /\ Quiet(Monitor) /\ overdue' = t
        /\ AppendEvent(Monitor, "TaskTimedOut", t)
        /\ clock' = [clock EXCEPT ![w] = FALSE]
        /\ UNCHANGED <<fresh, asked, hand, phase, died, ready, tries, traceVars, logVars>>
    BY <1>2, <2>1 DEF MonitorExpire
  <2>3. "TaskTimedOut" \in Kinds
    BY DEF Kinds
  <2>4. /\ Appended(Monitor, "TaskTimedOut", t)
        /\ event' \in [Threads -> Events \cup {None}]
        /\ left' \in [Threads -> SUBSET Subscribers]
    BY <1>0, <2>2, <2>3, AppendFacts
  <2>5. clock' \in [Workers -> BOOLEAN]
    BY <1>0, <2>2 DEF TypeOK
  <2>6. TypeOK'
    BY <1>0, <2>2, <2>4, <2>5 DEF TypeOK, traceVars, logVars
  <2>7. QED
    BY <2>2, <2>4, <2>6
<1>3. QED
  BY <1>1, <1>2

\* A thread is through with some of the subscribers, and with its event if none
\* is left and no span is in its hands.
Goes(h, rest) ==
    /\ EventsKept(h) /\ left'[h] = rest
    /\ rest = {} /\ held'[h] = 0 => event'[h] = None
    /\ rest # {} \/ held'[h] # 0 => event'[h] = event[h]

\* The threads other than h have the spans and contexts they had.
SpansKept(h) == \A x \in Threads \ {h} : held'[x] = held[x] /\ context'[x] = context[x]

\* Counter c, and no other, is incremented.
Counted(c) == counter'[c] = counter[c] + 1 /\ \A d \in Counters \ {c} : counter'[d] = counter[d]

\* One more event of thread h's kind is in the log or lost.
Noted(h) == \A k \in Kinds :
              /\ k = event[h].kind => stored'[k] + lost'[k] = stored[k] + lost[k] + 1
              /\ k # event[h].kind => stored'[k] + lost'[k] = stored[k] + lost[k]

\* EventStoreSubscriber was called, and stored the event or raised.
LEMMA StoreFacts ==
    ASSUME Base, NEW h \in Threads, Logged(h) \/ LogRaises(h)
    PROVE  /\ TypeOK' /\ ~Quiet(h) /\ held[h] = 0 /\ "store" \in left[h]
           /\ UNCHANGED <<engineVars, traceVars>>
           /\ Goes(h, left[h] \ {"store"}) /\ Noted(h)
<1>0. TypeOK
  BY DEF Base
<1>1. ~Quiet(h) /\ held[h] = 0 /\ "store" \in left[h] /\ UNCHANGED <<engineVars, traceVars>>
  BY DEF Logged, LogRaises, Calling
<1>2. PICK k : k = event[h].kind
  OBVIOUS
<1>3. k \in Kinds
  BY <1>0, <1>1, <1>2, EventFacts
<1>4. held' = held
  BY <1>1 DEF traceVars
<1>5. left[h] \ {"store"} \in SUBSET Subscribers
  BY <1>0 DEF TypeOK
<1>6. Proceed(h, left[h] \ {"store"}, 0)
  BY <1>1, <1>4 DEF Logged, LogRaises, Called
<1>7. /\ event' \in [Threads -> Events \cup {None}] /\ left' \in [Threads -> SUBSET Subscribers]
      /\ EventsKept(h) /\ left'[h] = left[h] \ {"store"}
      /\ left[h] \ {"store"} = {} => event'[h] = None
      /\ left[h] \ {"store"} # {} => event'[h] = event[h]
  BY <1>0, <1>5, <1>6, ProceedFacts
<1>8. \/ stored' = [stored EXCEPT ![k] = @ + 1] /\ lost' = lost
      \/ lost' = [lost EXCEPT ![k] = @ + 1] /\ stored' = stored
  BY <1>2 DEF Logged, LogRaises
<1>9. /\ stored' \in [Kinds -> Nat] /\ lost' \in [Kinds -> Nat]
      /\ stored'[k] + lost'[k] = stored[k] + lost[k] + 1
      /\ \A x \in Kinds \ {k} : stored'[x] = stored[x] /\ lost'[x] = lost[x]
  <2>1. stored \in [Kinds -> Nat] /\ lost \in [Kinds -> Nat]
    BY <1>0 DEF TypeOK
  <2>2. CASE stored' = [stored EXCEPT ![k] = @ + 1] /\ lost' = lost
    BY <1>3, <2>1, <2>2
  <2>3. CASE lost' = [lost EXCEPT ![k] = @ + 1] /\ stored' = stored
    BY <1>3, <2>1, <2>3
  <2>4. QED
    BY <1>8, <2>2, <2>3
<1>10. Noted(h)
  BY <1>2, <1>9 DEF Noted
<1>11. TypeOK'
  BY <1>0, <1>1, <1>7, <1>9 DEF TypeOK, engineVars, traceVars
<1>12. QED
  BY <1>1, <1>4, <1>7, <1>10, <1>11 DEF Goes

\* ObservabilitySubscriber was called with an event it has no use for.
LEMMA OtherFacts ==
    ASSUME Base, NEW h \in Threads, ObserveOther(h)
    PROVE  /\ TypeOK' /\ ~Quiet(h) /\ held[h] = 0 /\ "obs" \in left[h]
           /\ event[h].kind = "TaskRetried"
           /\ UNCHANGED <<engineVars, traceVars, logVars>>
           /\ Goes(h, left[h] \ {"obs"})
<1>0. TypeOK
  BY DEF Base
<1>1. /\ ~Quiet(h) /\ held[h] = 0 /\ "obs" \in left[h]
      /\ CounterOf(event[h].kind) = None /\ UNCHANGED <<engineVars, traceVars, logVars>>
  BY DEF ObserveOther, Calling
<1>2. event[h].kind = "TaskRetried"
  BY <1>0, <1>1, EventFacts, CounterFacts
<1>3. held' = held
  BY <1>1 DEF traceVars
<1>4. left[h] \ {"obs"} \in SUBSET Subscribers
  BY <1>0 DEF TypeOK
<1>5. Proceed(h, left[h] \ {"obs"}, 0)
  BY <1>1, <1>3 DEF ObserveOther, Called
<1>6. /\ event' \in [Threads -> Events \cup {None}] /\ left' \in [Threads -> SUBSET Subscribers]
      /\ EventsKept(h) /\ left'[h] = left[h] \ {"obs"}
      /\ left[h] \ {"obs"} = {} => event'[h] = None
      /\ left[h] \ {"obs"} # {} => event'[h] = event[h]
  BY <1>0, <1>4, <1>5, ProceedFacts
<1>7. TypeOK'
  BY <1>0, <1>1, <1>6 DEF TypeOK, engineVars, traceVars, logVars
<1>8. QED
  BY <1>1, <1>2, <1>3, <1>6, <1>7 DEF Goes

\* A submission was counted.
LEMMA SubmitFacts ==
    ASSUME Base, NEW h \in Threads, ObserveSubmit(h)
    PROVE  /\ TypeOK' /\ ~Quiet(h) /\ held[h] = 0 /\ "obs" \in left[h]
           /\ event[h].kind = "TaskSubmitted"
           /\ UNCHANGED <<active, held, context, spans, engineVars, logVars>>
           /\ Goes(h, left[h] \ {"obs"}) /\ Counted("submitted")
<1>0. TypeOK
  BY DEF Base
<1>1. /\ ~Quiet(h) /\ held[h] = 0 /\ "obs" \in left[h] /\ event[h].kind = "TaskSubmitted"
      /\ Increment(event[h].kind) /\ Called(h, "obs")
      /\ UNCHANGED <<active, held, context, spans, engineVars, logVars>>
  BY DEF ObserveSubmit, Calling
<1>2. counter' \in [Counters -> Nat] /\ Counted("submitted")
  <2>1. counter' = [counter EXCEPT !["submitted"] = @ + 1]
    BY <1>1, CounterCases DEF Increment
  <2>2. QED
    BY <1>0, <2>1 DEF TypeOK, Counted, Counters
<1>3. left[h] \ {"obs"} \in SUBSET Subscribers
  BY <1>0 DEF TypeOK
<1>4. Proceed(h, left[h] \ {"obs"}, 0)
  BY <1>1 DEF Called
<1>5. /\ event' \in [Threads -> Events \cup {None}] /\ left' \in [Threads -> SUBSET Subscribers]
      /\ EventsKept(h) /\ left'[h] = left[h] \ {"obs"}
      /\ left[h] \ {"obs"} = {} => event'[h] = None
      /\ left[h] \ {"obs"} # {} => event'[h] = event[h]
  BY <1>0, <1>3, <1>4, ProceedFacts
<1>6. TypeOK'
  BY <1>0, <1>1, <1>2, <1>5 DEF TypeOK, engineVars, logVars
<1>7. QED
  BY <1>1, <1>2, <1>5, <1>6 DEF Goes

\* A span was started.
LEMMA StartFacts ==
    ASSUME Base, NEW h \in Threads, ObserveStart(h)
    PROVE  /\ TypeOK' /\ ~Quiet(h) /\ held[h] = 0 /\ "obs" \in left[h]
           /\ event[h].kind = "TaskStarted" /\ h \in Workers /\ died[h] = None
           /\ UNCHANGED <<active, engineVars, logVars>>
           /\ Goes(h, left[h] \ {"obs"}) /\ SpansKept(h) /\ Counted("started")
           /\ held'[h] = Len(spans) + 1 /\ context'[h] = Len(spans) + 1
           /\ Len(spans) \in Nat /\ Len(spans') = Len(spans) + 1
           /\ \A j \in 1..Len(spans) : spans'[j] = spans[j]
           /\ spans'[Len(spans) + 1].task = event[h].task
           /\ spans'[Len(spans) + 1].thread = h
           /\ spans'[Len(spans) + 1].parent = context[h]
           /\ spans'[Len(spans) + 1].ender = None
           /\ spans'[Len(spans) + 1].open
<1> USE ConstantsAssumption
<1>0. TypeOK /\ MonitorControl /\ (\A g \in Callers : CallerControl(g))
      /\ (\A w \in Workers : WorkerControl(w))
  BY DEF Base, Control
<1>1. PICK span : span = [task |-> event[h].task, thread |-> h, parent |-> context[h],
                          open |-> TRUE, ender |-> None]
  OBVIOUS
<1>2. /\ ~Quiet(h) /\ held[h] = 0 /\ "obs" \in left[h] /\ event[h].kind = "TaskStarted"
      /\ Increment(event[h].kind) /\ spans' = Append(spans, span)
      /\ context' = [context EXCEPT ![h] = Len(spans) + 1]
      /\ held' = [held EXCEPT ![h] = Len(spans) + 1]
      /\ Called(h, "obs") /\ UNCHANGED <<active, engineVars, logVars>>
  BY <1>1 DEF ObserveStart, Calling
<1>3. event[h].task \in Tasks /\ h \in Workers /\ died[h] = None
  <2>1. event[h].task \in Tasks
    BY <1>0, <1>2, EventFacts
  <2>2. h \notin Callers
    BY <1>0, <1>2 DEF CallerControl
  <2>3. h \in Workers
    BY <1>0, <1>2, <2>2 DEF MonitorControl, Threads
  <2>4. QED
    BY <1>0, <1>2, <2>1, <2>3 DEF WorkerControl
<1>4. /\ span \in Spans /\ span.task = event[h].task /\ span.thread = h
      /\ span.parent = context[h] /\ span.ender = None /\ span.open
  BY <1>0, <1>1, <1>3 DEF Spans, TypeOK
<1>5. spans \in Seq(Spans)
  BY <1>0 DEF TypeOK
<1>6. /\ spans' \in Seq(Spans) /\ Len(spans') = Len(spans) + 1
      /\ Len(spans) \in Nat /\ spans'[Len(spans) + 1] = span
      /\ \A j \in 1..Len(spans) : spans'[j] = spans[j]
  BY <1>2, <1>4, <1>5, SpanAppended
<1>7. /\ held' \in [Threads -> Nat] /\ context' \in [Threads -> Nat]
      /\ held'[h] = Len(spans) + 1 /\ context'[h] = Len(spans) + 1 /\ SpansKept(h)
  BY <1>0, <1>2, <1>6 DEF TypeOK, SpansKept
<1>8. counter' \in [Counters -> Nat] /\ Counted("started")
  <2>1. counter' = [counter EXCEPT !["started"] = @ + 1]
    BY <1>2, CounterCases DEF Increment
  <2>2. QED
    BY <1>0, <2>1 DEF TypeOK, Counted, Counters
<1>9. left[h] \ {"obs"} \in SUBSET Subscribers
  BY <1>0 DEF TypeOK
<1>10. Proceed(h, left[h] \ {"obs"}, Len(spans) + 1)
  BY <1>2, <1>7 DEF Called
<1>11. PICK i : i = Len(spans) + 1
  OBVIOUS
<1>12. /\ event' \in [Threads -> Events \cup {None}] /\ left' \in [Threads -> SUBSET Subscribers]
       /\ EventsKept(h) /\ left'[h] = left[h] \ {"obs"}
       /\ i # 0 => event'[h] = event[h]
  BY <1>0, <1>9, <1>10, <1>11, ProceedFacts
<1>13. event'[h] = event[h] /\ held'[h] # 0
  BY <1>6, <1>7, <1>11, <1>12
<1>14. TypeOK'
  BY <1>0, <1>2, <1>6, <1>7, <1>8, <1>12 DEF TypeOK, engineVars, logVars
<1>15. QED
  BY <1>2, <1>3, <1>4, <1>6, <1>7, <1>8, <1>12, <1>13, <1>14 DEF Goes

\* A span that was started is registered.
LEMMA RegisterFacts ==
    ASSUME Base, NEW h \in Threads, RegisterSpan(h)
    PROVE  /\ TypeOK' /\ ~Quiet(h) /\ held[h] # 0 /\ event[h].kind = "TaskStarted"
           /\ h \in Workers /\ event[h].task \in Tasks
           /\ UNCHANGED <<context, spans, counter, engineVars, logVars>>
           /\ Goes(h, left[h]) /\ SpansKept(h) /\ held'[h] = 0
           /\ active'[event[h].task] = held[h]
           /\ \A t \in Tasks \ {event[h].task} : active'[t] = active[t]
<1> USE ConstantsAssumption
<1>0. TypeOK /\ MonitorControl /\ BusControl(h) /\ (\A g \in Callers : CallerControl(g))
  BY DEF Base, Control
<1>1. /\ held[h] # 0 /\ event[h].kind = "TaskStarted"
      /\ active' = [active EXCEPT ![event[h].task] = held[h]]
      /\ held' = [held EXCEPT ![h] = 0] /\ Proceed(h, left[h], 0)
      /\ UNCHANGED <<context, spans, counter, engineVars, logVars>>
  BY DEF RegisterSpan
<1>2. ~Quiet(h)
  BY <1>0, <1>1 DEF BusControl
<1>3. event[h].task \in Tasks /\ h \in Workers
  <2>1. event[h].task \in Tasks
    BY <1>0, <1>2, EventFacts
  <2>2. h \notin Callers
    BY <1>0, <1>1, <1>2 DEF CallerControl
  <2>3. QED
    BY <1>0, <1>1, <1>2, <2>1, <2>2 DEF MonitorControl, Threads
<1>4. left[h] \in SUBSET Subscribers
  BY <1>0 DEF TypeOK
<1>5. /\ event' \in [Threads -> Events \cup {None}] /\ left' \in [Threads -> SUBSET Subscribers]
      /\ EventsKept(h) /\ left'[h] = left[h]
      /\ left[h] = {} => event'[h] = None
      /\ left[h] # {} => event'[h] = event[h]
  BY <1>0, <1>1, <1>4, ProceedFacts
<1>6. /\ held' \in [Threads -> Nat] /\ held'[h] = 0 /\ SpansKept(h)
      /\ active' \in [Tasks -> Nat] /\ active'[event[h].task] = held[h]
      /\ \A t \in Tasks \ {event[h].task} : active'[t] = active[t]
  BY <1>0, <1>1, <1>3 DEF TypeOK, SpansKept
<1>7. TypeOK'
  BY <1>0, <1>1, <1>5, <1>6 DEF TypeOK, engineVars, logVars
<1>8. QED
  BY <1>1, <1>2, <1>3, <1>5, <1>6, <1>7 DEF Goes

\* The span of a task that is over is popped.
LEMMA PopFacts ==
    ASSUME Base, NEW h \in Threads, ObserveEnd(h)
    PROVE  /\ TypeOK' /\ ~Quiet(h) /\ held[h] = 0 /\ "obs" \in left[h]
           /\ event[h].kind \in {"TaskCompleted"} \cup Failures
           /\ event[h].task \in Tasks
           /\ UNCHANGED <<context, spans, engineVars, logVars>>
           /\ Goes(h, left[h] \ {"obs"}) /\ SpansKept(h)
           /\ held'[h] = active[event[h].task] /\ active'[event[h].task] = 0
           /\ \A t \in Tasks \ {event[h].task} : active'[t] = active[t]
           /\ event[h].kind = "TaskCompleted" => Counted("completed")
           /\ event[h].kind # "TaskCompleted" => Counted("failed")
<1>0. TypeOK
  BY DEF Base
<1>1. /\ ~Quiet(h) /\ held[h] = 0 /\ "obs" \in left[h]
      /\ CounterOf(event[h].kind) \in {"completed", "failed"}
      /\ Increment(event[h].kind)
      /\ held' = [held EXCEPT ![h] = active[event[h].task]]
      /\ active' = [active EXCEPT ![event[h].task] = 0]
      /\ Called(h, "obs") /\ UNCHANGED <<context, spans, engineVars, logVars>>
  BY DEF ObserveEnd, Calling
<1>2. /\ event[h].kind \in {"TaskCompleted"} \cup Failures
      /\ event[h].task \in Tasks
  BY <1>0, <1>1, EventFacts, CounterFacts
<1>3. /\ held' \in [Threads -> Nat] /\ held'[h] = active[event[h].task] /\ SpansKept(h)
      /\ active' \in [Tasks -> Nat] /\ active'[event[h].task] = 0
      /\ \A t \in Tasks \ {event[h].task} : active'[t] = active[t]
  BY <1>0, <1>1, <1>2 DEF TypeOK, SpansKept
<1>4. left[h] \ {"obs"} \in SUBSET Subscribers
  BY <1>0 DEF TypeOK
<1>5. PICK i : i = held'[h]
  OBVIOUS
<1>6. Proceed(h, left[h] \ {"obs"}, i)
  BY <1>1, <1>5 DEF Called
<1>7. /\ event' \in [Threads -> Events \cup {None}] /\ left' \in [Threads -> SUBSET Subscribers]
      /\ EventsKept(h) /\ left'[h] = left[h] \ {"obs"}
      /\ left[h] \ {"obs"} = {} /\ i = 0 => event'[h] = None
      /\ left[h] \ {"obs"} # {} \/ i # 0 => event'[h] = event[h]
  BY <1>0, <1>4, <1>6, ProceedFacts
<1>8. PICK c : c = CounterOf(event[h].kind)
  OBVIOUS
<1>9. /\ c \in {"completed", "failed"} /\ counter' = [counter EXCEPT ![c] = @ + 1]
      /\ c = "completed" <=> event[h].kind = "TaskCompleted"
  BY <1>0, <1>1, <1>2, <1>8, CounterCases DEF Increment, Failures
<1>10. counter' \in [Counters -> Nat] /\ Counted(c)
  BY <1>0, <1>9 DEF TypeOK, Counted, Counters
<1>11. TypeOK'
  BY <1>0, <1>1, <1>3, <1>7, <1>10 DEF TypeOK, engineVars, logVars
<1>12. QED
  BY <1>1, <1>2, <1>3, <1>5, <1>7, <1>9, <1>10, <1>11 DEF Goes

\* A span was ended.
LEMMA EndFacts ==
    ASSUME Base, NEW h \in Threads, EndSpan(h)
    PROVE  /\ TypeOK' /\ ~Quiet(h) /\ held[h] \in 1..Len(spans)
           /\ event[h].kind # "TaskStarted" /\ event[h].task \in Tasks
           /\ UNCHANGED <<active, counter, engineVars, logVars>>
           /\ Goes(h, left[h]) /\ SpansKept(h) /\ held'[h] = 0
           /\ Len(spans') = Len(spans)
           /\ \A j \in 1..Len(spans) : j # held[h] => spans'[j] = spans[j]
           /\ \A j \in 1..Len(spans) : /\ spans'[j].task = spans[j].task
                                       /\ spans'[j].thread = spans[j].thread
                                       /\ spans'[j].parent = spans[j].parent
           /\ ~spans'[held[h]].open /\ spans'[held[h]].ender = h
           /\ context[h] = held[h] => context'[h] = spans[held[h]].parent
           /\ context[h] # held[h] => context'[h] = context[h]
<1>0. TypeOK /\ SpanControl /\ BusControl(h) /\ spans \in Seq(Spans)
  BY DEF Base, Control, TypeOK
<1>1. PICK i : i = held[h]
  OBVIOUS
<1>2. /\ i # 0 /\ event[h].kind # "TaskStarted"
      /\ spans' = [spans EXCEPT ![i].open = FALSE, ![i].ender = h]
      /\ context' = Restored(h, i) /\ held' = [held EXCEPT ![h] = 0]
      /\ Proceed(h, left[h], 0) /\ UNCHANGED <<active, counter, engineVars, logVars>>
  BY <1>1 DEF EndSpan
<1>3. ~Quiet(h) /\ i \in 1..Len(spans)
  BY <1>0, <1>1, <1>2 DEF BusControl, SpanControl
<1>4. event[h].task \in Tasks /\ spans[i] \in Spans
  BY <1>0, <1>3, EventFacts
<1>5. /\ spans' \in Seq(Spans) /\ Len(spans') = Len(spans)
      /\ \A j \in 1..Len(spans) : j # i => spans'[j] = spans[j]
      /\ \A j \in 1..Len(spans) : /\ spans'[j].task = spans[j].task
                                  /\ spans'[j].thread = spans[j].thread
                                  /\ spans'[j].parent = spans[j].parent
      /\ ~spans'[i].open /\ spans'[i].ender = h
  <2>1. PICK x : x = [[spans[i] EXCEPT !.open = FALSE] EXCEPT !.ender = h]
    OBVIOUS
  <2>2. /\ x \in Spans /\ ~x.open /\ x.ender = h /\ x.task = spans[i].task
        /\ x.thread = spans[i].thread /\ x.parent = spans[i].parent
    BY <1>4, <2>1 DEF Spans
  <2>3. spans' = [spans EXCEPT ![i] = x]
    BY <1>2, <2>1
  <2>4. /\ [spans EXCEPT ![i] = x] \in Seq(Spans)
        /\ Len([spans EXCEPT ![i] = x]) = Len(spans)
        /\ \A j \in 1..Len(spans) :
              [spans EXCEPT ![i] = x][j] = IF j = i THEN x ELSE spans[j]
    <3>1. x \in Spans
      BY <2>2
    <3>2. QED
      BY <1>0, <1>3, <3>1, ExceptSeq
  <2>5. /\ spans' \in Seq(Spans) /\ Len(spans') = Len(spans)
        /\ \A j \in 1..Len(spans) : spans'[j] = IF j = i THEN x ELSE spans[j]
    BY <2>3, <2>4, Zenon
  <2>6. QED
    BY <1>3, <2>2, <2>5
<1>6. /\ held' \in [Threads -> Nat] /\ held'[h] = 0
      /\ \A x \in Threads \ {h} : held'[x] = held[x]
  BY <1>0, <1>2 DEF TypeOK
<1>7. spans[i].parent \in Nat
  BY <1>4 DEF Spans
<1>8. /\ context' \in [Threads -> Nat]
      /\ \A x \in Threads \ {h} : context'[x] = context[x]
      /\ context[h] = i => context'[h] = spans[i].parent
      /\ context[h] # i => context'[h] = context[h]
  BY <1>0, <1>2, <1>7 DEF TypeOK, Restored
<1>9. left[h] \in SUBSET Subscribers
  BY <1>0 DEF TypeOK
<1>10. /\ event' \in [Threads -> Events \cup {None}] /\ left' \in [Threads -> SUBSET Subscribers]
       /\ EventsKept(h) /\ left'[h] = left[h]
       /\ left[h] = {} => event'[h] = None
       /\ left[h] # {} => event'[h] = event[h]
  BY <1>0, <1>2, <1>9, ProceedFacts
<1>11. TypeOK'
  BY <1>0, <1>2, <1>5, <1>6, <1>8, <1>10 DEF TypeOK, engineVars, logVars
<1>12. QED
  BY <1>1, <1>2, <1>3, <1>4, <1>5, <1>6, <1>8, <1>10, <1>11 DEF Goes, SpansKept

\* The control invariant of the threads a step of thread h leaves alone.
LEMMA ControlKept ==
    ASSUME Base, TypeOK', NEW h \in Threads, EventsKept(h),
           OthersKept(h),
           \A g \in Callers \ {h} : asked'[g] = asked[g],
           \A x \in Threads \ {h} : held'[x] = held[x],
           \A t \in Tasks : tries[t] > 0 => tries'[t] > 0
    PROVE  /\ \A v \in Workers \ {h} : WorkerControl(v)'
           /\ \A g \in Callers \ {h} : CallerControl(g)'
           /\ \A x \in Threads \ {h} : BusControl(x)'
           /\ h # Monitor /\ overdue' = overdue => MonitorControl'
<1>0. TypeOK /\ Control
  BY DEF Base
<1>1. ASSUME NEW v \in Workers \ {h} PROVE WorkerControl(v)'
  <2>1. WorkerControl(v) /\ v \in Threads \ {h}
    BY <1>0 DEF Control, Threads
  <2>2. event'[v] = event[v] /\ hand'[v] = hand[v] /\ phase'[v] = phase[v] /\ died'[v] = died[v]
    BY <2>1 DEF EventsKept, OthersKept
  <2>3. QED
    BY <2>1, <2>2 DEF WorkerControl, Quiet
<1>2. ASSUME NEW x \in Threads \ {h} PROVE BusControl(x)'
  <2>1. BusControl(x)
    BY <1>0 DEF Control
  <2>2. event'[x] = event[x] /\ left'[x] = left[x] /\ held'[x] = held[x]
    BY DEF EventsKept
  <2>3. ~Quiet(x) => event[x].task \in Tasks
    BY <1>0, EventFacts
  <2>4. QED
    BY <2>1, <2>2, <2>3 DEF BusControl, Quiet
<1>3. ASSUME h # Monitor, overdue' = overdue PROVE MonitorControl'
  <2>1. event'[Monitor] = event[Monitor] /\ MonitorControl
    BY <1>0, <1>3 DEF EventsKept, Threads, Control
  <2>2. QED
    BY <1>3, <2>1 DEF MonitorControl, Quiet
<1>4. ASSUME NEW g \in Callers \ {h} PROVE CallerControl(g)'
  <2>1. CallerControl(g) /\ g \in Threads \ {h}
    BY <1>0 DEF Control, Threads
  <2>2. event'[g] = event[g] /\ asked'[g] = asked[g]
    BY <2>1 DEF EventsKept
  <2>3. QED
    BY <2>1, <2>2 DEF CallerControl, Quiet
<1>5. QED
  BY <1>1, <1>2, <1>3, <1>4

\* What is asked for stays, too.
LEMMA AskKept ==
    ASSUME AskControl, UNCHANGED <<fresh, asked>>
    PROVE  AskControl'
  BY DEF AskControl

\* Span ids stay those of spans of their tasks.
LEMMA SpansStay ==
    ASSUME Base, TypeOK', NEW h \in Threads, EventsKept(h),
           \A x \in Threads \ {h} : held'[x] = held[x],
           Len(spans') >= Len(spans),
           \A j \in 1..Len(spans) : spans'[j].task = spans[j].task,
           held'[h] # 0 => /\ held'[h] \in 1..Len(spans')
                           /\ spans'[held'[h]].task = event'[h].task,
           \A t \in Tasks : \/ active'[t] = active[t] \/ active'[t] = 0
                            \/ /\ active'[t] \in 1..Len(spans')
                               /\ spans'[active'[t]].task = t
    PROVE  SpanControl'
<1>0. SpanControl /\ Len(spans) \in Nat /\ Len(spans') \in Nat
  BY SMTT(30) DEF Base, Control, TypeOK
<1>1. ASSUME NEW x \in Threads, held'[x] # 0
      PROVE  held'[x] \in 1..Len(spans') /\ spans'[held'[x]].task = event'[x].task
  <2>1. CASE x = h
    BY <1>1, <2>1
  <2>2. CASE x # h
    <3>1. held'[x] = held[x] /\ event'[x] = event[x]
      BY <2>2 DEF EventsKept
    <3>2. held[x] \in 1..Len(spans) /\ spans[held[x]].task = event[x].task
      BY <1>0, <1>1, <3>1 DEF SpanControl
    <3>3. QED
      BY <1>0, <3>1, <3>2
  <2>3. QED
    BY <2>1, <2>2
<1>2. ASSUME NEW t \in Tasks, active'[t] # 0
      PROVE  active'[t] \in 1..Len(spans') /\ spans'[active'[t]].task = t
  <2>1. CASE active'[t] = active[t]
    <3>1. active[t] \in 1..Len(spans) /\ spans[active[t]].task = t
      BY <1>0, <1>2, <2>1 DEF SpanControl
    <3>2. QED
      BY <1>0, <2>1, <3>1
  <2>2. QED
    BY <1>2, <2>1
<1>3. QED
  BY <1>1, <1>2 DEF SpanControl

\* The steps of a worker on its attempt keep the invariant.
LEMMA WorkerBase ==
    ASSUME Base, NEW w \in Workers,
           WorkerTake(w) \/ WorkerReturn(w) \/ WorkerRaise(w) \/ WorkerFinally(w) \/ WorkerQuit(w)
    PROVE  Base'
<1> USE ConstantsAssumption
<1>0. TypeOK /\ Control /\ w \in Threads /\ w # Monitor
  BY DEF Base, Threads
<1>1. WorkerControl(w) /\ BusControl(w)
  BY <1>0 DEF Control
<1>2. Quiet(w) /\ held[w] = 0 /\ left[w] = {}
  <2>1. CASE WorkerTake(w)
    BY <1>1, <2>1, TakeFacts DEF WorkerControl, BusControl
  <2>2. CASE WorkerReturn(w) \/ WorkerRaise(w)
    BY <1>1, <2>2, TurnFacts DEF BusControl
  <2>3. CASE WorkerFinally(w) \/ WorkerQuit(w)
    BY <1>1, <2>3, FinallyFacts, QuitFacts DEF BusControl
  <2>4. QED
    BY <2>1, <2>2, <2>3
<1>3. /\ TypeOK' /\ EventsKept(w) /\ OthersKept(w)
      /\ UNCHANGED <<fresh, asked, overdue, traceVars, logVars>>
      /\ \A t \in Tasks : tries[t] > 0 => tries'[t] > 0
      /\ WorkerControl(w)'
      /\ event'[w] # None /\ event'[w].kind = "TaskRetried" => tries'[event'[w].task] > 0
  <2>1. CASE WorkerTake(w)
    BY <2>1, TakeFacts DEF Appended, WorkerControl, Quiet
  <2>2. CASE WorkerReturn(w) \/ WorkerRaise(w)
    <3>1. PICK t : t = hand[w]
      OBVIOUS
    <3>2. /\ TypeOK' /\ t \in Tasks /\ phase[w] = "exec" /\ phase'[w] = "end"
          /\ OthersKept(w) /\ hand'[w] = t
          /\ UNCHANGED <<fresh, asked, died, overdue, traceVars, logVars>>
          /\ \/ \E k \in {"TaskCompleted", "TaskFailed"} : Appended(w, k, t) /\ tries' = tries
             \/ /\ Appended(w, "TaskRetried", t) /\ tries'[t] > 0
                /\ \A u \in Tasks \ {t} : tries'[u] = tries[u]
      BY <2>2, <3>1, TurnFacts
    <3>3. /\ EventsKept(w) /\ event'[w] # None /\ event'[w].task = t
          /\ event'[w].kind \notin {"TaskStarted", "TaskSubmitted"}
          /\ event'[w].kind = "TaskRetried" => tries'[t] > 0
          /\ \A u \in Tasks : tries[u] > 0 => tries'[u] > 0
      BY <3>2 DEF Appended
    <3>4. WorkerControl(w)'
      BY <1>1, <3>2, <3>3 DEF WorkerControl, Quiet
    <3>5. QED
      BY <3>2, <3>3, <3>4
  <2>3. CASE WorkerFinally(w) \/ WorkerQuit(w)
    <3>1. /\ TypeOK' /\ phase'[w] = "free" /\ hand'[w] = None /\ OthersKept(w)
          /\ UNCHANGED <<fresh, asked, ready, tries, overdue, busVars, traceVars, logVars>>
      BY <2>3, FinallyFacts, QuitFacts
    <3>2. event' = event /\ left' = left
      BY <3>1 DEF busVars
    <3>3. WorkerControl(w)'
      BY <1>2, <3>1, <3>2 DEF WorkerControl, Quiet
    <3>4. QED
      BY <1>2, <3>1, <3>2, <3>3 DEF EventsKept, Quiet
  <2>4. QED
    BY <2>1, <2>2, <2>3
<1>4. held' = held /\ active' = active /\ spans' = spans /\ held'[w] = 0
  BY <1>2, <1>3 DEF traceVars
<1>5. /\ \A v \in Workers \ {w} : WorkerControl(v)'
      /\ \A x \in Threads \ {w} : BusControl(x)'
      /\ \A g \in Callers : CallerControl(g)'
      /\ MonitorControl' /\ AskControl'
  <2>1. AskControl'
    BY <1>0, <1>3, AskKept DEF Control
  <2>2. Callers \ {w} = Callers
    OBVIOUS
  <2>3. QED
    BY <1>0, <1>3, <1>4, <2>1, <2>2, ControlKept
<1>6. BusControl(w)'
  <2>1. event'[w] = None => left'[w] = {}
    <3>1. CASE WorkerTake(w)
      BY <3>1, TakeFacts DEF Appended
    <3>2. CASE WorkerReturn(w) \/ WorkerRaise(w)
      BY <3>2, TurnFacts DEF Appended
    <3>3. CASE WorkerFinally(w) \/ WorkerQuit(w)
      BY <1>2, <3>3, FinallyFacts, QuitFacts DEF busVars
    <3>4. QED
      BY <3>1, <3>2, <3>3
  <2>2. QED
    BY <1>3, <1>4, <2>1 DEF BusControl, Quiet
<1>7. SpanControl'
  <2>1. Len(spans) \in Nat
    BY <1>0 DEF TypeOK
  <2>2. QED
    BY <1>0, <1>3, <1>4, <2>1, SpansStay
<1>8. QED
  BY <1>3, <1>5, <1>6, <1>7 DEF Base, Control

\* So do the monitor's.
LEMMA MonitorBase ==
    ASSUME Base, MonitorFail \/ \E w \in Workers : MonitorExpire(w)
    PROVE  Base'
<1> USE ConstantsAssumption
<1>0. /\ TypeOK /\ Control /\ Monitor \in Threads
      /\ Workers \ {Monitor} = Workers /\ Callers \ {Monitor} = Callers
  BY DEF Base, Threads
<1>1. PICK t \in Timed :
        \/ /\ \E k \in {"TaskTimedOut", "TaskFailed"} : Appended(Monitor, k, t)
           /\ ready' = ready /\ tries' = tries
        \/ /\ Appended(Monitor, "TaskRetried", t) /\ tries'[t] > 0
           /\ \A u \in Tasks \ {t} : tries'[u] = tries[u] /\ ready'[u] = ready[u]
  BY MonitorFacts
<1>2. /\ TypeOK' /\ Quiet(Monitor) /\ overdue' \in Timed \cup {None}
      /\ UNCHANGED <<fresh, asked, hand, phase, died, traceVars, logVars>>
  BY MonitorFacts
<1>3. /\ EventsKept(Monitor) /\ event'[Monitor] # None /\ event'[Monitor].task = t
      /\ event'[Monitor].kind # "TaskStarted" /\ left'[Monitor] = Subscribers
      /\ event'[Monitor].kind = "TaskRetried" => tries'[t] > 0
      /\ \A u \in Tasks : tries[u] > 0 => tries'[u] > 0
  BY <1>1 DEF Appended
<1>4. BusControl(Monitor)
  BY <1>0 DEF Control
<1>5. held' = held /\ active' = active /\ spans' = spans /\ held'[Monitor] = 0
  BY <1>2, <1>4 DEF traceVars, BusControl
<1>6. /\ \A v \in Workers \ {Monitor} : WorkerControl(v)'
      /\ \A g \in Callers \ {Monitor} : CallerControl(g)'
      /\ \A x \in Threads \ {Monitor} : BusControl(x)'
      /\ AskControl'
  BY <1>0, <1>2, <1>3, <1>5, ControlKept, AskKept DEF OthersKept, Control
<1>7. MonitorControl' /\ BusControl(Monitor)'
  BY <1>2, <1>3, <1>5 DEF MonitorControl, BusControl, Quiet
<1>8. SpanControl'
  <2>1. Len(spans) \in Nat
    BY <1>0 DEF TypeOK
  <2>2. QED
    BY <1>0, <1>2, <1>3, <1>5, <2>1, SpansStay
<1>9. QED
  BY <1>0, <1>2, <1>6, <1>7, <1>8 DEF Base, Control

\* And the callers'.
LEMMA CallerBase ==
    ASSUME Base, NEW h \in Callers, Submit(h) \/ Schedule(h) \/ Cancel(h)
    PROVE  Base'
<1> USE ConstantsAssumption
<1>0. /\ TypeOK /\ Control /\ h \in Threads /\ h # Monitor /\ Workers \ {h} = Workers
      /\ AskControl /\ BusControl(h) /\ CallerControl(h)
  BY DEF Base, Threads, Control
<1>1. /\ TypeOK' /\ Quiet(h) /\ EventsKept(h)
      /\ \A g \in Callers \ {h} : asked'[g] = asked[g]
      /\ UNCHANGED <<tries, hand, phase, died, overdue, traceVars, logVars>>
  BY CallerFacts
<1>2. PICK t \in Tasks : Submitted(h, t) \/ Scheduled(h, t) \/ Cancelled(h, t)
  BY CallerFacts
<1>3. held' = held /\ active' = active /\ spans' = spans /\ held'[h] = 0 /\ left[h] = {}
  BY <1>0, <1>1 DEF traceVars, BusControl
<1>4. CallerControl(h)' /\ BusControl(h)'
  <2>1. CASE Submitted(h, t)
    <3>1. /\ event'[h] # None /\ event'[h].kind = "TaskSubmitted" /\ event'[h].task = t
          /\ asked'[h] = t
      BY <2>1 DEF Submitted, Appended
    <3>2. QED
      BY <1>3, <3>1 DEF CallerControl, BusControl, Quiet
  <2>2. CASE Scheduled(h, t)
    BY <1>1, <1>3, <2>2 DEF Scheduled, busVars, CallerControl, BusControl, Quiet
  <2>3. CASE Cancelled(h, t)
    <3>1. /\ event'[h] # None /\ event'[h].kind = "TaskCancelled" /\ event'[h].task = t
          /\ asked'[h] = None /\ t \in Nodes
      BY <2>3 DEF Cancelled, Appended
    <3>2. QED
      BY <1>3, <3>1 DEF CallerControl, BusControl, Quiet
  <2>4. QED
    BY <1>2, <2>1, <2>2, <2>3
<1>5. AskControl'
  <2>1. CASE Submitted(h, t)
    <3>1. t \in fresh /\ fresh' = fresh \ {t} /\ asked'[h] = t
      BY <2>1 DEF Submitted
    <3>2. fresh \cap Nodes = {} /\ \A g \in Callers : asked[g] # t
      BY <1>0, <3>1 DEF AskControl
    <3>3. ASSUME NEW g \in Callers, asked'[g] # None
          PROVE  /\ asked'[g] \notin fresh' \cup Nodes
                 /\ \A x \in Callers : asked'[x] = asked'[g] => x = g
      <4>1. CASE g = h
        BY <1>1, <3>1, <3>2, <4>1
      <4>2. CASE g # h
        <5>1. asked'[g] = asked[g]
          BY <1>1, <4>2
        <5>2. /\ asked[g] \notin fresh \cup Nodes
              /\ \A x \in Callers : asked[x] = asked[g] => x = g
          BY <1>0, <3>3, <5>1 DEF AskControl
        <5>3. QED
          BY <1>1, <3>1, <3>2, <5>1, <5>2
      <4>3. QED
        BY <4>1, <4>2
    <3>4. QED
      BY <3>1, <3>2, <3>3 DEF AskControl
  <2>2. CASE Scheduled(h, t)
    <3>1. fresh' = fresh /\ asked'[h] = None
      BY <2>2 DEF Scheduled
    <3>2. QED
      BY <1>0, <1>1, <3>1 DEF AskControl
  <2>3. CASE Cancelled(h, t)
    BY <1>0, <2>3, AskKept DEF Cancelled
  <2>4. QED
    BY <1>2, <2>1, <2>2, <2>3
<1>6. /\ \A v \in Workers \ {h} : WorkerControl(v)'
      /\ \A g \in Callers \ {h} : CallerControl(g)'
      /\ \A x \in Threads \ {h} : BusControl(x)'
      /\ MonitorControl'
  BY <1>0, <1>1, <1>3, ControlKept DEF OthersKept
<1>7. SpanControl'
  <2>1. Len(spans) \in Nat
    BY <1>0 DEF TypeOK
  <2>2. QED
    BY <1>0, <1>1, <1>3, <2>1, SpansStay
<1>8. QED
  BY <1>0, <1>1, <1>4, <1>5, <1>6, <1>7 DEF Base, Control

\* And so does a call of a subscriber.
LEMMA CallBase ==
    ASSUME Base, TypeOK', NEW h \in Threads, ~Quiet(h), UNCHANGED engineVars,
           NEW rest, Goes(h, rest), held'[h] # 0 => "obs" \notin rest,
           \A x \in Threads \ {h} : held'[x] = held[x],
           SpanControl'
    PROVE  Base'
<1> USE ConstantsAssumption
<1>0. TypeOK /\ Control
  BY DEF Base
<1>1. /\ hand' = hand /\ phase' = phase /\ tries' = tries /\ overdue' = overdue
      /\ died' = died /\ fresh' = fresh /\ asked' = asked
  BY DEF engineVars
<1>2. /\ EventsKept(h) /\ left'[h] = rest
      /\ rest = {} /\ held'[h] = 0 => event'[h] = None
      /\ rest # {} \/ held'[h] # 0 => event'[h] = event[h]
  BY DEF Goes
<1>3. \/ event'[h] = None /\ rest = {} /\ held'[h] = 0
      \/ event'[h] = event[h] /\ event'[h] # None
  BY <1>2 DEF Quiet
<1>4. /\ \A v \in Workers \ {h} : WorkerControl(v)'
      /\ \A g \in Callers \ {h} : CallerControl(g)'
      /\ \A x \in Threads \ {h} : BusControl(x)'
      /\ h # Monitor => MonitorControl'
      /\ AskControl'
  BY <1>0, <1>1, <1>2, ControlKept, AskKept DEF OthersKept, Control
<1>5. BusControl(h)'
  <2>1. BusControl(h)
    BY <1>0 DEF Control
  <2>2. QED
    BY <1>1, <1>2, <1>3, <2>1 DEF BusControl, Quiet
<1>6. h \in Workers => WorkerControl(h)'
  <2>1. h \in Workers => WorkerControl(h)
    BY <1>0 DEF Control
  <2>2. QED
    BY <1>1, <1>3, <2>1 DEF WorkerControl, Quiet
<1>7. MonitorControl'
  <2>1. MonitorControl
    BY <1>0 DEF Control
  <2>2. CASE h = Monitor
    BY <1>1, <1>3, <2>1, <2>2 DEF MonitorControl, Quiet
  <2>3. QED
    BY <1>4, <2>2
<1>8. h \in Callers => CallerControl(h)'
  <2>1. h \in Callers => CallerControl(h)
    BY <1>0 DEF Control
  <2>2. QED
    BY <1>1, <1>3, <2>1 DEF CallerControl, Quiet
<1>9. QED
  BY <1>4, <1>5, <1>6, <1>7, <1>8 DEF Base, Control

\* The call of a subscriber that leaves the spans alone.
LEMMA PassBase ==
    ASSUME Base, NEW h \in Threads,
           Logged(h) \/ LogRaises(h) \/ ObserveOther(h) \/ ObserveSubmit(h)
    PROVE  Base'
<1>0. TypeOK /\ Control /\ Len(spans) \in Nat
  BY DEF Base, TypeOK
<1>1. PICK s \in Subscribers :
        /\ TypeOK' /\ ~Quiet(h) /\ held[h] = 0
        /\ UNCHANGED <<engineVars, held, active, spans>> /\ Goes(h, left[h] \ {s})
  BY StoreFacts, OtherFacts, SubmitFacts DEF Subscribers, traceVars
<1>2. UNCHANGED engineVars /\ held' = held /\ active' = active /\ spans' = spans
  BY <1>1
<1>3. PICK rest : rest = left[h] \ {s}
  OBVIOUS
<1>4. Goes(h, rest) /\ EventsKept(h)
  BY <1>1, <1>3 DEF Goes
<1>5. SpanControl'
  BY <1>0, <1>1, <1>2, <1>4, SpansStay
<1>6. QED
  BY <1>0, <1>1, <1>2, <1>4, <1>5, CallBase

\* The steps with spans.
LEMMA SpanBase ==
    ASSUME Base, NEW h \in Threads,
           ObserveStart(h) \/ RegisterSpan(h) \/ ObserveEnd(h) \/ EndSpan(h)
    PROVE  Base'
<1>0. TypeOK /\ Control /\ Len(spans) \in Nat
  BY DEF Base, TypeOK
<1>1. SpanControl /\ BusControl(h)
  BY <1>0 DEF Control
<1>2. CASE ObserveStart(h)
  <2>1. /\ TypeOK' /\ ~Quiet(h) /\ UNCHANGED <<active, engineVars, logVars>>
        /\ Goes(h, left[h] \ {"obs"}) /\ SpansKept(h)
        /\ held'[h] = Len(spans) + 1 /\ Len(spans') = Len(spans) + 1
        /\ \A j \in 1..Len(spans) : spans'[j] = spans[j]
        /\ spans'[Len(spans) + 1].task = event[h].task
    BY <1>2, StartFacts
  <2>2. PICK rest : rest = left[h] \ {"obs"}
    OBVIOUS
  <2>3. /\ Goes(h, rest) /\ "obs" \notin rest /\ EventsKept(h) /\ event'[h] = event[h]
        /\ \A x \in Threads \ {h} : held'[x] = held[x]
        /\ UNCHANGED engineVars /\ active' = active
    BY <1>0, <2>1, <2>2 DEF Goes, SpansKept
  <2>4. SpanControl'
    BY <1>0, <2>1, <2>3, SpansStay
  <2>5. QED
    BY <2>1, <2>3, <2>4, CallBase
<1>3. CASE RegisterSpan(h)
  <2>1. /\ TypeOK' /\ ~Quiet(h) /\ held[h] # 0 /\ event[h].task \in Tasks
        /\ UNCHANGED <<context, spans, counter, engineVars, logVars>>
        /\ Goes(h, left[h]) /\ SpansKept(h) /\ held'[h] = 0
        /\ active'[event[h].task] = held[h]
        /\ \A t \in Tasks \ {event[h].task} : active'[t] = active[t]
    BY <1>3, RegisterFacts
  <2>2. PICK rest : rest = left[h]
    OBVIOUS
  <2>3. /\ Goes(h, rest) /\ EventsKept(h) /\ spans' = spans /\ UNCHANGED engineVars
        /\ \A x \in Threads \ {h} : held'[x] = held[x]
    BY <2>1, <2>2 DEF Goes, SpansKept
  <2>4. held[h] \in 1..Len(spans) /\ spans[held[h]].task = event[h].task
    BY <1>1, <2>1 DEF SpanControl
  <2>5. SpanControl'
    BY <1>0, <2>1, <2>3, <2>4, SpansStay
  <2>6. QED
    BY <2>1, <2>3, <2>5, CallBase
<1>4. CASE ObserveEnd(h)
  <2>1. /\ TypeOK' /\ ~Quiet(h) /\ event[h].task \in Tasks
        /\ UNCHANGED <<context, spans, engineVars, logVars>>
        /\ Goes(h, left[h] \ {"obs"}) /\ SpansKept(h)
        /\ held'[h] = active[event[h].task] /\ active'[event[h].task] = 0
        /\ \A t \in Tasks \ {event[h].task} : active'[t] = active[t]
    BY <1>4, PopFacts
  <2>2. PICK rest : rest = left[h] \ {"obs"}
    OBVIOUS
  <2>3. /\ Goes(h, rest) /\ "obs" \notin rest /\ EventsKept(h)
        /\ held'[h] # 0 => event'[h] = event[h]
        /\ \A x \in Threads \ {h} : held'[x] = held[x]
        /\ UNCHANGED engineVars /\ spans' = spans
    BY <2>1, <2>2 DEF Goes, SpansKept
  <2>4. held'[h] # 0 => held'[h] \in 1..Len(spans) /\ spans[held'[h]].task = event'[h].task
    BY <1>1, <2>1, <2>3 DEF SpanControl
  <2>5. SpanControl'
    BY <1>0, <2>1, <2>3, <2>4, SpansStay
  <2>6. QED
    BY <2>1, <2>3, <2>5, CallBase
<1>5. CASE EndSpan(h)
  <2>1. /\ TypeOK' /\ ~Quiet(h) /\ UNCHANGED <<active, counter, engineVars, logVars>>
        /\ Goes(h, left[h]) /\ SpansKept(h) /\ held'[h] = 0
        /\ Len(spans') = Len(spans)
        /\ \A j \in 1..Len(spans) : spans'[j].task = spans[j].task
    BY <1>5, EndFacts
  <2>2. PICK rest : rest = left[h]
    OBVIOUS
  <2>3. /\ Goes(h, rest) /\ EventsKept(h) /\ UNCHANGED engineVars /\ active' = active
        /\ \A x \in Threads \ {h} : held'[x] = held[x]
    BY <2>1, <2>2 DEF Goes, SpansKept
  <2>4. SpanControl'
    BY <1>0, <2>1, <2>3, SpansStay
  <2>5. QED
    BY <2>1, <2>3, <2>4, CallBase
<1>6. QED
  BY <1>2, <1>3, <1>4, <1>5

\* A step is one of these, or leaves everything as it is.
LEMMA StepCases ==
    ASSUME [Next]_vars
    PROVE  \/ \E w \in Workers : WorkerTake(w) \/ WorkerReturn(w) \/ WorkerRaise(w) \/ WorkerFinally(w) \/ WorkerQuit(w)
           \/ MonitorFail \/ \E w \in Workers : MonitorExpire(w)
           \/ \E h \in Callers : Submit(h) \/ Schedule(h) \/ Cancel(h)
           \/ \E h \in Threads : Logged(h) \/ LogRaises(h) \/ ObserveOther(h) \/ ObserveSubmit(h)
           \/ \E h \in Threads : ObserveStart(h) \/ RegisterSpan(h) \/ ObserveEnd(h) \/ EndSpan(h)
           \/ UNCHANGED vars
  BY DEF Next

\* Every step keeps Base.
LEMMA BaseStep == Base /\ [Next]_vars => Base'
<1> SUFFICES ASSUME Base, [Next]_vars PROVE Base'
  OBVIOUS
<1>1. CASE UNCHANGED vars
  BY <1>1 DEF vars, engineVars, busVars, traceVars, logVars, Base, TypeOK, Control, WorkerControl,
              MonitorControl, CallerControl, AskControl, BusControl, SpanControl, Quiet
<1>2. QED
  BY <1>1, StepCases, WorkerBase, MonitorBase, CallerBase, PassBase, SpanBase

----------------------------------------------------------------------------
(* The counters and the log.                                               *)

\* There are finitely many threads.
LEMMA ThreadsFinite == IsFiniteSet(Threads)
<1>1. IsFiniteSet(Workers) /\ IsFiniteSet(Callers) /\ IsFiniteSet({Monitor})
  BY ConstantsAssumption, FS_Singleton
<1>2. QED
  BY <1>1, FS_Union DEF Threads

\* A set that changes by one element at most.
LEMMA OneMore ==
    ASSUME NEW A, NEW B, NEW x, IsFiniteSet(A), IsFiniteSet(B),
           \A y : y # x => (y \in A <=> y \in B)
    PROVE  /\ Cardinality(A) \in Nat /\ Cardinality(B) \in Nat
           /\ (x \in A <=> x \in B) => Cardinality(B) = Cardinality(A)
           /\ x \notin A /\ x \in B => Cardinality(B) = Cardinality(A) + 1
           /\ x \in A /\ x \notin B => Cardinality(A) = Cardinality(B) + 1
<1>1. Cardinality(A) \in Nat /\ Cardinality(B) \in Nat
  BY FS_CardinalityType
<1>2. ASSUME x \in A <=> x \in B PROVE Cardinality(B) = Cardinality(A)
  <2>1. A = B
    BY <1>2
  <2>2. QED
    BY <2>1
<1>3. ASSUME x \notin A, x \in B PROVE Cardinality(B) = Cardinality(A) + 1
  <2>1. B = A \cup {x}
    BY <1>3
  <2>2. Cardinality(A \cup {x}) = Cardinality(A) + 1
    BY <1>3, FS_AddElement
  <2>3. QED
    BY <2>1, <2>2
<1>4. ASSUME x \in A, x \notin B PROVE Cardinality(A) = Cardinality(B) + 1
  <2>1. A = B \cup {x}
    BY <1>4
  <2>2. Cardinality(B \cup {x}) = Cardinality(B) + 1
    BY <1>4, FS_AddElement
  <2>3. QED
    BY <2>1, <2>2
<1>5. QED
  BY <1>1, <1>2, <1>3, <1>4

\* The calls that are due change with those of thread h only.
LEMMA DueChange ==
    ASSUME NEW h \in Threads, EventsKept(h), NEW K, NEW s
    PROVE  /\ Cardinality(Due(K, s)) \in Nat /\ Cardinality(Due(K, s)') \in Nat
           /\ (h \in Due(K, s) <=> h \in Due(K, s)')
                => Cardinality(Due(K, s)') = Cardinality(Due(K, s))
           /\ h \notin Due(K, s) /\ h \in Due(K, s)'
                => Cardinality(Due(K, s)') = Cardinality(Due(K, s)) + 1
           /\ h \in Due(K, s) /\ h \notin Due(K, s)'
                => Cardinality(Due(K, s)) = Cardinality(Due(K, s)') + 1
<1>1. PICK A : A = Due(K, s)
  OBVIOUS
<1>2. PICK B : B = Due(K, s)'
  OBVIOUS
<1>3. IsFiniteSet(A) /\ IsFiniteSet(B)
  <2>1. A \subseteq Threads /\ B \subseteq Threads
    BY <1>1, <1>2 DEF Due
  <2>2. QED
    BY <2>1, ThreadsFinite, FS_Subset
<1>4. ASSUME NEW y, y # h PROVE y \in A <=> y \in B
  BY <1>1, <1>2, <1>4 DEF Due, EventsKept, Quiet
<1>5. /\ Cardinality(A) \in Nat /\ Cardinality(B) \in Nat
      /\ (h \in A <=> h \in B) => Cardinality(B) = Cardinality(A)
      /\ h \notin A /\ h \in B => Cardinality(B) = Cardinality(A) + 1
      /\ h \in A /\ h \notin B => Cardinality(A) = Cardinality(B) + 1
  BY <1>3, <1>4, OneMore
<1>6. QED
  BY <1>1, <1>2, <1>5

\* A new event is due to both subscribers.
LEMMA DueAppended ==
    ASSUME NEW h \in Threads, Quiet(h), NEW k, NEW t, Appended(h, k, t), NEW K
    PROVE  /\ Cardinality(Due(K, "obs")) \in Nat /\ Cardinality(Due(K, "store")) \in Nat
           /\ k \in K => /\ Cardinality(Due(K, "obs")') = Cardinality(Due(K, "obs")) + 1
                         /\ Cardinality(Due(K, "store")') = Cardinality(Due(K, "store")) + 1
           /\ k \notin K => /\ Cardinality(Due(K, "obs")') = Cardinality(Due(K, "obs"))
                            /\ Cardinality(Due(K, "store")') = Cardinality(Due(K, "store"))
<1>1. EventsKept(h)
  BY DEF Appended
<1>2. ASSUME NEW s \in Subscribers
      PROVE  h \notin Due(K, s) /\ (h \in Due(K, s)' <=> k \in K)
  BY <1>2 DEF Due, Quiet, Appended, Subscribers
<1>3. "obs" \in Subscribers /\ "store" \in Subscribers
  BY DEF Subscribers
<1>4. QED
  BY <1>1, <1>2, <1>3, DueChange

\* A call is due no longer once it was made.
LEMMA DueCalled ==
    ASSUME NEW h \in Threads, ~Quiet(h), NEW rest, Goes(h, rest), rest \subseteq left[h],
           NEW K, NEW s
    PROVE  /\ Cardinality(Due(K, s)) \in Nat /\ Cardinality(Due(K, s)') \in Nat
           /\ event[h].kind \in K /\ s \in left[h] \ rest
                => Cardinality(Due(K, s)) = Cardinality(Due(K, s)') + 1
           /\ event[h].kind \notin K \/ s \notin left[h] \ rest
                => Cardinality(Due(K, s)') = Cardinality(Due(K, s))
<1>1. EventsKept(h)
  BY DEF Goes
<1>2. h \in Due(K, s) <=> event[h].kind \in K /\ s \in left[h]
  BY DEF Due
<1>3. h \in Due(K, s)' <=> event[h].kind \in K /\ s \in rest
  BY DEF Due, Goes, Quiet
<1>4. QED
  BY <1>1, <1>2, <1>3, DueChange

\* The numbers involved.
LEMMA CountTypes ==
    ASSUME TypeOK
    PROVE  /\ counter["submitted"] \in Nat /\ counter["started"] \in Nat
           /\ counter["completed"] \in Nat /\ counter["failed"] \in Nat
           /\ Seen("TaskSubmitted") \in Nat /\ Seen("TaskStarted") \in Nat
           /\ Seen("TaskCompleted") \in Nat /\ Seen("TaskFailed") \in Nat
           /\ Seen("TaskTimedOut") \in Nat /\ Seen("TaskCancelled") \in Nat
           /\ \A k \in Kinds : Seen(k) \in Nat
<1>1. \A k \in Kinds : Seen(k) \in Nat
  BY DEF TypeOK, Seen
<1>2. /\ counter["submitted"] \in Nat /\ counter["started"] \in Nat
      /\ counter["completed"] \in Nat /\ counter["failed"] \in Nat
  BY DEF TypeOK, Counters
<1>3. QED
  BY <1>1, <1>2 DEF Kinds

\* An append that begins keeps the balance.
LEMMA CountAppended ==
    ASSUME TypeOK, CountInv, NEW h \in Threads, Quiet(h), NEW k, NEW t, Appended(h, k, t),
           counter' = counter, UNCHANGED logVars
    PROVE  CountInv'
<1>1. /\ Seen("TaskStarted")' = Seen("TaskStarted") /\ Seen("TaskCompleted")' = Seen("TaskCompleted")
      /\ Seen("TaskFailed")' = Seen("TaskFailed") /\ Seen("TaskTimedOut")' = Seen("TaskTimedOut")
      /\ Seen("TaskSubmitted")' = Seen("TaskSubmitted") /\ Seen("TaskCancelled")' = Seen("TaskCancelled")
  BY DEF Seen, logVars
<1>2. ASSUME NEW K
      PROVE  /\ Cardinality(Due(K, "obs")) \in Nat /\ Cardinality(Due(K, "store")) \in Nat
             /\ \/ /\ Cardinality(Due(K, "obs")') = Cardinality(Due(K, "obs")) + 1
                   /\ Cardinality(Due(K, "store")') = Cardinality(Due(K, "store")) + 1
                \/ /\ Cardinality(Due(K, "obs")') = Cardinality(Due(K, "obs"))
                   /\ Cardinality(Due(K, "store")') = Cardinality(Due(K, "store"))
  BY DueAppended
<1>3. (counter["started"] + Cardinality(Due({"TaskStarted"}, "obs"))
         = Seen("TaskStarted") + Cardinality(Due({"TaskStarted"}, "store")))'
  <2>1. PICK K : K = {"TaskStarted"}
    OBVIOUS
  <2>2. counter["started"] + Cardinality(Due(K, "obs")) = Seen("TaskStarted") + Cardinality(Due(K, "store"))
    BY <2>1 DEF CountInv
  <2>3. counter'["started"] + Cardinality(Due(K, "obs")')
          = Seen("TaskStarted")' + Cardinality(Due(K, "store")')
    BY <1>1, <1>2, <2>2, CountTypes
  <2>4. QED
    BY <2>1, <2>3
<1>4. (counter["completed"] + Cardinality(Due({"TaskCompleted"}, "obs"))
         = Seen("TaskCompleted") + Cardinality(Due({"TaskCompleted"}, "store")))'
  <2>1. PICK K : K = {"TaskCompleted"}
    OBVIOUS
  <2>2. counter["completed"] + Cardinality(Due(K, "obs")) = Seen("TaskCompleted") + Cardinality(Due(K, "store"))
    BY <2>1 DEF CountInv
  <2>3. counter'["completed"] + Cardinality(Due(K, "obs")')
          = Seen("TaskCompleted")' + Cardinality(Due(K, "store")')
    BY <1>1, <1>2, <2>2, CountTypes
  <2>4. QED
    BY <2>1, <2>3
<1>5. (counter["failed"] + Cardinality(Due(Failures, "obs"))
         = Seen("TaskFailed") + Seen("TaskTimedOut") + Seen("TaskCancelled")
           + Cardinality(Due(Failures, "store")))'
  <2>1. PICK K : K = Failures
    OBVIOUS
  <2>2. counter["failed"] + Cardinality(Due(K, "obs"))
          = Seen("TaskFailed") + Seen("TaskTimedOut") + Seen("TaskCancelled") + Cardinality(Due(K, "store"))
    BY <2>1 DEF CountInv
  <2>3. counter'["failed"] + Cardinality(Due(K, "obs")')
          = Seen("TaskFailed")' + Seen("TaskTimedOut")' + Seen("TaskCancelled")' + Cardinality(Due(K, "store")')
    BY <1>1, <1>2, <2>2, CountTypes
  <2>4. QED
    BY <2>1, <2>3 DEF Failures
<1>6. (counter["submitted"] + Cardinality(Due({"TaskSubmitted"}, "obs"))
         = Seen("TaskSubmitted") + Cardinality(Due({"TaskSubmitted"}, "store")))'
  <2>1. PICK K : K = {"TaskSubmitted"}
    OBVIOUS
  <2>2. counter["submitted"] + Cardinality(Due(K, "obs")) = Seen("TaskSubmitted") + Cardinality(Due(K, "store"))
    BY <2>1 DEF CountInv
  <2>3. counter'["submitted"] + Cardinality(Due(K, "obs")')
          = Seen("TaskSubmitted")' + Cardinality(Due(K, "store")')
    BY <1>1, <1>2, <2>2, CountTypes
  <2>4. QED
    BY <2>1, <2>3
<1>7. QED
  BY <1>3, <1>4, <1>5, <1>6 DEF CountInv

\* A call that counts the event, if it is ObservabilitySubscriber's, and logs or
\* loses it, if it is EventStoreSubscriber's, keeps it too.
LEMMA CountCalled ==
    ASSUME TypeOK, CountInv, NEW h \in Threads, ~Quiet(h), NEW rest,
           Goes(h, rest), rest \subseteq left[h],
           "obs" \notin left[h] \ rest => counter' = counter,
           "obs" \in left[h] \ rest =>
               /\ event[h].kind = "TaskSubmitted" => Counted("submitted")
               /\ event[h].kind = "TaskStarted" => Counted("started")
               /\ event[h].kind = "TaskCompleted" => Counted("completed")
               /\ event[h].kind \in Failures => Counted("failed")
               /\ event[h].kind = "TaskRetried" => counter' = counter,
           "store" \notin left[h] \ rest => UNCHANGED logVars,
           "store" \in left[h] \ rest => Noted(h)
    PROVE  CountInv'
<1>1. PICK k \in Kinds : k = event[h].kind
  BY EventFacts
<1>2. /\ ("store" \in left[h] \ rest /\ k = "TaskSubmitted")
            => Seen("TaskSubmitted")' = Seen("TaskSubmitted") + 1
      /\ ~("store" \in left[h] \ rest /\ k = "TaskSubmitted")
            => Seen("TaskSubmitted")' = Seen("TaskSubmitted")
      /\ ("store" \in left[h] \ rest /\ k = "TaskStarted")
            => Seen("TaskStarted")' = Seen("TaskStarted") + 1
      /\ ~("store" \in left[h] \ rest /\ k = "TaskStarted")
            => Seen("TaskStarted")' = Seen("TaskStarted")
      /\ ("store" \in left[h] \ rest /\ k = "TaskCompleted")
            => Seen("TaskCompleted")' = Seen("TaskCompleted") + 1
      /\ ~("store" \in left[h] \ rest /\ k = "TaskCompleted")
            => Seen("TaskCompleted")' = Seen("TaskCompleted")
      /\ ("store" \in left[h] \ rest /\ k \in Failures)
            => Seen("TaskFailed")' + Seen("TaskTimedOut")' + Seen("TaskCancelled")'
                 = Seen("TaskFailed") + Seen("TaskTimedOut") + Seen("TaskCancelled") + 1
      /\ ~("store" \in left[h] \ rest /\ k \in Failures)
            => Seen("TaskFailed")' + Seen("TaskTimedOut")' + Seen("TaskCancelled")'
                 = Seen("TaskFailed") + Seen("TaskTimedOut") + Seen("TaskCancelled")
  <2>2. CASE "store" \in left[h] \ rest
    <3>1. \A x \in Kinds :
            /\ x = k => stored'[x] + lost'[x] = stored[x] + lost[x] + 1
            /\ x # k => stored'[x] + lost'[x] = stored[x] + lost[x]
            /\ stored[x] + lost[x] \in Nat
      BY <1>1, <2>2 DEF Noted, TypeOK
    <3>2. QED
      BY SMTT(30), <2>2, <3>1 DEF Kinds, Seen, Failures
  <2>3. CASE "store" \notin left[h] \ rest
    <3>1. \A x \in Kinds : Seen(x)' = Seen(x)
      BY <2>3 DEF Seen, logVars
    <3>2. QED
      BY <2>3, <3>1 DEF Kinds, Failures
  <2>4. QED
    BY <2>2, <2>3
<1>3. /\ ("obs" \in left[h] \ rest /\ k = "TaskSubmitted")
            => counter'["submitted"] = counter["submitted"] + 1
      /\ ~("obs" \in left[h] \ rest /\ k = "TaskSubmitted")
            => counter'["submitted"] = counter["submitted"]
      /\ ("obs" \in left[h] \ rest /\ k = "TaskStarted")
            => counter'["started"] = counter["started"] + 1
      /\ ~("obs" \in left[h] \ rest /\ k = "TaskStarted")
            => counter'["started"] = counter["started"]
      /\ ("obs" \in left[h] \ rest /\ k = "TaskCompleted")
            => counter'["completed"] = counter["completed"] + 1
      /\ ~("obs" \in left[h] \ rest /\ k = "TaskCompleted")
            => counter'["completed"] = counter["completed"]
      /\ ("obs" \in left[h] \ rest /\ k \in Failures)
            => counter'["failed"] = counter["failed"] + 1
      /\ ~("obs" \in left[h] \ rest /\ k \in Failures)
            => counter'["failed"] = counter["failed"]
  BY SMTT(30), <1>1 DEF Kinds, Counted, Counters, Failures
<1>4. ASSUME NEW K, NEW s
      PROVE  /\ Cardinality(Due(K, s)) \in Nat /\ Cardinality(Due(K, s)') \in Nat
             /\ k \in K /\ s \in left[h] \ rest
                  => Cardinality(Due(K, s)) = Cardinality(Due(K, s)') + 1
             /\ k \notin K \/ s \notin left[h] \ rest
                  => Cardinality(Due(K, s)') = Cardinality(Due(K, s))
  BY <1>1, DueCalled
<1>5. (counter["started"] + Cardinality(Due({"TaskStarted"}, "obs"))
         = Seen("TaskStarted") + Cardinality(Due({"TaskStarted"}, "store")))'
  <2>1. PICK K : K = {"TaskStarted"}
    OBVIOUS
  <2>2. counter["started"] + Cardinality(Due(K, "obs")) = Seen("TaskStarted") + Cardinality(Due(K, "store"))
    BY <2>1 DEF CountInv
  <2>3. k \in K <=> k = "TaskStarted"
    BY <2>1
  <2>4. counter'["started"] + Cardinality(Due(K, "obs")') = Seen("TaskStarted")' + Cardinality(Due(K, "store")')
    BY <1>2, <1>3, <1>4, <2>2, <2>3, CountTypes
  <2>5. QED
    BY <2>1, <2>4
<1>6. (counter["completed"] + Cardinality(Due({"TaskCompleted"}, "obs"))
         = Seen("TaskCompleted") + Cardinality(Due({"TaskCompleted"}, "store")))'
  <2>1. PICK K : K = {"TaskCompleted"}
    OBVIOUS
  <2>2. counter["completed"] + Cardinality(Due(K, "obs")) = Seen("TaskCompleted") + Cardinality(Due(K, "store"))
    BY <2>1 DEF CountInv
  <2>3. k \in K <=> k = "TaskCompleted"
    BY <2>1
  <2>4. counter'["completed"] + Cardinality(Due(K, "obs")')
          = Seen("TaskCompleted")' + Cardinality(Due(K, "store")')
    BY <1>2, <1>3, <1>4, <2>2, <2>3, CountTypes
  <2>5. QED
    BY <2>1, <2>4
<1>7. (counter["failed"] + Cardinality(Due(Failures, "obs"))
         = Seen("TaskFailed") + Seen("TaskTimedOut") + Seen("TaskCancelled")
           + Cardinality(Due(Failures, "store")))'
  <2>1. PICK K : K = Failures
    OBVIOUS
  <2>2. counter["failed"] + Cardinality(Due(K, "obs"))
          = Seen("TaskFailed") + Seen("TaskTimedOut") + Seen("TaskCancelled") + Cardinality(Due(K, "store"))
    BY <2>1 DEF CountInv
  <2>3. k \in K <=> k \in Failures
    BY <2>1
  <2>4. counter'["failed"] + Cardinality(Due(K, "obs")')
          = Seen("TaskFailed")' + Seen("TaskTimedOut")' + Seen("TaskCancelled")' + Cardinality(Due(K, "store")')
    BY <1>2, <1>3, <1>4, <2>2, <2>3, CountTypes
  <2>5. QED
    BY <2>1, <2>4 DEF Failures
<1>8. (counter["submitted"] + Cardinality(Due({"TaskSubmitted"}, "obs"))
         = Seen("TaskSubmitted") + Cardinality(Due({"TaskSubmitted"}, "store")))'
  <2>1. PICK K : K = {"TaskSubmitted"}
    OBVIOUS
  <2>2. counter["submitted"] + Cardinality(Due(K, "obs")) = Seen("TaskSubmitted") + Cardinality(Due(K, "store"))
    BY <2>1 DEF CountInv
  <2>3. k \in K <=> k = "TaskSubmitted"
    BY <2>1
  <2>4. counter'["submitted"] + Cardinality(Due(K, "obs")')
          = Seen("TaskSubmitted")' + Cardinality(Due(K, "store")')
    BY <1>2, <1>3, <1>4, <2>2, <2>3, CountTypes
  <2>5. QED
    BY <2>1, <2>4
<1>9. QED
  BY <1>5, <1>6, <1>7, <1>8 DEF CountInv

\* Nothing is due while no append is under way.
LEMMA NothingDue ==
    ASSUME AtRest, NEW K, NEW s
    PROVE  Cardinality(Due(K, s)) = 0
<1>1. Due(K, s) = {}
  BY DEF AtRest, Due
<1>2. QED
  BY <1>1, FS_EmptySet

\* The balance at the start.
LEMMA CountInit == Init => CountInv
<1> SUFFICES ASSUME Init PROVE CountInv
  OBVIOUS
<1>1. AtRest
  BY DEF Init, AtRest, Quiet
<1>2. /\ counter["submitted"] = 0 /\ counter["started"] = 0
      /\ counter["completed"] = 0 /\ counter["failed"] = 0
      /\ Seen("TaskSubmitted") = 0 /\ Seen("TaskStarted") = 0 /\ Seen("TaskCompleted") = 0
      /\ Seen("TaskFailed") = 0 /\ Seen("TaskTimedOut") = 0 /\ Seen("TaskCancelled") = 0
  BY DEF Init, Seen, Counters, Kinds
<1>3. QED
  BY <1>1, <1>2, NothingDue DEF CountInv

\* Every step keeps the balance.
LEMMA CountStep == Base /\ CountInv /\ [Next]_vars => CountInv'
<1> USE ConstantsAssumption
<1> SUFFICES ASSUME Base, CountInv, [Next]_vars PROVE CountInv'
  OBVIOUS
<1>0. TypeOK /\ Monitor \in Threads /\ Workers \subseteq Threads /\ Callers \subseteq Threads
  BY DEF Base, Threads
<1>1. ASSUME UNCHANGED <<busVars, counter, logVars>> PROVE CountInv'
  <2>1. event' = event /\ left' = left /\ counter' = counter /\ stored' = stored /\ lost' = lost
    BY <1>1 DEF busVars, logVars
  <2>2. QED
    BY <2>1 DEF CountInv, Due, Seen, Quiet
<1>2. ASSUME NEW w \in Workers,
             WorkerTake(w) \/ WorkerReturn(w) \/ WorkerRaise(w) \/ WorkerFinally(w) \/ WorkerQuit(w)
      PROVE  CountInv'
  <2>0. WorkerControl(w) /\ w \in Threads
    BY <1>0 DEF Base, Control
  <2>1. CASE WorkerTake(w)
    <3>1. PICK t \in Tasks : Appended(w, "TaskStarted", t)
      BY <2>1, TakeFacts
    <3>2. Quiet(w) /\ counter' = counter /\ UNCHANGED logVars
      BY <2>0, <2>1, TakeFacts DEF traceVars, WorkerControl
    <3>3. QED
      BY <1>0, <2>0, <3>1, <3>2, CountAppended
  <2>2. CASE WorkerReturn(w) \/ WorkerRaise(w)
    <3>1. PICK k, t : Appended(w, k, t)
      BY <2>2, TurnFacts
    <3>2. Quiet(w) /\ counter' = counter /\ UNCHANGED logVars
      BY <2>2, TurnFacts DEF traceVars
    <3>3. QED
      BY <1>0, <2>0, <3>1, <3>2, CountAppended
  <2>3. CASE WorkerFinally(w) \/ WorkerQuit(w)
    BY <1>1, <2>3, FinallyFacts, QuitFacts DEF traceVars
  <2>4. QED
    BY <1>2, <2>1, <2>2, <2>3
<1>3. ASSUME MonitorFail \/ \E w \in Workers : MonitorExpire(w) PROVE CountInv'
  <2>1. PICK k, t : Appended(Monitor, k, t)
    BY <1>3, MonitorFacts
  <2>2. Quiet(Monitor) /\ counter' = counter /\ UNCHANGED logVars
    BY <1>3, MonitorFacts DEF traceVars
  <2>3. QED
    BY <1>0, <2>1, <2>2, CountAppended
<1>4. ASSUME NEW h \in Threads, Logged(h) \/ LogRaises(h) PROVE CountInv'
  <2>1. PICK rest : rest = left[h] \ {"store"}
    OBVIOUS
  <2>2. /\ ~Quiet(h) /\ Goes(h, left[h] \ {"store"}) /\ "store" \in left[h] /\ Noted(h)
        /\ UNCHANGED <<engineVars, traceVars>>
    BY <1>4, StoreFacts
  <2>3. /\ Goes(h, rest) /\ Noted(h) /\ rest \subseteq left[h] /\ counter' = counter
        /\ "obs" \notin left[h] \ rest /\ "store" \in left[h] \ rest
    BY <2>1, <2>2 DEF traceVars
  <2>4. QED
    BY <1>0, <2>2, <2>3, CountCalled
<1>5. ASSUME NEW h \in Threads,
             ObserveOther(h) \/ ObserveSubmit(h) \/ ObserveStart(h) \/ ObserveEnd(h)
      PROVE  CountInv'
  <2>1. PICK rest : rest = left[h] \ {"obs"}
    OBVIOUS
  <2>2. /\ ~Quiet(h) /\ Goes(h, rest) /\ rest \subseteq left[h] /\ UNCHANGED logVars
        /\ "obs" \in left[h] \ rest /\ "store" \notin left[h] \ rest
        /\ event[h].kind = "TaskSubmitted" => Counted("submitted")
        /\ event[h].kind = "TaskStarted" => Counted("started")
        /\ event[h].kind = "TaskCompleted" => Counted("completed")
        /\ event[h].kind \in Failures => Counted("failed")
        /\ event[h].kind = "TaskRetried" => counter' = counter
    <3>1. CASE ObserveOther(h)
      BY <2>1, <3>1, OtherFacts DEF traceVars, Failures
    <3>2. CASE ObserveStart(h)
      BY <2>1, <3>2, StartFacts DEF Failures
    <3>3. CASE ObserveEnd(h)
      BY <2>1, <3>3, PopFacts DEF Failures
    <3>4. CASE ObserveSubmit(h)
      BY <2>1, <3>4, SubmitFacts DEF Failures
    <3>5. QED
      BY <1>5, <3>1, <3>2, <3>3, <3>4
  <2>3. QED
    BY <1>0, <2>2, CountCalled
<1>6. ASSUME NEW h \in Threads, RegisterSpan(h) \/ EndSpan(h) PROVE CountInv'
  <2>1. PICK rest : rest = left[h]
    OBVIOUS
  <2>2. /\ ~Quiet(h) /\ Goes(h, rest) /\ rest \subseteq left[h] /\ UNCHANGED logVars
        /\ counter' = counter /\ left[h] \ rest = {}
    BY <1>6, <2>1, RegisterFacts, EndFacts
  <2>3. QED
    BY <1>0, <2>2, CountCalled
<1>7. ASSUME NEW h \in Callers, Submit(h) \/ Schedule(h) \/ Cancel(h) PROVE CountInv'
  <2>1. /\ Quiet(h) /\ counter' = counter /\ UNCHANGED logVars /\ h \in Threads
        /\ \E t \in Tasks : Submitted(h, t) \/ Scheduled(h, t) \/ Cancelled(h, t)
    BY <1>0, <1>7, CallerFacts DEF traceVars
  <2>2. CASE UNCHANGED busVars
    BY <1>1, <2>1, <2>2
  <2>3. CASE \E k, t : Appended(h, k, t)
    BY <1>0, <2>1, <2>3, CountAppended
  <2>4. QED
    BY <2>1, <2>2, <2>3 DEF Submitted, Scheduled, Cancelled
<1>8. CASE UNCHANGED vars
  BY <1>1, <1>8 DEF vars, traceVars
<1>9. QED
  BY <1>2, <1>3, <1>4, <1>5, <1>6, <1>7, <1>8, StepCases

\* Typing: in every reachable state the workers, the bus and the tracer hold
\* what their code keeps in them: span numbers, the subscribers still to be
\* called, Nat-valued counters.
THEOREM Typing == Spec => []TypeOK
<1>1. Spec => []Base
  BY BaseInit, BaseStep, PTL DEF Spec
<1>2. Base => TypeOK
  BY DEF Base
<1>3. QED
  BY <1>1, <1>2, PTL

\* CountersMatchLog: between appends the counters of MetricsRegistry equal what
\* the log has, or has lost to an append that raised, whichever subscriber
\* RuntimeEventBus.publish calls first and however the threads interleave.
THEOREM Counting == Spec => []CountersMatchLog
<1>1. Spec => [](Base /\ CountInv)
  <2>1. Init => Base /\ CountInv
    BY BaseInit, CountInit
  <2>2. Base /\ CountInv /\ [Next]_vars => (Base /\ CountInv)'
    BY BaseStep, CountStep
  <2>3. QED
    BY <2>1, <2>2, PTL DEF Spec
<1>2. Base /\ CountInv => CountersMatchLog
  <2> SUFFICES ASSUME Base, CountInv, AtRest
               PROVE  /\ counter["submitted"] = Seen("TaskSubmitted")
                      /\ counter["started"] = Seen("TaskStarted")
                      /\ counter["completed"] = Seen("TaskCompleted")
                      /\ counter["failed"] = Seen("TaskFailed") + Seen("TaskTimedOut")
                                             + Seen("TaskCancelled")
    BY DEF CountersMatchLog
  <2>1. \A K, s : Cardinality(Due(K, s)) = 0
    BY NothingDue
  <2>2. QED
    BY <2>1, CountTypes DEF CountInv, Base
<1>3. QED
  BY <1>1, <1>2, PTL

----------------------------------------------------------------------------
(* Where a worker is with the span of its attempt, step by step.           *)

\* What Base says of a worker with an event.
LEMMA WorkerEvent ==
    ASSUME Base, NEW w \in Workers
    PROVE  /\ WorkerControl(w) /\ BusControl(w) /\ w \in Threads /\ w # Monitor
           /\ ~Quiet(w) => /\ hand[w] \in Tasks /\ event[w].task = hand[w]
                           /\ event[w].kind # "TaskSubmitted" /\ died[w] = None
                           /\ event[w].kind = "TaskStarted" <=> phase[w] = "exec"
                           /\ event[w].kind # "TaskStarted" <=> phase[w] = "end"
<1> USE ConstantsAssumption
<1>1. TypeOK /\ WorkerControl(w) /\ BusControl(w) /\ w \in Threads /\ w # Monitor
  BY DEF Base, Control, Threads
<1>2. phase[w] \in {"free", "exec", "end"} /\ hand[w] \in Tasks \cup {None}
  BY <1>1 DEF TypeOK
<1>3. QED
  BY <1>1, <1>2 DEF WorkerControl

\* A thread keeps its stage through the steps of others.
LEMMA KeptStage ==
    ASSUME Base, NEW h \in Threads, EventsKept(h), NEW v \in Workers, v # h,
           hand'[v] = hand[v], phase'[v] = phase[v], held'[v] = held[v]
    PROVE  /\ ToStart(v)' <=> ToStart(v)
           /\ Current(v)' <=> Current(v)
           /\ held[v] # 0 => SpanOf(v)' = SpanOf(v)
           /\ active'[hand[v]] = active[hand[v]] => SpanOf(v)' = SpanOf(v)
           /\ SpanOf(v)' = SpanOf(v) \/ SpanOf(v)' = active'[hand[v]]
<1>1. event'[v] = event[v] /\ left'[v] = left[v]
  BY DEF EventsKept, Threads
<1>2. (ToStart(v)' <=> ToStart(v)) /\ (Current(v)' <=> Current(v))
  BY <1>1 DEF ToStart, Current, Quiet
<1>3. QED
  BY <1>2 DEF SpanOf

\* A worker that took a task has a span to start.
LEMMA TakeStage ==
    ASSUME Base, NEW w \in Workers, WorkerTake(w)
    PROVE  ~ToStart(w) /\ ~Current(w) /\ ToStart(w)' /\ ~Current(w)' /\ held'[w] = 0
<1>1. WorkerControl(w) /\ BusControl(w)
  BY WorkerEvent
<1>2. phase[w] = "free" /\ phase'[w] = "exec" /\ held' = held
  BY TakeFacts DEF traceVars
<1>3. PICK t \in Tasks : Appended(w, "TaskStarted", t)
  BY TakeFacts
<1>4. Quiet(w) /\ held[w] = 0
  BY <1>1, <1>2 DEF WorkerControl, BusControl
<1>5. ToStart(w)'
  BY <1>3 DEF Appended, ToStart, Quiet, Subscribers
<1>6. QED
  BY <1>2, <1>4, <1>5 DEF ToStart, Current

\* One whose code returned or raised keeps the span.
LEMMA TurnStage ==
    ASSUME Base, NEW w \in Workers, WorkerReturn(w) \/ WorkerRaise(w)
    PROVE  /\ ~ToStart(w) /\ Current(w) /\ ~ToStart(w)' /\ Current(w)'
           /\ SpanOf(w)' = SpanOf(w) /\ held'[w] = 0 /\ held[w] = 0
<1>1. BusControl(w)
  BY WorkerEvent
<1>2. phase[w] = "exec" /\ phase'[w] = "end" /\ Quiet(w) /\ UNCHANGED <<hand, traceVars>>
  BY TurnFacts
<1>3. PICK k \in {"TaskCompleted", "TaskFailed", "TaskRetried"} : Appended(w, k, hand[w])
  BY TurnFacts
<1>4. held' = held /\ active' = active /\ hand' = hand /\ held[w] = 0
  BY <1>1, <1>2 DEF traceVars, BusControl
<1>5. ~ToStart(w)' /\ Current(w)'
  BY <1>2, <1>3 DEF Appended, ToStart, Current, Quiet, Subscribers
<1>6. QED
  BY <1>2, <1>4, <1>5 DEF ToStart, Current, SpanOf

\* One that lets go of its task is through with it.
LEMMA FinallyStage ==
    ASSUME Base, NEW w \in Workers, WorkerFinally(w)
    PROVE  ~ToStart(w) /\ ~Current(w) /\ ~ToStart(w)' /\ ~Current(w)'
<1>1. BusControl(w)
  BY WorkerEvent
<1>2. /\ phase[w] = "end" /\ Quiet(w) /\ phase'[w] = "free"
      /\ event' = event /\ held' = held
  BY FinallyFacts DEF busVars, traceVars
<1>3. QED
  BY <1>1, <1>2 DEF BusControl, ToStart, Current, Quiet

\* One whose thread ends leaves the span as it is.
LEMMA QuitStage ==
    ASSUME Base, NEW w \in Workers, WorkerQuit(w)
    PROVE  /\ ~ToStart(w) /\ Current(w) /\ held[w] = 0
           /\ ~ToStart(w)' /\ ~Current(w)'
<1>1. BusControl(w)
  BY WorkerEvent
<1>2. /\ phase[w] = "exec" /\ Quiet(w) /\ phase'[w] = "free"
      /\ event' = event /\ held' = held
  BY QuitFacts DEF busVars, traceVars
<1>3. QED
  BY <1>1, <1>2 DEF BusControl, ToStart, Current, Quiet

\* The store's call does not matter.
LEMMA StoreStage ==
    ASSUME Base, NEW h \in Workers, Logged(h) \/ LogRaises(h)
    PROVE  /\ ToStart(h)' <=> ToStart(h)
           /\ Current(h)' <=> Current(h)
           /\ SpanOf(h)' = SpanOf(h)
<1>0. h \in Threads
  BY DEF Threads
<1>1. /\ ~Quiet(h) /\ held[h] = 0 /\ Goes(h, left[h] \ {"store"})
      /\ UNCHANGED <<engineVars, traceVars>>
  BY <1>0, StoreFacts
<1>2. held' = held /\ active' = active /\ hand' = hand /\ phase' = phase
  BY <1>1 DEF engineVars, traceVars
<1>3. /\ "obs" \in left'[h] <=> "obs" \in left[h]
      /\ "obs" \in left[h] => event'[h] = event[h]
  BY <1>1 DEF Goes
<1>4. ToStart(h)' <=> ToStart(h)
  BY <1>1, <1>3 DEF ToStart, Quiet
<1>5. Current(h)' <=> Current(h)
  BY <1>1, <1>2, <1>3, <1>4 DEF Current, Quiet
<1>6. QED
  BY <1>2, <1>4, <1>5 DEF SpanOf

\* After TaskRetried the worker is through: the span stays registered.
LEMMA OtherStage ==
    ASSUME Base, NEW h \in Workers, ObserveOther(h)
    PROVE  /\ hand[h] \in Tasks /\ tries[hand[h]] > 0
           /\ ~ToStart(h) /\ ~ToStart(h)' /\ ~Current(h)'
<1>0. h \in Threads
  BY DEF Threads
<1>1. /\ ~Quiet(h) /\ held[h] = 0 /\ Goes(h, left[h] \ {"obs"})
      /\ event[h].kind = "TaskRetried" /\ UNCHANGED <<engineVars, traceVars>>
  BY <1>0, OtherFacts
<1>2. held' = held /\ phase' = phase
  BY <1>1 DEF engineVars, traceVars
<1>3. phase[h] = "end" /\ hand[h] \in Tasks /\ tries[hand[h]] > 0
  BY <1>1, WorkerEvent DEF BusControl
<1>4. "obs" \notin left'[h]
  BY <1>1 DEF Goes
<1>5. QED
  BY <1>1, <1>2, <1>3, <1>4 DEF ToStart, Current

\* A span was started.
LEMMA StartStage ==
    ASSUME Base, NEW h \in Threads, ObserveStart(h)
    PROVE  /\ h \in Workers /\ hand[h] \in Tasks /\ event[h].task = hand[h]
           /\ ToStart(h) /\ ~Current(h) /\ ~ToStart(h)' /\ Current(h)'
           /\ SpanOf(h)' = Len(spans) + 1 /\ held'[h] = Len(spans) + 1
<1>1. /\ h \in Workers /\ ~Quiet(h) /\ held[h] = 0 /\ event[h].kind = "TaskStarted" /\ "obs" \in left[h]
      /\ held'[h] = Len(spans) + 1 /\ Len(spans) \in Nat /\ Goes(h, left[h] \ {"obs"})
  BY StartFacts
<1>2. "obs" \notin left'[h]
  BY <1>1 DEF Goes
<1>3. hand[h] \in Tasks /\ event[h].task = hand[h] /\ phase[h] = "exec"
  BY <1>1, WorkerEvent
<1>4. QED
  BY <1>1, <1>2, <1>3 DEF ToStart, Current, SpanOf

\* It was registered.
LEMMA RegisterStage ==
    ASSUME Base, NEW h \in Threads, RegisterSpan(h)
    PROVE  /\ h \in Workers /\ hand[h] \in Tasks /\ event[h].task = hand[h]
           /\ ~ToStart(h) /\ Current(h) /\ ~ToStart(h)' /\ Current(h)'
           /\ SpanOf(h) = held[h] /\ SpanOf(h)' = held[h] /\ held[h] # 0
<1>1. /\ h \in Workers /\ ~Quiet(h) /\ held[h] # 0 /\ event[h].kind = "TaskStarted"
      /\ UNCHANGED engineVars /\ Goes(h, left[h]) /\ held'[h] = 0
      /\ active'[event[h].task] = held[h]
  BY RegisterFacts
<1>2. /\ hand[h] \in Tasks /\ event[h].task = hand[h] /\ phase[h] = "exec"
      /\ BusControl(h)
  BY <1>1, WorkerEvent
<1>3. hand' = hand /\ phase' = phase /\ "obs" \notin left[h] /\ left'[h] = left[h]
  BY <1>1, <1>2 DEF engineVars, Goes, BusControl
<1>4. QED
  BY <1>1, <1>2, <1>3 DEF ToStart, Current, SpanOf

\* The span of a worker's task was popped.
LEMMA PopStage ==
    ASSUME Base, NEW h \in Workers, ObserveEnd(h)
    PROVE  /\ hand[h] \in Tasks /\ event[h].task = hand[h]
           /\ ~ToStart(h) /\ Current(h) /\ held[h] = 0 /\ SpanOf(h) = active[hand[h]]
           /\ ~ToStart(h)' /\ held'[h] = SpanOf(h)
           /\ SpanOf(h) # 0 => Current(h)' /\ SpanOf(h)' = SpanOf(h)
           /\ SpanOf(h) = 0 => ~Current(h)'
<1>0. h \in Threads
  BY DEF Threads
<1>1. /\ ~Quiet(h) /\ held[h] = 0 /\ "obs" \in left[h]
      /\ event[h].kind # "TaskStarted"
      /\ UNCHANGED engineVars /\ Goes(h, left[h] \ {"obs"})
      /\ held'[h] = active[event[h].task]
  BY <1>0, PopFacts DEF Failures
<1>2. hand[h] \in Tasks /\ event[h].task = hand[h] /\ phase[h] = "end"
  BY <1>1, WorkerEvent
<1>3. hand' = hand /\ phase' = phase /\ "obs" \notin left'[h]
  BY <1>1 DEF engineVars, Goes
<1>4. QED
  BY <1>1, <1>2, <1>3 DEF ToStart, Current, SpanOf

\* It was ended.
LEMMA EndStage ==
    ASSUME Base, NEW h \in Workers, EndSpan(h)
    PROVE  /\ hand[h] \in Tasks /\ event[h].task = hand[h]
           /\ ~ToStart(h) /\ Current(h) /\ SpanOf(h) = held[h] /\ held[h] # 0
           /\ ~ToStart(h)' /\ ~Current(h)'
<1>0. h \in Threads
  BY DEF Threads
<1>1. /\ ~Quiet(h) /\ held[h] \in 1..Len(spans) /\ event[h].kind # "TaskStarted"
      /\ UNCHANGED engineVars /\ Goes(h, left[h]) /\ held'[h] = 0
  BY <1>0, EndFacts
<1>2. hand[h] \in Tasks /\ event[h].task = hand[h] /\ phase[h] = "end" /\ BusControl(h)
  BY <1>1, WorkerEvent
<1>3. held[h] # 0
  <2>1. Len(spans) \in Nat
    BY DEF Base, TypeOK
  <2>2. QED
    BY <1>1, <2>1
<1>4. hand' = hand /\ phase' = phase /\ "obs" \notin left[h] /\ left'[h] = left[h]
  BY <1>1, <1>2, <1>3 DEF engineVars, Goes, BusControl
<1>5. QED
  BY <1>1, <1>2, <1>3, <1>4 DEF ToStart, Current, SpanOf

----------------------------------------------------------------------------
(* Spans nest.                                                             *)

\* The span of a worker's attempt is a span of its task.
LEMMA SpanOfFacts ==
    ASSUME Base, NEW w \in Workers, Current(w)
    PROVE  /\ hand[w] \in Tasks
           /\ SpanOf(w) # 0 => SpanOf(w) \in 1..Len(spans) /\ spans[SpanOf(w)].task = hand[w]
<1> USE ConstantsAssumption
<1>1. TypeOK /\ SpanControl /\ w \in Threads /\ WorkerControl(w) /\ BusControl(w)
  BY DEF Base, Control, Threads
<1>2. CASE held[w] # 0
  <2>1. ~Quiet(w)
    BY <1>1, <1>2 DEF BusControl
  <2>2. hand[w] \in Tasks /\ event[w].task = hand[w]
    BY <2>1, WorkerEvent
  <2>3. QED
    BY <1>1, <1>2, <2>2 DEF SpanControl, SpanOf
<1>3. CASE held[w] = 0
  <2>1. phase[w] \in {"exec", "end"}
    BY <1>3 DEF Current
  <2>2. hand[w] \in Tasks
    BY <1>1, <2>1 DEF WorkerControl, TypeOK
  <2>3. SpanOf(w) = active[hand[w]]
    BY <1>3 DEF SpanOf
  <2>4. QED
    BY <1>1, <2>2, <2>3 DEF SpanControl
<1>4. QED
  BY <1>2, <1>3

\* What a worker has in view stays its own newest span, or another's, when
\* somebody else moves.
LEMMA OwnOther ==
    ASSUME Base, OwnInv, NEW h \in Threads, EventsKept(h), NEW w \in Workers, w # h,
           hand'[w] = hand[w], phase'[w] = phase[w], held'[w] = held[w],
           Len(spans') \in Nat, Len(spans') >= Len(spans),
           \A j \in 1..Len(spans) : spans'[j].thread = spans[j].thread,
           \A j \in 1..Len(spans') : j > Len(spans) => spans'[j].thread # w,
           \A t \in Tasks : \/ active'[t] = active[t] \/ active'[t] = 0
                            \/ spans'[active'[t]].thread # w
    PROVE  Own(w)'
<1>0. Len(spans) \in Nat /\ Own(w) /\ event'[w] = event[w]
  BY DEF Base, TypeOK, OwnInv, EventsKept, Threads
<1> SUFFICES ASSUME Current(w)', SpanOf(w)' # 0
             PROVE  /\ spans'[SpanOf(w)'].thread = w => Newest(w, SpanOf(w))'
                    /\ held'[w] # 0 /\ event'[w].kind = "TaskStarted" => spans'[held'[w]].thread = w
  BY DEF Own
<1>1. /\ Current(w)
      /\ held[w] # 0 => SpanOf(w)' = SpanOf(w)
      /\ active'[hand[w]] = active[hand[w]] => SpanOf(w)' = SpanOf(w)
      /\ SpanOf(w)' = SpanOf(w) \/ SpanOf(w)' = active'[hand[w]]
  BY KeptStage
<1>2. hand[w] \in Tasks
  BY <1>1, SpanOfFacts
<1>3. CASE SpanOf(w)' = SpanOf(w)
  <2>1. SpanOf(w) # 0 /\ SpanOf(w) \in 1..Len(spans)
    BY <1>1, <1>3, SpanOfFacts
  <2>2. /\ spans[SpanOf(w)].thread = w => Newest(w, SpanOf(w))
        /\ held[w] # 0 /\ event[w].kind = "TaskStarted" => spans[held[w]].thread = w
    BY <1>0, <1>1, <2>1 DEF Own
  <2>3. ASSUME spans'[SpanOf(w)'].thread = w PROVE Newest(w, SpanOf(w))'
    <3>1. Newest(w, SpanOf(w))
      BY <1>3, <2>1, <2>2, <2>3
    <3>2. \A j \in 1..Len(spans') : spans'[j].thread = w => j \in 1..Len(spans) /\ spans[j].thread = w
      BY <1>0
    <3>3. QED
      BY <1>3, <3>1, <3>2 DEF Newest
  <2>4. held[w] # 0 => held[w] = SpanOf(w)
    BY DEF SpanOf
  <2>5. QED
    BY <1>0, <2>1, <2>2, <2>3, <2>4
<1>4. CASE SpanOf(w)' # SpanOf(w)
  <2>1. /\ SpanOf(w)' = active'[hand[w]] /\ active'[hand[w]] # active[hand[w]] /\ held[w] = 0
    BY <1>1, <1>4
  <2>2. spans'[SpanOf(w)'].thread # w
    BY <1>2, <2>1
  <2>3. QED
    BY <2>1, <2>2
<1>5. QED
  BY <1>3, <1>4

\* And when it moves itself without starting a span.
LEMMA OwnSelf ==
    ASSUME Base, NEW w \in Workers, Own(w), Len(spans') = Len(spans),
           \A j \in 1..Len(spans) : spans'[j].thread = spans[j].thread,
           Current(w)' /\ SpanOf(w)' # 0 => Current(w) /\ SpanOf(w)' = SpanOf(w),
           held'[w] # 0 => \/ event'[w].kind # "TaskStarted"
                           \/ held[w] # 0 /\ event'[w] = event[w] /\ held'[w] = held[w]
    PROVE  Own(w)'
<1> SUFFICES ASSUME Current(w)', SpanOf(w)' # 0
             PROVE  /\ spans'[SpanOf(w)'].thread = w => Newest(w, SpanOf(w))'
                    /\ held'[w] # 0 /\ event'[w].kind = "TaskStarted" => spans'[held'[w]].thread = w
  BY DEF Own
<1>1. Current(w) /\ SpanOf(w)' = SpanOf(w) /\ SpanOf(w) # 0
  OBVIOUS
<1>2. SpanOf(w) \in 1..Len(spans)
  BY <1>1, SpanOfFacts
<1>3. /\ spans[SpanOf(w)].thread = w => Newest(w, SpanOf(w))
      /\ held[w] # 0 /\ event[w].kind = "TaskStarted" => spans[held[w]].thread = w
  BY <1>1 DEF Own
<1>4. ASSUME spans'[SpanOf(w)'].thread = w PROVE Newest(w, SpanOf(w))'
  <2>1. Newest(w, SpanOf(w))
    BY <1>1, <1>2, <1>3, <1>4
  <2>2. QED
    BY <1>1, <2>1 DEF Newest
<1>5. held[w] # 0 => held[w] = SpanOf(w)
  BY DEF SpanOf
<1>6. QED
  BY <1>2, <1>3, <1>4, <1>5

\* The steps that leave the tracer alone.
LEMMA NestingEngine ==
    ASSUME Base, Nesting, NEW h \in Threads, EventsKept(h),
           UNCHANGED <<active, held, context, spans>>,
           \A w \in Workers \ {h} : hand'[w] = hand[w] /\ phase'[w] = phase[w],
           h \in Workers /\ Current(h)' => Current(h) /\ SpanOf(h)' = SpanOf(h),
           held[h] = 0
    PROVE  Nesting'
<1>0. OwnInv /\ ContextInv /\ ParentInv /\ Len(spans) \in Nat
  BY DEF Nesting, Base, TypeOK
<1>1. spans' = spans /\ held' = held /\ active' = active /\ context' = context
  OBVIOUS
<1>2. ASSUME NEW w \in Workers, w # h PROVE Own(w)'
  BY <1>0, <1>1, <1>2, OwnOther
<1>3. ASSUME h \in Workers PROVE Own(h)'
  <2>1. Own(h)
    BY <1>0, <1>3 DEF OwnInv
  <2>2. QED
    BY <1>1, <1>3, <2>1, OwnSelf
<1>4. OwnInv'
  BY <1>2, <1>3 DEF OwnInv
<1>5. ContextInv' /\ ParentInv'
  BY <1>0, <1>1 DEF ContextInv, ParentInv
<1>6. QED
  BY <1>4, <1>5 DEF Nesting

\* The start of a span, under the thread's current one.
LEMMA NestingStart ==
    ASSUME Base, Nesting, NEW h \in Threads, ObserveStart(h)
    PROVE  Nesting'
<1> USE ConstantsAssumption
<1>0. OwnInv /\ ContextInv /\ ParentInv
  BY DEF Nesting
<1>1. /\ h \in Workers /\ UNCHANGED <<active, engineVars, logVars>>
      /\ Goes(h, left[h] \ {"obs"}) /\ SpansKept(h)
      /\ context'[h] = Len(spans) + 1
      /\ Len(spans) \in Nat /\ Len(spans') = Len(spans) + 1
      /\ \A j \in 1..Len(spans) : spans'[j] = spans[j]
      /\ spans'[Len(spans) + 1].thread = h
      /\ spans'[Len(spans) + 1].parent = context[h]
      /\ spans'[Len(spans) + 1].ender = None
  BY StartFacts
<1>2. SpanOf(h)' = Len(spans) + 1 /\ held'[h] = Len(spans) + 1
  BY StartStage
<1>3. EventsKept(h) /\ active' = active /\ hand' = hand /\ phase' = phase
  BY <1>1 DEF Goes, engineVars
<1>4. ASSUME NEW w \in Workers, w # h PROVE Own(w)'
  <2>1. held'[w] = held[w] /\ w \in Threads
    BY <1>1, <1>4 DEF SpansKept, Threads
  <2>2. \A j \in 1..Len(spans') : j > Len(spans) => spans'[j].thread # w
    BY <1>1, <1>4
  <2>3. Len(spans') \in Nat /\ Len(spans') >= Len(spans)
    BY <1>1
  <2>4. QED
    BY <1>0, <1>1, <1>3, <1>4, <2>1, <2>2, <2>3, OwnOther
<1>5. Own(h)'
  <2>1. Newest(h, SpanOf(h))'
    BY <1>1, <1>2 DEF Newest
  <2>2. QED
    BY <1>1, <1>2, <2>1 DEF Own
<1>6. OwnInv'
  BY <1>4, <1>5 DEF OwnInv
<1>7. ContextInv'
  <2>1. SUFFICES ASSUME NEW x \in Threads, context'[x] # 0
                 PROVE  /\ context'[x] \in 1..Len(spans') /\ spans'[context'[x]].thread = x
                        /\ spans'[context'[x]].ender # x
    BY DEF ContextInv
  <2>2. CASE x = h
    <3>1. h # None
      OBVIOUS
    <3>2. QED
      BY <1>1, <2>2, <3>1
  <2>3. CASE x # h
    <3>1. context'[x] = context[x]
      BY <1>1, <2>3 DEF SpansKept
    <3>2. /\ context[x] \in 1..Len(spans) /\ spans[context[x]].thread = x
          /\ spans[context[x]].ender # x
      BY <1>0, <2>1, <3>1 DEF ContextInv
    <3>3. QED
      BY <1>1, <3>1, <3>2
  <2>4. QED
    BY <2>2, <2>3
<1>8. ParentInv'
  <2>1. SUFFICES ASSUME NEW i \in 1..Len(spans'), spans'[i].parent # 0
                 PROVE  /\ spans'[i].parent \in 1..(i - 1)
                        /\ spans'[spans'[i].parent].thread = spans'[i].thread
                        /\ spans'[spans'[i].parent].ender # spans'[i].thread
    BY DEF ParentInv
  <2>2. CASE i = Len(spans) + 1
    <3>1. context[h] # 0 /\ spans'[i].parent = context[h] /\ spans'[i].thread = h
      BY <1>1, <2>1, <2>2
    <3>2. /\ context[h] \in 1..Len(spans) /\ spans[context[h]].thread = h
          /\ spans[context[h]].ender # h
      BY <1>0, <3>1 DEF ContextInv
    <3>3. QED
      BY <1>1, <2>2, <3>1, <3>2
  <2>3. CASE i # Len(spans) + 1
    <3>1. i \in 1..Len(spans) /\ spans'[i] = spans[i]
      BY <1>1, <2>3
    <3>2. /\ spans[i].parent \in 1..(i - 1)
          /\ spans[spans[i].parent].thread = spans[i].thread
          /\ spans[spans[i].parent].ender # spans[i].thread
      BY <1>0, <2>1, <3>1 DEF ParentInv
    <3>3. spans[i].parent \in 1..Len(spans)
      BY <1>1, <3>1, <3>2
    <3>4. QED
      BY <1>1, <3>1, <3>2, <3>3
  <2>4. QED
    BY <2>2, <2>3
<1>9. QED
  BY <1>6, <1>7, <1>8 DEF Nesting

\* Its registration, and its removal when the task is over.
LEMMA NestingRegister ==
    ASSUME Base, Nesting, NEW h \in Threads, RegisterSpan(h) \/ ObserveEnd(h)
    PROVE  Nesting'
<1>0. OwnInv /\ ContextInv /\ ParentInv /\ Len(spans) \in Nat
  BY DEF Nesting, Base, TypeOK
<1>1. /\ UNCHANGED <<context, spans, engineVars>> /\ EventsKept(h) /\ SpansKept(h)
  BY RegisterFacts, PopFacts DEF Goes
<1>2. context' = context /\ spans' = spans /\ hand' = hand /\ phase' = phase
  BY <1>1 DEF engineVars
<1>3. ASSUME NEW w \in Workers, w # h PROVE Own(w)'
  <2>1. held'[w] = held[w]
    BY <1>1, <1>3 DEF SpansKept, Threads
  <2>2. \A t \in Tasks : \/ active'[t] = active[t] \/ active'[t] = 0
                         \/ spans'[active'[t]].thread # w
    <3>1. CASE RegisterSpan(h)
      <4>1. /\ h \in Workers /\ held[h] # 0 /\ event[h].kind = "TaskStarted"
            /\ active'[event[h].task] = held[h]
            /\ \A t \in Tasks \ {event[h].task} : active'[t] = active[t]
        BY <3>1, RegisterFacts
      <4>2. Current(h) /\ SpanOf(h) # 0
        BY <3>1, RegisterStage
      <4>3. spans[held[h]].thread = h
        BY <1>0, <4>1, <4>2 DEF OwnInv, Own
      <4>4. QED
        BY <1>2, <1>3, <4>1, <4>3
    <3>2. CASE ObserveEnd(h)
      BY <3>2, PopFacts
    <3>3. QED
      BY <3>1, <3>2
  <2>3. QED
    BY <1>0, <1>1, <1>2, <1>3, <2>1, <2>2, OwnOther
<1>4. ASSUME h \in Workers PROVE Own(h)'
  <2>1. Own(h)
    BY <1>0, <1>4 DEF OwnInv
  <2>2. CASE RegisterSpan(h)
    BY <1>2, <1>4, <2>1, <2>2, OwnSelf, RegisterStage, RegisterFacts
  <2>3. CASE ObserveEnd(h)
    <3>1. Current(h) /\ (Current(h)' => SpanOf(h)' = SpanOf(h))
      BY <1>4, <2>3, PopStage
    <3>2. event[h].kind # "TaskStarted" /\ (held'[h] # 0 => event'[h] = event[h])
      BY <2>3, PopFacts DEF Goes, Failures
    <3>3. held'[h] # 0 => event'[h].kind # "TaskStarted"
      BY <3>2
    <3>4. Len(spans') = Len(spans) /\ \A j \in 1..Len(spans) : spans'[j].thread = spans[j].thread
      BY <1>2
    <3>5. Current(h)' /\ SpanOf(h)' # 0 => Current(h) /\ SpanOf(h)' = SpanOf(h)
      BY <3>1
    <3>6. held'[h] # 0 => \/ event'[h].kind # "TaskStarted"
                          \/ held[h] # 0 /\ event'[h] = event[h] /\ held'[h] = held[h]
      BY <3>3
    <3>7. QED
      BY <1>4, <2>1, <3>4, <3>5, <3>6, OwnSelf
  <2>4. QED
    BY <2>2, <2>3
<1>5. OwnInv'
  BY <1>3, <1>4 DEF OwnInv
<1>6. ContextInv' /\ ParentInv'
  BY <1>0, <1>2 DEF ContextInv, ParentInv
<1>7. QED
  BY <1>5, <1>6 DEF Nesting

\* Its end: a worker that ends a span of its own ends its newest, so no span
\* that it started later has it as parent.
LEMMA NestingEnd ==
    ASSUME Base, Nesting, NEW h \in Threads, EndSpan(h)
    PROVE  Nesting'
<1> USE ConstantsAssumption
<1>0. OwnInv /\ ContextInv /\ ParentInv /\ Len(spans) \in Nat /\ spans \in Seq(Spans)
  BY DEF Nesting, Base, TypeOK
<1>1. /\ held[h] \in 1..Len(spans) /\ UNCHANGED <<active, engineVars>>
      /\ Goes(h, left[h]) /\ SpansKept(h) /\ held'[h] = 0
      /\ Len(spans') = Len(spans)
      /\ \A j \in 1..Len(spans) : j # held[h] => spans'[j] = spans[j]
      /\ \A j \in 1..Len(spans) : /\ spans'[j].thread = spans[j].thread
                                  /\ spans'[j].parent = spans[j].parent
      /\ spans'[held[h]].ender = h
      /\ context[h] = held[h] => context'[h] = spans[held[h]].parent
      /\ context[h] # held[h] => context'[h] = context[h]
  BY EndFacts
<1>2. EventsKept(h) /\ active' = active /\ hand' = hand /\ phase' = phase
  BY <1>1 DEF Goes, engineVars
<1>3. ASSUME NEW w \in Workers, w # h PROVE Own(w)'
  <2>1. held'[w] = held[w]
    BY <1>1, <1>3 DEF SpansKept, Threads
  <2>2. Len(spans') \in Nat /\ Len(spans') >= Len(spans)
    BY <1>0, <1>1
  <2>3. \A j \in 1..Len(spans') : j > Len(spans) => spans'[j].thread # w
    BY <1>0, <1>1
  <2>4. QED
    BY <1>0, <1>1, <1>2, <1>3, <2>1, <2>2, <2>3, OwnOther
<1>4. ASSUME h \in Workers PROVE Own(h)'
  BY <1>4, EndStage DEF Own
<1>5. OwnInv'
  BY <1>3, <1>4 DEF OwnInv
<1>6. ContextInv'
  <2>1. SUFFICES ASSUME NEW x \in Threads, context'[x] # 0
                 PROVE  /\ context'[x] \in 1..Len(spans') /\ spans'[context'[x]].thread = x
                        /\ spans'[context'[x]].ender # x
    BY DEF ContextInv
  <2>2. CASE x # h
    <3>1. context'[x] = context[x]
      BY <1>1, <2>2 DEF SpansKept
    <3>2. /\ context[x] \in 1..Len(spans) /\ spans[context[x]].thread = x
          /\ spans[context[x]].ender # x
      BY <1>0, <2>1, <3>1 DEF ContextInv
    <3>3. spans'[context[x]].ender # x
      BY <1>1, <2>2, <3>2
    <3>4. QED
      BY <1>1, <3>1, <3>2, <3>3
  <2>3. CASE x = h /\ context[h] # held[h]
    <3>1. /\ context'[h] = context[h] /\ context[h] \in 1..Len(spans)
          /\ spans[context[h]].thread = h /\ spans[context[h]].ender # h
      BY <1>0, <1>1, <2>1, <2>3 DEF ContextInv
    <3>2. QED
      BY <1>1, <2>3, <3>1
  <2>4. CASE x = h /\ context[h] = held[h]
    <3>1. PICK i \in 1..Len(spans) : i = held[h]
      BY <1>1
    <3>2. context'[h] = spans[i].parent /\ spans[i].parent # 0 /\ spans[i].thread = h
      BY <1>0, <1>1, <2>1, <2>4, <3>1 DEF ContextInv
    <3>3. /\ spans[i].parent \in 1..(i - 1) /\ spans[spans[i].parent].thread = h
          /\ spans[spans[i].parent].ender # h
      BY <1>0, <3>2 DEF ParentInv
    <3>4. spans[i].parent \in 1..Len(spans) /\ spans[i].parent # i
      BY <1>0, <3>3
    <3>5. QED
      BY <1>1, <2>4, <3>1, <3>2, <3>3, <3>4
  <2>5. QED
    BY <2>2, <2>3, <2>4
<1>7. ParentInv'
  <2>1. SUFFICES ASSUME NEW i \in 1..Len(spans'), spans'[i].parent # 0
                 PROVE  /\ spans'[i].parent \in 1..(i - 1)
                        /\ spans'[spans'[i].parent].thread = spans'[i].thread
                        /\ spans'[spans'[i].parent].ender # spans'[i].thread
    BY DEF ParentInv
  <2>2. i \in 1..Len(spans) /\ spans'[i].parent = spans[i].parent /\ spans'[i].thread = spans[i].thread
    BY <1>1
  <2>3. /\ spans[i].parent \in 1..(i - 1)
        /\ spans[spans[i].parent].thread = spans[i].thread
        /\ spans[spans[i].parent].ender # spans[i].thread
    BY <1>0, <2>1, <2>2 DEF ParentInv
  <2>4. spans[i].parent \in 1..Len(spans) /\ spans[i].parent < i
    BY <1>0, <2>2, <2>3
  <2>5. spans'[spans[i].parent].ender # spans[i].thread
    <3>1. CASE spans[i].parent # held[h]
      BY <1>1, <2>3, <2>4, <3>1
    <3>2. CASE spans[i].parent = held[h]
      <4>1. SUFFICES ASSUME spans[i].thread = h PROVE FALSE
        BY <1>1, <3>2
      <4>2. spans[held[h]].thread = h
        BY <2>3, <3>2, <4>1
      <4>3. h \in Workers
        <5>1. spans[held[h]] \in Spans
          BY <1>0, <1>1
        <5>2. QED
          BY <4>2, <5>1 DEF Spans
      <4>4. Current(h) /\ SpanOf(h) = held[h] /\ held[h] # 0
        BY <4>3, EndStage
      <4>5. Newest(h, held[h])
        BY <1>0, <4>2, <4>3, <4>4 DEF OwnInv, Own
      <4>6. i <= held[h]
        BY <2>2, <4>1, <4>5 DEF Newest
      <4>7. QED
        BY <1>0, <1>1, <2>2, <2>4, <3>2, <4>6
    <3>3. QED
      BY <3>1, <3>2
  <2>6. QED
    BY <1>1, <2>2, <2>3, <2>4, <2>5
<1>8. QED
  BY <1>5, <1>6, <1>7 DEF Nesting

\* Everything together.
LEMMA NestingStep == Base /\ Nesting /\ [Next]_vars => Nesting'
<1> USE ConstantsAssumption
<1> SUFFICES ASSUME Base, Nesting, [Next]_vars PROVE Nesting'
  OBVIOUS
<1>0. /\ Monitor \in Threads /\ Workers \subseteq Threads /\ Monitor \notin Workers
      /\ Callers \subseteq Threads /\ Callers \cap Workers = {}
  BY DEF Threads
<1>1. ASSUME NEW w \in Workers,
             WorkerTake(w) \/ WorkerReturn(w) \/ WorkerRaise(w) \/ WorkerFinally(w) \/ WorkerQuit(w)
      PROVE  Nesting'
  <2>1. /\ EventsKept(w) /\ OthersKept(w) /\ UNCHANGED traceVars
    <3>1. CASE WorkerFinally(w) \/ WorkerQuit(w)
      BY <3>1, FinallyFacts, QuitFacts DEF busVars, EventsKept
    <3>2. QED
      BY <1>1, <3>1, TakeFacts, TurnFacts DEF Appended
  <2>2. Current(w)' => Current(w) /\ SpanOf(w)' = SpanOf(w)
    BY <1>1, TakeStage, TurnStage, FinallyStage, QuitStage
  <2>3. held[w] = 0
    <3>1. BusControl(w) /\ WorkerControl(w)
      BY WorkerEvent
    <3>2. Quiet(w)
      <4>1. CASE WorkerTake(w)
        BY <3>1, <4>1, TakeFacts DEF WorkerControl
      <4>2. CASE ~WorkerTake(w)
        BY <1>1, <4>2, TurnFacts, FinallyFacts, QuitFacts
      <4>3. QED
        BY <4>1, <4>2
    <3>3. QED
      BY <3>1, <3>2 DEF BusControl
  <2>4. QED
    BY <1>0, <2>1, <2>2, <2>3, NestingEngine DEF OthersKept, traceVars
<1>2. ASSUME MonitorFail \/ \E w \in Workers : MonitorExpire(w) PROVE Nesting'
  <2>1. EventsKept(Monitor)
    BY <1>2, MonitorFacts DEF Appended
  <2>2. Quiet(Monitor) /\ hand' = hand /\ phase' = phase /\ UNCHANGED traceVars
    BY <1>2, MonitorFacts
  <2>3. BusControl(Monitor)
    BY <1>0 DEF Base, Control
  <2>4. held[Monitor] = 0
    BY <2>2, <2>3 DEF BusControl
  <2>5. QED
    BY <1>0, <2>1, <2>2, <2>4, NestingEngine DEF traceVars
<1>3. ASSUME NEW h \in Threads,
             Logged(h) \/ LogRaises(h) \/ ObserveOther(h) \/ ObserveSubmit(h)
      PROVE  Nesting'
  <2>1. /\ UNCHANGED <<engineVars, active, held, context, spans>> /\ EventsKept(h) /\ held[h] = 0
    BY <1>3, StoreFacts, OtherFacts, SubmitFacts DEF Goes, traceVars
  <2>2. hand' = hand /\ phase' = phase
    BY <2>1 DEF engineVars
  <2>3. h \in Workers => ~ObserveSubmit(h)
    BY SubmitFacts, WorkerEvent
  <2>4. h \in Workers /\ Current(h)' => Current(h) /\ SpanOf(h)' = SpanOf(h)
    BY <1>3, <2>3, StoreStage, OtherStage
  <2>5. QED
    BY <2>1, <2>2, <2>4, NestingEngine
<1>4. CASE UNCHANGED vars
  BY <1>4 DEF vars, engineVars, busVars, traceVars, Nesting, OwnInv, Own, ContextInv, ParentInv,
              Current, ToStart, SpanOf, Newest, Quiet
<1>5. ASSUME NEW h \in Callers, Submit(h) \/ Schedule(h) \/ Cancel(h) PROVE Nesting'
  <2>1. /\ Quiet(h) /\ EventsKept(h) /\ hand' = hand /\ phase' = phase /\ UNCHANGED traceVars
        /\ h \in Threads /\ h \notin Workers
    BY <1>0, <1>5, CallerFacts
  <2>2. BusControl(h)
    BY <2>1 DEF Base, Control
  <2>3. held[h] = 0
    BY <2>1, <2>2 DEF BusControl
  <2>4. QED
    BY <2>1, <2>3, NestingEngine DEF traceVars
<1>6. QED
  BY <1>1, <1>2, <1>3, <1>4, <1>5, StepCases, NestingStart, NestingRegister, NestingEnd

----------------------------------------------------------------------------
(* The one attempt of an undisturbed task.                                 *)

\* The spans of a task stay when no span of it is started.
LEMMA SpansOfKept ==
    ASSUME NEW t, Len(spans) \in Nat, Len(spans') \in Nat, Len(spans') >= Len(spans),
           \A j \in 1..Len(spans) : spans'[j].task = spans[j].task,
           \A j \in 1..Len(spans') : j > Len(spans) => spans'[j].task # t
    PROVE  SpansOf(t)' = SpansOf(t)
  BY DEF SpansOf

\* Nobody begins to submit or to cancel a task while threads only go on.
LEMMA PendingKept ==
    ASSUME Base, NEW h \in Threads, EventsKept(h), UNCHANGED <<fresh, asked>>,
           h \in Callers => event'[h] = event[h] \/ event'[h] = None, NEW t
    PROVE  Pending(t)' => Pending(t)
<1>1. ASSUME NEW g \in Callers, ~Quiet(g)' PROVE ~Quiet(g) /\ event'[g] = event[g]
  <2>1. CASE g = h
    BY <1>1, <2>1 DEF Quiet
  <2>2. CASE g # h
    <3>1. event'[g] = event[g]
      BY <2>2 DEF EventsKept, Threads
    <3>2. QED
      BY <1>1, <3>1 DEF Quiet
  <2>3. QED
    BY <2>1, <2>2
<1>2. SUFFICES ASSUME Pending(t)' PROVE Pending(t)
  OBVIOUS
<1>3. CASE t \in fresh'
  BY <1>3 DEF Pending
<1>4. CASE \E g \in Callers : asked'[g] = t \/ (~Quiet(g)' /\ event'[g].task = t)
  <2>1. PICK g \in Callers : asked'[g] = t \/ (~Quiet(g)' /\ event'[g].task = t)
    BY <1>4
  <2>2. asked[g] = t \/ (~Quiet(g) /\ event[g].task = t)
    BY <1>1, <2>1
  <2>3. QED
    BY <2>2 DEF Pending
<1>5. QED
  BY <1>2, <1>3, <1>4 DEF Pending

\* What a call of a subscriber says of them and of the threads that ended.
LEMMA CallKept ==
    ASSUME Base, NEW t \in Tasks, Calm(t), NEW h \in Threads, NEW rest, Goes(h, rest),
           UNCHANGED engineVars
    PROVE  /\ Pending(t)' => Pending(t)
           /\ Exited(t)' <=> Exited(t)
           /\ \A w \in Workers : hand[w] = t => ~Pending(t)' /\ ~Exited(t)'
<1>1. fresh' = fresh /\ asked' = asked /\ died' = died
  BY DEF engineVars
<1>2. EventsKept(h) /\ (event'[h] = event[h] \/ event'[h] = None)
  BY DEF Goes
<1>3. Pending(t)' => Pending(t)
  BY <1>1, <1>2, PendingKept
<1>4. Exited(t)' <=> Exited(t)
  BY <1>1 DEF Exited
<1>5. ASSUME NEW w \in Workers, hand[w] = t PROVE ~Pending(t) /\ ~Exited(t)
  BY <1>5 DEF Calm, Unseen, Attempt
<1>6. QED
  BY <1>3, <1>4, <1>5

\* What threads do with other tasks does not matter to t.
LEMMA CalmFrame ==
    ASSUME Base, NEW t \in Tasks, Calm(t), NEW h \in Threads, EventsKept(h),
           \A w \in Workers \ {h} : hand'[w] = hand[w] /\ phase'[w] = phase[w] /\ held'[w] = held[w],
           h \in Workers => hand[h] # t /\ hand'[h] # t,
           ready'[t] = ready[t], active'[t] = active[t],
           Pending(t)' => Pending(t), Exited(t)' <=> Exited(t),
           Len(spans') \in Nat, Len(spans') >= Len(spans),
           \A j \in 1..Len(spans) : spans'[j].task = spans[j].task,
           \A j \in 1..Len(spans) : spans[j].task = t => spans'[j] = spans[j],
           \A j \in 1..Len(spans') : j > Len(spans) => spans'[j].task # t
    PROVE  Calm(t)'
<1>0. Len(spans) \in Nat
  BY DEF Base, TypeOK
<1>1. SpansOf(t)' = SpansOf(t)
  BY <1>0, SpansOfKept
<1>2. \A i \in SpansOf(t) : spans'[i] = spans[i] /\ (Over(i)' <=> Over(i))
  BY DEF SpansOf, Over
<1>3. \A w \in Workers : hand'[w] = t <=> hand[w] = t
  OBVIOUS
<1>4. Idle(t)'
  <2>1. Idle(t)
    BY DEF Calm
  <2>2. SUFFICES ASSUME ~Exited(t), \A w \in Workers : hand'[w] # t
                 PROVE  /\ ready'[t] \in {0, 1} /\ active'[t] = 0
                        /\ ready'[t] = 1 => SpansOf(t)' = {}
                        /\ \A i \in SpansOf(t)' : Over(i)'
    BY DEF Idle
  <2>3. \A w \in Workers : hand[w] # t
    BY <1>3, <2>2
  <2>4. /\ ready[t] \in {0, 1} /\ active[t] = 0
        /\ ready[t] = 1 => SpansOf(t) = {}
        /\ \A i \in SpansOf(t) : Over(i)
    BY <2>1, <2>2, <2>3 DEF Idle
  <2>5. QED
    BY <1>1, <1>2, <2>4
<1>5. ASSUME NEW w \in Workers, hand'[w] = t PROVE Attempt(w, t)'
  <2>0. ~Exited(t)'
    BY <1>3, <1>5 DEF Calm, Attempt
  <2>1. hand[w] = t /\ w # h
    BY <1>3, <1>5
  <2>2. Attempt(w, t)
    BY <2>1 DEF Calm
  <2>3. hand'[w] = hand[w] /\ phase'[w] = phase[w] /\ held'[w] = held[w]
    BY <2>1
  <2>4. /\ ToStart(w)' <=> ToStart(w)
        /\ Current(w)' <=> Current(w)
        /\ SpanOf(w)' = SpanOf(w)
    BY <2>1, <2>3, KeptStage
  <2>5. Current(w) => /\ SpanOf(w) # 0 /\ SpansOf(t) = {SpanOf(w)}
                      /\ spans[SpanOf(w)].thread = w /\ spans[SpanOf(w)].open
                      /\ held[w] # 0 => active[t] = 0
    BY <2>2 DEF Attempt
  <2>6. Current(w) => spans'[SpanOf(w)] = spans[SpanOf(w)]
    BY <1>2, <2>5
  <2>7. ready[t] = 0 /\ \A v \in Workers : hand[v] = t => v = w
    BY <2>2 DEF Attempt
  <2>8. ToStart(w) => active[t] = 0 /\ SpansOf(t) = {}
    BY <2>2 DEF Attempt
  <2>9. ~ToStart(w) /\ ~Current(w) => active[t] = 0 /\ \A i \in SpansOf(t) : Over(i)
    BY <2>2 DEF Attempt
  <2>10. Current(w)' => /\ SpanOf(w)' # 0 /\ SpansOf(t)' = {SpanOf(w)'}
                        /\ spans'[SpanOf(w)'].thread = w /\ spans'[SpanOf(w)'].open
                        /\ held'[w] # 0 => active'[t] = 0
    BY <1>1, <2>3, <2>4, <2>5, <2>6
  <2>11. ~ToStart(w)' /\ ~Current(w)' => active'[t] = 0 /\ \A i \in SpansOf(t)' : Over(i)'
    BY <1>1, <1>2, <2>4, <2>9
  <2>12. ready'[t] = 0 /\ \A v \in Workers : hand'[v] = t => v = w
    BY <1>3, <2>7
  <2>13. ToStart(w)' => active'[t] = 0 /\ SpansOf(t)' = {}
    BY <1>1, <2>4, <2>8
  <2>14. QED
    BY <2>0, <2>10, <2>11, <2>12, <2>13 DEF Attempt
<1>6. Abandoned(t)'
  <2>1. Abandoned(t)
    BY DEF Calm
  <2>2. QED
    BY <1>1, <1>2, <2>1 DEF Abandoned
<1>7. Pending(t)' => Unseen(t)'
  <2>1. Pending(t) => Unseen(t)
    BY DEF Calm
  <2>2. QED
    BY <1>1, <1>3, <2>1 DEF Unseen
<1>8. QED
  BY <1>4, <1>5, <1>6, <1>7 DEF Calm

\* An attempt that goes on is all there is to show.
LEMMA CalmAttempt ==
    ASSUME NEW t \in Tasks, NEW w \in Workers, hand'[w] = t, ready'[t] = 0,
           \A v \in Workers : hand'[v] = t => v = w, ~Pending(t)', ~Exited(t)',
           ToStart(w)' => active'[t] = 0 /\ SpansOf(t)' = {},
           Current(w)' => /\ SpanOf(w)' # 0 /\ SpansOf(t)' = {SpanOf(w)'}
                          /\ spans'[SpanOf(w)'].thread = w /\ spans'[SpanOf(w)'].open
                          /\ held'[w] # 0 => active'[t] = 0,
           ~ToStart(w)' /\ ~Current(w)' => active'[t] = 0 /\ \A i \in SpansOf(t)' : Over(i)'
    PROVE  Calm(t)'
<1>1. Attempt(w, t)'
  BY DEF Attempt
<1>2. Idle(t)'
  BY DEF Idle
<1>3. ASSUME NEW v \in Workers, hand'[v] = t PROVE Attempt(v, t)'
  BY <1>1, <1>3
<1>4. Abandoned(t)'
  BY DEF Abandoned
<1>5. QED
  BY <1>2, <1>3, <1>4 DEF Calm

\* A worker takes a task, finishes with it or lets it go.
LEMMA CalmWorker ==
    ASSUME Base, NEW t \in Tasks, Calm(t), tries'[t] = 0, NEW w \in Workers,
           WorkerTake(w) \/ WorkerReturn(w) \/ WorkerRaise(w) \/ WorkerFinally(w) \/ WorkerQuit(w)
    PROVE  Calm(t)'
<1> USE ConstantsAssumption
<1>0. TypeOK /\ w \in Threads /\ Len(spans) \in Nat /\ ready[t] \in Nat
  BY SMTT(30) DEF Base, TypeOK, Threads
<1>1. /\ EventsKept(w) /\ OthersKept(w) /\ UNCHANGED traceVars
  <2>1. CASE WorkerFinally(w) \/ WorkerQuit(w)
    BY <2>1, FinallyFacts, QuitFacts DEF busVars, EventsKept
  <2>2. QED
    BY <2>1, TakeFacts, TurnFacts DEF Appended
<1>2. spans' = spans /\ held' = held /\ active' = active
  BY <1>1 DEF traceVars
<1>3. SpansOf(t)' = SpansOf(t) /\ \A i \in SpansOf(t) : Over(i)' <=> Over(i)
  BY <1>2 DEF SpansOf, Over
<1>4. \A v \in Workers \ {w} : /\ hand'[v] = hand[v] /\ phase'[v] = phase[v]
                               /\ held'[v] = held[v]
  BY <1>1, <1>2 DEF OthersKept
<1>10. UNCHANGED <<fresh, asked>> /\ w \notin Callers
  BY TakeFacts, TurnFacts, FinallyFacts, QuitFacts
<1>11. Pending(t)' => Pending(t)
  BY <1>0, <1>1, <1>10, PendingKept
<1>12. hand[w] # t => (Exited(t)' <=> Exited(t))
  <2>1. CASE ~WorkerQuit(w)
    <3>1. died' = died
      BY <2>1, TakeFacts, TurnFacts, FinallyFacts
    <3>2. QED
      BY <3>1 DEF Exited
  <2>2. CASE WorkerQuit(w)
    <3>1. died[w] = None /\ died'[w] = hand[w] /\ t # None
      BY <2>2, QuitFacts
    <3>2. \A v \in Workers \ {w} : died'[v] = died[v]
      BY <1>1 DEF OthersKept
    <3>3. QED
      BY <3>1, <3>2 DEF Exited
  <2>3. QED
    BY <2>1, <2>2
<1>13. ASSUME hand[w] = t PROVE Attempt(w, t) /\ ~Pending(t)' /\ ~Exited(t)
  BY <1>11, <1>13 DEF Calm, Unseen, Attempt
<1>5. ASSUME hand[w] # t, hand'[w] # t, ready'[t] = ready[t] PROVE Calm(t)'
  BY <1>0, <1>1, <1>2, <1>4, <1>5, <1>11, <1>12, CalmFrame
<1>6. CASE WorkerTake(w)
  <2>1. PICK u \in Tasks : /\ ready[u] > 0 /\ ready'[u] = ready[u] - 1
                           /\ \A x \in Tasks \ {u} : ready'[x] = ready[x]
                           /\ hand'[w] = u
    BY <1>6, TakeFacts
  <2>2. hand[w] = None
    <3>1. phase[w] = "free" /\ WorkerControl(w)
      BY <1>6, TakeFacts, WorkerEvent
    <3>2. QED
      BY <3>1 DEF WorkerControl
  <2>3. CASE u # t
    BY <1>5, <2>1, <2>2, <2>3
  <2>4. CASE u = t
    <3>1. \A v \in Workers : hand[v] # t
      <4>1. SUFFICES ASSUME NEW v \in Workers, hand[v] = t PROVE FALSE
        OBVIOUS
      <4>2. Attempt(v, t)
        BY <4>1 DEF Calm
      <4>3. QED
        BY <2>1, <2>4, <4>2 DEF Attempt
    <3>0. ~Exited(t) /\ ~Pending(t)
      BY <2>1, <2>4 DEF Calm, Abandoned, Unseen
    <3>7. ~Exited(t)' /\ ~Pending(t)'
      BY <1>11, <1>12, <2>2, <3>0
    <3>2. /\ ready[t] \in {0, 1} /\ active[t] = 0
          /\ ready[t] = 1 => SpansOf(t) = {}
      BY <3>0, <3>1 DEF Calm, Idle
    <3>3. ready'[t] = 0 /\ SpansOf(t) = {}
      BY <2>1, <2>4, <3>2
    <3>4. \A v \in Workers : hand'[v] = t => v = w
      BY <1>4, <3>1
    <3>5. ToStart(w)' /\ ~Current(w)'
      BY <1>6, TakeStage
    <3>6. QED
      BY <1>2, <1>3, <2>1, <2>4, <3>2, <3>3, <3>4, <3>5, <3>7, CalmAttempt
  <2>5. QED
    BY <2>3, <2>4
<1>7. CASE WorkerReturn(w) \/ WorkerRaise(w)
  <2>1. hand' = hand /\ hand[w] \in Tasks
    BY <1>7, TurnFacts
  <2>2. ready'[t] = ready[t]
    BY <1>7, TurnFacts
  <2>3. CASE hand[w] # t
    BY <1>5, <2>1, <2>2, <2>3
  <2>4. CASE hand[w] = t
    <3>1. Attempt(w, t) /\ ~Pending(t)' /\ ~Exited(t)'
      <4>1. died' = died
        BY <1>7, TurnFacts
      <4>2. QED
        BY <1>13, <2>4, <4>1 DEF Exited
    <3>2. /\ ~ToStart(w) /\ Current(w) /\ ~ToStart(w)' /\ Current(w)'
          /\ SpanOf(w)' = SpanOf(w) /\ held'[w] = 0
      BY <1>7, TurnStage
    <3>3. /\ ready[t] = 0 /\ \A v \in Workers : hand[v] = t => v = w
      BY <3>1 DEF Attempt
    <3>4. /\ SpanOf(w) # 0 /\ SpansOf(t) = {SpanOf(w)} /\ spans[SpanOf(w)].thread = w
          /\ spans[SpanOf(w)].open
      BY <3>1, <3>2 DEF Attempt
    <3>5. QED
      BY <1>2, <1>3, <2>1, <2>2, <2>4, <3>1, <3>2, <3>3, <3>4, CalmAttempt
  <2>5. QED
    BY <2>3, <2>4
<1>8. CASE WorkerFinally(w)
  <2>1. hand'[w] = None /\ ready' = ready
    BY <1>8, FinallyFacts
  <2>2. CASE hand[w] # t
    BY <1>5, <2>1, <2>2
  <2>3. CASE hand[w] = t
    <3>1. Attempt(w, t) /\ ~Pending(t)' /\ ~Exited(t)'
      <4>1. died' = died
        BY <1>8, FinallyFacts
      <4>2. QED
        BY <1>13, <2>3, <4>1 DEF Exited
    <3>2. ~ToStart(w) /\ ~Current(w)
      BY <1>8, FinallyStage
    <3>3. /\ ready[t] = 0 /\ active[t] = 0 /\ \A i \in SpansOf(t) : Over(i)
      BY <3>1, <3>2 DEF Attempt
    <3>4. \A v \in Workers : hand[v] = t => v = w
      BY <3>1 DEF Attempt
    <3>5. \A v \in Workers : hand'[v] # t
      BY <1>4, <2>1, <3>4
    <3>6. Idle(t)'
      BY <1>2, <1>3, <2>1, <3>3 DEF Idle
    <3>7. QED
      BY <3>1, <3>5, <3>6 DEF Calm, Abandoned
  <2>4. QED
    BY <2>2, <2>3
<1>14. CASE WorkerQuit(w)
  <2>1. hand'[w] = None /\ ready' = ready /\ died'[w] = hand[w]
    BY <1>14, QuitFacts
  <2>2. CASE hand[w] # t
    BY <1>5, <2>1, <2>2
  <2>3. CASE hand[w] = t
    <3>1. Attempt(w, t) /\ ~Pending(t)' /\ Exited(t)'
      BY <1>13, <2>1, <2>3 DEF Exited
    <3>2. Current(w)
      BY <1>14, QuitStage
    <3>3. ready[t] = 0 /\ SpansOf(t) = {SpanOf(w)} /\ spans[SpanOf(w)].open
      BY <3>1, <3>2 DEF Attempt
    <3>4. \A v \in Workers : hand[v] = t => v = w
      BY <3>1 DEF Attempt
    <3>5. \A v \in Workers : hand'[v] # t
      BY <1>4, <2>1, <3>4
    <3>6. Idle(t)' /\ Abandoned(t)'
      BY <1>2, <1>3, <2>1, <3>1, <3>3 DEF Idle, Abandoned
    <3>7. QED
      BY <3>1, <3>5, <3>6 DEF Calm
  <2>4. QED
    BY <2>2, <2>3
<1>15. QED
  BY <1>6, <1>7, <1>8, <1>14

\* The monitor deals with other tasks.
LEMMA CalmMonitor ==
    ASSUME Base, NEW t \in Tasks \ Timed, Calm(t), MonitorFail \/ \E w \in Workers : MonitorExpire(w)
    PROVE  Calm(t)'
<1> USE ConstantsAssumption
<1>0. Monitor \in Threads /\ Monitor \notin Workers /\ Len(spans) \in Nat
  BY DEF Base, TypeOK, Threads
<1>1. PICK u \in Timed : /\ EventsKept(Monitor)
                         /\ ready' = ready \/ \A x \in Tasks \ {u} : ready'[x] = ready[x]
  BY MonitorFacts DEF Appended
<1>2. UNCHANGED <<fresh, asked, hand, phase, died, traceVars>>
  BY MonitorFacts
<1>3. /\ hand' = hand /\ phase' = phase /\ held' = held /\ active' = active /\ spans' = spans
      /\ ready'[t] = ready[t]
  BY <1>1, <1>2 DEF traceVars
<1>4. (Pending(t)' => Pending(t)) /\ (Exited(t)' <=> Exited(t))
  BY <1>0, <1>1, <1>2, PendingKept DEF Exited
<1>5. QED
  BY <1>0, <1>1, <1>3, <1>4, CalmFrame

\* A caller submits or schedules the task, which nobody has seen, or cancels it
\* while it waits.
LEMMA CalmCaller ==
    ASSUME Base, NEW t \in Tasks, Calm(t), NEW h \in Callers,
           Submit(h) \/ Schedule(h) \/ Cancel(h)
    PROVE  Calm(t)'
<1> USE ConstantsAssumption
<1>0. /\ TypeOK /\ AskControl /\ h \in Threads /\ h \notin Workers /\ Len(spans) \in Nat
      /\ ready[t] \in Nat
  BY SMTT(30) DEF Base, TypeOK, Threads, Control
<1>1. /\ EventsKept(h) /\ Quiet(h) /\ \A g \in Callers \ {h} : asked'[g] = asked[g]
      /\ UNCHANGED <<hand, phase, died, traceVars>>
  BY CallerFacts
<1>2. /\ spans' = spans /\ held' = held /\ active' = active
      /\ hand' = hand /\ phase' = phase /\ (Exited(t)' <=> Exited(t))
  BY <1>1 DEF traceVars, Exited
<1>3. PICK u \in Tasks : Submitted(h, u) \/ Scheduled(h, u) \/ Cancelled(h, u)
  BY CallerFacts
<1>5. ASSUME NEW g \in Callers, g # h
      PROVE  event'[g] = event[g] /\ asked'[g] = asked[g]
  BY <1>1, <1>5 DEF EventsKept, Threads
<1>6. CASE u # t
  <2>1. ready'[t] = ready[t]
    BY <1>3, <1>6 DEF Submitted, Scheduled, Cancelled
  <2>2. asked'[h] = t => asked[h] = t
    BY <1>3, <1>6 DEF Submitted, Scheduled, Cancelled
  <2>3. t \in fresh' => t \in fresh
    BY <1>3 DEF Submitted, Scheduled, Cancelled
  <2>4. ~(event'[h] # None /\ event'[h].task = t)
    BY <1>1, <1>3, <1>6 DEF Submitted, Scheduled, Cancelled, Appended, busVars, Quiet
  <2>5. Pending(t)' => Pending(t)
    BY <1>5, <2>2, <2>3, <2>4 DEF Pending, Quiet
  <2>6. QED
    BY <1>0, <1>1, <1>2, <2>1, <2>5, CalmFrame
<1>7. CASE u = t /\ Submitted(h, t)
  <2>1. ready' = ready /\ Pending(t)
    BY <1>7 DEF Submitted, Pending
  <2>2. QED
    BY <1>0, <1>1, <1>2, <2>1, CalmFrame
<1>8. SpansOf(t)' = SpansOf(t)
  BY <1>2 DEF SpansOf
<1>9. CASE u = t /\ Scheduled(h, t)
  <2>1. fresh' = fresh /\ asked[h] = t /\ asked'[h] = None /\ ready'[t] = ready[t] + 1 /\ event' = event
    BY <1>9 DEF Scheduled, busVars
  <2>2. Pending(t) /\ Unseen(t)
    BY <2>1 DEF Pending, Calm
  <2>3. ~Pending(t)'
    <3>1. t \notin fresh \cup Nodes /\ \A g \in Callers : asked[g] = t => g = h
      BY <1>0, <2>1 DEF AskControl
    <3>2. \A g \in Callers : asked'[g] # t
      BY <1>5, <2>1, <3>1
    <3>3. ASSUME NEW g \in Callers, ~Quiet(g) PROVE event[g].task # t
      <4>1. CallerControl(g) /\ g # h
        BY <1>1, <3>3 DEF Base, Control
      <4>2. QED
        BY <3>1, <3>3, <4>1 DEF CallerControl
    <3>4. QED
      BY <2>1, <3>1, <3>2, <3>3 DEF Pending, Quiet
  <2>4. ~Exited(t)
    BY <2>2 DEF Calm, Abandoned, Unseen
  <2>5. ready'[t] = 1 /\ active'[t] = 0 /\ SpansOf(t)' = {} /\ \A w \in Workers : hand'[w] # t
    BY <1>2, <1>8, <2>1, <2>2 DEF Unseen
  <2>6. QED
    BY <1>2, <2>3, <2>4, <2>5 DEF Calm, Idle, Abandoned
<1>10. CASE u = t /\ Cancelled(h, t)
  <2>1. ready[t] > 0 /\ ready'[t] = ready[t] - 1
    BY <1>10 DEF Cancelled
  <2>2. \A w \in Workers : hand[w] # t
    BY <2>1 DEF Calm, Attempt
  <2>3. ~Exited(t)
    BY <2>1 DEF Calm, Abandoned
  <2>4. ready[t] = 1 /\ active[t] = 0 /\ SpansOf(t) = {}
    BY <2>1, <2>2, <2>3 DEF Calm, Idle
  <2>5. ready'[t] = 0 /\ active'[t] = 0 /\ SpansOf(t)' = {} /\ \A w \in Workers : hand'[w] # t
    BY <1>2, <1>8, <2>1, <2>2, <2>4
  <2>6. Idle(t)' /\ Abandoned(t)' /\ Unseen(t)'
    BY <1>2, <2>3, <2>5 DEF Idle, Abandoned, Unseen
  <2>7. QED
    BY <2>5, <2>6 DEF Calm
<1>11. QED
  BY <1>3, <1>6, <1>7, <1>9, <1>10

\* Whose event it is.
LEMMA EventOwner ==
    ASSUME Base, NEW t \in Tasks \ Timed, Calm(t), NEW h \in Threads, ~Quiet(h)
    PROVE  /\ event[h].task # t => (h \in Workers => hand[h] # t)
           /\ event[h].task = t => \/ h \in Workers /\ hand[h] = t /\ Attempt(h, t)
                                   \/ h \in Callers \ Workers /\ Unseen(t)
<1>1. h \in Workers => event[h].task = hand[h]
  BY WorkerEvent
<1>2. h \notin Workers \cup Callers => event[h].task \in Timed
  BY DEF Threads, Base, Control, MonitorControl
<1>3. h \in Callers => h \notin Workers
  BY ConstantsAssumption
<1>4. h \in Callers /\ event[h].task = t => Unseen(t)
  BY DEF Calm, Pending
<1>5. QED
  BY <1>1, <1>2, <1>3, <1>4 DEF Calm

\* Calls that leave the tracer alone.
LEMMA CalmPass ==
    ASSUME Base, NEW t \in Tasks \ Timed, Calm(t), tries[t] = 0, NEW h \in Threads,
           Logged(h) \/ LogRaises(h) \/ ObserveOther(h) \/ ObserveSubmit(h)
    PROVE  Calm(t)'
<1>0. Len(spans) \in Nat /\ t \in Tasks
  BY DEF Base, TypeOK
<1>1. /\ ~Quiet(h) /\ UNCHANGED <<engineVars, active, held, context, spans>>
      /\ \E s \in Subscribers : Goes(h, left[h] \ {s})
  BY StoreFacts, OtherFacts, SubmitFacts DEF traceVars, Subscribers
<1>6. PICK rest : Goes(h, rest)
  BY <1>1
<1>7. /\ EventsKept(h) /\ (Pending(t)' => Pending(t)) /\ (Exited(t)' <=> Exited(t))
      /\ \A w \in Workers : hand[w] = t => ~Pending(t)' /\ ~Exited(t)'
  BY <1>0, <1>1, <1>6, CallKept DEF Goes
<1>2. /\ hand' = hand /\ phase' = phase /\ ready' = ready
      /\ spans' = spans /\ held' = held /\ active' = active
  BY <1>1 DEF engineVars
<1>3. CASE h \in Workers => hand[h] # t
  BY <1>0, <1>2, <1>3, <1>7, CalmFrame
<1>4. CASE h \in Workers /\ hand[h] = t
  <2>1. h \in Workers /\ hand[h] = t /\ Attempt(h, t)
    BY <1>4 DEF Calm
  <2>2. ~ObserveOther(h) /\ ~ObserveSubmit(h)
    <3>1. ObserveOther(h) => tries[hand[h]] > 0
      BY <2>1, OtherStage
    <3>2. ObserveSubmit(h) => ~Quiet(h) /\ event[h].kind = "TaskSubmitted"
      BY SubmitFacts
    <3>3. ~Quiet(h) => event[h].kind # "TaskSubmitted"
      BY <2>1, WorkerEvent
    <3>4. QED
      BY <2>1, <3>1, <3>2, <3>3
  <2>3. /\ ToStart(h)' <=> ToStart(h)
        /\ Current(h)' <=> Current(h)
        /\ SpanOf(h)' = SpanOf(h)
    BY <2>1, <2>2, StoreStage
  <2>4. SpansOf(t)' = SpansOf(t) /\ \A i \in SpansOf(t) : Over(i)' <=> Over(i)
    BY <1>2 DEF SpansOf, Over
  <2>5. /\ ready[t] = 0 /\ \A v \in Workers : hand[v] = t => v = h
        /\ ToStart(h) => active[t] = 0 /\ SpansOf(t) = {}
        /\ ~ToStart(h) /\ ~Current(h) => active[t] = 0 /\ \A i \in SpansOf(t) : Over(i)
    BY <2>1 DEF Attempt
  <2>6. Current(h) => /\ SpanOf(h) # 0 /\ SpansOf(t) = {SpanOf(h)}
                      /\ spans[SpanOf(h)].thread = h /\ spans[SpanOf(h)].open
                      /\ held[h] # 0 => active[t] = 0
    BY <2>1 DEF Attempt
  <2>7. Current(h)' => /\ SpanOf(h)' # 0 /\ SpansOf(t)' = {SpanOf(h)'}
                       /\ spans'[SpanOf(h)'].thread = h /\ spans'[SpanOf(h)'].open
                       /\ held'[h] # 0 => active'[t] = 0
    BY <1>2, <2>3, <2>4, <2>6
  <2>8. ~ToStart(h)' /\ ~Current(h)' => active'[t] = 0 /\ \A i \in SpansOf(t)' : Over(i)'
    BY <1>2, <2>3, <2>4, <2>5
  <2>9. ToStart(h)' => active'[t] = 0 /\ SpansOf(t)' = {}
    BY <1>2, <2>3, <2>4, <2>5
  <2>10. QED
    BY <1>0, <1>2, <1>7, <2>1, <2>5, <2>7, <2>8, <2>9, CalmAttempt
<1>5. QED
  BY <1>3, <1>4

\* Its span is started.
LEMMA CalmStart ==
    ASSUME Base, NEW t \in Tasks \ Timed, Calm(t), NEW h \in Threads, ObserveStart(h)
    PROVE  Calm(t)'
<1>0. t \in Tasks
  OBVIOUS
<1>1. /\ ~Quiet(h) /\ UNCHANGED <<active, engineVars>> /\ Goes(h, left[h] \ {"obs"}) /\ SpansKept(h)
      /\ Len(spans) \in Nat /\ Len(spans') = Len(spans) + 1
      /\ \A j \in 1..Len(spans) : spans'[j] = spans[j]
      /\ spans'[Len(spans) + 1].task = event[h].task
      /\ spans'[Len(spans) + 1].thread = h /\ spans'[Len(spans) + 1].open /\ h \in Workers
  BY StartFacts
<1>7. PICK rest : rest = left[h] \ {"obs"}
  OBVIOUS
<1>8. /\ (Pending(t)' => Pending(t)) /\ (Exited(t)' <=> Exited(t))
      /\ \A w \in Workers : hand[w] = t => ~Pending(t)' /\ ~Exited(t)'
  BY <1>0, <1>1, <1>7, CallKept
<1>2. EventsKept(h) /\ active' = active /\ hand' = hand /\ phase' = phase /\ ready' = ready
  BY <1>1 DEF Goes, engineVars
<1>3. \A w \in Workers \ {h} : hand'[w] = hand[w] /\ phase'[w] = phase[w] /\ held'[w] = held[w]
  BY <1>1, <1>2 DEF SpansKept, Threads
<1>4. CASE event[h].task # t
  <2>1. h \in Workers => hand[h] # t
    BY <1>1, <1>4, EventOwner
  <2>2. \A j \in 1..Len(spans') : j > Len(spans) => spans'[j].task # t
    BY <1>1, <1>4
  <2>3. Len(spans') \in Nat /\ Len(spans') >= Len(spans)
    BY <1>1
  <2>4. QED
    BY <1>0, <1>1, <1>2, <1>3, <1>8, <2>1, <2>2, <2>3, CalmFrame
<1>5. CASE event[h].task = t
  <2>1. h \in Workers /\ hand[h] = t /\ Attempt(h, t)
    BY <1>1, <1>5, EventOwner, ConstantsAssumption
  <2>2. /\ ToStart(h) /\ ~ToStart(h)' /\ Current(h)'
        /\ SpanOf(h)' = Len(spans) + 1 /\ held'[h] = Len(spans) + 1
    BY StartStage
  <2>3. /\ ready[t] = 0 /\ \A v \in Workers : hand[v] = t => v = h
        /\ active[t] = 0 /\ SpansOf(t) = {}
    BY <2>1, <2>2 DEF Attempt
  <2>4. \A j \in 1..Len(spans) : spans[j].task # t
    BY <2>3 DEF SpansOf
  <2>5. \A j \in 1..Len(spans') : spans'[j].task = t <=> j = Len(spans) + 1
    BY <1>1, <1>5, <2>4
  <2>6. Len(spans) + 1 \in 1..Len(spans')
    BY <1>1
  <2>7. SpansOf(t)' = {Len(spans) + 1}
    BY <2>5, <2>6 DEF SpansOf
  <2>8. /\ SpanOf(h)' # 0 /\ SpansOf(t)' = {SpanOf(h)'} /\ spans'[SpanOf(h)'].thread = h
        /\ spans'[SpanOf(h)'].open
    BY <1>1, <2>2, <2>7
  <2>9. QED
    BY <1>0, <1>2, <1>8, <2>1, <2>2, <2>3, <2>8, CalmAttempt
<1>6. QED
  BY <1>4, <1>5

\* It is registered, and popped.
LEMMA CalmRegister ==
    ASSUME Base, NEW t \in Tasks \ Timed, Calm(t), NEW h \in Threads,
           RegisterSpan(h) \/ ObserveEnd(h)
    PROVE  Calm(t)'
<1>0. t \in Tasks /\ Len(spans) \in Nat
  BY DEF Base, TypeOK
<1>1. /\ ~Quiet(h) /\ UNCHANGED <<spans, engineVars>> /\ EventsKept(h) /\ SpansKept(h)
      /\ \A u \in Tasks \ {event[h].task} : active'[u] = active[u]
      /\ \E rest : Goes(h, rest)
  BY RegisterFacts, PopFacts DEF Goes
<1>7. /\ (Pending(t)' => Pending(t)) /\ (Exited(t)' <=> Exited(t))
      /\ \A w \in Workers : hand[w] = t => ~Pending(t)' /\ ~Exited(t)'
  <2>1. PICK rest : Goes(h, rest)
    BY <1>1
  <2>2. QED
    BY <1>0, <1>1, <2>1, CallKept
<1>2. spans' = spans /\ hand' = hand /\ phase' = phase /\ ready' = ready
  BY <1>1 DEF engineVars
<1>3. \A w \in Workers \ {h} : hand'[w] = hand[w] /\ phase'[w] = phase[w] /\ held'[w] = held[w]
  BY <1>1, <1>2 DEF SpansKept, Threads
<1>4. CASE event[h].task # t
  <2>1. h \in Workers => hand[h] # t
    BY <1>1, <1>4, EventOwner
  <2>2. active'[t] = active[t]
    BY <1>0, <1>1, <1>4
  <2>3. QED
    BY <1>0, <1>1, <1>2, <1>3, <1>7, <2>1, <2>2, CalmFrame
<1>8. CASE event[h].task = t /\ h \notin Workers
  <2>1. Unseen(t)
    BY <1>1, <1>8, EventOwner
  <2>2. ObserveEnd(h)
    BY <1>8, RegisterFacts
  <2>3. active'[t] = active[t]
    BY <1>8, <2>1, <2>2, PopFacts DEF Unseen
  <2>4. QED
    BY <1>0, <1>1, <1>2, <1>3, <1>7, <1>8, <2>3, CalmFrame
<1>5. CASE event[h].task = t /\ h \in Workers
  <2>1. h \in Workers /\ hand[h] = t /\ Attempt(h, t)
    BY <1>1, <1>5, EventOwner
  <2>2. Current(h)
    BY <2>1, RegisterStage, PopStage
  <2>3. /\ ready[t] = 0 /\ \A v \in Workers : hand[v] = t => v = h
        /\ SpanOf(h) # 0 /\ SpansOf(t) = {SpanOf(h)}
        /\ spans[SpanOf(h)].thread = h /\ spans[SpanOf(h)].open
    BY <2>1, <2>2 DEF Attempt
  <2>4. ~ToStart(h)' /\ Current(h)' /\ SpanOf(h)' = SpanOf(h) /\ (held'[h] # 0 => active'[t] = 0)
    <3>1. CASE RegisterSpan(h)
      BY <3>1, RegisterStage, RegisterFacts
    <3>2. CASE ObserveEnd(h)
      <4>1. ~ToStart(h)' /\ (SpanOf(h) # 0 => Current(h)' /\ SpanOf(h)' = SpanOf(h))
        BY <2>1, <3>2, PopStage
      <4>2. active'[t] = 0
        BY <1>5, <3>2, PopFacts
      <4>3. QED
        BY <2>3, <4>1, <4>2
    <3>3. QED
      BY <3>1, <3>2
  <2>5. SpansOf(t)' = SpansOf(t)
    BY <1>2 DEF SpansOf
  <2>6. /\ SpanOf(h)' # 0 /\ SpansOf(t)' = {SpanOf(h)'}
        /\ spans'[SpanOf(h)'].thread = h /\ spans'[SpanOf(h)'].open
    BY <1>2, <2>3, <2>4, <2>5
  <2>7. QED
    BY <1>0, <1>2, <1>7, <2>1, <2>3, <2>4, <2>6, CalmAttempt
<1>6. QED
  BY <1>4, <1>5, <1>8

\* It is ended, by the worker that started it.
LEMMA CalmEnd ==
    ASSUME Base, NEW t \in Tasks \ Timed, Calm(t), NEW h \in Threads, EndSpan(h)
    PROVE  Calm(t)'
<1>0. t \in Tasks /\ Len(spans) \in Nat
  BY DEF Base, TypeOK
<1>1. /\ ~Quiet(h) /\ held[h] \in 1..Len(spans) /\ UNCHANGED <<active, engineVars>>
      /\ Goes(h, left[h]) /\ SpansKept(h) /\ Len(spans') = Len(spans)
      /\ \A j \in 1..Len(spans) : j # held[h] => spans'[j] = spans[j]
      /\ \A j \in 1..Len(spans) : /\ spans'[j].task = spans[j].task
                                  /\ spans'[j].thread = spans[j].thread
      /\ ~spans'[held[h]].open /\ spans'[held[h]].ender = h
  BY EndFacts
<1>8. PICK rest : rest = left[h]
  OBVIOUS
<1>9. /\ (Pending(t)' => Pending(t)) /\ (Exited(t)' <=> Exited(t))
      /\ \A w \in Workers : hand[w] = t => ~Pending(t)' /\ ~Exited(t)'
  BY <1>0, <1>1, <1>8, CallKept
<1>10. spans[held[h]].task = event[h].task
  <2>1. SpanControl /\ held[h] # 0
    BY <1>0, <1>1 DEF Base, Control
  <2>2. QED
    BY <2>1 DEF SpanControl
<1>2. EventsKept(h) /\ active' = active /\ hand' = hand /\ phase' = phase /\ ready' = ready
  BY <1>1 DEF Goes, engineVars
<1>3. \A w \in Workers \ {h} : hand'[w] = hand[w] /\ phase'[w] = phase[w] /\ held'[w] = held[w]
  BY <1>1, <1>2 DEF SpansKept, Threads
<1>4. \A j \in 1..Len(spans') : j > Len(spans) => spans'[j].task # t
  BY <1>0, <1>1
<1>5. CASE event[h].task # t
  <2>1. h \in Workers => hand[h] # t
    BY <1>1, <1>5, EventOwner
  <2>3. \A j \in 1..Len(spans) : spans[j].task = t => spans'[j] = spans[j]
    BY <1>1, <1>5, <1>10
  <2>4. Len(spans') \in Nat /\ Len(spans') >= Len(spans)
    BY <1>0, <1>1
  <2>5. QED
    BY <1>0, <1>1, <1>2, <1>3, <1>4, <1>9, <2>1, <2>3, <2>4, CalmFrame
<1>6. CASE event[h].task = t
  <2>0. ~Unseen(t)
    BY <1>1, <1>6, <1>10 DEF Unseen, SpansOf
  <2>1. h \in Workers /\ hand[h] = t /\ Attempt(h, t)
    BY <1>1, <1>6, <2>0, EventOwner
  <2>2. /\ Current(h) /\ SpanOf(h) = held[h] /\ held[h] # 0
        /\ ~ToStart(h)' /\ ~Current(h)'
    BY <2>1, EndStage
  <2>3. /\ ready[t] = 0 /\ \A v \in Workers : hand[v] = t => v = h
    BY <2>1 DEF Attempt
  <2>4. SpansOf(t) = {held[h]} /\ spans[held[h]].thread = h /\ active[t] = 0
    BY <2>1, <2>2 DEF Attempt
  <2>5. SpansOf(t)' = SpansOf(t)
    BY <1>0, <1>1, <1>4, SpansOfKept
  <2>6. \A i \in SpansOf(t)' : Over(i)'
    BY <1>1, <2>4, <2>5 DEF Over
  <2>7. QED
    BY <1>0, <1>2, <1>9, <2>1, <2>2, <2>3, <2>4, <2>6, CalmAttempt
<1>7. QED
  BY <1>5, <1>6

\* A disturbed task stays disturbed.
LEMMA TriesKept ==
    ASSUME Base, [Next]_vars, NEW t \in Tasks
    PROVE  /\ tries'[t] = 0 => tries[t] = 0
           /\ Undisturbed(t)' => Undisturbed(t)
<1>0. tries[t] \in Nat
  BY DEF Base, TypeOK
<1>1. tries'[t] = 0 => tries[t] = 0
  <2>1. ASSUME NEW w \in Workers,
               WorkerTake(w) \/ WorkerReturn(w) \/ WorkerRaise(w) \/ WorkerFinally(w) \/ WorkerQuit(w)
        PROVE  tries'[t] = 0 => tries[t] = 0
    <3>1. tries' = tries \/ \E u \in Tasks : tries'[u] > 0 /\ \A x \in Tasks \ {u} : tries'[x] = tries[x]
      BY <2>1, TakeFacts, TurnFacts, FinallyFacts, QuitFacts
    <3>2. QED
      BY <3>1
  <2>2. ASSUME MonitorFail \/ \E w \in Workers : MonitorExpire(w)
        PROVE  tries'[t] = 0 => tries[t] = 0
    <3>1. tries' = tries \/ \E u \in Timed : tries'[u] > 0 /\ \A x \in Tasks \ {u} : tries'[x] = tries[x]
      BY <2>2, MonitorFacts
    <3>2. QED
      BY <3>1, ConstantsAssumption
  <2>3. ASSUME NEW h \in Threads, Logged(h) \/ LogRaises(h) \/ ObserveOther(h) \/ ObserveSubmit(h)
        PROVE  tries' = tries
    BY <2>3, StoreFacts, OtherFacts, SubmitFacts DEF engineVars
  <2>4. ASSUME NEW h \in Threads,
               ObserveStart(h) \/ RegisterSpan(h) \/ ObserveEnd(h) \/ EndSpan(h)
        PROVE  tries' = tries
    BY <2>4, StartFacts, RegisterFacts, PopFacts, EndFacts DEF engineVars
  <2>5. CASE UNCHANGED vars
    BY <2>5 DEF vars, engineVars
  <2>6. ASSUME NEW h \in Callers, Submit(h) \/ Schedule(h) \/ Cancel(h) PROVE tries' = tries
    BY <2>6, CallerFacts
  <2>7. QED
    BY <2>1, <2>2, <2>3, <2>4, <2>5, <2>6, StepCases
<1>2. QED
  BY <1>1 DEF Undisturbed

\* Before the start.
LEMMA CalmInit == Init => CalmInv /\ TraceInv /\ Nesting
<1> USE ConstantsAssumption
<1> SUFFICES ASSUME Init PROVE CalmInv /\ TraceInv /\ Nesting
  OBVIOUS
<1>1. /\ spans = << >> /\ Len(spans) = 0 /\ \A h \in Threads : context[h] = 0 /\ held[h] = 0
      /\ \A w \in Workers : hand[w] = None /\ phase[w] = "free" /\ context[w] = 0 /\ held[w] = 0
      /\ \A t \in Tasks : ready[t] \in {0, 1} /\ active[t] = 0 /\ (ready[t] = 1 => t \in Nodes)
      /\ fresh = Tasks \ Nodes /\ \A h \in Callers : asked[h] = None /\ Quiet(h)
      /\ \A w \in Workers : died[w] = None
  BY DEF Init, Threads, Quiet
<1>2. \A w \in Workers : ~Current(w)
  BY <1>1 DEF Current
<1>3. ASSUME NEW t \in Tasks PROVE Calm(t)
  <2>1. SpansOf(t) = {}
    BY <1>1 DEF SpansOf
  <2>2. Idle(t)
    BY <1>1, <2>1 DEF Idle
  <2>3. \A w \in Workers : hand[w] # t
    BY <1>1
  <2>4. ~Exited(t) /\ (Pending(t) => Unseen(t))
    BY <1>1, <2>1, <2>3 DEF Exited, Pending, Unseen
  <2>5. QED
    BY <2>2, <2>3, <2>4 DEF Calm, Abandoned
<1>4. OwnInv
  BY <1>2 DEF OwnInv, Own
<1>5. ContextInv /\ ParentInv /\ TraceInv
  BY <1>1 DEF ContextInv, ParentInv, TraceInv, Trail, Rooted
<1>6. QED
  BY <1>3, <1>4, <1>5 DEF CalmInv, Nesting

\* Every step keeps what holds of undisturbed tasks.
LEMMA CalmStep == Base /\ CalmInv /\ [Next]_vars => CalmInv'
<1> SUFFICES ASSUME Base, CalmInv, [Next]_vars, NEW t \in Tasks, Undisturbed(t)' PROVE Calm(t)'
  BY DEF CalmInv
<1>1. t \notin Timed /\ tries'[t] = 0 /\ tries[t] = 0 /\ Calm(t)
  BY TriesKept DEF Undisturbed, CalmInv
<1>2. t \in Tasks \ Timed
  BY <1>1
<1>3. CASE UNCHANGED vars
  BY <1>1, <1>3 DEF vars, engineVars, busVars, traceVars, Calm, Idle, Attempt, SpansOf, Over,
                    Current, ToStart, SpanOf, Quiet, Abandoned, Pending, Unseen, Exited
<1>4. QED
  BY <1>1, <1>2, <1>3, StepCases, CalmWorker, CalmMonitor, CalmCaller, CalmPass, CalmStart,
     CalmRegister, CalmEnd

----------------------------------------------------------------------------
(* Traces of their own.                                                    *)

\* The tasks of spans do not change.
LEMMA TasksKept ==
    ASSUME Base, [Next]_vars
    PROVE  /\ Len(spans) \in Nat /\ Len(spans') \in Nat /\ Len(spans') >= Len(spans)
           /\ \A j \in 1..Len(spans) : /\ spans'[j].task = spans[j].task
                                       /\ spans'[j].parent = spans[j].parent
                                       /\ spans[j].task \in Tasks
<1>0. Len(spans) \in Nat /\ \A j \in 1..Len(spans) : spans[j].task \in Tasks
  <2>1. spans \in Seq(Spans)
    BY DEF Base, TypeOK
  <2>2. Len(spans) \in Nat /\ \A j \in 1..Len(spans) : spans[j] \in Spans
    BY <2>1
  <2>3. QED
    BY <2>2 DEF Spans
<1>1. ASSUME spans' = spans PROVE Len(spans') \in Nat /\ Len(spans') >= Len(spans)
  BY <1>0, <1>1
<1>2. ASSUME NEW w \in Workers,
             WorkerTake(w) \/ WorkerReturn(w) \/ WorkerRaise(w) \/ WorkerFinally(w) \/ WorkerQuit(w)
      PROVE  spans' = spans
  BY <1>2, TakeFacts, TurnFacts, FinallyFacts, QuitFacts DEF traceVars
<1>3. ASSUME MonitorFail \/ \E w \in Workers : MonitorExpire(w) PROVE spans' = spans
  BY <1>3, MonitorFacts DEF traceVars
<1>4. ASSUME NEW h \in Threads,
             Logged(h) \/ LogRaises(h) \/ ObserveOther(h) \/ ObserveSubmit(h)
      PROVE  spans' = spans
  BY <1>4, StoreFacts, OtherFacts, SubmitFacts DEF traceVars
<1>8. ASSUME NEW h \in Callers, Submit(h) \/ Schedule(h) \/ Cancel(h) PROVE spans' = spans
  BY <1>8, CallerFacts DEF traceVars
<1>5. ASSUME NEW h \in Threads,
             ObserveStart(h) \/ RegisterSpan(h) \/ ObserveEnd(h) \/ EndSpan(h)
      PROVE  /\ Len(spans') \in Nat /\ Len(spans') >= Len(spans)
             /\ \A j \in 1..Len(spans) : /\ spans'[j].task = spans[j].task
                                         /\ spans'[j].parent = spans[j].parent
  <2>1. CASE ObserveStart(h)
    <3>1. Len(spans') = Len(spans) + 1 /\ \A j \in 1..Len(spans) : spans'[j] = spans[j]
      BY <2>1, StartFacts
    <3>2. QED
      BY <1>0, <3>1
  <2>2. CASE RegisterSpan(h) \/ ObserveEnd(h)
    <3>1. spans' = spans
      BY <2>2, RegisterFacts, PopFacts
    <3>2. QED
      BY <1>0, <3>1
  <2>3. CASE EndSpan(h)
    <3>1. /\ Len(spans') = Len(spans)
          /\ \A j \in 1..Len(spans) : /\ spans'[j].task = spans[j].task
                                      /\ spans'[j].parent = spans[j].parent
      BY <2>3, EndFacts
    <3>2. QED
      BY <1>0, <3>1
  <2>4. QED
    BY <1>5, <2>1, <2>2, <2>3
<1>6. CASE UNCHANGED vars
  BY <1>0, <1>6 DEF vars, traceVars
<1>7. QED
  BY <1>0, <1>1, <1>2, <1>3, <1>4, <1>5, <1>6, <1>8, StepCases

\* A thread that ended does not come back.
LEMMA DiedKept ==
    ASSUME Base, [Next]_vars, NEW w \in Workers, died'[w] = None
    PROVE  died[w] = None
<1>1. ASSUME NEW h \in Workers,
             WorkerTake(h) \/ WorkerReturn(h) \/ WorkerRaise(h) \/ WorkerFinally(h)
      PROVE  died' = died
  BY <1>1, TakeFacts, TurnFacts, FinallyFacts
<1>2. ASSUME NEW h \in Workers, WorkerQuit(h) PROVE died[w] = None
  BY <1>2, QuitFacts DEF OthersKept
<1>3. ASSUME MonitorFail \/ \E h \in Workers : MonitorExpire(h) PROVE died' = died
  BY <1>3, MonitorFacts
<1>4. ASSUME NEW h \in Callers, Submit(h) \/ Schedule(h) \/ Cancel(h) PROVE died' = died
  BY <1>4, CallerFacts
<1>5. ASSUME NEW h \in Threads,
             Logged(h) \/ LogRaises(h) \/ ObserveOther(h) \/ ObserveSubmit(h)
      PROVE  died' = died
  BY <1>5, StoreFacts, OtherFacts, SubmitFacts DEF engineVars
<1>6. ASSUME NEW h \in Threads,
             ObserveStart(h) \/ RegisterSpan(h) \/ ObserveEnd(h) \/ EndSpan(h)
      PROVE  died' = died
  BY <1>6, StartFacts, RegisterFacts, PopFacts, EndFacts DEF engineVars
<1>7. CASE UNCHANGED vars
  BY <1>7 DEF vars, engineVars
<1>8. QED
  BY <1>1, <1>2, <1>3, <1>4, <1>5, <1>6, <1>7, StepCases

\* A worker's trail is kept while it and its context stay as they are.
LEMMA TrailKept ==
    ASSUME Base, ContextInv, [Next]_vars, NEW w \in Workers, Trail(w),
           context'[w] = context[w], hand'[w] = hand[w], Current(w) => Current(w)'
    PROVE  Trail(w)'
<1> SUFFICES ASSUME context'[w] # 0, Undisturbed(spans[context[w]].task)', died'[w] = None
             PROVE  hand'[w] = spans'[context'[w]].task /\ Current(w)'
  BY DEF Trail
<1>0. died[w] = None
  BY DiedKept
<1>1. context[w] \in 1..Len(spans)
  BY DEF ContextInv, Threads
<1>2. PICK u \in Tasks : u = spans[context[w]].task
  BY <1>1, TasksKept
<1>3. spans'[context'[w]].task = u
  BY <1>1, <1>2, TasksKept
<1>4. Undisturbed(u)'
  BY <1>3
<1>5. Undisturbed(u)
  BY <1>4, TriesKept
<1>6. hand[w] = u /\ Current(w)
  BY <1>0, <1>2, <1>5 DEF Trail
<1>7. QED
  BY <1>3, <1>6

\* A worker that is not at a current span has no undisturbed task's span in its
\* context.
LEMMA NoTrail ==
    ASSUME Base, ContextInv, [Next]_vars, NEW w \in Workers, Trail(w),
           context'[w] = context[w], ~Current(w)
    PROVE  Trail(w)'
<1> SUFFICES ASSUME context'[w] # 0, Undisturbed(spans[context[w]].task)', died'[w] = None
             PROVE  FALSE
  BY DEF Trail
<1>0. died[w] = None
  BY DiedKept
<1>1. context[w] \in 1..Len(spans)
  BY DEF ContextInv, Threads
<1>2. PICK u \in Tasks : u = spans[context[w]].task
  BY <1>1, TasksKept
<1>3. Undisturbed(u)'
  BY <1>1, <1>2, TasksKept
<1>4. Undisturbed(u)
  BY <1>3, TriesKept
<1>5. QED
  BY <1>0, <1>2, <1>4 DEF Trail

\* Steps that leave the contexts alone.
LEMMA TrailSame ==
    ASSUME Base, ContextInv, [Next]_vars, NEW h \in Threads, EventsKept(h),
           \A w \in Workers \ {h} : /\ hand'[w] = hand[w] /\ phase'[w] = phase[w]
                                    /\ held'[w] = held[w] /\ context'[w] = context[w],
           NEW w \in Workers, w # h, Trail(w)
    PROVE  Trail(w)'
<1>1. /\ hand'[w] = hand[w] /\ phase'[w] = phase[w]
      /\ held'[w] = held[w] /\ context'[w] = context[w]
  OBVIOUS
<1>2. Current(w)' <=> Current(w)
  BY <1>1, KeptStage
<1>3. QED
  BY <1>1, <1>2, TrailKept

\* The steps of a worker's engine keep every trail.
LEMMA TrailWorker ==
    ASSUME Base, Nesting, TraceInv, [Next]_vars, NEW h \in Workers,
           WorkerTake(h) \/ WorkerReturn(h) \/ WorkerRaise(h) \/ WorkerFinally(h) \/ WorkerQuit(h),
           NEW w \in Workers
    PROVE  Trail(w)'
<1>0. ContextInv /\ Trail(w) /\ h \in Threads
  BY DEF Nesting, TraceInv, Threads
<1>1. /\ EventsKept(h) /\ OthersKept(h) /\ UNCHANGED traceVars
  <2>1. CASE WorkerFinally(h) \/ WorkerQuit(h)
    BY <2>1, FinallyFacts, QuitFacts DEF busVars, EventsKept
  <2>2. QED
    BY <2>1, TakeFacts, TurnFacts DEF Appended
<1>2. context' = context /\ held' = held
  BY <1>1 DEF traceVars
<1>3. CASE w # h
  BY <1>0, <1>1, <1>2, <1>3, TrailSame DEF OthersKept
<1>4. CASE w = h
  <2>1. CASE WorkerTake(h) \/ WorkerFinally(h)
    <3>1. ~Current(h)
      BY <2>1, TakeStage, FinallyStage
    <3>2. QED
      BY <1>0, <1>2, <1>4, <3>1, NoTrail
  <2>2. CASE WorkerReturn(h) \/ WorkerRaise(h)
    <3>1. Current(h)' /\ hand' = hand
      BY <2>2, TurnStage, TurnFacts
    <3>2. QED
      BY <1>0, <1>2, <1>4, <3>1, TrailKept
  <2>3. CASE WorkerQuit(h)
    <3>1. died'[h] # None
      BY <2>3, QuitFacts, ConstantsAssumption
    <3>2. QED
      BY <1>4, <3>1 DEF Trail
  <2>4. QED
    BY <2>1, <2>2, <2>3
<1>5. QED
  BY <1>3, <1>4

\* So do a caller's.
LEMMA TrailCaller ==
    ASSUME Base, Nesting, TraceInv, [Next]_vars, NEW h \in Callers,
           Submit(h) \/ Schedule(h) \/ Cancel(h), NEW w \in Workers
    PROVE  Trail(w)'
<1>0. ContextInv /\ Trail(w) /\ h \in Threads /\ w # h
  BY ConstantsAssumption DEF Nesting, TraceInv, Threads
<1>1. EventsKept(h) /\ UNCHANGED <<hand, phase, traceVars>>
  BY CallerFacts
<1>2. context' = context /\ held' = held /\ hand' = hand /\ phase' = phase
  BY <1>1 DEF traceVars
<1>3. QED
  BY <1>0, <1>1, <1>2, TrailSame

\* And the monitor's.
LEMMA TrailMonitor ==
    ASSUME Base, Nesting, TraceInv, [Next]_vars,
           MonitorFail \/ \E v \in Workers : MonitorExpire(v), NEW w \in Workers
    PROVE  Trail(w)'
<1> USE ConstantsAssumption
<1>0. ContextInv /\ Trail(w) /\ Monitor \in Threads /\ w # Monitor
  BY DEF Nesting, TraceInv, Threads
<1>1. EventsKept(Monitor) /\ UNCHANGED <<hand, phase, traceVars>>
  BY MonitorFacts DEF Appended
<1>2. context' = context /\ held' = held /\ hand' = hand /\ phase' = phase
  BY <1>1 DEF traceVars
<1>3. QED
  BY <1>0, <1>1, <1>2, TrailSame

\* A span in a worker's context that is a span of an undisturbed task is the one
\* of its attempt.
LEMMA TrailSpan ==
    ASSUME Base, ContextInv, CalmInv, NEW w \in Workers, Trail(w), died[w] = None,
           context[w] # 0, Undisturbed(spans[context[w]].task)
    PROVE  /\ Current(w) /\ SpanOf(w) = context[w] /\ SpanOf(w) # 0
           /\ hand[w] \in Tasks /\ Undisturbed(hand[w])
<1>1. context[w] \in 1..Len(spans)
  BY DEF ContextInv, Threads
<1>2. hand[w] = spans[context[w]].task /\ Current(w)
  BY DEF Trail
<1>3. PICK u \in Tasks : u = hand[w]
  BY <1>2, SpanOfFacts
<1>4. Undisturbed(u)
  BY <1>2, <1>3
<1>5. Attempt(w, u)
  BY <1>3, <1>4 DEF CalmInv, Calm
<1>6. SpanOf(w) # 0 /\ SpansOf(u) = {SpanOf(w)}
  BY <1>2, <1>5 DEF Attempt
<1>7. context[w] \in SpansOf(u)
  BY <1>1, <1>2, <1>3 DEF SpansOf
<1>8. QED
  BY <1>2, <1>3, <1>4, <1>6, <1>7

\* And the calls of subscribers.
LEMMA TrailCall ==
    ASSUME Base, Nesting, CalmInv, TraceInv, [Next]_vars, NEW h \in Threads,
           \/ Logged(h) \/ LogRaises(h) \/ ObserveOther(h) \/ ObserveSubmit(h)
           \/ ObserveStart(h) \/ RegisterSpan(h) \/ ObserveEnd(h) \/ EndSpan(h),
           NEW w \in Workers
    PROVE  Trail(w)'
<1>0. ContextInv /\ ParentInv /\ Trail(w) /\ Rooted
  BY DEF Nesting, TraceInv
<1>1. EventsKept(h) /\ UNCHANGED engineVars /\ SpansKept(h)
  <2>1. CASE Logged(h) \/ LogRaises(h) \/ ObserveOther(h) \/ ObserveSubmit(h)
    BY <2>1, StoreFacts, OtherFacts, SubmitFacts DEF Goes, SpansKept, traceVars
  <2>2. QED
    BY <2>1, StartFacts, RegisterFacts, PopFacts, EndFacts DEF Goes
<1>2. hand' = hand /\ phase' = phase
  BY <1>1 DEF engineVars
<1>3. CASE w # h
  <2>1. \A v \in Workers \ {h} : /\ hand'[v] = hand[v] /\ phase'[v] = phase[v]
                                 /\ held'[v] = held[v] /\ context'[v] = context[v]
    BY <1>1, <1>2 DEF SpansKept, Threads
  <2>2. QED
    BY <1>0, <1>1, <1>3, <2>1, TrailSame
<1>4. ASSUME w = h, context'[w] = context[w],
             Undisturbed(spans[context[w]].task) /\ context[w] # 0 => Current(w)'
      PROVE  Trail(w)'
  <2> SUFFICES ASSUME context'[w] # 0, Undisturbed(spans[context[w]].task)', died'[w] = None
               PROVE  hand'[w] = spans'[context'[w]].task /\ Current(w)'
    BY DEF Trail
  <2>0. died[w] = None
    BY DiedKept
  <2>1. context[w] \in 1..Len(spans)
    BY <1>0, <1>4 DEF ContextInv, Threads
  <2>2. PICK u \in Tasks : u = spans[context[w]].task
    BY <2>1, TasksKept
  <2>3. spans'[context'[w]].task = u
    BY <1>4, <2>1, <2>2, TasksKept
  <2>4. Undisturbed(u)'
    BY <2>3
  <2>5. Undisturbed(u)
    BY <2>4, TriesKept
  <2>6. hand[w] = u
    BY <1>0, <1>4, <2>0, <2>2, <2>5 DEF Trail
  <2>7. QED
    BY <1>2, <1>4, <2>2, <2>3, <2>5, <2>6
<1>5. CASE w = h
  <2>0. h \in Workers /\ died[w] = None
    <3>1. h \in Workers
      BY <1>5
    <3>2. ~Quiet(h)
      BY StoreFacts, OtherFacts, SubmitFacts, StartFacts, RegisterFacts, PopFacts, EndFacts
    <3>3. QED
      BY <1>5, <3>1, <3>2, WorkerEvent
  <2>1. CASE Logged(h) \/ LogRaises(h)
    <3>1. context' = context /\ (Current(h)' <=> Current(h))
      BY <2>0, <2>1, StoreFacts, StoreStage DEF traceVars
    <3>2. QED
      BY <1>0, <1>2, <1>5, <3>1, TrailKept
  <2>2. CASE ObserveOther(h)
    <3>1. context' = context /\ tries[hand[h]] > 0
      BY <2>0, <2>2, OtherFacts, OtherStage DEF traceVars
    <3>2. ~(context[h] # 0 /\ Undisturbed(spans[context[h]].task))
      <4>1. SUFFICES ASSUME context[h] # 0, Undisturbed(spans[context[h]].task) PROVE FALSE
        OBVIOUS
      <4>2. Undisturbed(hand[h])
        BY <1>0, <1>5, <2>0, <4>1, TrailSpan
      <4>3. QED
        BY <3>1, <4>2 DEF Undisturbed
    <3>3. QED
      BY <1>4, <1>5, <3>1, <3>2
  <2>3. CASE ObserveStart(h)
    <3>1. /\ context'[h] = Len(spans) + 1 /\ spans'[Len(spans) + 1].task = event[h].task
      BY <2>3, StartFacts
    <3>2. event[h].task = hand[h] /\ Current(h)'
      BY <2>3, StartStage
    <3>3. QED
      BY <1>2, <1>5, <3>1, <3>2 DEF Trail
  <2>4. CASE RegisterSpan(h)
    <3>1. context' = context /\ Current(h)'
      BY <2>4, RegisterFacts, RegisterStage
    <3>2. QED
      BY <1>4, <1>5, <3>1
  <2>5. CASE ObserveEnd(h)
    <3>1. context' = context /\ (SpanOf(h) # 0 => Current(h)')
      BY <2>0, <2>5, PopFacts, PopStage
    <3>2. context[h] # 0 /\ Undisturbed(spans[context[h]].task) => SpanOf(h) # 0
      BY <1>0, <1>5, <2>0, TrailSpan
    <3>3. QED
      BY <1>4, <1>5, <3>1, <3>2
  <2>6. CASE EndSpan(h)
    <3>1. SpanOf(h) = held[h] /\ held[h] # 0
      BY <2>0, <2>6, EndStage
    <3>2. CASE context[h] # held[h]
      <4>1. context'[h] = context[h]
        BY <2>6, <3>2, EndFacts
      <4>2. ~(context[h] # 0 /\ Undisturbed(spans[context[h]].task))
        BY <1>0, <1>5, <2>0, <3>1, <3>2, TrailSpan
      <4>3. QED
        BY <1>4, <1>5, <4>1, <4>2
    <3>3. CASE context[h] = held[h]
      <4>1. PICK i \in 1..Len(spans) : i = held[h] /\ context'[h] = spans[i].parent
        BY <2>6, <3>3, EndFacts
      <4>2. SUFFICES ASSUME context'[h] # 0, Undisturbed(spans[context[h]].task)' PROVE FALSE
        BY <1>5 DEF Trail
      <4>3. spans[i].parent \in 1..(i - 1) /\ Len(spans) \in Nat
        BY <1>0, <4>1, <4>2, TasksKept DEF ParentInv
      <4>4. spans[i].parent \in 1..Len(spans)
        BY <4>3
      <4>5. PICK u \in Tasks : u = spans[spans[i].parent].task
        BY <4>4, TasksKept
      <4>6. ~Undisturbed(u)
        BY <1>0, <4>1, <4>2, <4>5 DEF Rooted
      <4>7. spans'[context'[h]].task = u
        BY <4>1, <4>4, <4>5, TasksKept
      <4>8. Undisturbed(u)'
        BY <4>2, <4>7
      <4>9. QED
        BY <4>6, <4>8, TriesKept
    <3>4. QED
      BY <3>2, <3>3
  <2>7. CASE ObserveSubmit(h)
    BY <2>0, <2>7, SubmitFacts, WorkerEvent
  <2>8. QED
    BY <2>1, <2>2, <2>3, <2>4, <2>5, <2>6, <2>7
<1>6. QED
  BY <1>3, <1>5

\* Spans get no undisturbed task's span as parent.
LEMMA RootedStep ==
    ASSUME Base, Nesting, CalmInv, TraceInv, [Next]_vars
    PROVE  Rooted'
<1>0. ContextInv /\ ParentInv /\ Rooted
  BY DEF Nesting, TraceInv
<1>1. SUFFICES ASSUME NEW i \in 1..Len(spans'), spans'[i].parent # 0,
                      Undisturbed(spans[spans[i].parent].task)'
               PROVE  FALSE
  BY DEF Rooted
<1>2. CASE i \in 1..Len(spans)
  <2>1. spans'[i].parent = spans[i].parent
    BY <1>2, TasksKept
  <2>2. spans[i].parent \in 1..(i - 1) /\ Len(spans) \in Nat
    BY <1>0, <1>1, <1>2, <2>1, TasksKept DEF ParentInv
  <2>3. spans[i].parent \in 1..Len(spans)
    BY <1>2, <2>2
  <2>4. PICK u \in Tasks : u = spans[spans[i].parent].task
    BY <2>3, TasksKept
  <2>5. ~Undisturbed(u)
    BY <1>0, <1>1, <1>2, <2>1, <2>4 DEF Rooted
  <2>6. spans'[spans'[i].parent].task = u
    BY <2>1, <2>3, <2>4, TasksKept
  <2>7. Undisturbed(u)'
    BY <1>1, <2>6
  <2>8. QED
    BY <2>5, <2>7, TriesKept
<1>3. CASE i \notin 1..Len(spans)
  <2>1. Len(spans) \in Nat /\ Len(spans') \in Nat /\ spans' # spans
    BY <1>3, TasksKept
  <2>2. PICK h \in Threads : ObserveStart(h)
    <3>1. ASSUME NEW w \in Workers,
                 WorkerTake(w) \/ WorkerReturn(w) \/ WorkerRaise(w) \/ WorkerFinally(w) \/ WorkerQuit(w)
          PROVE  spans' = spans
      BY <3>1, TakeFacts, TurnFacts, FinallyFacts, QuitFacts DEF traceVars
    <3>2. ASSUME MonitorFail \/ \E w \in Workers : MonitorExpire(w) PROVE spans' = spans
      BY <3>2, MonitorFacts DEF traceVars
    <3>3. ASSUME NEW h \in Threads,
                 Logged(h) \/ LogRaises(h) \/ ObserveOther(h) \/ ObserveSubmit(h)
          PROVE  spans' = spans
      BY <3>3, StoreFacts, OtherFacts, SubmitFacts DEF traceVars
    <3>4. ASSUME NEW h \in Threads, RegisterSpan(h) \/ ObserveEnd(h) PROVE spans' = spans
      BY <3>4, RegisterFacts, PopFacts
    <3>5. ASSUME NEW h \in Threads, EndSpan(h) PROVE FALSE
      <4>1. Len(spans') = Len(spans)
        BY <3>5, EndFacts
      <4>2. QED
        BY <1>3, <4>1
    <3>6. CASE UNCHANGED vars
      BY <2>1, <3>6 DEF vars, traceVars
    <3>7. ASSUME NEW h \in Callers, Submit(h) \/ Schedule(h) \/ Cancel(h) PROVE spans' = spans
      BY <3>7, CallerFacts DEF traceVars
    <3>8. QED
      BY <2>1, <3>1, <3>2, <3>3, <3>4, <3>5, <3>6, <3>7, StepCases
  <2>3. /\ Len(spans') = Len(spans) + 1 /\ spans'[Len(spans) + 1].parent = context[h]
        /\ \A j \in 1..Len(spans) : spans'[j] = spans[j]
    BY <2>2, StartFacts
  <2>4. i = Len(spans) + 1
    BY <1>3, <2>1, <2>3
  <2>5. /\ context[h] # 0 /\ spans'[i].parent = context[h]
        /\ h \in Workers /\ ~Current(h) /\ died[h] = None
    BY <1>1, <2>2, <2>3, <2>4, StartStage, StartFacts
  <2>6. context[h] \in 1..Len(spans)
    BY <1>0, <2>5 DEF ContextInv
  <2>7. PICK u \in Tasks : u = spans[context[h]].task
    BY <2>6, TasksKept
  <2>8. spans'[spans'[i].parent].task = u
    BY <2>3, <2>5, <2>6, <2>7
  <2>9. Undisturbed(u)'
    BY <1>1, <2>8
  <2>10. Undisturbed(u)
    BY <2>9, TriesKept
  <2>11. Trail(h)
    BY <2>5 DEF TraceInv
  <2>12. QED
    BY <2>5, <2>7, <2>10, <2>11 DEF Trail
<1>4. QED
  BY <1>2, <1>3

\* Both.
LEMMA TraceStep == Base /\ Nesting /\ CalmInv /\ TraceInv /\ [Next]_vars => TraceInv'
<1> SUFFICES ASSUME Base, Nesting, CalmInv, TraceInv, [Next]_vars PROVE TraceInv'
  OBVIOUS
<1>1. Rooted'
  BY RootedStep
<1>2. ASSUME NEW w \in Workers PROVE Trail(w)'
  <2>1. CASE UNCHANGED vars
    <3>1. Trail(w)
      BY DEF TraceInv
    <3>2. QED
      BY <2>1, <3>1 DEF vars, engineVars, busVars, traceVars, Trail, Current, ToStart, Quiet, Undisturbed
  <2>2. QED
    BY <2>1, StepCases, TrailWorker, TrailMonitor, TrailCaller, TrailCall
<1>3. QED
  BY <1>1, <1>2 DEF TraceInv

----------------------------------------------------------------------------
(* The theorems about spans.                                               *)

\* The inductive invariant.
Traced == Base /\ Nesting /\ CalmInv /\ TraceInv

\* It holds in every reachable state.
LEMMA TracedAlways == Spec => []Traced
<1>1. Init => Traced
  BY BaseInit, CalmInit DEF Traced
<1>2. Traced /\ [Next]_vars => Traced'
  BY BaseStep, NestingStep, CalmStep, TraceStep DEF Traced
<1>3. QED
  BY <1>1, <1>2, PTL DEF Spec

\* OwnTrace: with thread-local nesting (Tracer.start_span, end_span) and spans
\* that any thread may pop (ObservabilitySubscriber._active_spans), a span has a
\* parent only if that one's task was retried or may time out and its worker did
\* not end it.
THEOREM Traces == Spec => []OwnTrace
<1>1. Traced => OwnTrace
  <2> SUFFICES ASSUME Traced, NEW i \in 1..Len(spans), spans[i].parent # 0
               PROVE  /\ ~Undisturbed(spans[spans[i].parent].task)
                      /\ spans[spans[i].parent].ender # spans[i].thread
    BY DEF OwnTrace
  <2>1. Rooted /\ ParentInv
    BY DEF Traced, TraceInv, Nesting
  <2>2. QED
    BY <2>1 DEF Rooted, ParentInv
<1>2. QED
  BY <1>1, TracedAlways, PTL

\* SpansClosed: the worker that started the span of a task without timeout or
\* retry has ended it by the time it lets go of the task, whatever the other
\* threads do in the shared tracer; unless the task's code let SystemExit through
\* (worker.py:162-169), and then no thread ever ends the span.
THEOREM Closing == Spec => []SpansClosed
<1>1. Traced => SpansClosed
  <2> SUFFICES ASSUME Traced, NEW i \in 1..Len(spans), Undisturbed(spans[i].task),
                      hand[spans[i].thread] # spans[i].task
               PROVE  IF Exited(spans[i].task)
                      THEN spans[i].open
                      ELSE ~spans[i].open /\ spans[i].ender = spans[i].thread
    BY Zenon DEF SpansClosed
  <2>1. PICK t \in Tasks : t = spans[i].task
    <3>1. spans \in Seq(Spans)
      BY DEF Traced, Base, TypeOK
    <3>2. spans[i] \in Spans
      BY <3>1
    <3>3. QED
      BY <3>2 DEF Spans
  <2>2. Calm(t) /\ i \in SpansOf(t)
    BY <2>1 DEF Traced, CalmInv, SpansOf
  <2>3. CASE Exited(t)
    <3>1. spans[i].open
      BY <2>2, <2>3 DEF Calm, Abandoned
    <3>2. QED
      BY <2>1, <2>3, <3>1
  <2>4. CASE ~Exited(t)
    <3>1. CASE \A w \in Workers : hand[w] # t
      <4>1. Over(i)
        BY <2>2, <2>4, <3>1 DEF Calm, Idle
      <4>2. QED
        BY <2>1, <2>4, <4>1 DEF Over
    <3>2. ASSUME NEW w \in Workers, hand[w] = t PROVE Over(i)
      <4>1. Attempt(w, t)
        BY <2>2, <3>2 DEF Calm
      <4>2. ~ToStart(w)
        BY <2>2, <4>1 DEF Attempt
      <4>3. ~Current(w)
        <5>1. SUFFICES ASSUME Current(w) PROVE FALSE
          OBVIOUS
        <5>2. SpansOf(t) = {SpanOf(w)} /\ spans[SpanOf(w)].thread = w
          BY <4>1, <5>1 DEF Attempt
        <5>3. i = SpanOf(w)
          BY <2>2, <5>2
        <5>4. QED
          BY <2>1, <3>2, <5>2, <5>3
      <4>4. QED
        BY <2>2, <4>1, <4>2, <4>3 DEF Attempt
    <3>3. QED
      BY <2>1, <2>4, <3>1, <3>2 DEF Over
  <2>5. QED
    BY <2>3, <2>4
<1>2. QED
  BY <1>1, TracedAlways, PTL

=============================================================================
