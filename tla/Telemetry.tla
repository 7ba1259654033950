----------------------------- MODULE Telemetry -----------------------------
(***************************************************************************)
(* The observability platform on a running engine (observability/bus.py,   *)
(* integration.py, tracing.py, metrics.py): EventStoreBusProxy publishes   *)
(* what workers, the timeout monitor and callers of the runtime append on  *)
(* RuntimeEventBus, which calls EventStoreSubscriber and                   *)
(* ObservabilitySubscriber on the publishing thread, one after the other   *)
(* in either order.                                                        *)
(*                                                                         *)
(* Of the engine (Scheduler.tla) only what decides the order of the events *)
(* is here: submissions, cancellations, attempts on workers, retries, and  *)
(* a monitor that times out a task its worker goes on executing.  A worker *)
(* whose task lets SystemExit through ends without an event, and without   *)
(* being replaced: its state stays IDLE (pool.py:199).  WorkerHeartbeat,   *)
(* TimeoutTriggered and RetryScheduled, each appended right after one of   *)
(* the events here and used by no metric and no span, are left out.        *)
(***************************************************************************)
EXTENDS Naturals, Sequences, FiniteSets

CONSTANTS Tasks, Workers, Monitor, Callers, None,
          Nodes,        \* tasks of workflow nodes: scheduled without TaskSubmitted, and
                        \* the only ones InMemoryTaskQueue.cancel is called for
          Timed,        \* tasks with a timeout policy that may expire
          Retried,      \* tasks with a retry policy
          MaxRetries,   \* its max_retries
          Exiting,      \* tasks whose code may let SystemExit through
          Losable       \* bound: tasks an event about which may fail to be stored

Threads == Workers \cup Callers \cup {Monitor}
Subscribers == {"store", "obs"}
Kinds == {"TaskSubmitted", "TaskStarted", "TaskCompleted", "TaskFailed", "TaskTimedOut",
          "TaskCancelled", "TaskRetried"}
Counters == {"submitted", "started", "completed", "failed"}
Events == [kind : Kinds, task : Tasks]

ASSUME ConstantsAssumption ==
    /\ IsFiniteSet(Workers) /\ IsFiniteSet(Callers)
    /\ Workers \cap Callers = {} /\ Monitor \notin Workers \cup Callers
    /\ None \notin Tasks \cup Threads \cup Events \cup Counters
    /\ Nodes \subseteq Tasks /\ Exiting \subseteq Tasks
    /\ Timed \subseteq Tasks /\ Retried \subseteq Tasks
    /\ Losable \subseteq Tasks /\ MaxRetries \in Nat

VARIABLES
    fresh,      \* tasks submit_task was not called for yet
    asked,      \* caller -> the task it submits
    ready,      \* task -> its entries in the queue or the delay heap
    tries,      \* task -> retry_count
    hand,       \* worker -> current_task
    phase,      \* worker -> "free", "exec" (appending TaskStarted, then executing), "end"
    clock,      \* worker -> task_start_time is set
    died,       \* worker -> the task whose code ended its thread, None while it lives
    overdue,    \* the task the monitor is failing
    event,      \* thread -> the event it is appending
    left,       \* thread -> subscribers still to be called with it
    active,     \* ObservabilitySubscriber._active_spans: task -> span id, 0 if none
    held,       \* thread -> span id between start_span and its registration, or pop and end_span
    context,    \* thread -> span id in the thread-local trace context, 0 if none
    spans,      \* Tracer._spans in the order they were started
    counter,    \* MetricsRegistry: counter -> value
    stored,     \* kind -> events of the kind in the log
    lost        \* history: kind -> events whose append raised

engineVars == <<fresh, asked, ready, tries, hand, phase, clock, died, overdue>>
busVars == <<event, left>>
traceVars == <<active, held, context, spans, counter>>
logVars == <<stored, lost>>
vars == <<engineVars, busVars, traceVars, logVars>>

Init ==
    /\ fresh = Tasks \ Nodes /\ asked = [h \in Callers |-> None]
    /\ ready = [t \in Tasks |-> IF t \in Nodes THEN 1 ELSE 0] /\ tries = [t \in Tasks |-> 0]
    /\ hand = [w \in Workers |-> None] /\ phase = [w \in Workers |-> "free"]
    /\ clock = [w \in Workers |-> FALSE] /\ died = [w \in Workers |-> None] /\ overdue = None
    /\ event = [h \in Threads |-> None] /\ left = [h \in Threads |-> {}]
    /\ active = [t \in Tasks |-> 0] /\ held = [h \in Threads |-> 0]
    /\ context = [h \in Threads |-> 0] /\ spans = << >>
    /\ counter = [c \in Counters |-> 0]
    /\ stored = [k \in Kinds |-> 0] /\ lost = [k \in Kinds |-> 0]

Quiet(h) == event[h] = None

\* Thread h appends an event through the proxy.
AppendEvent(h, kind, t) ==
    /\ event' = [event EXCEPT ![h] = [kind |-> kind, task |-> t]]
    /\ left' = [left EXCEPT ![h] = Subscribers]

----------------------------------------------------------------------------
(* The callers, and the engine.                                            *)

\* Runtime.submit_task: the event is appended before the task is scheduled.
Submit(h) ==
    \E t \in fresh :
      /\ asked[h] = None /\ Quiet(h)
      /\ fresh' = fresh \ {t}
      /\ asked' = [asked EXCEPT ![h] = t]
      /\ AppendEvent(h, "TaskSubmitted", t)
      /\ UNCHANGED <<ready, tries, hand, phase, clock, died, overdue, traceVars, logVars>>

Schedule(h) ==
    /\ asked[h] # None /\ Quiet(h)
    /\ ready' = [ready EXCEPT ![asked[h]] = @ + 1]
    /\ asked' = [asked EXCEPT ![h] = None]
    /\ UNCHANGED <<fresh, tries, hand, phase, clock, died, overdue, busVars, traceVars, logVars>>

\* cancel_workflow, for a node whose task is still in the queue.
Cancel(h) ==
    \E t \in Nodes :
      /\ asked[h] = None /\ Quiet(h) /\ ready[t] > 0
      /\ ready' = [ready EXCEPT ![t] = @ - 1]
      /\ AppendEvent(h, "TaskCancelled", t)
      /\ UNCHANGED <<fresh, asked, tries, hand, phase, clock, died, overdue, traceVars, logVars>>

WorkerTake(w) ==
    \E t \in Tasks :
      /\ phase[w] = "free" /\ died[w] = None /\ ready[t] > 0
      /\ ready' = [ready EXCEPT ![t] = @ - 1]
      /\ hand' = [hand EXCEPT ![w] = t]
      /\ phase' = [phase EXCEPT ![w] = "exec"]
      /\ clock' = [clock EXCEPT ![w] = TRUE]
      /\ AppendEvent(w, "TaskStarted", t)
      /\ UNCHANGED <<fresh, asked, tries, died, overdue, traceVars, logVars>>

\* _handle_task_failure: a task to be retried is in the delay heap before the
\* events that say so are appended.
HandleFailure(h, t) ==
    \/ /\ t \in Retried /\ tries[t] < MaxRetries
       /\ tries' = [tries EXCEPT ![t] = @ + 1]
       /\ ready' = [ready EXCEPT ![t] = @ + 1]
       /\ AppendEvent(h, "TaskRetried", t)
    \/ /\ ~(t \in Retried /\ tries[t] < MaxRetries)
       /\ AppendEvent(h, "TaskFailed", t)
       /\ UNCHANGED <<tries, ready>>

WorkerReturn(w) ==
    /\ phase[w] = "exec" /\ Quiet(w)
    /\ phase' = [phase EXCEPT ![w] = "end"]
    /\ AppendEvent(w, "TaskCompleted", hand[w])
    /\ UNCHANGED <<fresh, asked, ready, tries, hand, clock, died, overdue, traceVars, logVars>>

WorkerRaise(w) ==
    /\ phase[w] = "exec" /\ Quiet(w)
    /\ phase' = [phase EXCEPT ![w] = "end"]
    /\ HandleFailure(w, hand[w])
    /\ UNCHANGED <<fresh, asked, hand, clock, died, overdue, traceVars, logVars>>

WorkerFinally(w) ==
    /\ phase[w] = "end" /\ Quiet(w)
    /\ phase' = [phase EXCEPT ![w] = "free"]
    /\ hand' = [hand EXCEPT ![w] = None]
    /\ clock' = [clock EXCEPT ![w] = FALSE]
    /\ UNCHANGED <<fresh, asked, ready, tries, died, overdue, busVars, traceVars, logVars>>

\* The task's code lets SystemExit through: `finally` clears the worker, and its
\* thread ends.
WorkerQuit(w) ==
    /\ phase[w] = "exec" /\ Quiet(w) /\ hand[w] \in Exiting
    /\ died' = [died EXCEPT ![w] = hand[w]]
    /\ phase' = [phase EXCEPT ![w] = "free"]
    /\ hand' = [hand EXCEPT ![w] = None]
    /\ clock' = [clock EXCEPT ![w] = FALSE]
    /\ UNCHANGED <<fresh, asked, ready, tries, overdue, busVars, traceVars, logVars>>

\* The limit passes while the worker holds the task, which it keeps executing.
MonitorExpire(w) ==
    /\ overdue = None /\ Quiet(Monitor)
    /\ clock[w] /\ hand[w] \in Timed
    /\ clock' = [clock EXCEPT ![w] = FALSE]
    /\ overdue' = hand[w]
    /\ AppendEvent(Monitor, "TaskTimedOut", hand[w])
    /\ UNCHANGED <<fresh, asked, ready, tries, hand, phase, died, traceVars, logVars>>

MonitorFail ==
    /\ overdue # None /\ Quiet(Monitor)
    /\ overdue' = None
    /\ HandleFailure(Monitor, overdue)
    /\ UNCHANGED <<fresh, asked, hand, phase, clock, died, traceVars, logVars>>

----------------------------------------------------------------------------
(* The bus: publish calls every subscriber with the event and swallows what *)
(* they raise.                                                             *)

Calling(h, s) == ~Quiet(h) /\ held[h] = 0 /\ s \in left[h]

\* Thread h has subscribers rest left to call with its event, and span i in
\* hand; with none of either the append returns.
Proceed(h, rest, i) ==
    /\ left' = [left EXCEPT ![h] = rest]
    /\ event' = [event EXCEPT ![h] = IF rest = {} /\ i = 0 THEN None ELSE @]

Called(h, s) == Proceed(h, left[h] \ {s}, held'[h])

Logged(h) ==
    LET k == event[h].kind
    IN  /\ Calling(h, "store")
        /\ stored' = [stored EXCEPT ![k] = @ + 1]
        /\ UNCHANGED <<lost, engineVars, traceVars>>
        /\ Called(h, "store")

\* Mutant: an exception ends the loop over the subscribers.
MutLogRaises(h) ==
    LET k == event[h].kind
    IN  /\ Calling(h, "store")
        /\ event[h].task \in Losable /\ \A x \in Kinds : lost[x] = 0
        /\ lost' = [lost EXCEPT ![k] = @ + 1]
        /\ UNCHANGED <<stored, engineVars, traceVars>>
        /\ Proceed(h, {}, 0)

\* The event is not written and nobody is told (bound: once in a behaviour).
LogRaises(h) ==
    LET k == event[h].kind
    IN  /\ Calling(h, "store")
        /\ event[h].task \in Losable /\ \A x \in Kinds : lost[x] = 0
        /\ lost' = [lost EXCEPT ![k] = @ + 1]
        /\ UNCHANGED <<stored, engineVars, traceVars>>
        /\ Called(h, "store")

----------------------------------------------------------------------------
(* ObservabilitySubscriber, on the thread that publishes.                  *)

CounterOf(k) == CASE k = "TaskSubmitted" -> "submitted"
                  [] k = "TaskStarted"   -> "started"
                  [] k = "TaskCompleted" -> "completed"
                  [] k \in {"TaskFailed", "TaskCancelled", "TaskTimedOut"} -> "failed"
                  [] OTHER               -> None

Increment(k) == counter' = [counter EXCEPT ![CounterOf(k)] = @ + 1]

\* Events that neither metrics nor tracing use.
ObserveOther(h) ==
    /\ Calling(h, "obs") /\ CounterOf(event[h].kind) = None
    /\ UNCHANGED <<engineVars, traceVars, logVars>>
    /\ Called(h, "obs")

\* A submission is counted; no span depends on it.
ObserveSubmit(h) ==
    /\ Calling(h, "obs") /\ event[h].kind = "TaskSubmitted"
    /\ Increment(event[h].kind)
    /\ UNCHANGED <<active, held, context, spans, engineVars, logVars>>
    /\ Called(h, "obs")

\* Tracer.start_span: the thread's current span becomes the parent.
ObserveStart(h) ==
    LET e == event[h]
        span == [task |-> e.task, thread |-> h, parent |-> context[h],
                 open |-> TRUE, ender |-> None]
    IN  /\ Calling(h, "obs") /\ e.kind = "TaskStarted"
        /\ Increment(e.kind)
        /\ spans' = Append(spans, span)
        /\ context' = [context EXCEPT ![h] = Len(spans) + 1]
        /\ held' = [held EXCEPT ![h] = Len(spans) + 1]
        /\ Called(h, "obs")
        /\ UNCHANGED <<active, engineVars, logVars>>

\* _active_spans[task_id] = span.span_id
RegisterSpan(h) ==
    /\ held[h] # 0 /\ event[h].kind = "TaskStarted"
    /\ active' = [active EXCEPT ![event[h].task] = held[h]]
    /\ held' = [held EXCEPT ![h] = 0]
    /\ Proceed(h, left[h], 0)
    /\ UNCHANGED <<context, spans, counter, engineVars, logVars>>

\* Mutant: only a success ends the span.
MutObserveEnd(h) ==
    LET e == event[h]
    IN  /\ Calling(h, "obs") /\ CounterOf(e.kind) \in {"completed", "failed"}
        /\ Increment(e.kind)
        /\ held' = [held EXCEPT ![h] = IF e.kind = "TaskCompleted" THEN active[e.task] ELSE 0]
        /\ active' = [active EXCEPT ![e.task] = 0]
        /\ Called(h, "obs")
        /\ UNCHANGED <<context, spans, engineVars, logVars>>

\* The task's span is popped, if it has one, to be ended.
ObserveEnd(h) ==
    LET e == event[h]
    IN  /\ Calling(h, "obs") /\ CounterOf(e.kind) \in {"completed", "failed"}
        /\ Increment(e.kind)
        /\ held' = [held EXCEPT ![h] = active[e.task]]
        /\ active' = [active EXCEPT ![e.task] = 0]
        /\ Called(h, "obs")
        /\ UNCHANGED <<context, spans, engineVars, logVars>>

\* Mutant: the context is left as it is.
MutRestored(h, i) == context

\* The context after thread h ended span i: its parent's if i was current.
Restored(h, i) ==
    IF context[h] = i THEN [context EXCEPT ![h] = spans[i].parent] ELSE context

\* Tracer.end_span
EndSpan(h) ==
    /\ held[h] # 0 /\ event[h].kind # "TaskStarted"
    /\ spans' = [spans EXCEPT ![held[h]].open = FALSE, ![held[h]].ender = h]
    /\ context' = Restored(h, held[h])
    /\ held' = [held EXCEPT ![h] = 0]
    /\ Proceed(h, left[h], 0)
    /\ UNCHANGED <<active, counter, engineVars, logVars>>

----------------------------------------------------------------------------

Next ==
    \/ \E w \in Workers : \/ WorkerTake(w) \/ WorkerReturn(w) \/ WorkerRaise(w)
                          \/ WorkerFinally(w) \/ WorkerQuit(w) \/ MonitorExpire(w)
    \/ MonitorFail
    \/ \E h \in Callers : Submit(h) \/ Schedule(h) \/ Cancel(h)
    \/ \E h \in Threads :
         \/ Logged(h) \/ LogRaises(h)
         \/ ObserveOther(h) \/ ObserveSubmit(h) \/ ObserveStart(h) \/ RegisterSpan(h)
         \/ ObserveEnd(h) \/ EndSpan(h)

Spec == Init /\ [][Next]_vars

----------------------------------------------------------------------------
(* Properties.                                                             *)

Spans == [task : Tasks, thread : Workers, parent : Nat, open : BOOLEAN,
          ender : Threads \cup {None}]

TypeOK ==
    /\ fresh \in SUBSET Tasks /\ asked \in [Callers -> Tasks \cup {None}]
    /\ ready \in [Tasks -> Nat] /\ tries \in [Tasks -> Nat]
    /\ hand \in [Workers -> Tasks \cup {None}]
    /\ phase \in [Workers -> {"free", "exec", "end"}]
    /\ clock \in [Workers -> BOOLEAN] /\ died \in [Workers -> Tasks \cup {None}]
    /\ overdue \in Tasks \cup {None}
    /\ event \in [Threads -> Events \cup {None}] /\ left \in [Threads -> SUBSET Subscribers]
    /\ active \in [Tasks -> Nat] /\ held \in [Threads -> Nat] /\ context \in [Threads -> Nat]
    /\ spans \in Seq(Spans)
    /\ counter \in [Counters -> Nat]
    /\ stored \in [Kinds -> Nat] /\ lost \in [Kinds -> Nat]

AtRest == \A h \in Threads : Quiet(h)

\* What is in the log, or would be had its append not raised.
Seen(k) == stored[k] + lost[k]

\* When no append is under way each counter is the number of events of its kinds
\* in the log plus those whose append raised: a failing subscriber never keeps
\* an event from the others (RuntimeEventBus.publish), and telemetry counts what
\* the log has silently lost.
CountersMatchLog ==
    AtRest => /\ counter["submitted"] = Seen("TaskSubmitted")
              /\ counter["started"] = Seen("TaskStarted")
              /\ counter["completed"] = Seen("TaskCompleted")
              /\ counter["failed"] = Seen("TaskFailed") + Seen("TaskTimedOut")
                                     + Seen("TaskCancelled")

\* A task that was neither timed out nor retried.
Undisturbed(t) == t \notin Timed /\ tries[t] = 0

\* Thread-local nesting (Tracer.start_span) makes a span the child of another
\* only where a retry or a timeout left that one in the thread's context: tasks
\* that a worker simply runs one after the other are traces of their own.
OwnTrace ==
    \A i \in 1..Len(spans) :
      spans[i].parent # 0 => /\ ~Undisturbed(spans[spans[i].parent].task)
                             /\ spans[spans[i].parent].ender # spans[i].thread

\* The code of task t ended a worker's thread.
Exited(t) == \E w \in Workers : died[w] = t

\* Whatever other threads time out, retry or cancel meanwhile, the span of an
\* undisturbed task is ended by the thread that started it, before that thread
\* lets go of the task; unless the task's code ended the thread: then nobody
\* ever ends the span, the worker itself included.
SpansClosed ==
    \A i \in 1..Len(spans) :
      LET t == spans[i].task
      IN  Undisturbed(t) /\ hand[spans[i].thread] # t
            => IF Exited(t) THEN spans[i].open
                            ELSE ~spans[i].open /\ spans[i].ender = spans[i].thread
=============================================================================
