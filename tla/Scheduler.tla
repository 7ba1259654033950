----------------------------- MODULE Scheduler -----------------------------
(***************************************************************************)
(* The running engine: IntelligentScheduler, WorkerPool and its Workers,   *)
(* DelayedTaskTracker, TimeoutManager, RetryEngine and the FIFO task queue *)
(* (src/app/runtime/scheduling/), started, fed with tasks and stopped by   *)
(* Runtime (src/app/runtime/runtime.py).                                   *)
(*                                                                         *)
(* Threads: the scheduler loop, the tracker, the timeout monitor, one per  *)
(* Worker object, the supervisor, the clients, and the threads that call   *)
(* Runtime.stop.  An action is what one thread does between two points     *)
(* where another thread can interfere: a block under a lock, or an access  *)
(* to a Task, whose status and retry_count no lock protects.  Time is      *)
(* abstract: a delay may expire at any moment, and a task may be found     *)
(* overdue once a monitor pass has begun after the task did.               *)
(***************************************************************************)
EXTENDS Integers, Sequences, FiniteSets

CONSTANTS
    Tasks,          \* Task objects; a task's id is its identity
    Timed,          \* tasks with a TimeoutPolicy
    MaxRetries,     \* task -> max_retries of its RetryPolicy (0: has none)
    Filtered,       \* tasks whose RetryPolicy lists retryable_exceptions
    NoBackoff,      \* tasks whose RetryPolicy computes a delay of 0
    Inadmissible,   \* tasks an admission plugin rejects
    Quitting,       \* tasks whose code may raise SystemExit
    Cancellable,    \* tasks queue.cancel may be called for
    Workers,        \* Worker objects, those of respawned workers included
    InitialPool,    \* the Worker objects WorkerPool.start creates
    Monitor,        \* the TimeoutManager thread
    NoTask,
    Capacity,       \* max_size of the queue (0 or less: unbounded)
    StoreFails,     \* TRUE if event_store.append may raise
    MayStop         \* TRUE if Runtime.stop may be called

Threads == Workers \cup {Monitor}

ASSUME ConstantsAssumption ==
    /\ Timed \subseteq Tasks /\ Filtered \subseteq Tasks /\ NoBackoff \subseteq Tasks
    /\ Inadmissible \subseteq Tasks /\ Quitting \subseteq Tasks
    /\ Cancellable \subseteq Tasks
    /\ MaxRetries \in [Tasks -> Nat]
    /\ InitialPool \subseteq Workers
    /\ Monitor \notin Workers
    /\ NoTask \notin Tasks
    /\ Capacity \in Int
    /\ StoreFails \in BOOLEAN /\ MayStop \in BOOLEAN

VARIABLES
    status,      \* Task.status; "NEW" before submit_task creates the task
    retry,       \* metadata["retry_count"]
    order,       \* FIFOPolicy._order
    storage,     \* InMemoryTaskQueue._storage
    delayed,     \* DelayedTaskTracker._heap: how many entries a task has
    due,         \* tasks_to_trigger of the tracker's current pass
    spc, shand,  \* the scheduler loop: where it is, the task it holds
    poolq,       \* WorkerPool._task_queue
    pool,        \* the Worker objects in WorkerPool._workers
    wstate,      \* Worker.state
    stop,        \* Worker._stop_event
    clock,       \* Worker.task_start_time, see Clocks
    pc, hand,    \* workers and monitor: where they are, their local `task'
    count,       \* workers and monitor: the retry_count prepare_retry read
    todo,        \* workers left in the monitor's current pass
    suspect,     \* the worker the monitor is dealing with
    supervised,  \* the supervisor thread is alive
    completed, failed,   \* WorkerPool._tasks_completed, _tasks_failed
    mpc,         \* how far the IntelligentScheduler.stop that takes effect got
    ppc,         \* how far the WorkerPool.stop that takes effect got
    overtaken,   \* history: a second Runtime.stop reached the pool first
    attempts,    \* history: how often a worker started the task
    fate         \* history: why a task left the engine without an outcome

queueVars == <<order, storage>>
trackerVars == <<delayed, due>>
loopVars == <<spc, shand>>
workerVars == <<pool, wstate, stop, clock, supervised>>
threadVars == <<pc, hand, count>>
monitorVars == <<todo, suspect>>
taskVars == <<status, retry>>
metricVars == <<completed, failed>>
stopVars == <<mpc, ppc, overtaken>>
vars == <<status, retry, order, storage, delayed, due, spc, shand, poolq, pool,
          wstate, stop, clock, pc, hand, count, todo, suspect, supervised,
          completed, failed, mpc, ppc, overtaken, attempts, fate>>

Statuses == {"NEW", "PENDING", "RUNNING", "COMPLETED", "FAILED"}
WorkerStates == {"IDLE", "RUNNING", "STOPPING", "STOPPED", "FAILED"}

\* task_start_time: None; set after, or before, the monitor's `now'.
Clocks == {"none", "after", "before"}

\* Where a worker is in Worker._run (the monitor shares the last four).
WorkerPCs == {"new", "get", "begin", "start", "exec", "complete", "report",
              "except", "finally", "dead"}
MonitorPCs == {"scan", "inspect", "clear", "fail"}
RetryPCs == {"check", "read", "write", "delay"}

\* IntelligentScheduler.stop: not called; joining the tracker, the monitor, the
\* loop; over; or left by an exception once it had joined them.
SchedulerStopPCs == {"up", "tracker", "monitor", "loop", "joined", "raised"}

\* WorkerPool.stop: not called; telling the workers to stop and joining them;
\* over; or left by an exception before it had joined them all.
PoolStopPCs == {"up", "pool", "down", "cut"}

\* WorkerPool._started.
Started == ppc = "up"

\* "live": in the engine, or with an outcome; "refused": schedule raised;
\* "cancelled": queue.cancel; "dropped": swallowed with an exception;
\* "crashed": taken down by its worker thread.
Fates == {"live", "refused", "cancelled", "dropped", "crashed"}

TaskTypes ==
    /\ status \in [Tasks -> Statuses] /\ retry \in [Tasks -> Nat]
    /\ attempts \in [Tasks -> Nat] /\ fate \in [Tasks -> Fates]

QueueTypes ==
    /\ order \in Seq(Tasks) /\ storage \subseteq Tasks
    /\ delayed \in [Tasks -> Nat] /\ due \subseteq Tasks
    /\ spc \in {"poll", "nonempty", "dequeue", "submit"}
    /\ shand \in Tasks \cup {NoTask}
    /\ poolq \in Seq(Tasks)

WorkerTypes ==
    /\ pool \subseteq Workers
    /\ wstate \in [Workers -> WorkerStates] /\ stop \in [Workers -> BOOLEAN]
    /\ clock \in [Workers -> Clocks]
    /\ supervised \in BOOLEAN

ThreadTypes ==
    /\ pc \in [Threads -> WorkerPCs \cup MonitorPCs \cup RetryPCs]
    /\ hand \in [Threads -> Tasks \cup {NoTask}] /\ count \in [Threads -> Nat]
    /\ todo \subseteq Workers /\ suspect \in Threads
    /\ mpc \in SchedulerStopPCs /\ ppc \in PoolStopPCs /\ overtaken \in BOOLEAN

CounterTypes == completed \in Nat /\ failed \in Nat

TypeOK == TaskTypes /\ QueueTypes /\ WorkerTypes /\ ThreadTypes /\ CounterTypes

Init ==
    /\ status = [t \in Tasks |-> "NEW"] /\ retry = [t \in Tasks |-> 0]
    /\ order = << >> /\ storage = {}
    /\ delayed = [t \in Tasks |-> 0] /\ due = {}
    /\ spc = "poll" /\ shand = NoTask
    /\ poolq = << >>
    /\ pool = InitialPool
    /\ wstate = [w \in Workers |-> IF w \in InitialPool THEN "IDLE" ELSE "STOPPED"]
    /\ stop = [w \in Workers |-> FALSE]
    /\ clock = [w \in Workers |-> "none"]
    /\ pc = [h \in Threads |-> IF h = Monitor THEN "scan"
                               ELSE IF h \in InitialPool THEN "get" ELSE "new"]
    /\ hand = [h \in Threads |-> NoTask] /\ count = [h \in Threads |-> 0]
    /\ todo = {} /\ suspect = Monitor
    /\ supervised = TRUE
    /\ completed = 0 /\ failed = 0
    /\ mpc = "up" /\ ppc = "up" /\ overtaken = FALSE
    /\ attempts = [t \in Tasks |-> 0] /\ fate = [t \in Tasks |-> "live"]

Goto(h, label) == pc' = [pc EXCEPT ![h] = label]

----------------------------------------------------------------------------
(* The queue, as the engine uses it (see TaskQueue for its own properties).*)

Full == Capacity > 0 /\ Cardinality(storage) >= Capacity

\* enqueue, when it does not raise QueueFullError.
Put(t) == /\ ~Full
          /\ order' = Append(order, t)
          /\ storage' = storage \cup {t}
          /\ UNCHANGED fate

\* enqueue raised; `why' is what becomes of the task.
PutFails(t, why) == /\ Full
                    /\ fate' = [fate EXCEPT ![t] = why]
                    /\ UNCHANGED queueVars

\* FIFOPolicy.remove drops the first occurrence of t.
WithoutFirst(s, t) ==
    LET at == {i \in 1..Len(s) : s[i] = t /\ \A j \in 1..(i - 1) : s[j] # t}
    IN  IF at = {} THEN s
        ELSE LET k == CHOOSE i \in at : TRUE
             IN  [i \in 1..(Len(s) - 1) |-> IF i < k THEN s[i] ELSE s[i + 1]]

----------------------------------------------------------------------------
(* Clients: Runtime.submit_task and the orchestrator's queue.cancel.       *)

\* submit_task registers the task, appends TaskSubmitted, then schedule admits
\* it and either delays or enqueues it.  When the append or schedule raises,
\* the task stays registered, PENDING.
Submit(t) ==
    /\ status[t] = "NEW"
    /\ status' = [status EXCEPT ![t] = "PENDING"]
    /\ \/ /\ t \in Inadmissible \/ StoreFails
          /\ fate' = [fate EXCEPT ![t] = "refused"]
          /\ UNCHANGED <<queueVars, delayed>>
       \/ /\ t \notin Inadmissible
          /\ delayed' = [delayed EXCEPT ![t] = @ + 1]
          /\ UNCHANGED <<queueVars, fate>>
       \/ /\ t \notin Inadmissible
          /\ Put(t) \/ PutFails(t, "refused")
          /\ UNCHANGED delayed
    /\ UNCHANGED <<retry, due, loopVars, poolq, workerVars, threadVars,
                   monitorVars, metricVars, stopVars, attempts>>

Cancel(t) ==
    /\ t \in Cancellable /\ t \in storage
    /\ storage' = storage \ {t}
    /\ order' = WithoutFirst(order, t)
    /\ fate' = [fate EXCEPT ![t] = "cancelled"]
    /\ UNCHANGED <<taskVars, trackerVars, loopVars, poolq, workerVars, threadVars,
                   monitorVars, metricVars, stopVars, attempts>>

----------------------------------------------------------------------------
(* The scheduler loop, IntelligentScheduler._run_loop.                     *)

LoopFrame == UNCHANGED <<taskVars, trackerVars, workerVars, threadVars,
                         monitorVars, metricVars, stopVars, attempts>>

LoopPoll ==
    /\ spc = "poll" /\ mpc = "up"
    /\ \E w \in pool : wstate[w] = "IDLE"
    /\ spc' = "nonempty"
    /\ UNCHANGED <<shand, queueVars, poolq, fate>> /\ LoopFrame

LoopNonempty ==
    /\ spc = "nonempty"
    /\ spc' = IF storage = {} THEN "poll" ELSE "dequeue"
    /\ UNCHANGED <<shand, queueVars, poolq, fate>> /\ LoopFrame

\* dequeue raises QueueEmptyError on an empty order or an id that is not
\* indexed; if the event store raises, the task is already out of the queue.
LoopDequeue ==
    /\ spc = "dequeue"
    /\ \/ /\ order = << >>
          /\ spc' = "poll"
          /\ UNCHANGED <<queueVars, shand, fate>>
       \/ /\ order # << >> /\ Head(order) \notin storage
          /\ order' = Tail(order)
          /\ spc' = "poll"
          /\ UNCHANGED <<storage, shand, fate>>
       \/ /\ order # << >> /\ Head(order) \in storage
          /\ order' = Tail(order)
          /\ storage' = storage \ {Head(order)}
          /\ \/ spc' = "submit" /\ shand' = Head(order) /\ UNCHANGED fate
             \/ /\ StoreFails
                /\ fate' = [fate EXCEPT ![Head(order)] = "dropped"]
                /\ spc' = "poll" /\ UNCHANGED shand
    /\ UNCHANGED poolq /\ LoopFrame

\* WorkerPool.submit raises when the pool is not started; the loop logs that.
LoopSubmit ==
    /\ spc = "submit"
    /\ \/ /\ Started
          /\ poolq' = Append(poolq, shand)
          /\ UNCHANGED fate
       \/ /\ ~Started
          /\ fate' = [fate EXCEPT ![shand] = "dropped"]
          /\ UNCHANGED poolq
    /\ spc' = "poll" /\ shand' = NoTask
    /\ UNCHANGED queueVars /\ LoopFrame

----------------------------------------------------------------------------
(* The delayed-task tracker.                                               *)

\* Mutant: the heap is cleared instead of popped.
MutHeapCleared ==
    /\ mpc = "up" /\ due = {}
    /\ \E matured \in SUBSET {t \in Tasks : delayed[t] > 0} :
          matured # {} /\ due' = matured
    /\ delayed' = [t \in Tasks |-> 0]
    /\ UNCHANGED <<taskVars, queueVars, loopVars, poolq, workerVars, threadVars,
                   monitorVars, metricVars, stopVars, attempts, fate>>

\* One pass takes the matured tasks off the heap under the tracker's lock ...
TrackerPop ==
    /\ mpc = "up" /\ due = {}
    /\ \E matured \in SUBSET {t \in Tasks : delayed[t] > 0} :
          /\ matured # {}
          /\ due' = matured
          /\ delayed' = [t \in Tasks |-> IF t \in matured THEN delayed[t] - 1
                                         ELSE delayed[t]]
    /\ UNCHANGED <<taskVars, queueVars, loopVars, poolq, workerVars, threadVars,
                   monitorVars, metricVars, stopVars, attempts, fate>>

\* ... and hands each to _on_delayed_task_ready, which logs a full queue.
TrackerFire(t) ==
    /\ t \in due
    /\ due' = due \ {t}
    /\ Put(t) \/ PutFails(t, "dropped")
    /\ UNCHANGED <<taskVars, delayed, loopVars, poolq, workerVars, threadVars,
                   monitorVars, metricVars, stopVars, attempts>>

----------------------------------------------------------------------------
(* Worker._run.                                                            *)

WorkerFrame == UNCHANGED <<queueVars, trackerVars, loopVars, monitorVars, pool,
                           supervised, stopVars>>

WorkerGet(w) ==
    /\ pc[w] = "get" /\ ~stop[w] /\ poolq # << >>
    /\ hand' = [hand EXCEPT ![w] = Head(poolq)]
    /\ poolq' = Tail(poolq)
    /\ Goto(w, "begin")
    /\ UNCHANGED <<taskVars, wstate, stop, clock, count, metricVars, attempts, fate>>
    /\ WorkerFrame

WorkerBegin(w) ==
    /\ pc[w] = "begin"
    /\ wstate' = [wstate EXCEPT ![w] = "RUNNING"]
    /\ clock' = [clock EXCEPT ![w] = "after"]
    /\ Goto(w, "start")
    /\ UNCHANGED <<taskVars, poolq, stop, hand, count, metricVars, attempts, fate>>
    /\ WorkerFrame

\* The TaskStarted event is appended outside the inner try: if that raises,
\* the thread ends and the task with it.
WorkerStart(w) ==
    /\ pc[w] = "start"
    /\ \/ /\ status' = [status EXCEPT ![hand[w]] = "RUNNING"]
          /\ attempts' = [attempts EXCEPT ![hand[w]] = @ + 1]
          /\ Goto(w, "exec")
          /\ UNCHANGED <<wstate, fate>>
       \/ /\ StoreFails
          /\ wstate' = [wstate EXCEPT ![w] = "FAILED"]
          /\ fate' = [fate EXCEPT ![hand[w]] = "crashed"]
          /\ Goto(w, "dead")
          /\ UNCHANGED <<status, attempts>>
    /\ UNCHANGED <<retry, poolq, stop, clock, hand, count, metricVars>>
    /\ WorkerFrame

\* execute returned: the status test of line 141 ...
WorkerReturn(w) ==
    /\ pc[w] = "exec"
    /\ Goto(w, IF status[hand[w]] # "FAILED" THEN "complete" ELSE "report")
    /\ UNCHANGED <<taskVars, poolq, wstate, stop, clock, hand, count, metricVars,
                   attempts, fate>>
    /\ WorkerFrame

\* ... and the write it guards.
WorkerComplete(w) ==
    /\ pc[w] = "complete"
    /\ status' = [status EXCEPT ![hand[w]] = "COMPLETED"]
    /\ Goto(w, "report")
    /\ UNCHANGED <<retry, poolq, wstate, stop, clock, hand, count, metricVars,
                   attempts, fate>>
    /\ WorkerFrame

\* TaskCompleted event (inside the try: a failing store leads to the except
\* branch) and _on_task_completed.
WorkerReport(w) ==
    /\ pc[w] = "report"
    /\ \/ completed' = completed + 1 /\ Goto(w, "finally")
       \/ StoreFails /\ Goto(w, "except") /\ UNCHANGED completed
    /\ UNCHANGED <<taskVars, poolq, wstate, stop, clock, hand, count, failed,
                   attempts, fate>>
    /\ WorkerFrame

\* execute, or the executor lookup before it, raised an Exception.
WorkerRaise(w) ==
    /\ pc[w] = "exec"
    /\ Goto(w, "except")
    /\ UNCHANGED <<taskVars, poolq, wstate, stop, clock, hand, count, metricVars,
                   attempts, fate>>
    /\ WorkerFrame

\* Mutant: a failed attempt is not counted.
MutWorkerExcept(w) ==
    /\ pc[w] = "except"
    /\ status' = [status EXCEPT ![hand[w]] = "FAILED"]
    /\ Goto(w, "check")
    /\ UNCHANGED <<retry, poolq, wstate, stop, clock, hand, count, metricVars,
                   attempts, fate>>
    /\ WorkerFrame

\* The except branch up to the callback into _handle_task_failure.
WorkerExcept(w) ==
    /\ pc[w] = "except"
    /\ status' = [status EXCEPT ![hand[w]] = "FAILED"]
    /\ failed' = failed + 1
    /\ Goto(w, "check")
    /\ UNCHANGED <<retry, poolq, wstate, stop, clock, hand, count, completed,
                   attempts, fate>>
    /\ WorkerFrame

\* A SystemExit is no Exception: only the finally block runs, and the thread
\* is gone with state IDLE.
WorkerQuit(w) ==
    /\ pc[w] = "exec" /\ hand[w] \in Quitting
    /\ wstate' = IF stop[w] THEN wstate ELSE [wstate EXCEPT ![w] = "IDLE"]
    /\ clock' = [clock EXCEPT ![w] = "none"]
    /\ fate' = [fate EXCEPT ![hand[w]] = "crashed"]
    /\ hand' = [hand EXCEPT ![w] = NoTask]
    /\ Goto(w, "dead")
    /\ UNCHANGED <<taskVars, poolq, stop, count, metricVars, attempts>>
    /\ WorkerFrame

\* Mutant: the state is not reset to IDLE.
MutWorkerFinally(w) ==
    /\ pc[w] = "finally"
    /\ clock' = [clock EXCEPT ![w] = "none"]
    /\ hand' = [hand EXCEPT ![w] = NoTask]
    /\ Goto(w, "get")
    /\ UNCHANGED <<taskVars, wstate, poolq, stop, count, metricVars, attempts, fate>>
    /\ WorkerFrame

WorkerFinally(w) ==
    /\ pc[w] = "finally"
    /\ wstate' = IF stop[w] THEN wstate ELSE [wstate EXCEPT ![w] = "IDLE"]
    /\ clock' = [clock EXCEPT ![w] = "none"]
    /\ hand' = [hand EXCEPT ![w] = NoTask]
    /\ Goto(w, "get")
    /\ UNCHANGED <<taskVars, poolq, stop, count, metricVars, attempts, fate>>
    /\ WorkerFrame

WorkerExit(w) ==
    /\ pc[w] = "get" /\ stop[w]
    /\ wstate' = [wstate EXCEPT ![w] = "STOPPED"]
    /\ Goto(w, "dead")
    /\ UNCHANGED <<taskVars, poolq, stop, clock, hand, count, metricVars, attempts,
                   fate>>
    /\ WorkerFrame

\* WorkerPool._supervise: a FAILED worker is replaced by a new object v.
Respawn(w, v) ==
    /\ supervised /\ Started
    /\ w \in pool /\ wstate[w] = "FAILED"
    /\ v \in Workers /\ pc[v] = "new"
    /\ pool' = (pool \ {w}) \cup {v}
    /\ wstate' = [wstate EXCEPT ![v] = "IDLE"]
    /\ Goto(v, "get")
    /\ UNCHANGED <<taskVars, queueVars, trackerVars, loopVars, poolq, stop, clock,
                   supervised, hand, count, monitorVars, metricVars, stopVars, attempts, fate>>

\* Its own event append is unguarded: if it raises, the supervisor is gone.
SupervisorDies ==
    /\ StoreFails /\ supervised /\ Started
    /\ \E w \in pool : wstate[w] = "FAILED"
    /\ supervised' = FALSE
    /\ UNCHANGED <<taskVars, queueVars, trackerVars, loopVars, poolq, pool, wstate, stop,
                   clock, threadVars, monitorVars, metricVars, stopVars, attempts, fate>>

----------------------------------------------------------------------------
(* TimeoutManager._run_loop.                                               *)

MonitorFrame == UNCHANGED <<loopVars, poolq, pool, wstate, stop, supervised, due,
                            stopVars, attempts>>

\* Worker.current_task, set by WorkerBegin and cleared by WorkerFinally; a
\* thread that crashed leaves it set.
CurrentTask(w) == IF pc[w] \in {"new", "get", "begin"} THEN NoTask ELSE hand[w]

\* A pass: snapshot of the running workers and of `now'.
MonitorScan ==
    /\ pc[Monitor] = "scan" /\ mpc \in {"up", "tracker"}
    /\ \E w \in pool : wstate[w] = "RUNNING"
    /\ todo' = {w \in pool : wstate[w] = "RUNNING"}
    /\ clock' = [w \in Workers |-> IF clock[w] = "after" THEN "before" ELSE clock[w]]
    /\ Goto(Monitor, "inspect")
    /\ UNCHANGED <<taskVars, queueVars, delayed, hand, count, suspect, metricVars, fate>>
    /\ MonitorFrame

\* Reads one worker of the snapshot under its lock: passes over it, or finds
\* its task overdue.
MonitorInspect(w) ==
    /\ pc[Monitor] = "inspect" /\ w \in todo
    /\ todo' = todo \ {w}
    /\ \/ UNCHANGED <<pc, hand, suspect>>
       \/ /\ CurrentTask(w) \in Timed /\ clock[w] = "before"
          /\ suspect' = w
          /\ hand' = [hand EXCEPT ![Monitor] = CurrentTask(w)]
          /\ Goto(Monitor, "clear")
    /\ UNCHANGED <<taskVars, queueVars, delayed, clock, count, metricVars, fate>>
    /\ MonitorFrame

\* Clears task_start_time of that worker, whatever it is running by now.
MonitorClear ==
    /\ pc[Monitor] = "clear"
    /\ clock' = [clock EXCEPT ![suspect] = "none"]
    /\ suspect' = Monitor
    /\ Goto(Monitor, "fail")
    /\ UNCHANGED <<taskVars, queueVars, delayed, hand, count, todo, metricVars, fate>>
    /\ MonitorFrame

\* task.fail() and _handle_task_timeout up to _handle_task_failure.
MonitorFail ==
    /\ pc[Monitor] = "fail"
    /\ status' = [status EXCEPT ![hand[Monitor]] = "FAILED"]
    /\ failed' = failed + 1
    /\ \/ Goto(Monitor, "check") /\ UNCHANGED hand
       \/ /\ StoreFails
          /\ Goto(Monitor, "inspect")
          /\ hand' = [hand EXCEPT ![Monitor] = NoTask]
    /\ UNCHANGED <<retry, queueVars, delayed, clock, count, monitorVars, completed, fate>>
    /\ MonitorFrame

MonitorRest ==
    /\ pc[Monitor] = "inspect" /\ todo = {}
    /\ Goto(Monitor, "scan")
    /\ UNCHANGED <<taskVars, queueVars, delayed, clock, hand, count, monitorVars,
                   metricVars, fate>>
    /\ MonitorFrame

----------------------------------------------------------------------------
(* IntelligentScheduler._handle_task_failure with RetryEngine, as run by a *)
(* worker (after an exception) or by the monitor (after a timeout).        *)

RetryFrame == UNCHANGED <<due, loopVars, poolq, workerVars, monitorVars,
                          metricVars, stopVars, attempts>>

\* Where a thread goes on after the failure handler.
Leave(h) == IF h = Monitor
            THEN Goto(h, "inspect") /\ hand' = [hand EXCEPT ![h] = NoTask]
            ELSE Goto(h, "finally") /\ UNCHANGED hand

\* Mutant: the limit is off by one.
MutRetryCheck(h) ==
    /\ pc[h] = "check"
    /\ \/ /\ retry[hand[h]] <= MaxRetries[hand[h]]
          /\ Goto(h, "read") /\ UNCHANGED hand
       \/ /\ retry[hand[h]] >= MaxRetries[hand[h]] \/ hand[h] \in Filtered
          /\ Leave(h)
    /\ UNCHANGED <<taskVars, queueVars, delayed, count, fate>>
    /\ RetryFrame

\* should_retry: the budget, and the exception filter (an error may fail it).
RetryCheck(h) ==
    /\ pc[h] = "check"
    /\ \/ /\ retry[hand[h]] < MaxRetries[hand[h]]
          /\ Goto(h, "read") /\ UNCHANGED hand
       \/ /\ retry[hand[h]] >= MaxRetries[hand[h]] \/ hand[h] \in Filtered
          /\ Leave(h)
    /\ UNCHANGED <<taskVars, queueVars, delayed, count, fate>>
    /\ RetryFrame

\* prepare_retry reads retry_count ...
RetryRead(h) ==
    /\ pc[h] = "read"
    /\ count' = [count EXCEPT ![h] = retry[hand[h]]]
    /\ Goto(h, "write")
    /\ UNCHANGED <<taskVars, queueVars, delayed, hand, fate>>
    /\ RetryFrame

\* Mutant: retry_count is not written back.
MutRetryWrite(h) ==
    /\ pc[h] = "write"
    /\ status' = [status EXCEPT ![hand[h]] = "PENDING"]
    /\ Goto(h, "delay")
    /\ UNCHANGED <<retry, queueVars, delayed, hand, count, fate>>
    /\ RetryFrame

\* ... and writes it back incremented, with the status reset to PENDING.
RetryWrite(h) ==
    /\ pc[h] = "write"
    /\ retry' = [retry EXCEPT ![hand[h]] = count[h] + 1]
    /\ status' = [status EXCEPT ![hand[h]] = "PENDING"]
    /\ Goto(h, "delay")
    /\ UNCHANGED <<queueVars, delayed, hand, count, fate>>
    /\ RetryFrame

\* Mutant: a delayed task is enqueued at once, too.
MutRetryDelay(h) ==
    /\ pc[h] = "delay"
    /\ \/ /\ delayed' = [delayed EXCEPT ![hand[h]] = @ + 1]
          /\ Put(hand[h])
       \/ /\ hand[h] \in NoBackoff
          /\ Put(hand[h]) \/ PutFails(hand[h], "dropped")
          /\ UNCHANGED delayed
    /\ Leave(h)
    /\ UNCHANGED <<taskVars, count>>
    /\ RetryFrame

\* add_delayed_task: a delay of 0 releases the task at once.
RetryDelay(h) ==
    /\ pc[h] = "delay"
    /\ \/ /\ hand[h] \notin NoBackoff
          /\ delayed' = [delayed EXCEPT ![hand[h]] = @ + 1]
          /\ UNCHANGED <<queueVars, fate>>
       \/ /\ hand[h] \in NoBackoff
          /\ Put(hand[h]) \/ PutFails(hand[h], "dropped")
          /\ UNCHANGED delayed
    /\ Leave(h)
    /\ UNCHANGED <<taskVars, count>>
    /\ RetryFrame

----------------------------------------------------------------------------
(* Runtime.stop: IntelligentScheduler.stop, then WorkerPool.stop.  Either   *)
(* returns at once to a caller who finds it stopped, or being stopped, by   *)
(* another, so that a second Runtime.stop goes straight to the pool.        *)

StopFrame == UNCHANGED <<taskVars, queueVars, trackerVars, loopVars, poolq, pool,
                         clock, supervised, threadVars, monitorVars, metricVars,
                         attempts, fate>>

SchedulerStops(from, to) == /\ mpc = from /\ mpc' = to
                            /\ UNCHANGED <<wstate, stop, ppc, overtaken>> /\ StopFrame

StopCall == MayStop /\ SchedulerStops("up", "tracker")

StopTracker == due = {} /\ SchedulerStops("tracker", "monitor")

StopMonitor == pc[Monitor] = "scan" /\ SchedulerStops("monitor", "loop")

\* Mutant: the scheduler loop is not joined.
MutStopLoop == SchedulerStops("loop", "joined")

\* The loop is joined; the SchedulerStopped event may not be appended.
StopLoop == /\ spc = "poll"
            /\ \/ SchedulerStops("loop", "joined")
               \/ StoreFails /\ SchedulerStops("loop", "raised")

PoolStops(to) == ppc' = to /\ UNCHANGED <<mpc, wstate, stop>> /\ StopFrame

\* WorkerPool.stop clears _started ...
StopPool == /\ mpc = "joined" /\ ppc = "up"
            /\ PoolStops("pool") /\ UNCHANGED overtaken

\* ... for a second Runtime.stop while the first still joins tracker, monitor or
\* loop, or after an exception ended it.
StopAgain == /\ mpc \in {"tracker", "monitor", "loop", "raised"} /\ ppc = "up"
             /\ overtaken' = (mpc # "raised")
             /\ PoolStops("pool")

\* Worker.stop does nothing to a worker that is STOPPED or FAILED.
Untold == {w \in pool : wstate[w] \notin {"STOPPED", "FAILED"} /\ ~stop[w]}

\* Mutant: the stop event is not set.
MutTellWorker(w) ==
    /\ ppc = "pool" /\ w \in Untold
    /\ wstate' = [wstate EXCEPT ![w] = "STOPPING"]
    /\ UNCHANGED <<stop, stopVars>> /\ StopFrame

\* The workers are told to stop one by one, ...
TellWorker(w) ==
    /\ ppc = "pool" /\ w \in Untold
    /\ wstate' = [wstate EXCEPT ![w] = "STOPPING"]
    /\ stop' = [stop EXCEPT ![w] = TRUE]
    /\ UNCHANGED stopVars /\ StopFrame

\* Mutant: the workers are not joined.
MutStopWorkers == /\ ppc = "pool" /\ Untold = {}
                  /\ PoolStops("down") /\ UNCHANGED overtaken

\* ... and joined when all are told, each with a WorkerStopped event; if that
\* cannot be appended, nobody joins the rest.
StopWorkers ==
    /\ ppc = "pool" /\ Untold = {}
    /\ \/ (\A w \in pool : pc[w] = "dead") /\ PoolStops("down")
       \/ StoreFails /\ (\E w \in pool : pc[w] = "dead") /\ PoolStops("cut")
    /\ UNCHANGED overtaken

----------------------------------------------------------------------------

Client == \E t \in Tasks : Submit(t) \/ Cancel(t)

Loop == LoopPoll \/ LoopNonempty \/ LoopDequeue \/ LoopSubmit

Tracker == TrackerPop \/ \E t \in Tasks : TrackerFire(t)

RetryStep(h) == RetryCheck(h) \/ RetryRead(h) \/ RetryWrite(h) \/ RetryDelay(h)

Worker(w) ==
    \/ WorkerGet(w) \/ WorkerBegin(w) \/ WorkerStart(w)
    \/ WorkerReturn(w) \/ WorkerComplete(w) \/ WorkerReport(w)
    \/ WorkerRaise(w) \/ WorkerExcept(w) \/ WorkerQuit(w)
    \/ WorkerFinally(w) \/ WorkerExit(w)
    \/ RetryStep(w)

Supervisor == SupervisorDies \/ \E w, v \in Workers : Respawn(w, v)

MonitorStep ==
    \/ MonitorScan \/ MonitorClear \/ MonitorFail \/ MonitorRest
    \/ \E w \in Workers : MonitorInspect(w)
    \/ RetryStep(Monitor)

StopScheduler == StopTracker \/ StopMonitor \/ StopLoop

StopWorkerPool == StopPool \/ StopWorkers \/ \E w \in Workers : TellWorker(w)

StopStep == StopCall \/ StopAgain \/ StopScheduler \/ StopWorkerPool

Next == \/ Client
        \/ Loop
        \/ Tracker
        \/ \E w \in Workers : Worker(w)
        \/ Supervisor
        \/ MonitorStep
        \/ StopStep

Spec == Init /\ [][Next]_vars

\* Every thread of the engine keeps running, executors return, and a delay
\* expires; clients submit and stop as they please.
Fairness ==
    /\ WF_vars(Loop) /\ WF_vars(Tracker) /\ WF_vars(MonitorStep)
    /\ WF_vars(Supervisor)
    /\ \A w \in Workers : WF_vars(Worker(w))
    /\ WF_vars(StopScheduler) /\ WF_vars(StopWorkerPool)

FairSpec == Spec /\ Fairness

----------------------------------------------------------------------------
(* Properties.                                                             *)

Plain == Tasks \ Timed

\* The six places a task can be in between submission and its outcome.
Working(w, t) == hand[w] = t /\ pc[w] \notin {"finally", "dead"}

Places == {"queue", "loop", "pool", "delay", "due", "worker"}

InSeq(s, t) == \E i \in 1..Len(s) : s[i] = t

At(p, t) ==
    \/ p = "queue"  /\ t \in storage
    \/ p = "loop"   /\ shand = t
    \/ p = "pool"   /\ InSeq(poolq, t)
    \/ p = "delay"  /\ delayed[t] > 0
    \/ p = "due"    /\ t \in due
    \/ p = "worker" /\ \E w \in Workers : Working(w, t)

Once(s, t) == \A i, j \in 1..Len(s) : s[i] = t /\ s[j] = t => i = j

\* A task without a timeout policy is in at most one place at a time, and in
\* it once: no queue holds it twice, no two workers run it, and it is never
\* queued or delayed while it runs.
SinglePlace ==
    \A t \in Plain :
      /\ \A p, q \in Places : At(p, t) /\ At(q, t) => p = q
      /\ \A v, w \in Workers : Working(v, t) /\ Working(w, t) => v = w
      /\ Once(order, t) /\ Once(poolq, t) /\ delayed[t] <= 1

\* A task without a timeout policy is started at most once more than its retry
\* policy allows retries, and once for every retry it was granted.
RetryBudget ==
    \A t \in Plain :
      /\ retry[t] <= MaxRetries[t]
      /\ attempts[t] = IF status[t] \in {"NEW", "PENDING"} THEN retry[t] ELSE retry[t] + 1

\* A task the engine accepted is not forgotten: until it has an outcome it is
\* somewhere, and it ends FAILED only with its retries used up or on an
\* exception its policy does not retry.
NoneForgotten ==
    \A t \in Plain : fate[t] = "live" =>
      /\ status[t] \in {"PENDING", "RUNNING"} => \E p \in Places : At(p, t)
      /\ status[t] = "FAILED" => \/ At("worker", t)
                                 \/ retry[t] = MaxRetries[t]
                                 \/ t \in Filtered

\* With no bound on the queue and an event store that works, no exception that
\* the engine swallows takes a task with it, not even during a shutdown, but for
\* one: if a second Runtime.stop overtakes the first, the pool may refuse the
\* task that the loop holds by then, and no other.
NothingDropped ==
    \A t \in Tasks : fate[t] = "dropped" =>
        /\ overtaken /\ spc = "poll"
        /\ \A u \in Tasks : fate[u] = "dropped" => u = t

\* What makes SinglePlace and RetryBudget inductive.  Control: which threads
\* hold a task, and that the monitor only ever holds timed ones.
Control ==
    /\ spc = "submit" <=> shand # NoTask
    /\ \A w \in Workers : /\ pc[w] \in WorkerPCs \cup RetryPCs
                          /\ pc[w] \in {"new", "get"} => hand[w] = NoTask
                          /\ pc[w] \notin {"new", "get", "dead"} => hand[w] \in Tasks
    /\ pc[Monitor] \in MonitorPCs \cup RetryPCs
    /\ hand[Monitor] \in Timed \cup {NoTask}
    /\ pc[Monitor] \in {"clear", "fail"} \cup RetryPCs => hand[Monitor] \in Timed

Busy(t) == \E w \in Workers : Working(w, t)

Bit(b) == IF b THEN 1 ELSE 0

\* In how many places t is.
Tally(t) == Bit(t \in storage) + Bit(shand = t) + Bit(InSeq(poolq, t))
            + delayed[t] + Bit(t \in due) + Bit(Busy(t))

\* The status a task has while its worker is at the given step.
StatusAt(label) ==
    CASE label \in {"begin", "start", "delay"}  -> {"PENDING"}
      [] label \in {"exec", "complete"}         -> {"RUNNING"}
      [] label = "report"                       -> {"COMPLETED"}
      [] label = "except"                       -> {"RUNNING", "COMPLETED"}
      [] OTHER                                  -> {"FAILED"}

PlainInv(t) ==
    /\ Tally(t) <= 1
    /\ \A v, w \in Workers : Working(v, t) /\ Working(w, t) => v = w
    /\ Once(order, t) /\ Once(poolq, t)
    /\ InSeq(order, t) <=> t \in storage
    /\ Tally(t) = 1 /\ ~Busy(t) => status[t] = "PENDING"
    /\ status[t] = "NEW" => Tally(t) = 0
    /\ \A w \in Workers : Working(w, t) =>
          /\ status[t] \in StatusAt(pc[w])
          /\ pc[w] \in {"read", "write"} => retry[t] < MaxRetries[t]
          /\ pc[w] = "write" => count[w] = retry[t]
    /\ retry[t] <= MaxRetries[t]
    /\ attempts[t] = IF status[t] \in {"NEW", "PENDING"} THEN retry[t] ELSE retry[t] + 1

\* The inductive invariant.
IInv == TypeOK /\ Control /\ \A t \in Plain : PlainInv(t)

Lifecycle == INSTANCE TaskLifecycle
    WITH Tasks <- Plain,
         MaxRetries <- [t \in Plain |-> MaxRetries[t]],
         status <- [t \in Plain |-> status[t]],
         retry <- [t \in Plain |-> retry[t]]

\* Tasks without a timeout policy live the life TaskLifecycle describes.
KeepsLifecycle == Lifecycle!Spec

Funs == INSTANCE Functions

\* The pool's counters tell the truth while no task times out and the event
\* store works: completed counts the COMPLETED tasks (once reported), failed
\* the attempts that neither completed nor still run.
MetricsAgree ==
    LET with(st) == Cardinality({t \in Tasks : status[t] = st})
    IN  /\ completed + Cardinality({w \in Workers : pc[w] = "report"}) = with("COMPLETED")
        /\ failed + with("COMPLETED") + with("RUNNING") = Funs!SumFunctionOnSet(attempts, Tasks)

\* IntelligentScheduler.stop goes on, and WorkerPool.stop returns, only after the
\* threads that each of them stops let go of their tasks, in whatever order
\* overlapping calls get there; no task is left RUNNING but those whose worker
\* thread died under them.
GracefulStop ==
    /\ mpc \in {"joined", "raised"} => shand = NoTask /\ due = {} /\ hand[Monitor] = NoTask
    /\ ppc = "down" =>
          /\ \A w \in pool : pc[w] = "dead"
          /\ \A t \in Tasks : status[t] = "RUNNING" => fate[t] = "crashed"

Done(t) == \/ status[t] = "COMPLETED"
           \/ status[t] = "FAILED" /\ retry[t] >= MaxRetries[t]

\* Every task without a timeout policy that is submitted gets an outcome, unless
\* the engine is stopped first; tasks that time out do not starve it.
EventuallyDone ==
    \A t \in Plain : status[t] = "PENDING" ~> Done(t) \/ mpc # "up"

\* Runtime.stop returns to all its callers: no join waits for a thread that never
\* ends, even if one call tells the workers to stop while another still joins
\* the loop.
StopReturns == mpc = "tracker" ~> mpc = "joined" /\ ppc = "down"
=============================================================================
