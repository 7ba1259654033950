# Formal models of Mollis Runtime

TLA+ specifications of the task engine, the workflow engine, the store and the
recovery path, the executors and the telemetry of Mollis Runtime
(`src/app/runtime/`), checked with TLC on small instances; the safety properties are
also proved with TLAPS, for every instance. `PROJECT.json` lists the components, the runs,
the source lines each definition stands for, the hazards that motivate the properties,
the findings and the theorems.

To repeat a run: `tlc -config <file>.cfg <module>`; to check the proofs about a
module: `tlapm <module>Proofs.tla`.

## 1. The system

Mollis Runtime executes tasks in a pool of worker threads.

| Part | State | Operations | Talks to |
|---|---|---|---|
| Task queue (`scheduling/queue/`) | index `_storage`, a policy's deque or lazily deleted heap, three counters | `enqueue`, `dequeue`, `peek`, `cancel`, each under one lock | event store (append inside the lock) |
| Scheduler loop (`scheduling/scheduler/`) | `_started`, stop event, the task in hand | `schedule`, `_run_loop`, failure and timeout callbacks, `start`, `stop` | queue, pool, tracker, monitor |
| Worker pool (`scheduling/worker/`) | worker table, pool queue, counters; per worker a state, the current task, its start time | `submit`, `Worker._run`, supervisor loop, `stop` | executors, failure callback, event store |
| Delayed task tracker (`scheduling/delayed/`) | a heap of (time, task) | `add_delayed_task`, `_run_loop` | calls back into the scheduler |
| Timeout manager (`scheduling/timeout/`) | none of its own: reads and writes the workers' fields | `_run_loop` | workers, scheduler callback |
| Retry engine (`scheduling/retry/`) | `metadata["retry_count"]`, `task.status` | `should_retry`, `prepare_retry` | called by worker and monitor threads |
| Runtime (`runtime.py`) | registry | `submit_task`, `start`, `stop`, `execute_task` | scheduler, pool |
| Workflow builder, planner | nodes, edges; levels, phases, path | `add_node`, `connect`, `build`, `plan` | |
| Workflow orchestrator | rows of `workflow_instances` | start, pause, resume, cancel, recover, `on_runtime_event` | scheduler, store, event log |
| Event store, runtime state, recovery (`persistence/`) | the `events` table, one saved runtime state | `append`, `stream`, `stream_from`, `save_runtime_state`, `recover` | appended to by every thread |
| State store (`persistence/adapters/sqlite/`, `persistence/snapshots/`) | one SQLite connection and one lock; tables of tasks, workers, queue, scheduler, snapshots, events | `transaction`, `save_`/`load_runtime_state`, snapshots, repositories, event log | every thread, through the lock |
| Observability (`observability/`) | bus subscribers, active spans, a trace context per thread, counters, health flags | `publish`, `EventStoreBusProxy.append`, `start_span`, `end_span`, `increment`, `on_event` | called on the thread that appends |
| Executors and middleware (`executors/`) | none between requests; threads and processes during one | `MiddlewarePipeline.execute`, `LegacyExecutorAdapter.execute`, five executors, `run_in_env` | called by workers; user code |
| Executor registry, admission, settings | | | lookups, verdicts, formatting |

What is hard about it:

* **Shared tasks.** A `Task` is an ordinary object whose `status` and
  `retry_count` are written by the client, a worker, the timeout monitor and the
  retry engine, and no lock covers it. The worker's lock protects the worker's
  fields, and the monitor does not take it when it fails a task.
* **Hand-overs.** A task travels through six containers and threads (queue, loop,
  pool queue, worker, delay heap, tracker). Each hand-over is a chance to lose it
  or have it twice, in particular a retry, which puts the task back before its
  worker has let go of it.
* **Failures half-way.** `event_store.append` may raise at a dozen places, each
  after the state was changed; who catches the exception differs from place to
  place.
* **Shutdown.** `stop` joins four kinds of threads in an order that matters, and it
  lets go of its locks before it joins: a second `stop` or a `start` meanwhile finds
  flags that no longer describe the threads, skips the joins the first is still at and
  goes on to the pool.
* **One connection.** All threads share one SQLite connection, whose open
  transaction is global: a commit writes whatever any thread left in it.
* **Telemetry on borrowed threads.** Spans are opened, registered and closed on
  whichever thread publishes the event, with thread-local nesting; a timeout closes
  on the monitor's thread what a worker opened.
* **Lag.** Every thread changes its own state first and appends the event about
  it afterwards. Recovery sees only the log.
* **Workflow events** may come late, twice, out of order or while the workflow is
  paused; a call may raise between two checkpoints; a process may crash.
* **Threads left behind.** A timed-out execution is not stopped, only no longer
  waited for; retries run beside it.

The properties that make each part correct: for the queue, that the index and the
policy's order agree and each answer is the one its contract names; for the
engine, that a task is in one place, is retried as often as its policy says, gets
an outcome and is not forgotten; for the orchestrator, that dependencies come
first, nothing runs twice, what is over stays over, and what was started ends; for
the planner, that it accepts exactly the acyclic graphs and computes longest
distances; for recovery, that replay returns what the engine held, whatever becomes of
an event about another task; for an execution,
that the caller is answered, by the latest attempt, and that what is left running
was reported as timed out; for the store, that a call takes effect as a whole or not
at all; for start and stop, that they return and leave one engine or none; for
telemetry, that counters and spans tell what happened.

## 2. Modules

| Module | Models | Its part |
|---|---|---|
| `AbstractQueue` | `BaseTaskQueue` | the contract: items with an attribute, a policy says which is served |
| `TaskQueue` | `InMemoryTaskQueue`, the three policies | implements `AbstractQueue` (property `KeepsContract`) |
| `TaskLifecycle` | `Task` | the status automaton of a task with bounded retries |
| `Scheduler` | scheduler, pool, workers, supervisor, tracker, monitor, retry engine, `Runtime.submit_task` and `stop` | implements `TaskLifecycle` (property `KeepsLifecycle`) |
| `Workflow` | `WorkflowOrchestrator` | on an engine reduced to queued and running tasks |
| `ExecutionGraph` | the graph of `WorkflowBuilder`, the levels and the path of `WorkflowPlanner` | the variables of `Planner` that its properties are about, and these |
| `Planner` | `WorkflowBuilder`, `WorkflowPlanner` | both runs of Kahn's algorithm and the critical path, on `ExecutionGraph` |
| `Recovery` | event store, saved runtime state, `RecoveryManager` | on an engine reduced to the order of its appends |
| `Execution` | `executors/`: pipeline, middlewares, adapter, executors, local environment | one request as a tree of calls across threads |
| `AbstractStore` | `domain/ports.py` | the contract: every call takes effect at once and as a whole |
| `StateStore` | `SQLiteStateStore`, `SQLiteTransaction`, `SQLiteEventStore`, repositories, `SnapshotManager` | implements `AbstractStore` (property `KeepsPorts`) |
| `Telemetry` | event bus, proxy, subscribers, tracer, counters | on an engine reduced to the order of its events |
| `Lifecycle` | `Runtime.start`/`stop` and those of scheduler, tracker, monitor and pool; `HealthMonitor`'s flags | on loops that only end |
| `TaskQueueProofs`, `SchedulerProofs`, `WorkflowProofs`, `StateStoreProofs`, `TelemetryProofs`, `LifecycleProofs`, `ExecutionProofs`, `RecoveryProofs` | | the theorems about the module each is named after; those about `Planner` are in `WorkflowProofs` |
| `MC...` | | symmetry sets and constant functions for TLC |

### TaskQueue

A call is one action, because each runs under the queue's lock. `storage` is the
index; `order` is the policy's deque or heap as a set of entries `[key, n, id]`,
of which the least is popped; `removed` is the set of lazily deleted ids. `SortKey`
is the conversion of a priority or a deadline into a heap key: a priority is
negated (and raises `TypeError` if it is no number), a missing or unreadable
deadline is infinite. The policy is chosen in `Init`, and so is the
environment: callers that enqueue ids the policy has no entry of (`fresh`, what
`submit_task` does, its ids are new UUIDs) or anything (`any`), where also the append at the end of a call may raise after the
change was made.

### Scheduler

An action is what one thread does between two points where another can interfere:
a block under a lock, or one access to a task's fields. `pc[w]` follows a worker
through `Worker._run`; the retry engine's read, comparison and write of
`retry_count` are separate steps (`RetryCheck`, `RetryRead`, `RetryWrite`,
`RetryDelay`), which worker threads and the monitor share.

`Runtime.stop` is two calls, each of which tests and clears its `_started` flag under
its lock and then goes on without it: `mpc` follows `IntelligentScheduler.stop` through
its joins of tracker, monitor and loop, `ppc` `WorkerPool.stop` through telling and
joining the workers. Any number of threads may be in `Runtime.stop` at once. Whoever
comes second finds the scheduler's flag cleared, returns from it at once
(`intelligent_scheduler.py:84`) and may be the one that stops the pool (`StopAgain`),
while the first still joins the loop: `overtaken` remembers that. A third finds both
flags cleared and changes nothing.

There is no clock: a delay may expire at any
moment, and a running task with a timeout policy may be found overdue whenever the
monitor passes. `fate` and `attempts` are history variables. An execution may
return, raise an exception, raise `SystemExit` (tasks in `Quitting`) or go on for
as long as it likes. The queue is the FIFO queue, inlined.

Most properties are about `Plain` tasks, those without a timeout policy. The reason
is in the code: the monitor fails and reschedules a task while its worker still
executes it, so a timed task can be in two places and can exceed its retry budget
(section 6). What is checked, and proved, is that this does not spill over to
tasks that have no timeout.

### Workflow

Between two calls the orchestrator keeps nothing in memory: a call takes the lock,
loads the row, changes its copy, writes a checkpoint, hands eligible nodes to the
scheduler one by one and writes a second checkpoint. `op` is that call; the engine
and a crash can come between any two of its steps. The events the engine appends
itself carry no `node_id`, and nothing under `src/` calls `on_runtime_event`: the
application makes the events that name a node, as the tests do. The model lets it
log each outcome and deliver it late, repeatedly and in any order. The engine's own
events are in the same table and take up room on the page of events that recovery
reads: `EngineLogs` appends one of them, `place` is an event's position among all that
are stored, `since` that of the start of the workflow, and `Replayed` are the events
among the first `StreamLimit` places after it. `mishaps`
remembers what happened to an instance that the code does not make up for, so that
the properties can say under which circumstances they hold.

### Planner

The builder's calls produce every graph within the bounds, dangling, repeated and
cyclic edges included. The list of edges is a bag (`arcs`), because only how often an
edge occurs matters: `in_degree` counts repetitions. The worklists are sets, so every
order of processing is covered; the properties are stated over walks, without reference
to the algorithm.

### Recovery

`owed[th]` is the list of events a thread still has to append after it changed its
state; a thread goes on only when the list is empty, and the queue's lock is held
while a queue event is owed. `Apply` is the body of `recover`'s loop. Since
`recover` is a loop over the log, the model keeps its result (`genesis`) and applies
each event to it when the event is appended; `latest` is the same for recovery from
the saved state, which replays the page `stream_from` returns. Time is relative: an
event's stamp is the present or earlier, and `recent` are the events that share the
present stamp, which a checkpoint contains and a later recovery replays again. A
crash needs no action: the invariants say what a restart would get in each state.
An append may fail (`EmitFails`): `EventStoreBusProxy` swallows what the store raises,
the event is missing from the log and the thread goes on as if it were there. `lost`
remembers the tasks it was about; what the invariants say of the log is said of the
others. Checkpoints are taken while no thread is about to append; section 6 says why.

### Execution

A request passes through a sequence of layers, the last of which is an executor
that runs user code. Each call of a layer is a frame, named by the path of call
numbers that leads to it, so that the attempts of `RetryMiddleware` are siblings. A
layer with a time limit may answer TIMED_OUT while its callee is open; the callee's
frames go on, as the daemon thread does. A process is killed instead (`ShellExpire`),
and then waited for once more, without a limit (`ShellDrained`, `local.py:117`): that
ends when nobody holds the process's pipes any more, which a descendant of it can put
off for ever (`orphaned`, until `DescendantsEnd`). User code
returns, raises, raises `TimeoutError` or `SystemExit`, or never ends; an HTTP error's
body may turn out to be no text, an exception that no handler catches
(`http_executor.py:84`). Time limits
matter by their sign, because `TimeoutMiddleware` and the environment test them
differently. Each executor's conversion of an outcome into a result is an operator
(`PythonResult` etc.). Nothing under `src/app` builds a pipeline: the layerings are
the one of the tests, its opposite, and the adapter the workers use.

### StateStore

The database is two copies of the tables: `committed`, what the file holds, and
`working`, what the connection sees. A call is a script of statements, each an action
of its own, between `Acquire` and `Return`; the table rows and snapshots are not
spelled out but named by the runtime state they come from, which is enough to see
whether two halves belong together. Three modes tell the code's three ways to use
the connection apart: `transaction()` (BEGIN, commit or rollback, release), the
event store's `with self._conn` (an implicit transaction) and plain SELECTs under the
lock. `StatementRaises` and `CommitRaises` are the error paths: the latter either
rolls back or, as `SQLiteTransaction.__exit__` does when `commit` raises and SQLite
keeps the transaction, releases the lock with it open. `stranded` remembers that; the
transaction then ends with whatever the next event append does. `Crash` drops
`working`. The refinement mapping reads `AbstractStore`'s variables off `committed`.

### Telemetry

An append is a call of every subscriber, on the appending thread, in either order
(`_subscribers` is a set). `held` splits the steps of `ObservabilitySubscriber` that
no lock joins: `start_span` and the write of `_active_spans`, and the pop and
`end_span`. A span's `ender` is a history field. Of the engine there are the callers that
submit and cancel, the workers and the monitor; a worker whose task lets `SystemExit`
through ends without an event (`WorkerQuit`). The bus swallows what a subscriber
raises, so with the proxy installed the engine never sees a failing store.

### Lifecycle

`pc` follows each client through `Runtime.start` and `stop`, one action per locked
block, join or append. `latest` is what a service's `_thread` refers to, `live` which of
its threads run; `stop` reads `_thread` after it released the lock (`ReadThread`) and
joins that. The tracker's and the monitor's own locks are held for one action only
and not modelled; the scheduler's is held across their starts and is. `mixed`
remembers that a start and a stop overlapped, `raised` that an append raised. With
the observability proxy no append raises, and `HealthAgrees` is about that case.

## 3. Runs

All runs that pass are exhaustive for their constants. `CHECK_DEADLOCK FALSE`
everywhere: a queue whose call counters are at their bound, an engine without work
or after a stop, a workflow that is over, a finished plan, clients that have made
all their calls and an empty log of debts are all legitimate ends. The modules'
`TypeOK`s document the variables; the `Typing` theorems of section 4 prove them, and the
runs check `Scheduler`'s as part of `IInv`.

| Run | Configuration | Shows |
|---|---|---|
| `queue_contract` | 3 policies, 3 ids, capacity 2, 3 calls of each kind; fresh ids, or any use and a failing store | fresh ids: index, order and counters agree, every answer is one of the contract's; always: no accepted task is unreachable |
| `engine_core` | 2 workers, 2 tasks (backoff, no backoff), cancel, `SystemExit`, overlapping stops | not dropped but for one, right counters, graceful stop, `TaskLifecycle` |
| `engine_faults` | 3 tasks (one timed, one inadmissible), a worker and its replacement, capacity 1, failing store, overlapping stops | the inductive invariant and its consequences in the worst environment |
| `engine_live` | 1 worker, 2 tasks (one timed), overlapping stops | every plain task gets an outcome; `stop` returns |
| `workflow_run` | a join, a fork and a chain of 3 nodes, FAIL and IGNORE, 1 extra call or event, 1 fault, a page of 2 events | dependencies, no rerun but beyond the page, over is over, nothing stalls, finishes |
| `workflow_recover` | violation | the finding of section 5 |
| `planner_graphs` | all graphs of up to 4 nodes and 5 edges | cycles (and nothing else) refused, levels, phases, critical path; the second finding of section 5 |
| `recovery_replay` | a submitted task, an event about which may be lost, a delayed one that is retried, cancel, 1 checkpoint, a page of 6 events | queue, statuses and waits survive, but for the task whose event was lost; a checkpoint changes nothing until a page of events is full |
| `execution_request` | 5 executors, adapter and two pipelines, 4 kinds of time limit, up to 2 retries | the latest attempt answers, retries are due and bounded, leftovers were timed out, callers with a limit are answered unless they wait for a killed process's descendants |
| `store_ports` | 2 threads, 3 calls of any kind, 3 states (one json rejects), overlapping batches, 2 faults | calls are isolated, atomic as the ports say, and return |
| `telemetry_spans` | 2 workers, the monitor and a caller, a node's task that times out, is retried and is cancelled, one that is submitted and may exit, 1 lost append | all counters match the log, nesting and closing of spans |
| `lifecycle_calls` | 2 clients, 4 calls of start or stop, 1 raising append | one engine or none, health agrees, calls return |

Bounds, and why they are enough:

* *Engine.* Two tasks and two workers are what the hazards need: two threads on one
  task, or a monitor that has read a worker's old task while it starts the next.
  One retry per task reaches both outcomes of the budget's comparison. In
  `engine_faults` the second worker object is the replacement of the first, and the
  third task is there to be refused. Calls of `stop` are not bounded: two that overlap
  reach every combination of the two flags. The proofs lift the safety properties to
  any number.
* *Queue.* Three ids and three calls per counter reach a lazily deleted entry below
  the top, a full queue and a reused place. `MaxCalls` bounds the counters.
* *Workflow.* `MaxCalls` bounds operator calls, repeated deliveries, events without
  effect and events of the engine's own together, `MaxFaults` raising calls and crashes
  together. A join, a fork and a chain have each relation between two nodes.
  `StreamLimit` is 2 in place of 100, less than a workflow has events, so that a
  recovery may or may not see a node's outcome.
* *Planner.* Four nodes and five edges contain the diamond with a chord, parallel
  edges, self-loops and cycles of each length.
* *Recovery.* `MaxTies` bounds the events that share a timestamp (2), `MaxSaves`
  the checkpoints (1), `Losable` the tasks an event about which may be lost, one event
  each: the other task is the bystander. `StreamLimit` is 6 in place of 100: behaviours
  that fill the page and behaviours that do not are both in the run.
* *Execution.* One retry gives two attempts side by side; a second one, which the
  order of the events needs, is given to the executors without threads of their own.
* *Store.* Three calls are what the worst case needs: one whose commit raises, one
  that meets the open transaction, one that commits it. Two faults are a failure
  and a crash, or two failures. The rows are one task and one worker, and the states
  differ in which they have, so that a half-written state shows.
* *Telemetry.* One retry gives two attempts of a task, with a timeout at the same time
  on two workers; the other task is the bystander. One caller makes one call at a time;
  a cancellation can overlap every step of the threads. One append fails, of an event
  about the bystander (`Losable`).
* *Lifecycle.* Four calls reach start, stop that raises, start again, stop again, and
  each overlap of two calls with a history before and after it.

Symmetry: workers and node ids are permuted where no constant or property tells
them apart, and only in runs without liveness properties.

Fairness: weak fairness of each thread of the engine (a Python thread that can run
is scheduled eventually, loops poll with timeouts, delays are finite) and of the
thread in `stop` once it is called; clients need not submit or stop. Weak fairness
of a worker includes that executors return, which the code does not enforce: it is
the assumption under which liveness makes sense. In `Workflow` calls end, executions
end, and the application delivers each event at least once. In `Execution` the
threads run and time passes, but functions, processes, their descendants and network
requests need not end. In `StateStore` a thread that can go on does; the lock is not fair, but the
calls are finitely many. In `Lifecycle` clients in a call, loops that were told to stop,
supervisors of a stopped pool and workers told to stop go on.

## 4. Proofs

Each `...Proofs` module extends the model it is about and is checked by itself. The
theorems hold for every value of the constants that satisfies the model's
`ConstantsAssumption` (`RequestsAssumption` in `Execution`), which only gives the
constants their shapes: any number of tasks, workers, threads, nodes, calls, any graph,
any limits. A hypothesis of a theorem is named below with the line of the code that
makes it necessary. Every model's `TypeOK` is proved too (`Typing`, and
`PlannerTyping`).

### SchedulerProofs

| Theorem | States | Under |
|---|---|---|
| `Invariance` | `IInv` | |
| `Exclusive` | `SinglePlace`: a plain task is in at most one of the six places, once, and never executed by two workers | |
| `Budget` | `RetryBudget`: it is never retried more often than `max_retries` and was started once more than it was retried | |
| `Tracking` | `NoneForgotten`: it is in one of the places until it has an outcome | |
| `Swallows` | `NothingDropped` | `Capacity <= 0`, `~StoreFails` |
| `LetGo` | `IntelligentScheduler.stop` goes on only when loop, tracker and monitor hold no task; `WorkerPool.stop` returns only when its workers ended, and a plain task is RUNNING then only if its thread died | |
| `Shutdown` | `GracefulStop` | `Timed = {}` |
| `Refinement` | `KeepsLifecycle` | `~StoreFails` |
| `Counting` | `MetricsAgree`: the pool's counters tell the truth | `Timed = {}`, `~StoreFails`, finitely many tasks and workers |

`SinglePlace` is not inductive: a step of the monitor or of a retry would break it
in states that cannot be reached. `IInv` adds

* `Control`: which threads hold a task at which step, and that the monitor only
  ever holds timed tasks, which is why the unlocked writes of the monitor do not
  touch a plain task;
* `PlainInv(t)`: `Tally(t) <= 1`, where `Tally` *counts* the places (the heap may
  hold a task more than once, so a count is what a step changes by one); the deque
  and the index agree on `t`; `t` is PENDING while it waits; and while a worker is
  at a step, the status is one `StatusAt` allows and the retry count the worker has
  read is still current.

The last clause carries the budget: `retry_count` is compared, read and written in
three unlocked steps, which is harmless exactly because no other thread holds the
task meanwhile, and that is `Tally`. So neither theorem holds without the other.
The proof has one lemma per thread (`ClientStep`, `LoopStep`, `TrackerStep`,
`WorkerStep`, `MonitorStepKeeps`, `SupervisorStep`); `Unaffected`, `OneThread` and
`NotMine` dispose of the tasks a step does not touch, and three lemmas on sequences
(`AppendFacts`, `TailFacts`, `WithoutFirstFacts`) say how the two queues change.

`Quiet` is the invariant of the shutdown: what a stop has joined holds no task and
does not start again, and the pool is stopped after the loop was joined unless one stop
overtook another. In that case `NothingDropped` counts: the loop can be refused one
task, the one it holds, because it polls `_started` before it takes the next. `AllTraced` is that of `NoneForgotten`: for each plain task the
outcome that `fate` records, its status, and where it is agree at every step of
every thread.

`Counting` relates three counts and a sum: the COMPLETED and the RUNNING tasks, the
workers about to report, the attempts of all tasks. `CountersMove` says what a step that
changes one task and one worker does to each of them, and `WorkerCounters` that every
step of a worker moves the counters by as much; no other thread disturbs them, since
without timeouts the monitor holds no task. That the sum over all tasks grows by what
one of them grows by (`SumAdds`) is proved from the definition of the community module's
fold: `SumsSmall` shows, by a least counterexample, that the recursive function its
CHOOSE asks for exists.

The hypotheses: a full queue and an append that raises are the ways the loop and the
tracker lose a task in an exception they swallow, so `NothingDropped` needs neither to
happen. A timed task may be queued again under the worker that still runs it, so its
status at the end says nothing of either copy (`GracefulStop`). A worker whose
`TaskCompleted` append raises fails the task it had COMPLETED, no step of
`TaskLifecycle`, and its counters then no longer follow the statuses, nor do they when
the monitor fails a task that its worker still runs (`Counting`).
With capacities, failing stores and timed tasks what still holds of these properties is
model-checked in the configurations of section 3.

### TaskQueueProofs

`IndexAndOrder` (`IndexMatchesOrder`), `NothingHidden` (`Reachable`) and `Refinement`
(`KeepsContract`), for each policy. `IInv` adds to the two invariants `Numbered` (the
sequence numbers are distinct and below the counter, which makes the policy's order
total) and `Accepted` (with fresh ids nothing with an unreadable priority is stored).
Lazy deletion is the difficulty: `dequeue` drops the removed entries below the first
live one, and the answer is the contract's best because an entry for a stored id is
the only one with its id. `IndexMatchesOrder` and `KeepsContract` speak of callers with
fresh ids by themselves (section 6), `Reachable` of all.

### StateStoreProofs

`Invariance`, `Isolation` (`Isolated`) and `Refinement` (`KeepsPorts`). `IInv` says that
the lock belongs to the one thread inside a call (`Locked`), that what a thread has left
to execute is the rest of its call's statements (`Scripted`), and that `working` is
`committed` after exactly the statements executed so far (`Tidy`, with `Partly`), so
that at the commit it is `committed` after the whole call, which is the step of
`AbstractStore`. A stranded transaction is the exception each of them names.

### WorkflowProofs

| Theorem | States | Under |
|---|---|---|
| `Finality` | `OverIsOver` | |
| `Success` | `SuccessIsEarned` | |
| `Dependencies` | `DependenciesFirst` | `Apart`: one instance, or none was recovered |
| `Copies` | `OneCopy` | |
| `Reruns` | `NoRerun` | |
| `Progress` | `NothingStalls` | `Nodes # {}` |

`Base` relates a call's copy to the row it was loaded from: nobody writes the row while
the orchestrator's lock is held. `Sound` says that the states of the nodes, in the row
and in the copy, rest on events in the log, and `Once` that a node that is still to be
dispatched has no task in the engine and no outcome in the log. `Lively` is the
invariant of `NothingStalls`: during a call and between two, every RUNNING node is
awaited (it has a task in the engine or an event under way), a PENDING node that no
call is about to dispatch has a parent that is not done, and the workflow has a node to
go. That replay ends at the last event of a node takes a greatest element of a set of
log positions (`Greatest`), from the library's well-founded relations. The hypotheses
come from the code: replay compares node ids only (`orchestrator.py:317`), so the
events of another instance can clear a dependency; and a
workflow without nodes stays RUNNING, because completion is tested when an event comes
(`orchestrator.py:211`).

The second part is about the planner, the other half of the workflow engine. The module
extends `ExecutionGraph`, so that graph, levels and path are its own variables, and takes
the steps from `Pl == INSTANCE Planner`.

| Theorem | States | Under |
|---|---|---|
| `PlannerTyping` | `Planner`'s `TypeOK` | finitely many `Ids` |
| `CyclesRejected` | `RejectsCycles` | the same |
| `LevelsMeasured` | `LevelsAreDistances` | the same |
| `CriticalPathFound` | `CriticalPathIsLongest` | the same |

A graph has finitely many nodes, so the hypothesis is no restriction; there may be any
number of edges. `PlannerInv` describes both runs of Kahn's algorithm half-way, with `P`
the nodes already popped: `KahnInv(P)` says that `inDegree` counts the edges from outside
`P` and that the queue holds exactly the nodes outside `P` without such an edge. When the
queue is empty the nodes left all have a parent among themselves, a cycle (`KahnEnd`); if
none is left, `ParentsFirst` says that every parent was visited before its children, and
a set of nodes that each have a parent in it has no first one (`VisitedAcyclic`).
`LevelInv(P)` says that an edge out of `P` leads at least one level up and that a level
above 0 is one more than that of a parent in `P`. At the end the first half bounds every
walk by the level of its last node (`WalkClimbs`) and the second half builds a walk of
that length (`RisingExists`), so the level is the longest distance; `Traced` says that
the path being traced climbs one level per step to a node of the last phase. `inDegree`
is a sum over all nodes, unfolded as in `SchedulerProofs` (`IntoRemove`, `IntoZero`).

### TelemetryProofs

`Counting` (`CountersMatchLog`), `Traces` (`OwnTrace`) and `Closing` (`SpansClosed`).
`CountInv` extends the count to states in which appends are under way: each counter is
short by the threads that still have to tell the metrics subscriber, and what is in the
log by those that still have to tell the store (`Due`, whose cardinality a step changes
by one). For spans, `Nesting` says which spans a thread's context can lead to, `Calm`
describes a task without timeout and retry at every step of the worker that runs it,
and `Trail` and `Rooted` say that all open spans in a thread's context but the current
one belong to disturbed tasks. `Calm` is where the shared `_active_spans` matters:
another thread may pop only what belongs to a task it holds, or cancels, which takes a
task out of the queue. The task of a worker that exited is the one whose span is open
for ever, and `Closing` says so.

### ExecutionProofs

`Latest` (`SuccessIsLatest`), `Discipline` (`RetryDiscipline`) and `Leftovers`
(`LeftoversTimedOut`), without hypotheses, for any stack of layers that ends in its one
executor: any number of middlewares, in any order, nested retries and time limits
included. The invariant is one on trees. `Tree` says that the frames are closed under
callers and made calls, `Calls` that only a retry calls twice. An answer passes one layer
at a time, so success is tied to its source frame by frame: `Chained` says that *every*
frame that succeeded has code below it that did, by the latest calls between them
(`Source`), and a step extends the chain of the last call by one. `Orphaned` says for
*every* open frame what `LeftoversTimedOut` says for code. Both rest on `ClosedKept`:
every step, a late result too, writes open frames only. With one retry layer the log is
in order because that layer has one frame (`OneFrame`: the layers before it call once),
even if that frame runs on after it was given up.

### LifecycleProofs

`Engine` (`OneEngine`) and `Health` (`HealthAgrees`), without hypotheses: their premises
`~mixed` and `~raised` are part of the properties (section 6). No flag says how many
threads run, so `IInv` says it as a function of where the one client is that starts or
stops: `LoopsAt(k)` for the three loops while that client is at label `k`, `PoolAt(k)`
for workers and supervisor, `HeardAt(k)` for what `HealthMonitor` was told. That there is
only one such client follows from the locks on the way up and from the flag, which only
the first stop finds set, on the way down; that it joins the thread it means to from
`target`, read when nobody can start another (`Unmixed`). `FlagInv` keeps a started loop
from ending by itself. `Linked` ties the scheduler to the pool: one runs without the
other only while a client is between the two. `CountInv` gives each thread to one call
and so bounds the thread numbers for `Typing`.

### RecoveryProofs

`Queue` (`QueueSurvives`), `Status` (`StatusSurvives`) and `Delays` (`DelayedSurvives`),
for any number of tasks and workers, any mixture of submitted,
delayed and retried tasks and any interleaving of the appends, in every state before the
first append that failed (`lost = {}`); that a lost event does not spoil what is
recovered of other tasks is model-checked. `Status` uses
`PolicyNotSubmitted` (a task with a retry policy cannot be submitted). The log is behind by the
events that threads still owe, so `IInv` says what is true of a task as long as a thread
owes an event about it (`Owings`: a task whose `TaskQueued` is owed is still queued, one
whose `TaskCompleted` is owed is over, and so on), and what the log says of a task in
each of its places, give or take such an event (`SaidAt`). `Stored` is the invariant of
the queue: log and queue agree while no thread is in a queue call, and differ by the one
event of the call otherwise. The two events that remove from the recovered queue without
the lock, `TaskCompleted` and `TaskFailed`, find nothing there to remove, in whatever
state of another thread's call they are appended. `WaitAt` is about the first wait of a
task: nobody can owe a `DelayedTaskReleased` about it yet.

`Snapshot` (`SnapshotAgrees`) is about recovery from the latest of any number of
checkpoints, under `[][SavesWhole]_vars`: no checkpoint is taken from a recovery that
had itself read a full page (section 6). `SnapshotOnce` has no such hypothesis, but one
checkpoint. A checkpoint holds the events of its own moment and a recovery from it
replays them, so the question is whether replaying them twice is replaying them once.
It is not in general: it takes `LastWord`, that the last event of the present moment that
tells a task's status or moves it in or out of the queue is what the log as a whole
says. An event that is appended late, with an earlier stamp, would break that, were it
about a task with such an event in the present; `Late` excludes it, because no two
threads owe events that matter about the same task (`SoleOwer`). `Aged` says that right
after a checkpoint no thread is about to append an event from before it, so none is
missed. What the fold of `Apply` computes is again unfolded from its definition
(`FoldFacts`), and that only the last event counts shown by a least counterexample
(`Settles`).

### What is only model-checked

* Liveness (`EventuallyDone`, `StopReturns`, `Finishes`, `CallerAnswered`,
  `CallsReturn` and the calls of the store), which needs ENABLED.
* `Recovery`'s properties once an append has failed; the theorems of `RecoveryProofs`
  speak of the states before.
* With more than one checkpoint, `Recovery.SnapshotAgrees` is proved under the hypothesis
  above and false without it; the run has one.

Induction over data is not available in the form of the library's induction theorems,
which take an operator as a parameter. Where a sum, a fold, a walk or an order of visits
needed it, the proofs take a least counterexample (`Least`, from the well-foundedness of
`<` on the naturals).

## 5. Findings

`workflow_recover`: `recover_workflow` dispatches PENDING nodes only, so a node that
was RUNNING when the process died is never scheduled again, against the comment
above the call (`orchestrator.py:160`) and `workflow/domain/ports.py:52`.

`planner_graphs`: `_validate_dag`'s docstring says "Validates graph has no cycles and is
fully connected" (`workflow/builder.py:137`), but the code only looks for cycles: a
graph of several parts is built and planned like any other. `RejectsCycles` states what
the code does, that exactly the cyclic graphs are refused. (Nothing downstream needs a
connected graph: levels, phases and path are right for all.)

## 6. What the properties leave out, and why

These are limits of the code that shaped the properties' premises: each was found as a
counterexample to a property without the premise.

Engine and queue:

* An id that is **cancelled and enqueued again** revives its old heap entry
  (`policy.py:110`): once the task was served, `dequeue` pops the leftover and raises
  `QueueEmptyError` while other tasks are stored, where `base_queue.py:34` says "If the
  queue contains no tasks". Ids from `submit_task` are fresh and not affected; the
  orchestrator's (`<instance>_<node>`) are reused. Hence `env = "fresh"` in
  `IndexMatchesOrder` and `KeepsContract`.
* The worker tests for FAILED and then completes the task under a lock that the
  monitor does not take: a task **timed out in between** ends COMPLETED, against the
  comment at `worker.py:138`.

* A **timed task** may exceed its retry budget and run twice at a time: the monitor
  retries it while its worker still executes it and may retry it as well.
* A task that raises **`SystemExit`** ends its worker thread, which keeps the state
  IDLE; the supervisor replaces FAILED workers only.
* **Overlapping stops**: the second `Runtime.stop` finds the scheduler's flag cleared
  and stops the pool while the first still joins the loop. The pool then refuses the
  task the loop holds, the loop logs the exception (`intelligent_scheduler.py:156`) and
  the task stays PENDING for ever. Hence `overtaken` in `NothingDropped`, which allows
  one such task and no other; with one stop at a time there is none.
* A retry that becomes due while the **queue is full** is dropped
  (`intelligent_scheduler.py:172`), and so is the task of a `dequeue` whose append
  raises. `NothingDropped` is about an unbounded queue and a store that works;
  `engine_faults` has both failures and says that nothing but these tasks is lost.
* `enqueue` writes the index before the policy may **raise** on a malformed
  priority: the task is stored, counts against the capacity and is never served.

Recovery and store:

* An **append that fails** behind `EventStoreBusProxy` leaves a log that differs from
  the engine for good: a lost `TaskDequeued` brings the task back into the recovered
  queue, a lost `TaskSubmitted` makes it unknown. Hence `Intact` in `QueueSurvives`,
  `StatusSurvives` and `DelayedSurvives`; `SnapshotAgrees` holds all the same.
* With an event store, `submit_task` **raises** for a task with a retry or timeout
  policy (neither is serialisable), after it has registered the task. Tasks with
  policies are scheduled directly then, and recovery does not know them.
* A **delayed** task is missing from the recovered state if the tracker's
  `DelayedTaskReleased` of its first wait comes after the `RetryScheduled` of its
  second; the other way round it is recovered as waiting when it is not.
* Recovery from a saved state replays at most **100 events** (`recovery/manager.py:112`
  takes `stream_from`'s default limit), where ADR 009 has it query "all events that
  occurred on or after that snapshot timestamp". Hence the full page in
  `SnapshotAgrees`. If what such a recovery returns is **saved again**, the events it
  did not see are older than the new checkpoint and are never replayed, however few
  events follow. Hence `SavesWhole` in `Snapshot`.
* A checkpoint taken **while threads append** loses events that were created before
  and appended after it, and those appended between the read and the timestamp that
  `recover` puts on its result.
* A **commit that raises** can leave its transaction open (`store.py:46-53`). Until it
  is closed every `transaction()` raises on BEGIN; the next event append closes it, by
  committing what its caller was told had failed or by rolling it back. Hence
  `stranded` in `Isolated` and `KeepsPorts`.
* `_load_instance` and `DiagnosticsService` **read without the lock**, on the same
  connection, and so may see rows of a transaction that is rolled back later.
* Through `EventStoreBusProxy` **`append_batch`** publishes one event after the other and
  swallows failures, where `ports.py:93` says "atomically"; `stream` orders by sequence
  number where `ports.py:103` says "by timestamp". `create_snapshot(compress=True)`
  computes the compressed text and stores the plain one (ADR 010 describes
  compression).
* Timestamps are naive local time; after the clock is **set back** newer events compare
  as older. Recovery's clock only moves forward.

Workflows and executions:

* Recovery of a workflow reads **one page**, too: the first 100 events of any kind
  stored since the workflow started (`orchestrator.py:156`, `event_store.py:96`). A node
  whose outcome lies beyond it, for instance after a hundred events of other tasks, is
  dispatched again although it is done. Hence `place` in `NoRerun`.
* A **killed process is waited for** without a limit (`local.py:117`) as long as one of
  its descendants holds its pipes: a request whose only time limit is the
  environment's may never be answered. Hence `PipeHeld` in `CallerAnswered`.
* An event for a **paused** workflow is dropped. After a call that **raised** in the
  dispatch loop, nodes already handed over are scheduled again. A **recovered**
  workflow forgets that a node failed it. Replay does not look at the instance id.
* A timed **callable that exits** (`SystemExit`) is reported as SUCCEEDED with output
  None (`local.py:149`); `TimeoutMiddleware` reports the same case as FAILED.
  `RetryMiddleware` computes `is_transient` and ignores it: what
  `http_executor.py` calls a permanent failure is retried like any other.
* `RetryMiddleware` appends `TaskRetried` while the task runs; recovery would take it
  for PENDING, with the middleware's count as its retry count.

Start, stop and telemetry:

* A **start that overlaps a stop** clears the stop event that the stop has set and
  replaces the thread that it is about to join: the stop waits for a loop that nobody
  told to end, holding no lock but never returning. Hence `mixed`.
* A stop whose **`WorkerStopped` append raises** leaves the supervisor to find out by
  itself; a start within its half second keeps it, next to a new one. A start whose
  `WorkerStarted` append raises leaves a pool without supervisor that the next start
  takes for complete. Hence `raised` for the pool in `OneEngine`.
* `HealthMonitor` looks for `worker_id` in the event's metadata, where no worker event
  has it: **all workers are one** entry, `"default"`.
* A **timed-out** task counts as failed twice (`TaskTimedOut`, then `TaskFailed`), or once
  and then as completed. Its span is ended by the monitor, whose thread cannot clear the
  worker's context: the worker's next span becomes its child. A **retried** task's first
  span is ended by nobody. Hence `Undisturbed` in `OwnTrace` and `SpansClosed`.
* The span of a task that lets **`SystemExit`** through stays open for ever: neither
  `TaskCompleted` nor `TaskFailed` is published. `SpansClosed` says so.

## 7. Not modelled

What executors run (subprocesses, HTTP, user functions); the executor registry; the
chain of admission plug-ins (its verdict is `Inadmissible`); the workflow SDK;
`Runtime.execute_task`; the durations of delays and timeouts; gauges, histograms,
alerts, timelines, replay, diagnostics and exporters of the observability package,
which read, aggregate and print; settings and logging. In `Recovery`: worker records
and timeouts. In `StateStore`: the workflow tables (the rows of `Workflow`), `close`,
and other processes on the same file.

## 8. Plan

Done, in the order of importance: queue and its contract; engine with its proofs;
orchestrator; builder and planner; recovery; execution of a request; the store and its
contract; start and stop; telemetry.

Next, all of them models: two instances in `Workflow` (replay across instances); the
lazily built entries of the executor registry (`executor_registry.py:82`: one thread
tests `is_lazy` while another replaces the builder by the instance, which is then
called); the SDK's global tracing pointer (`sdk.py:9`); timeouts and worker records in
`Recovery`.
