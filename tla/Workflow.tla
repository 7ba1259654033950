------------------------------ MODULE Workflow ------------------------------
(***************************************************************************)
(* WorkflowOrchestrator (runtime/workflow/orchestrator.py): the event-     *)
(* driven execution of a workflow graph on top of the scheduler.           *)
(*                                                                         *)
(* Between two calls the orchestrator keeps nothing in memory: each call   *)
(* takes the one lock, loads the instance's row, changes the copy, writes  *)
(* it back (checkpoint_workflow) and, while the workflow is RUNNING, hands *)
(* the nodes whose parents are done to the scheduler one by one, before it *)
(* writes the row a second time.  `op' is the call that holds the lock and *)
(* its copy of the instance.  The engine runs beside it and can start and  *)
(* finish a node's task before the call that dispatched it has ended.      *)
(*                                                                         *)
(* The engine (see Scheduler) is reduced to the tasks it has queued and    *)
(* runs.  The events that the engine appends itself do not name the node:  *)
(* of these the model keeps how many there are, for they take up room in   *)
(* the page of events that a recovery reads.  Nothing under src/ calls     *)
(* on_runtime_event: the application makes the events that do name a node, *)
(* as the tests do, logs them and delivers them, possibly late, in any     *)
(* order, and more than once.  A crash loses op, the engine's tasks and    *)
(* the events not delivered; the rows and the event store survive.         *)
(*                                                                         *)
(* A node's own failure_handling is left out: with one, the definition     *)
(* does not serialise and start_workflow raises before it changes anything.*)
(***************************************************************************)
EXTENDS Naturals, Sequences, FiniteSets

CONSTANTS Instances,     \* instance ids
          Nodes,         \* node ids of the workflow's graph
          Graphs,        \* the graphs considered: sets of edges <<parent, child>>
          Handlings,     \* the definitions' failure_handling policies
          NoInstance,    \* no row; nobody holds the lock
          StreamLimit,   \* default limit of EventStore.stream_from
          MaxCalls,      \* bound on the calls of pause and cancel, on recoveries
                         \* without a crash, on repeated deliveries and on events
                         \* that are not the end of a node's task, together
          MaxFaults      \* bound on the calls that raise and the crashes, together

WorkflowStatus == {"RUNNING", "PAUSED", "SUCCEEDED", "FAILED", "CANCELLED"}
NodeState == {"PENDING", "RUNNING", "SUCCEEDED", "FAILED", "SKIPPED", "CANCELLED"}

\* What a row or a copy of it holds: the states of the nodes, the nodes with an
\* output, the policy of the definition, and started_at as a place in the store.
Instance == [status : WorkflowStatus, nodes : [Nodes -> NodeState],
             outs : SUBSET Nodes, handling : Handlings, since : Nat]

ASSUME ConstantsAssumption ==
    /\ \A g \in Graphs : g \subseteq Nodes \X Nodes
    /\ Handlings \subseteq {"FAIL", "IGNORE", "COMPENSATE"}
    /\ NoInstance \notin Instances \cup Instance
    /\ StreamLimit \in Nat /\ MaxCalls \in Nat /\ MaxFaults \in Nat

Tasks == Instances \X Nodes

\* An event that names a node, with its sequence_number in the event store.
Events == [task : Tasks, kind : {"completed", "failed"}, place : Nat \ {0}]

VARIABLES edges,         \* the definition's graph.edges
          row,           \* workflow_instances, by instance id
          op,            \* the call that holds _lock: at, instance, copy
          queued,        \* tasks in the scheduler's queue
          running,       \* running[t]: executions of t
          log,           \* the events in the event store that name a node
          stored,        \* the last sequence_number in the event store
          pending,       \* places in the log of events still to be delivered
          calls, faults,
          sent,          \* sent[t]: how often t was handed to the scheduler
          given,         \* given[t]: the outputs it could see when it last was
          mishaps        \* mishaps[i]: what happened to i that the code does not make up for

engineVars == <<queued, running>>
eventVars  == <<log, stored, pending>>
ghostVars  == <<sent, given>>
vars == <<edges, row, op, engineVars, eventVars, calls, faults, ghostVars, mishaps>>

Free == [at |-> "free", id |-> NoInstance, copy |-> NoInstance]

TypeOK ==
    /\ edges \in Graphs
    /\ row \in [Instances -> Instance \cup {NoInstance}]
    /\ \/ op = Free
       \/ op \in [at : {"save", "dispatch"}, id : Instances, copy : Instance]
    /\ queued \subseteq Tasks
    /\ running \in [Tasks -> Nat]
    /\ log \in Seq(Events) /\ stored \in Nat
    /\ pending \subseteq DOMAIN log
    /\ calls \in 0..MaxCalls /\ faults \in 0..MaxFaults
    /\ sent \in [Tasks -> Nat] /\ given \in [Tasks -> SUBSET Nodes]
    /\ mishaps \in [Instances -> SUBSET {"dropped", "crashed", "recovered", "raised"}]

Init ==
    /\ edges \in Graphs
    /\ row = [i \in Instances |-> NoInstance]
    /\ op = Free
    /\ queued = {} /\ running = [t \in Tasks |-> 0]
    /\ log = <<>> /\ stored = 0 /\ pending = {}
    /\ calls = 0 /\ faults = 0
    /\ sent = [t \in Tasks |-> 0] /\ given = [t \in Tasks |-> {}]
    /\ mishaps = [i \in Instances |-> {}]

Parents(n) == {p \in Nodes : <<p, n>> \in edges}
Over == {"SUCCEEDED", "FAILED", "CANCELLED"}

----------------------------------------------------------------------------
(* The orchestrator's calls, up to their first checkpoint.                 *)

\* `with self._lock' and _load_instance.
Acquire(i) == op = Free /\ row[i] # NoInstance

Hold(i, where, copy) == op' = [at |-> where, id |-> i, copy |-> copy]

Counted == calls < MaxCalls /\ calls' = calls + 1

StartWorkflow(i) ==
    /\ op = Free /\ row[i] = NoInstance
    /\ \E h \in Handlings :
         Hold(i, "save", [status |-> "RUNNING", nodes |-> [n \in Nodes |-> "PENDING"],
                          outs |-> {}, handling |-> h, since |-> stored])
    /\ UNCHANGED <<edges, row, engineVars, eventVars, calls, faults, ghostVars, mishaps>>

PauseWorkflow(i) ==
    /\ Acquire(i) /\ row[i].status = "RUNNING" /\ Counted
    /\ Hold(i, "save", [row[i] EXCEPT !.status = "PAUSED"])
    /\ UNCHANGED <<edges, row, engineVars, eventVars, faults, ghostVars, mishaps>>

ResumeWorkflow(i) ==
    /\ Acquire(i) /\ row[i].status = "PAUSED"
    /\ Hold(i, "save", [row[i] EXCEPT !.status = "RUNNING"])
    /\ UNCHANGED <<edges, row, engineVars, eventVars, calls, faults, ghostVars, mishaps>>

\* Only tasks that are still queued are taken back from the scheduler.
CancelWorkflow(i) ==
    LET active == {n \in Nodes : row[i].nodes[n] \in {"PENDING", "RUNNING"}}
    IN  /\ Acquire(i) /\ row[i].status \in {"RUNNING", "PAUSED"} /\ Counted
        /\ queued' = queued \ ({i} \X active)
        /\ Hold(i, "save", [row[i] EXCEPT
               !.status = "CANCELLED",
               !.nodes = [n \in Nodes |-> IF n \in active THEN "CANCELLED" ELSE @[n]]])
        /\ UNCHANGED <<edges, row, running, eventVars, faults, ghostVars, mishaps>>

\* The state a failed node gets; COMPENSATE is treated like FAIL.
FailedState(inst) == IF inst.handling = "IGNORE" THEN "SKIPPED" ELSE "FAILED"

\* Mutant: a skipped node is never done.
MutCompleted(inst) == \A n \in Nodes : inst.nodes[n] \notin {"PENDING", "RUNNING", "SKIPPED"}

Completed(inst) == \A n \in Nodes : inst.nodes[n] \notin {"PENDING", "RUNNING"}

\* What on_runtime_event makes of an event for node n.
Applied(inst, n, kind) ==
    IF kind = "completed"
    THEN [inst EXCEPT !.nodes[n] = "SUCCEEDED", !.outs = @ \cup {n}]
    ELSE [inst EXCEPT !.nodes[n] = FailedState(inst),
                      !.status = IF inst.handling = "IGNORE" THEN @ ELSE "FAILED"]

\* Mutant: the end of the workflow is noticed without looking at its status.
MutConcluded(inst) ==
    IF Completed(inst) THEN [inst EXCEPT !.status = "SUCCEEDED"] ELSE inst

Concluded(inst) ==
    IF Completed(inst) /\ inst.status = "RUNNING"
    THEN [inst EXCEPT !.status = "SUCCEEDED"] ELSE inst

\* Mutant: events are applied whatever the status of the workflow.
MutOnRuntimeEvent(k) ==
    LET i == log[k].task[1]
    IN  /\ Acquire(i)
        /\ \/ k \in pending /\ pending' = pending \ {k} /\ UNCHANGED calls
           \/ k \notin pending /\ Counted /\ UNCHANGED pending
        /\ Hold(i, "save", Concluded(Applied(row[i], log[k].task[2], log[k].kind)))
        /\ UNCHANGED <<edges, row, engineVars, log, stored, faults, ghostVars, mishaps>>

\* The event at place k is delivered, or delivered again.
OnRuntimeEvent(k) ==
    LET i == log[k].task[1]
    IN  /\ Acquire(i)
        /\ \/ k \in pending /\ pending' = pending \ {k} /\ UNCHANGED calls
           \/ k \notin pending /\ Counted /\ UNCHANGED pending
        /\ \/ /\ row[i].status = "RUNNING"
              /\ Hold(i, "save", Concluded(Applied(row[i], log[k].task[2], log[k].kind)))
              /\ UNCHANGED mishaps
           \/ /\ row[i].status # "RUNNING"
              /\ mishaps' = [mishaps EXCEPT ![i] = @ \cup {"dropped" : d \in pending \cap {k}}]
              /\ UNCHANGED op
        /\ UNCHANGED <<edges, row, engineVars, log, stored, faults, ghostVars>>

\* An event of another kind that names the instance, such as TaskStarted.
OnOtherEvent(i) ==
    /\ Acquire(i) /\ row[i].status = "RUNNING" /\ Counted
    /\ Hold(i, "save", Concluded(row[i]))
    /\ UNCHANGED <<edges, row, engineVars, eventVars, faults, ghostVars, mishaps>>

----------------------------------------------------------------------------
(* Recovery.                                                               *)

\* Mutant: nothing is replayed.
MutReplayed(inst) == {}

\* The events stream_from(started_at) returns: the first StreamLimit since the
\* start of the workflow, of whatever instance and whether they name a node or not.
Replayed(inst) ==
    {k \in DOMAIN log : inst.since < log[k].place /\ log[k].place <= inst.since + StreamLimit}

\* k is the last of the replayed events that names node n.
Decisive(inst, n, k) ==
    /\ k \in Replayed(inst) /\ log[k].task[2] = n
    /\ \A m \in Replayed(inst) : log[m].task[2] = n => m <= k

\* _apply_event_to_instance, event by event.  The FAILED status it gives the
\* workflow goes to a local copy and is lost.
Reconciled(inst) ==
    [inst EXCEPT
       !.nodes = [n \in Nodes |->
          IF \E k \in Replayed(inst) : Decisive(inst, n, k) /\ log[k].kind = "completed"
          THEN "SUCCEEDED"
          ELSE IF \E k \in Replayed(inst) : Decisive(inst, n, k)
               THEN FailedState(inst) ELSE @[n]],
       !.outs = @ \cup {n \in Nodes : \E k \in Replayed(inst) :
                          log[k].task[2] = n /\ log[k].kind = "completed"}]

\* Without a first checkpoint, and to no effect unless the status is RUNNING.
RecoverWorkflow(i) ==
    /\ Acquire(i) /\ row[i].status = "RUNNING"
    /\ IF "crashed" \in mishaps[i] THEN UNCHANGED calls ELSE Counted
    /\ Hold(i, "dispatch", Reconciled(row[i]))
    /\ mishaps' = [mishaps EXCEPT ![i] = (@ \ {"crashed"}) \cup {"recovered"}]
    /\ UNCHANGED <<edges, row, engineVars, eventVars, faults, ghostVars>>

----------------------------------------------------------------------------
(* Checkpoint and dispatch.                                                *)

\* checkpoint_workflow, one transaction; dispatch follows if the workflow runs.
Checkpoint ==
    /\ op.at = "save"
    /\ row' = [row EXCEPT ![op.id] = op.copy]
    /\ op' = IF op.copy.status = "RUNNING" THEN [op EXCEPT !.at = "dispatch"] ELSE Free
    /\ UNCHANGED <<edges, engineVars, eventVars, calls, faults, ghostVars, mishaps>>

\* Mutant: a failed parent unblocks its children.
MutEligible(n) ==
    /\ op.copy.nodes[n] = "PENDING"
    /\ \A p \in Parents(n) : op.copy.nodes[p] \notin {"PENDING", "RUNNING"}

Eligible(n) ==
    /\ op.copy.nodes[n] = "PENDING"
    /\ \A p \in Parents(n) : op.copy.nodes[p] \in {"SUCCEEDED", "SKIPPED"}

\* Mutant: the node is not marked RUNNING before the last checkpoint.
MutDispatch(n) ==
    LET t == <<op.id, n>>
    IN  /\ op.at = "dispatch" /\ Eligible(n) /\ sent[t] < 2
        /\ UNCHANGED op
        /\ queued' = queued \cup {t}
        /\ sent' = [sent EXCEPT ![t] = @ + 1]
        /\ given' = [given EXCEPT ![t] = op.copy.outs]
        /\ UNCHANGED <<edges, row, running, eventVars, calls, faults, mishaps>>

\* The node is RUNNING in the copy and its task is scheduled, with the inputs
\* that the outputs recorded so far resolve to.
Dispatch(n) ==
    LET t == <<op.id, n>>
    IN  /\ op.at = "dispatch" /\ Eligible(n)
        /\ op' = [op EXCEPT !.copy.nodes[n] = "RUNNING"]
        /\ queued' = queued \cup {t}
        /\ sent' = [sent EXCEPT ![t] = @ + 1]
        /\ given' = [given EXCEPT ![t] = op.copy.outs]
        /\ UNCHANGED <<edges, row, running, eventVars, calls, faults, mishaps>>

\* Mutant: the checkpoint after the loop is missing.
MutDispatched ==
    /\ op.at = "dispatch" /\ \A n \in Nodes : ~Eligible(n)
    /\ op' = Free
    /\ UNCHANGED <<edges, row, engineVars, eventVars, calls, faults, ghostVars, mishaps>>

\* The loop is through; the row is written again and the lock released.
Dispatched ==
    /\ op.at = "dispatch" /\ \A n \in Nodes : ~Eligible(n)
    /\ row' = [row EXCEPT ![op.id] = op.copy]
    /\ op' = Free
    /\ UNCHANGED <<edges, engineVars, eventVars, calls, faults, ghostVars, mishaps>>

\* A checkpoint is rolled back, or the scheduler refuses a task (the queue is
\* full, admission fails): the exception ends the call, the lock is released,
\* and what the call changed since the last checkpoint is gone.
Raise ==
    /\ op # Free
    /\ faults < MaxFaults /\ faults' = faults + 1
    /\ op' = Free
    /\ mishaps' = [mishaps EXCEPT ![op.id] = @ \cup {"raised"}]
    /\ UNCHANGED <<edges, row, engineVars, eventVars, calls, ghostVars>>

----------------------------------------------------------------------------
(* The engine and the environment.                                         *)

EngineStart(t) ==
    /\ t \in queued
    /\ queued' = queued \ {t}
    /\ running' = [running EXCEPT ![t] = @ + 1]
    /\ UNCHANGED <<edges, row, op, eventVars, calls, faults, ghostVars, mishaps>>

\* An execution ends: its event is logged and will be delivered.  "failed"
\* stands for TaskFailed, TaskTimedOut and TaskCancelled.
EngineFinish(t) ==
    /\ running[t] > 0
    /\ running' = [running EXCEPT ![t] = @ - 1]
    /\ stored' = stored + 1
    /\ \E kind \in {"completed", "failed"} :
         log' = Append(log, [task |-> t, kind |-> kind, place |-> stored'])
    /\ pending' = pending \cup {Len(log) + 1}
    /\ UNCHANGED <<edges, row, op, queued, calls, faults, ghostVars, mishaps>>

\* The engine stores an event of its own: TaskQueued, TaskStarted, WorkerBusy, ...
EngineLogs ==
    /\ Counted
    /\ stored' = stored + 1
    /\ UNCHANGED <<edges, row, op, engineVars, log, pending, faults, ghostVars, mishaps>>

Crash ==
    /\ faults < MaxFaults /\ faults' = faults + 1
    /\ op' = Free /\ queued' = {} /\ running' = [t \in Tasks |-> 0] /\ pending' = {}
    /\ mishaps' = [i \in Instances |-> IF row[i] = NoInstance THEN mishaps[i]
                     ELSE (mishaps[i] \ {"raised"}) \cup {"crashed"}]
    /\ UNCHANGED <<edges, row, log, stored, calls, ghostVars>>

Orchestrator == Checkpoint \/ Dispatched \/ \E n \in Nodes : Dispatch(n)

Engine(t) == EngineStart(t) \/ EngineFinish(t)

Next ==
    \/ \E i \in Instances : \/ StartWorkflow(i) \/ PauseWorkflow(i)
                            \/ ResumeWorkflow(i) \/ CancelWorkflow(i)
                            \/ RecoverWorkflow(i) \/ OnOtherEvent(i)
    \/ \E k \in DOMAIN log : OnRuntimeEvent(k)
    \/ Orchestrator
    \/ Raise
    \/ \E t \in Tasks : Engine(t)
    \/ EngineLogs
    \/ Crash

Spec == Init /\ [][Next]_vars

\* Calls end, executions end, and every event is delivered at least once.
Fairness ==
    /\ WF_vars(Orchestrator)
    /\ \A t \in Tasks : WF_vars(Engine(t))
    /\ WF_vars(\E k \in pending : OnRuntimeEvent(k))

FairSpec == Spec /\ Fairness
----------------------------------------------------------------------------
(* Properties.                                                             *)

Is(i, statuses) == row[i] # NoInstance /\ row[i].status \in statuses

Logged(t, kinds) == \E k \in DOMAIN log : log[k].task = t /\ log[k].kind \in kinds

Excused(i) == IF row[i].handling = "IGNORE" THEN {"completed", "failed"} ELSE {"completed"}

\* A node's task reaches the scheduler only after the task of every parent has
\* really ended well (or its failure is to be ignored): whatever is delivered
\* late or twice, whatever is recovered (one instance at a time).
DependenciesFirst ==
    \A i \in Instances, n \in Nodes : sent[<<i, n>>] > 0 =>
        /\ \A p \in Parents(n) : Logged(<<i, p>>, Excused(i))
        /\ row[i].handling # "IGNORE" => Parents(n) \subseteq given[<<i, n>>]

\* Unless a call raised half-way, the engine holds a node's task once at most.
OneCopy ==
    \A t \in Tasks : "raised" \notin mishaps[t[1]] =>
        running[t] + Cardinality(queued \cap {t}) <= 1

\* Unless a call raised half-way or a crash was not recovered from, a node whose
\* outcome is in the event store is only scheduled again if a recovery overlooked
\* it: the outcome has no place among the first StreamLimit events stored since
\* the start of the workflow.
NoRerun ==
    [][\A t \in Tasks :
         /\ sent'[t] > sent[t]
         /\ mishaps[t[1]] \cap {"raised", "crashed"} = {}
         => \A k \in DOMAIN log : log[k].task = t =>
              /\ "recovered" \in mishaps[t[1]]
              /\ log[k].place > row[t[1]].since + StreamLimit]_vars

\* A workflow that is over stays as it is, and nothing of it is scheduled any
\* more: cancel_workflow and a failure take effect at once.
OverIsOver ==
    [][\A i \in Instances : Is(i, Over) =>
         /\ row'[i] = row[i]
         /\ \A n \in Nodes : sent'[<<i, n>>] = sent[<<i, n>>]]_vars

\* A workflow that was never recovered succeeds only with all its nodes.
SuccessIsEarned ==
    \A i \in Instances :
        Is(i, {"SUCCEEDED"}) /\ "recovered" \notin mishaps[i] =>
          \A n \in Nodes :
             \/ row[i].nodes[n] = "SUCCEEDED" /\ n \in row[i].outs
             \/ row[i].nodes[n] = "SKIPPED" /\ row[i].handling = "IGNORE"

\* While no call works on it, a RUNNING workflow waits for something: a node
\* that is RUNNING has a task in the engine or an event under way, and no node
\* that could be dispatched is left over.
Alive(i) ==
    Is(i, {"RUNNING"}) /\ op.id # i =>
      /\ ~Completed(row[i])
      /\ \A n \in Nodes :
           /\ row[i].nodes[n] = "RUNNING" =>
                \/ <<i, n>> \in queued \/ running[<<i, n>>] > 0
                \/ \E k \in pending : log[k].task = <<i, n>>
           /\ row[i].nodes[n] = "PENDING" =>
                \E p \in Parents(n) : row[i].nodes[p] \notin {"SUCCEEDED", "SKIPPED"}

NothingStalls == \A i \in Instances : mishaps[i] = {} => Alive(i)

\* orchestrator.py:160, "Re-enqueue any nodes marked running/pending": after
\* recover_workflow every RUNNING node has a task again.
RecoverReenqueues == \A i \in Instances : mishaps[i] = {"recovered"} => Alive(i)

\* A workflow that is started and left alone comes to an end.
Finishes ==
    \A i \in Instances :
        Is(i, {"RUNNING"}) ~> Is(i, Over \cup {"PAUSED"}) \/ mishaps[i] # {}
=============================================================================
