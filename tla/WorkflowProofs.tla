--------------------------- MODULE WorkflowProofs ---------------------------
(***************************************************************************)
(* Proofs about Workflow, for any instances, graphs, policies, stream      *)
(* limit, numbers of calls and faults; and, in the last sections, about    *)
(* Planner, for any graph that is put together.                            *)
(***************************************************************************)
EXTENDS Workflow, ExecutionGraph, FiniteSetTheorems, WellFoundedInduction, TLAPS

----------------------------------------------------------------------------
(* The inductive invariants.                                               *)

\* A call works on a copy of a row that is not over; it dispatches only what is
\* written as a row.
Held ==
    op # Free =>
      /\ row[op.id] # NoInstance => /\ row[op.id].status \in {"RUNNING", "PAUSED"}
                                    /\ op.copy.handling = row[op.id].handling
                                    /\ op.copy.since = row[op.id].since
      /\ op.at = "dispatch" => row[op.id] # NoInstance /\ op.copy.status = "RUNNING"

Ended(t) == Logged(t, {"completed", "failed"})
InEngine(t) == t \in queued \/ running[t] > 0

\* A task that the scheduler ever saw is of an instance with a row.
Known == \A t \in Tasks : InEngine(t) \/ sent[t] > 0 \/ Ended(t) => row[t[1]] # NoInstance

Base == TypeOK /\ Held /\ Known

\* There is one instance only, or none was recovered: no events of another
\* instance were replayed.
Apart == \/ \A i, j \in Instances : i = j
         \/ \A i \in Instances : "recovered" \notin mishaps[i]

\* What the states of the nodes of instance i say, in its row or in a copy.
Earned(i, inst) ==
    /\ \A n \in Nodes : /\ inst.nodes[n] = "SUCCEEDED" => n \in inst.outs
                        /\ inst.nodes[n] = "SKIPPED" => inst.handling = "IGNORE"
    /\ "recovered" \notin mishaps[i] =>
         /\ inst.status \in {"RUNNING", "PAUSED"} =>
              \A n \in Nodes : inst.nodes[n] \notin {"FAILED", "CANCELLED"}
         /\ inst.status = "SUCCEEDED" =>
              \A n \in Nodes : inst.nodes[n] \in {"SUCCEEDED", "SKIPPED"}

\* They rest on events of the instance's own tasks.
Attested(i, inst) ==
    Apart => \A n \in Nodes :
               /\ inst.nodes[n] = "SUCCEEDED" => Logged(<<i, n>>, {"completed"})
               /\ inst.nodes[n] = "SKIPPED" => Ended(<<i, n>>)

\* The events of an instance were stored after its start.
Later(i, inst) ==
    /\ inst.since <= stored
    /\ \A k \in DOMAIN log : log[k].task[1] = i => inst.since < log[k].place

\* All of it holds of the row of every instance and of the copy a call works on.
Truthful(i, inst) == Earned(i, inst) /\ Attested(i, inst) /\ Later(i, inst)

Sound == /\ \A i \in Instances : row[i] # NoInstance => Truthful(i, row[i])
         /\ op # Free => Truthful(op.id, op.copy)

Ordered == Apart => DependenciesFirst

\* An instance as the call that works on it has it, or else as its row does.
Current(i) == IF op.id = i THEN op.copy ELSE row[i]

\* Node n of instance i is still to be dispatched.
Due(i, n) == Current(i) = NoInstance \/ Current(i).nodes[n] = "PENDING"

\* Unless a call raised, no node that is still to be dispatched is in the engine.
Single(i) ==
    "raised" \notin mishaps[i] =>
      \A n \in Nodes : /\ running[<<i, n>>] <= 1
                       /\ <<i, n>> \in queued => running[<<i, n>>] = 0
                       /\ Due(i, n) => ~InEngine(<<i, n>>)

\* A recovery of i overlooks the k-th event that names a node: it is not among
\* the first StreamLimit events since the start of i.
Overlooked(i, k) ==
    "recovered" \in mishaps[i] /\ log[k].place > row[i].since + StreamLimit

\* ... and none of them has run before, but for those whose end was overlooked.
Fresh(i) ==
    mishaps[i] \cap {"raised", "crashed"} = {} =>
      \A n \in Nodes, k \in DOMAIN log :
        Due(i, n) /\ log[k].task = <<i, n>> => Overlooked(i, k)

Once == \A i \in Instances : Single(i) /\ Fresh(i)

\* A task in the engine, or an event of it under way.
Awaited(t) == InEngine(t) \/ \E k \in pending : log[k].task = t

Unfinished(inst) == inst.status \in {"RUNNING", "PAUSED"} => ~Completed(inst)

\* A RUNNING workflow that no call works on has no node left to dispatch.
Blocked(i) ==
    Is(i, {"RUNNING"}) /\ op.id # i =>
      \A n \in Nodes : row[i].nodes[n] = "PENDING" =>
        \E p \in Parents(n) : row[i].nodes[p] \notin {"SUCCEEDED", "SKIPPED"}

\* An instance to which nothing happened is not stuck, during a call or between.
Going(i) ==
    mishaps[i] = {} =>
      /\ row[i] # NoInstance => Unfinished(row[i])
      /\ op.id = i => Unfinished(op.copy)
      /\ \A n \in Nodes : Current(i) # NoInstance /\ Current(i).nodes[n] = "RUNNING"
                            => Awaited(<<i, n>>)
      /\ Blocked(i)

Lively == Nodes # {} => \A i \in Instances : Going(i)

----------------------------------------------------------------------------
(* Instances and the log.                                                  *)

Holding == [at : {"save", "dispatch"}, id : Instances, copy : Instance]

\* What is known of the call that holds the lock.
LEMMA OpFacts ==
    ASSUME TypeOK, op # Free
    PROVE  /\ op \in Holding /\ op.at \in {"save", "dispatch"} /\ op.id \in Instances
           /\ op.copy \in Instance
  BY DEF TypeOK, Holding

\* Nobody's call is a call of no instance.
LEMMA FreeFacts ==
    /\ Free.at = "free" /\ Free.id = NoInstance /\ Free.copy = NoInstance
    /\ Free.id \notin Instances
  BY ConstantsAssumption DEF Free

\* A call that begins holds the lock.
LEMMA HoldFacts ==
    ASSUME NEW i \in Instances, NEW where \in {"save", "dispatch"}, NEW copy \in Instance,
           Hold(i, where, copy)
    PROVE  /\ op' \in Holding /\ op' # Free
           /\ op'.at = where /\ op'.id = i /\ op'.copy = copy
  BY FreeFacts DEF Hold, Holding

\* The fields of an instance.
LEMMA InstanceFacts ==
    ASSUME NEW inst \in Instance
    PROVE  /\ inst # NoInstance
           /\ inst.status \in WorkflowStatus /\ inst.nodes \in [Nodes -> NodeState]
           /\ inst.outs \subseteq Nodes /\ inst.handling \in Handlings /\ inst.since \in Nat
           /\ \A n \in Nodes : inst.nodes[n] \in NodeState
  BY ConstantsAssumption DEF Instance

\* An instance with another status.
LEMMA StatusFacts ==
    ASSUME NEW inst \in Instance, NEW s \in WorkflowStatus,
           NEW new, new = [inst EXCEPT !.status = s]
    PROVE  /\ new \in Instance
           /\ new.status = s /\ new.nodes = inst.nodes /\ new.outs = inst.outs
           /\ new.handling = inst.handling /\ new.since = inst.since
  BY DEF Instance

\* The state of a node that failed.
LEMMA FailedStateFacts ==
    ASSUME NEW inst \in Instance
    PROVE  /\ FailedState(inst) \in {"SKIPPED", "FAILED"}
           /\ FailedState(inst) = "SKIPPED" <=> inst.handling = "IGNORE"
  BY DEF FailedState

\* An event applied to an instance.
LEMMA AppliedFacts ==
    ASSUME NEW inst \in Instance, NEW n \in Nodes, NEW kind
    PROVE  /\ Applied(inst, n, kind) \in Instance
           /\ Applied(inst, n, kind).handling = inst.handling
           /\ Applied(inst, n, kind).since = inst.since
           /\ \A m \in Nodes \ {n} : Applied(inst, n, kind).nodes[m] = inst.nodes[m]
           /\ kind = "completed" =>
                /\ Applied(inst, n, kind).nodes[n] = "SUCCEEDED"
                /\ Applied(inst, n, kind).status = inst.status
                /\ Applied(inst, n, kind).outs = inst.outs \cup {n}
           /\ kind # "completed" =>
                /\ Applied(inst, n, kind).nodes[n] = FailedState(inst)
                /\ Applied(inst, n, kind).outs = inst.outs
                /\ inst.handling = "IGNORE" => Applied(inst, n, kind).status = inst.status
                /\ inst.handling # "IGNORE" => Applied(inst, n, kind).status = "FAILED"
<1>1. CASE kind = "completed"
  BY <1>1 DEF Applied, Instance, NodeState
<1>2. CASE kind # "completed"
  <2>1. PICK f \in NodeState : f = FailedState(inst)
    BY FailedStateFacts DEF NodeState
  <2>2. PICK s \in WorkflowStatus : s = IF inst.handling = "IGNORE" THEN inst.status ELSE "FAILED"
    BY InstanceFacts DEF WorkflowStatus
  <2>3. PICK states \in [Nodes -> NodeState] : states = [inst.nodes EXCEPT ![n] = f]
    BY <2>1, InstanceFacts
  <2>4. Applied(inst, n, kind) = [inst EXCEPT !.nodes = states, !.status = s]
    BY <1>2, <2>1, <2>2, <2>3 DEF Applied
  <2>5. PICK new : new = Applied(inst, n, kind)
    OBVIOUS
  <2>6. /\ new \in Instance /\ new.status = s /\ new.nodes = states
        /\ new.handling = inst.handling /\ new.since = inst.since /\ new.outs = inst.outs
    BY <2>4, <2>5 DEF Instance
  <2>7. QED
    BY <1>2, <2>1, <2>2, <2>3, <2>5, <2>6
<1>3. QED
  BY <1>1, <1>2

\* An instance whose end is noticed.
LEMMA ConcludedFacts ==
    ASSUME NEW inst \in Instance, NEW new, new = Concluded(inst)
    PROVE  /\ new \in Instance
           /\ new.nodes = inst.nodes /\ new.outs = inst.outs
           /\ new.handling = inst.handling /\ new.since = inst.since
           /\ \/ new.status = inst.status /\ ~(Completed(inst) /\ inst.status = "RUNNING")
              \/ new.status = "SUCCEEDED" /\ Completed(inst) /\ inst.status = "RUNNING"
<1>1. "SUCCEEDED" \in WorkflowStatus
  BY DEF WorkflowStatus
<1>2. QED
  BY <1>1, StatusFacts DEF Concluded

\* A recovered instance.
LEMMA ReconciledFacts ==
    ASSUME NEW inst \in Instance, NEW new, new = Reconciled(inst)
    PROVE  /\ new \in Instance
           /\ new.status = inst.status /\ new.handling = inst.handling
           /\ new.since = inst.since
           /\ new.outs = inst.outs \cup {n \in Nodes : \E k \in Replayed(inst) :
                                           log[k].task[2] = n /\ log[k].kind = "completed"}
           /\ \A n \in Nodes : new.nodes[n] =
                IF \E k \in Replayed(inst) : Decisive(inst, n, k) /\ log[k].kind = "completed"
                THEN "SUCCEEDED"
                ELSE IF \E k \in Replayed(inst) : Decisive(inst, n, k)
                     THEN FailedState(inst) ELSE inst.nodes[n]
<1> DEFINE state(n) ==
             IF \E k \in Replayed(inst) : Decisive(inst, n, k) /\ log[k].kind = "completed"
             THEN "SUCCEEDED"
             ELSE IF \E k \in Replayed(inst) : Decisive(inst, n, k)
                  THEN FailedState(inst) ELSE inst.nodes[n]
           done == {n \in Nodes : \E k \in Replayed(inst) :
                      log[k].task[2] = n /\ log[k].kind = "completed"}
<1>1. new = [inst EXCEPT !.nodes = [n \in Nodes |-> state(n)], !.outs = inst.outs \cup done]
  BY DEF Reconciled
<1>2. \A n \in Nodes : state(n) \in NodeState
  BY InstanceFacts, FailedStateFacts DEF NodeState
<1>3. done \subseteq Nodes
  OBVIOUS
<1> HIDE DEF state, done
<1>4. /\ new \in Instance
      /\ new.status = inst.status /\ new.handling = inst.handling /\ new.since = inst.since
      /\ new.outs = inst.outs \cup done
      /\ \A n \in Nodes : new.nodes[n] = state(n)
  BY ZenonT(60), <1>1, <1>2, <1>3 DEF Instance
<1>5. QED
  BY <1>4 DEF state, done

\* An event is appended to the log.
LEMMA LogGrows ==
    ASSUME log \in Seq(Events), NEW e \in Events, log' = Append(log, e)
    PROVE  /\ log' \in Seq(Events) /\ Len(log) \in Nat /\ Len(log') = Len(log) + 1
           /\ DOMAIN log = 1..Len(log) /\ DOMAIN log' = 1..(Len(log) + 1)
           /\ \A k \in DOMAIN log : log'[k] = log[k] /\ k \in DOMAIN log'
           /\ log'[Len(log) + 1] = e
           /\ \A k \in DOMAIN log' : k \in DOMAIN log \/ k = Len(log) + 1
  OBVIOUS

\* The end of an execution, as far as the log goes.
LEMMA FinishFacts ==
    ASSUME TypeOK, NEW t \in Tasks, EngineFinish(t)
    PROVE  \E e \in Events :
             /\ e.task = t /\ e.place = stored + 1 /\ log' = Append(log, e)
             /\ stored \in Nat /\ stored' = stored + 1
             /\ log' \in Seq(Events) /\ Len(log) \in Nat /\ Len(log') = Len(log) + 1
             /\ DOMAIN log = 1..Len(log) /\ DOMAIN log' = 1..(Len(log) + 1)
             /\ \A k \in DOMAIN log : log'[k] = log[k] /\ k \in DOMAIN log'
             /\ log'[Len(log) + 1] = e
             /\ \A k \in DOMAIN log' : k \in DOMAIN log \/ k = Len(log) + 1
<1>1. PICK kind \in {"completed", "failed"} :
         log' = Append(log, [task |-> t, kind |-> kind, place |-> stored'])
  BY DEF EngineFinish
<1>2. stored \in Nat /\ stored' = stored + 1 /\ stored' \in Nat \ {0}
  BY DEF EngineFinish, TypeOK
<1>3. PICK e \in Events : e = [task |-> t, kind |-> kind, place |-> stored']
  BY <1>1, <1>2 DEF Events
<1>4. log \in Seq(Events) /\ log' = Append(log, e) /\ e.task = t /\ e.place = stored + 1
  BY <1>1, <1>2, <1>3 DEF TypeOK
<1>5. QED
  BY <1>2, <1>4, LogGrows

\* What is logged stays logged, and only the task that ended is new.
LEMMA LoggedGrows ==
    ASSUME TypeOK, NEW t \in Tasks, EngineFinish(t), NEW u, NEW kinds
    PROVE  /\ Logged(u, kinds) => Logged(u, kinds)'
           /\ Logged(u, kinds)' => Logged(u, kinds) \/ u = t
<1>1. PICK e \in Events :
         /\ e.task = t /\ log'[Len(log) + 1] = e
         /\ \A k \in DOMAIN log : log'[k] = log[k] /\ k \in DOMAIN log'
         /\ \A k \in DOMAIN log' : k \in DOMAIN log \/ k = Len(log) + 1
  BY FinishFacts
<1>2. QED
  BY <1>1 DEF Logged

\* The event at a place of the log.
LEMMA EventFacts ==
    ASSUME TypeOK, NEW k \in DOMAIN log
    PROVE  /\ log[k] \in Events /\ log[k].kind \in {"completed", "failed"}
           /\ log[k].place \in Nat
           /\ log[k].task \in Tasks /\ log[k].task = <<log[k].task[1], log[k].task[2]>>
           /\ log[k].task[1] \in Instances /\ log[k].task[2] \in Nodes
           /\ Ended(log[k].task) /\ Logged(log[k].task, {log[k].kind})
<1>1. log[k] \in Events
  BY DEF TypeOK
<1>2. /\ log[k].kind \in {"completed", "failed"} /\ log[k].task \in Tasks
      /\ log[k].place \in Nat
      /\ log[k].task = <<log[k].task[1], log[k].task[2]>>
      /\ log[k].task[1] \in Instances /\ log[k].task[2] \in Nodes
  BY <1>1 DEF Events, Tasks
<1>3. QED
  BY <1>1, <1>2 DEF Ended, Logged

----------------------------------------------------------------------------
(* The shape of a call: the lock is free and is taken for a copy of the    *)
(* row of instance i, or of a new one; the rows and the log stay.          *)

Mishaps == SUBSET {"dropped", "crashed", "recovered", "raised"}

Begins(i, where, copy) ==
    /\ op = Free /\ op' \in Holding /\ op' # Free
    /\ op'.at = where /\ op'.id = i /\ op'.copy = copy
    /\ edges' = edges /\ row' = row /\ running' = running /\ log' = log /\ stored' = stored
    /\ faults' = faults /\ sent' = sent /\ given' = given
    /\ queued' \subseteq queued /\ pending' \subseteq pending /\ calls' \in 0..MaxCalls
    /\ row[i] # NoInstance => /\ row[i].status \in {"RUNNING", "PAUSED"}
                              /\ copy.handling = row[i].handling
                              /\ copy.since = row[i].since
    /\ where = "dispatch" => row[i] # NoInstance /\ copy.status = "RUNNING"
    /\ mishaps' \in [Instances -> Mishaps]
    /\ \A j \in Instances : j # i => mishaps'[j] = mishaps[j]

\* start_workflow
LEMMA StartBegins ==
    ASSUME Base, NEW i \in Instances, StartWorkflow(i)
    PROVE  \E copy \in Instance :
             /\ Begins(i, "save", copy) /\ row[i] = NoInstance
             /\ mishaps' = mishaps /\ queued' = queued /\ pending' = pending
             /\ copy.status = "RUNNING" /\ copy.outs = {} /\ copy.since = stored
             /\ \A n \in Nodes : copy.nodes[n] = "PENDING"
<1>1. PICK h \in Handlings :
         Hold(i, "save", [status |-> "RUNNING", nodes |-> [n \in Nodes |-> "PENDING"],
                          outs |-> {}, handling |-> h, since |-> stored])
  BY DEF StartWorkflow
<1>2. stored \in Nat
  BY DEF Base, TypeOK
<1>3. PICK copy : copy = [status |-> "RUNNING", nodes |-> [n \in Nodes |-> "PENDING"],
                          outs |-> {}, handling |-> h, since |-> stored]
  OBVIOUS
<1>4. /\ copy \in Instance /\ copy.status = "RUNNING" /\ copy.outs = {}
      /\ copy.since = stored /\ \A n \in Nodes : copy.nodes[n] = "PENDING"
  BY <1>2, <1>3 DEF Instance, WorkflowStatus, NodeState
<1>5. Hold(i, "save", copy)
  BY <1>1, <1>3
<1>6. /\ op' \in Holding /\ op' # Free /\ op'.at = "save" /\ op'.id = i /\ op'.copy = copy
  BY <1>4, <1>5, HoldFacts
<1>7. Begins(i, "save", copy)
  BY <1>4, <1>6 DEF Begins, StartWorkflow, Base, TypeOK, engineVars, eventVars, ghostVars,
     Mishaps
<1>8. QED
  BY <1>4, <1>7 DEF StartWorkflow, engineVars, eventVars

\* The row of an instance that exists.
LEMMA AcquireFacts ==
    ASSUME Base, NEW i \in Instances, Acquire(i)
    PROVE  row[i] \in Instance /\ op = Free /\ row[i] # NoInstance
  BY DEF Base, TypeOK, Acquire

\* pause_workflow and resume_workflow
LEMMA PauseBegins ==
    ASSUME Base, NEW i \in Instances, PauseWorkflow(i) \/ ResumeWorkflow(i)
    PROVE  \E copy \in Instance :
             /\ Begins(i, "save", copy) /\ row[i] \in Instance
             /\ mishaps' = mishaps /\ queued' = queued /\ pending' = pending
             /\ copy.status \in {"RUNNING", "PAUSED"}
             /\ copy.nodes = row[i].nodes /\ copy.outs = row[i].outs
<1>1. row[i] \in Instance /\ op = Free /\ row[i].status \in {"RUNNING", "PAUSED"}
  BY AcquireFacts DEF PauseWorkflow, ResumeWorkflow
<1>2. PICK s \in {"RUNNING", "PAUSED"} : Hold(i, "save", [row[i] EXCEPT !.status = s])
  BY DEF PauseWorkflow, ResumeWorkflow
<1>3. PICK copy : copy = [row[i] EXCEPT !.status = s]
  OBVIOUS
<1>4. /\ copy \in Instance /\ copy.status = s /\ copy.nodes = row[i].nodes
      /\ copy.outs = row[i].outs /\ copy.handling = row[i].handling
      /\ copy.since = row[i].since
  BY <1>1, <1>3, StatusFacts DEF WorkflowStatus
<1>5. Hold(i, "save", copy)
  BY <1>2, <1>3
<1>6. /\ op' \in Holding /\ op' # Free /\ op'.at = "save" /\ op'.id = i /\ op'.copy = copy
  BY <1>4, <1>5, HoldFacts
<1>7. calls' \in 0..MaxCalls
  BY ConstantsAssumption DEF PauseWorkflow, ResumeWorkflow, Counted, Base, TypeOK
<1>8. /\ edges' = edges /\ row' = row /\ running' = running /\ log' = log
      /\ stored' = stored
      /\ faults' = faults /\ sent' = sent /\ given' = given /\ mishaps' = mishaps
      /\ queued' = queued /\ pending' = pending
  BY DEF PauseWorkflow, ResumeWorkflow, engineVars, eventVars, ghostVars
<1>9. Begins(i, "save", copy)
  BY <1>1, <1>4, <1>6, <1>7, <1>8 DEF Begins, Base, TypeOK, Mishaps
<1>10. QED
  BY <1>1, <1>4, <1>8, <1>9

\* cancel_workflow
LEMMA CancelBegins ==
    ASSUME Base, NEW i \in Instances, CancelWorkflow(i)
    PROVE  \E copy \in Instance :
             /\ Begins(i, "save", copy) /\ row[i] \in Instance
             /\ mishaps' = mishaps /\ pending' = pending
             /\ copy.status = "CANCELLED" /\ copy.outs = row[i].outs
             /\ \A n \in Nodes :
                  IF row[i].nodes[n] \in {"PENDING", "RUNNING"}
                  THEN copy.nodes[n] = "CANCELLED" ELSE copy.nodes[n] = row[i].nodes[n]
             /\ \A t \in queued : t[1] # i => t \in queued'
<1> DEFINE active == {n \in Nodes : row[i].nodes[n] \in {"PENDING", "RUNNING"}}
<1>1. row[i] \in Instance /\ op = Free /\ row[i].status \in {"RUNNING", "PAUSED"}
  BY AcquireFacts DEF CancelWorkflow
<1>2. PICK copy : copy = [row[i] EXCEPT
               !.status = "CANCELLED",
               !.nodes = [n \in Nodes |-> IF n \in active THEN "CANCELLED"
                                                          ELSE row[i].nodes[n]]]
  OBVIOUS
<1>3. Hold(i, "save", copy) /\ queued' = queued \ ({i} \X active)
  BY <1>2 DEF CancelWorkflow
<1>4. /\ copy \in Instance /\ copy.status = "CANCELLED"
      /\ copy.outs = row[i].outs /\ copy.handling = row[i].handling
      /\ copy.since = row[i].since
      /\ \A n \in Nodes :
           IF row[i].nodes[n] \in {"PENDING", "RUNNING"}
           THEN copy.nodes[n] = "CANCELLED" ELSE copy.nodes[n] = row[i].nodes[n]
  BY <1>1, <1>2 DEF Instance, WorkflowStatus, NodeState
<1>5. /\ op' \in Holding /\ op' # Free /\ op'.at = "save" /\ op'.id = i /\ op'.copy = copy
  BY <1>3, <1>4, HoldFacts
<1>6. calls' \in 0..MaxCalls
  BY ConstantsAssumption DEF CancelWorkflow, Counted, Base, TypeOK
<1>7. /\ edges' = edges /\ row' = row /\ running' = running /\ log' = log
      /\ stored' = stored
      /\ faults' = faults /\ sent' = sent /\ given' = given /\ mishaps' = mishaps
      /\ pending' = pending
  BY DEF CancelWorkflow, eventVars, ghostVars
<1>8. queued' \subseteq queued /\ \A t \in queued : t[1] # i => t \in queued'
  BY <1>3
<1>9. Begins(i, "save", copy)
  BY <1>1, <1>4, <1>5, <1>6, <1>7, <1>8 DEF Begins, Base, TypeOK, Mishaps
<1>10. QED
  BY <1>1, <1>4, <1>7, <1>8, <1>9

\* on_runtime_event that finds the workflow RUNNING.
LEMMA EventBegins ==
    ASSUME Base, NEW k \in DOMAIN log, OnRuntimeEvent(k),
           NEW i, i = log[k].task[1], NEW n, n = log[k].task[2], row[i].status = "RUNNING"
    PROVE  /\ i \in Instances /\ n \in Nodes /\ log[k].task = <<i, n>>
           /\ \E mid, copy \in Instance :
                /\ mid = Applied(row[i], n, log[k].kind) /\ copy = Concluded(mid)
                /\ Begins(i, "save", copy) /\ row[i] \in Instance
                /\ mishaps' = mishaps /\ queued' = queued /\ pending \ {k} \subseteq pending'
<1>1. i \in Instances /\ n \in Nodes /\ log[k].task = <<i, n>>
      /\ log[k].kind \in {"completed", "failed"}
  BY EventFacts DEF Base
<1>2. row[i] \in Instance /\ op = Free
  BY <1>1, AcquireFacts DEF OnRuntimeEvent
<1>3. PICK mid : mid = Applied(row[i], n, log[k].kind)
  OBVIOUS
<1>4. mid \in Instance /\ mid.handling = row[i].handling /\ mid.since = row[i].since
  BY <1>1, <1>2, <1>3, AppliedFacts
<1>5. PICK copy : copy = Concluded(mid)
  OBVIOUS
<1>6. copy \in Instance /\ copy.handling = row[i].handling /\ copy.since = row[i].since
  BY <1>4, <1>5, ConcludedFacts
<1>7. Hold(i, "save", copy) /\ mishaps' = mishaps
  BY <1>3, <1>5 DEF OnRuntimeEvent
<1>8. /\ op' \in Holding /\ op' # Free /\ op'.at = "save" /\ op'.id = i /\ op'.copy = copy
  BY <1>1, <1>6, <1>7, HoldFacts
<1>9. calls' \in 0..MaxCalls
  BY ConstantsAssumption DEF OnRuntimeEvent, Counted, Base, TypeOK
<1>10. /\ edges' = edges /\ row' = row /\ running' = running /\ log' = log
       /\ stored' = stored
       /\ faults' = faults /\ sent' = sent /\ given' = given /\ queued' = queued
  BY DEF OnRuntimeEvent, engineVars, ghostVars
<1>11. pending' \subseteq pending /\ pending \ {k} \subseteq pending'
  BY DEF OnRuntimeEvent
<1>12. Begins(i, "save", copy)
  BY <1>2, <1>6, <1>7, <1>8, <1>9, <1>10, <1>11 DEF Begins, Base, TypeOK, Mishaps
<1>13. QED
  BY <1>1, <1>2, <1>3, <1>4, <1>5, <1>6, <1>7, <1>10, <1>11, <1>12

\* on_runtime_event that finds it in another status: the event is lost.
Drops(k, i) ==
    /\ op = Free /\ op' = op /\ row' = row /\ edges' = edges /\ running' = running
    /\ log' = log
    /\ stored' = stored /\ faults' = faults /\ sent' = sent /\ given' = given /\ queued' = queued
    /\ pending' \subseteq pending /\ calls' \in 0..MaxCalls
    /\ mishaps' \in [Instances -> Mishaps]
    /\ \A j \in Instances : j # i => mishaps'[j] = mishaps[j]
    /\ k \in pending => mishaps'[i] = mishaps[i] \cup {"dropped"}
    /\ k \notin pending => mishaps'[i] = mishaps[i]
    /\ pending \ {k} \subseteq pending'

\* The handler's early return.
LEMMA EventDrops ==
    ASSUME Base, NEW k \in DOMAIN log, OnRuntimeEvent(k),
           NEW i, i = log[k].task[1], row[i].status # "RUNNING"
    PROVE  /\ i \in Instances /\ Drops(k, i)
<1>1. i \in Instances
  BY EventFacts DEF Base
<1>2. op = Free /\ op' = op
  BY DEF OnRuntimeEvent, Acquire
<1>3. mishaps' = [mishaps EXCEPT ![i] = @ \cup {"dropped" : d \in pending \cap {k}}]
  BY DEF OnRuntimeEvent
<1>4. /\ k \in pending => {"dropped" : d \in pending \cap {k}} = {"dropped"}
      /\ k \notin pending => {"dropped" : d \in pending \cap {k}} = {}
  OBVIOUS
<1>5. mishaps \in [Instances -> Mishaps]
  BY DEF Base, TypeOK, Mishaps
<1>6. /\ \A j \in Instances : j # i => mishaps'[j] = mishaps[j]
      /\ k \in pending => mishaps'[i] = mishaps[i] \cup {"dropped"}
      /\ k \notin pending => mishaps'[i] = mishaps[i]
  BY <1>1, <1>3, <1>4, <1>5
<1>7. mishaps' \in [Instances -> Mishaps]
  <2>1. mishaps[i] \cup {"dropped" : d \in pending \cap {k}} \in Mishaps
    BY <1>1, <1>4, <1>5 DEF Mishaps
  <2>2. QED
    BY <2>1, <1>3, <1>5
<1>8. calls' \in 0..MaxCalls
  BY ConstantsAssumption DEF OnRuntimeEvent, Counted, Base, TypeOK
<1>9. /\ edges' = edges /\ row' = row /\ running' = running /\ log' = log
      /\ stored' = stored
      /\ faults' = faults /\ sent' = sent /\ given' = given /\ queued' = queued
  BY DEF OnRuntimeEvent, engineVars, ghostVars
<1>10. pending' \subseteq pending /\ pending \ {k} \subseteq pending'
  BY DEF OnRuntimeEvent
<1>11. QED
  BY <1>1, <1>2, <1>6, <1>7, <1>8, <1>9, <1>10 DEF Drops

\* An event of another kind.
LEMMA OtherBegins ==
    ASSUME Base, NEW i \in Instances, OnOtherEvent(i)
    PROVE  \E copy \in Instance :
             /\ copy = Concluded(row[i]) /\ Begins(i, "save", copy) /\ row[i] \in Instance
             /\ row[i].status = "RUNNING"
             /\ mishaps' = mishaps /\ queued' = queued /\ pending' = pending
<1>1. row[i] \in Instance /\ op = Free /\ row[i].status = "RUNNING"
  BY AcquireFacts DEF OnOtherEvent
<1>2. PICK copy : copy = Concluded(row[i])
  OBVIOUS
<1>3. copy \in Instance /\ copy.handling = row[i].handling /\ copy.since = row[i].since
  BY <1>1, <1>2, ConcludedFacts
<1>4. Hold(i, "save", copy)
  BY <1>2 DEF OnOtherEvent
<1>5. /\ op' \in Holding /\ op' # Free /\ op'.at = "save" /\ op'.id = i /\ op'.copy = copy
  BY <1>3, <1>4, HoldFacts
<1>6. calls' \in 0..MaxCalls
  BY ConstantsAssumption DEF OnOtherEvent, Counted, Base, TypeOK
<1>7. /\ edges' = edges /\ row' = row /\ running' = running /\ log' = log
      /\ stored' = stored
      /\ faults' = faults /\ sent' = sent /\ given' = given /\ mishaps' = mishaps
      /\ queued' = queued /\ pending' = pending
  BY DEF OnOtherEvent, engineVars, eventVars, ghostVars
<1>8. Begins(i, "save", copy)
  BY <1>1, <1>3, <1>5, <1>6, <1>7 DEF Begins, Base, TypeOK, Mishaps
<1>9. QED
  BY <1>1, <1>2, <1>3, <1>7, <1>8

\* recover_workflow
LEMMA RecoverBegins ==
    ASSUME Base, NEW i \in Instances, RecoverWorkflow(i)
    PROVE  \E copy \in Instance :
             /\ copy = Reconciled(row[i]) /\ Begins(i, "dispatch", copy)
             /\ row[i] \in Instance /\ row[i].status = "RUNNING"
             /\ mishaps'[i] = (mishaps[i] \ {"crashed"}) \cup {"recovered"}
             /\ queued' = queued /\ pending' = pending
<1>1. row[i] \in Instance /\ op = Free /\ row[i] # NoInstance /\ row[i].status = "RUNNING"
  BY AcquireFacts DEF RecoverWorkflow
<1>2. PICK copy : copy = Reconciled(row[i])
  OBVIOUS
<1>3. /\ copy \in Instance /\ copy.handling = row[i].handling /\ copy.since = row[i].since
      /\ copy.status = "RUNNING"
  BY <1>1, <1>2, ReconciledFacts
<1>4. Hold(i, "dispatch", copy)
  BY <1>2 DEF RecoverWorkflow
<1>5. /\ op' \in Holding /\ op' # Free /\ op'.at = "dispatch" /\ op'.id = i
      /\ op'.copy = copy
  BY <1>3, <1>4, HoldFacts
<1>6. calls' \in 0..MaxCalls
  BY ConstantsAssumption DEF RecoverWorkflow, Counted, Base, TypeOK
<1>7. /\ edges' = edges /\ row' = row /\ running' = running /\ log' = log
      /\ stored' = stored
      /\ faults' = faults /\ sent' = sent /\ given' = given
      /\ queued' = queued /\ pending' = pending
      /\ mishaps' = [mishaps EXCEPT ![i] = (@ \ {"crashed"}) \cup {"recovered"}]
  BY DEF RecoverWorkflow, engineVars, eventVars, ghostVars
<1>8. mishaps \in [Instances -> Mishaps]
  BY DEF Base, TypeOK, Mishaps
<1>9. mishaps' \in [Instances -> Mishaps]
  <2>1. (mishaps[i] \ {"crashed"}) \cup {"recovered"} \in Mishaps
    BY <1>8 DEF Mishaps
  <2>2. QED
    BY <2>1, <1>7, <1>8
<1>10. /\ \A j \in Instances : j # i => mishaps'[j] = mishaps[j]
       /\ mishaps'[i] = (mishaps[i] \ {"crashed"}) \cup {"recovered"}
  BY <1>7, <1>8
<1>11. Begins(i, "dispatch", copy)
  BY <1>1, <1>3, <1>5, <1>6, <1>7, <1>9, <1>10 DEF Begins
<1>12. QED
  BY <1>1, <1>2, <1>3, <1>7, <1>10, <1>11

----------------------------------------------------------------------------
(* The shapes of the other steps.                                          *)

\* checkpoint_workflow, within a call or at its end.
Writes ==
    /\ op # Free /\ op.id \in Instances /\ op.copy \in Instance
    /\ row' \in [Instances -> Instance \cup {NoInstance}]
    /\ row'[op.id] = op.copy /\ \A j \in Instances : j # op.id => row'[j] = row[j]
    /\ edges' = edges /\ queued' = queued /\ running' = running /\ log' = log
    /\ stored' = stored
    /\ pending' = pending /\ calls' = calls /\ faults' = faults /\ sent' = sent
    /\ given' = given /\ mishaps' = mishaps
    /\ \/ op' = Free
       \/ /\ op' \in Holding /\ op' # Free /\ op'.id = op.id /\ op'.copy = op.copy
          /\ op'.at = "dispatch" /\ op.copy.status = "RUNNING"

\* Both checkpoints have this shape.
LEMMA WriteFacts ==
    ASSUME TypeOK, Checkpoint \/ Dispatched
    PROVE  Writes
<1>1. op # Free
  BY FreeFacts DEF Checkpoint, Dispatched
<1>2. op \in Holding /\ op.id \in Instances /\ op.copy \in Instance
  BY <1>1, OpFacts
<1>3. /\ row' \in [Instances -> Instance \cup {NoInstance}]
      /\ row'[op.id] = op.copy /\ \A j \in Instances : j # op.id => row'[j] = row[j]
  BY <1>2 DEF Checkpoint, Dispatched, TypeOK
<1>4. /\ edges' = edges /\ queued' = queued /\ running' = running /\ log' = log
      /\ stored' = stored
      /\ pending' = pending /\ calls' = calls /\ faults' = faults /\ sent' = sent
      /\ given' = given /\ mishaps' = mishaps
  BY DEF Checkpoint, Dispatched, engineVars, eventVars, ghostVars
<1>5. CASE op' = Free
  BY <1>1, <1>2, <1>3, <1>4, <1>5 DEF Writes
<1>6. CASE op' # Free
  <2>1. op' = [op EXCEPT !.at = "dispatch"] /\ op.copy.status = "RUNNING"
    BY <1>6 DEF Checkpoint, Dispatched
  <2>2. /\ op' \in Holding /\ op'.id = op.id /\ op'.copy = op.copy /\ op'.at = "dispatch"
    BY <2>1, <1>2 DEF Holding
  <2>3. QED
    BY <2>1, <2>2, <1>1, <1>2, <1>3, <1>4, <1>6 DEF Writes
<1>7. QED
  BY <1>5, <1>6

\* The dispatch of node n.
Sends(n) ==
    /\ op # Free /\ op.id \in Instances /\ op.copy \in Instance /\ op.at = "dispatch"
    /\ op' \in Holding /\ op' # Free /\ op'.at = "dispatch" /\ op'.id = op.id
    /\ op'.copy \in Instance /\ op'.copy.status = op.copy.status
    /\ op'.copy.outs = op.copy.outs /\ op'.copy.handling = op.copy.handling
    /\ op'.copy.since = op.copy.since
    /\ op.copy.nodes[n] = "PENDING" /\ op'.copy.nodes[n] = "RUNNING"
    /\ \A m \in Nodes : m # n => op'.copy.nodes[m] = op.copy.nodes[m]
    /\ \A p \in Parents(n) : op.copy.nodes[p] \in {"SUCCEEDED", "SKIPPED"}
    /\ <<op.id, n>> \in Tasks /\ queued' = queued \cup {<<op.id, n>>}
    /\ sent' \in [Tasks -> Nat] /\ given' \in [Tasks -> SUBSET Nodes]
    /\ sent'[<<op.id, n>>] = sent[<<op.id, n>>] + 1 /\ given'[<<op.id, n>>] = op.copy.outs
    /\ \A u \in Tasks : u # <<op.id, n>> => sent'[u] = sent[u] /\ given'[u] = given[u]
    /\ edges' = edges /\ row' = row /\ running' = running /\ log' = log /\ stored' = stored
    /\ pending' = pending /\ calls' = calls /\ faults' = faults /\ mishaps' = mishaps

\* _dispatch_eligible_nodes, one turn of its loop.
LEMMA DispatchFacts ==
    ASSUME TypeOK, NEW n \in Nodes, Dispatch(n)
    PROVE  Sends(n)
<1>1. op # Free /\ op.at = "dispatch"
  BY FreeFacts DEF Dispatch
<1>2. op \in Holding /\ op.id \in Instances /\ op.copy \in Instance
  BY <1>1, OpFacts
<1>3. /\ op.copy.nodes[n] = "PENDING"
      /\ \A p \in Parents(n) : op.copy.nodes[p] \in {"SUCCEEDED", "SKIPPED"}
  BY DEF Dispatch, Eligible
<1>4. PICK t \in Tasks : t = <<op.id, n>>
  BY <1>2 DEF Tasks
<1>5. /\ op' = [op EXCEPT !.copy.nodes[n] = "RUNNING"]
      /\ queued' = queued \cup {t}
      /\ sent' = [sent EXCEPT ![t] = @ + 1] /\ given' = [given EXCEPT ![t] = op.copy.outs]
      /\ edges' = edges /\ row' = row /\ running' = running /\ log' = log
      /\ stored' = stored
      /\ pending' = pending /\ calls' = calls /\ faults' = faults /\ mishaps' = mishaps
  BY <1>4 DEF Dispatch, eventVars
<1>6. PICK states : states = [op.copy.nodes EXCEPT ![n] = "RUNNING"]
  OBVIOUS
<1>7. /\ states \in [Nodes -> NodeState] /\ states[n] = "RUNNING"
      /\ \A m \in Nodes : m # n => states[m] = op.copy.nodes[m]
  BY <1>2, <1>6, InstanceFacts DEF NodeState
<1>8. op' = [op EXCEPT !.copy = [op.copy EXCEPT !.nodes = states]]
  BY <1>5, <1>6
<1>9. PICK copy : copy = [op.copy EXCEPT !.nodes = states]
  OBVIOUS
<1>10. /\ copy \in Instance /\ copy.nodes = states /\ copy.status = op.copy.status
       /\ copy.outs = op.copy.outs /\ copy.handling = op.copy.handling
       /\ copy.since = op.copy.since
  BY <1>2, <1>7, <1>9 DEF Instance
<1>11. /\ op' \in Holding /\ op'.at = "dispatch" /\ op'.id = op.id /\ op'.copy = copy
  BY <1>1, <1>2, <1>8, <1>9, <1>10 DEF Holding
<1>12. op' # Free
  BY <1>11, FreeFacts
<1>13. op.copy.outs \subseteq Nodes
  BY <1>2, InstanceFacts
<1>14. /\ sent' \in [Tasks -> Nat] /\ given' \in [Tasks -> SUBSET Nodes]
       /\ sent'[t] = sent[t] + 1 /\ given'[t] = op.copy.outs
       /\ \A u \in Tasks : u # t => sent'[u] = sent[u] /\ given'[u] = given[u]
  BY <1>5, <1>13 DEF TypeOK
<1>15. /\ op'.copy \in Instance /\ op'.copy.status = op.copy.status
       /\ op'.copy.outs = op.copy.outs /\ op'.copy.handling = op.copy.handling
       /\ op'.copy.since = op.copy.since /\ op'.copy.nodes[n] = "RUNNING"
       /\ \A m \in Nodes : m # n => op'.copy.nodes[m] = op.copy.nodes[m]
  BY <1>7, <1>10, <1>11
<1>16. QED
  BY <1>1, <1>2, <1>3, <1>4, <1>5, <1>11, <1>12, <1>14, <1>15 DEF Sends

\* A call raises.
Fails ==
    /\ op # Free /\ op.id \in Instances /\ op' = Free /\ faults' \in 0..MaxFaults
    /\ mishaps' \in [Instances -> Mishaps] /\ "raised" \in mishaps'[op.id]
    /\ mishaps[op.id] \subseteq mishaps'[op.id]
    /\ "recovered" \in mishaps'[op.id] => "recovered" \in mishaps[op.id]
    /\ \A j \in Instances : j # op.id => mishaps'[j] = mishaps[j]
    /\ edges' = edges /\ row' = row /\ queued' = queued /\ running' = running /\ log' = log
    /\ stored' = stored
    /\ pending' = pending /\ calls' = calls /\ sent' = sent /\ given' = given

\* The exception leaves nothing of the call but what it had written.
LEMMA RaiseFacts ==
    ASSUME TypeOK, Raise
    PROVE  Fails
<1>1. op # Free /\ op.id \in Instances
  BY OpFacts DEF Raise
<1>2. faults' \in 0..MaxFaults
  BY ConstantsAssumption DEF Raise, TypeOK
<1>3. mishaps \in [Instances -> Mishaps]
      /\ mishaps' = [mishaps EXCEPT ![op.id] = @ \cup {"raised"}]
  BY DEF Raise, TypeOK, Mishaps
<1>4. mishaps[op.id] \cup {"raised"} \in Mishaps
  BY <1>1, <1>3 DEF Mishaps
<1>5. mishaps' \in [Instances -> Mishaps]
  BY <1>3, <1>4
<1>6. /\ mishaps'[op.id] = mishaps[op.id] \cup {"raised"}
      /\ \A j \in Instances : j # op.id => mishaps'[j] = mishaps[j]
  BY <1>1, <1>3
<1>7. QED
  BY <1>1, <1>2, <1>5, <1>6 DEF Fails, Raise, engineVars, eventVars, ghostVars

\* A crash.
Dies ==
    /\ op' = Free /\ queued' = {} /\ pending' = {} /\ faults' \in 0..MaxFaults
    /\ running' \in [Tasks -> Nat] /\ \A t \in Tasks : running'[t] = 0
    /\ mishaps' \in [Instances -> Mishaps]
    /\ \A i \in Instances : /\ row[i] = NoInstance => mishaps'[i] = mishaps[i]
                            /\ row[i] # NoInstance => "crashed" \in mishaps'[i]
                            /\ "recovered" \in mishaps'[i] <=> "recovered" \in mishaps[i]
    /\ edges' = edges /\ row' = row /\ log' = log
    /\ stored' = stored /\ calls' = calls /\ sent' = sent
    /\ given' = given

\* The rows and the log survive it.
LEMMA CrashFacts ==
    ASSUME TypeOK, Crash
    PROVE  Dies
<1>1. faults' \in 0..MaxFaults
  BY ConstantsAssumption DEF Crash, TypeOK
<1>2. mishaps \in [Instances -> Mishaps]
      /\ mishaps' = [i \in Instances |-> IF row[i] = NoInstance THEN mishaps[i]
                       ELSE (mishaps[i] \ {"raised"}) \cup {"crashed"}]
  BY DEF Crash, TypeOK, Mishaps
<1>3. \A i \in Instances : (mishaps[i] \ {"raised"}) \cup {"crashed"} \in Mishaps
  BY <1>2 DEF Mishaps
<1>4. mishaps' \in [Instances -> Mishaps]
  BY <1>2, <1>3
<1>5. \A i \in Instances : /\ row[i] = NoInstance => mishaps'[i] = mishaps[i]
                           /\ row[i] # NoInstance => "crashed" \in mishaps'[i]
                           /\ "recovered" \in mishaps'[i] <=> "recovered" \in mishaps[i]
  BY <1>2
<1>6. QED
  BY <1>1, <1>4, <1>5 DEF Dies, Crash, ghostVars

----------------------------------------------------------------------------
(* Types, the lock and the scheduler's tasks.                              *)

\* A step that keeps the log keeps what is logged.
LEMMA SameLog ==
    ASSUME log' = log, NEW t, NEW kinds
    PROVE  (Logged(t, kinds)' <=> Logged(t, kinds)) /\ (Ended(t)' <=> Ended(t))
  BY DEF Logged, Ended

\* A call begins.
LEMMA BeginsBase ==
    ASSUME Base, NEW i \in Instances, NEW where \in {"save", "dispatch"},
           NEW copy \in Instance, Begins(i, where, copy)
    PROVE  Base'
<1>1. TypeOK'
  BY DEF Base, TypeOK, Begins, Holding, Mishaps
<1>2. Held'
  BY DEF Held, Begins
<1>3. Known'
  BY SameLog DEF Base, Known, Begins, InEngine
<1>4. QED
  BY <1>1, <1>2, <1>3 DEF Base

\* An event is dropped.
LEMMA DropsBase ==
    ASSUME Base, NEW k, NEW i \in Instances, Drops(k, i)
    PROVE  Base'
<1>1. TypeOK'
  BY DEF Base, TypeOK, Drops, Mishaps
<1>2. Held'
  BY DEF Base, Held, Drops
<1>3. Known'
  BY SameLog DEF Base, Known, Drops, InEngine
<1>4. QED
  BY <1>1, <1>2, <1>3 DEF Base

\* A checkpoint.
LEMMA WritesBase ==
    ASSUME Base, Writes
    PROVE  Base'
<1>1. TypeOK'
  BY DEF Base, TypeOK, Writes, Holding
<1>2. op.copy # NoInstance
  BY InstanceFacts DEF Writes
<1>3. Held'
  BY <1>2 DEF Held, Writes
<1>4. Known'
  <2>1. \A t \in Tasks : t[1] \in Instances
    BY DEF Tasks
  <2>2. QED
    BY <2>1, <1>2, SameLog DEF Base, Known, Writes, InEngine
<1>5. QED
  BY <1>1, <1>3, <1>4 DEF Base

\* A node is dispatched.
LEMMA SendsBase ==
    ASSUME Base, NEW n \in Nodes, Sends(n)
    PROVE  Base'
<1>1. TypeOK'
  BY DEF Base, TypeOK, Sends, Holding
<1>2. row[op.id] # NoInstance
  BY DEF Base, Held, Sends
<1>3. Held'
  BY DEF Base, Held, Sends
<1>4. Known'
  <2>1. ASSUME NEW t \in Tasks, (InEngine(t) \/ sent[t] > 0 \/ Ended(t))'
        PROVE  row'[t[1]] # NoInstance
    <3>1. CASE t = <<op.id, n>>
      BY <3>1, <1>2 DEF Sends
    <3>2. CASE t # <<op.id, n>>
      BY <2>1, <3>2, SameLog DEF Base, Known, Sends, InEngine
    <3>3. QED
      BY <3>1, <3>2
  <2>2. QED
    BY <2>1 DEF Known
<1>5. QED
  BY <1>1, <1>3, <1>4 DEF Base

\* A call raises.
LEMMA FailsBase ==
    ASSUME Base, Fails
    PROVE  Base'
<1>1. TypeOK'
  BY DEF Base, TypeOK, Fails, Mishaps
<1>2. Held'
  BY DEF Held, Fails
<1>3. Known'
  BY SameLog DEF Base, Known, Fails, InEngine
<1>4. QED
  BY <1>1, <1>2, <1>3 DEF Base

\* The process dies.
LEMMA DiesBase ==
    ASSUME Base, Dies
    PROVE  Base'
<1>1. TypeOK'
  BY DEF Base, TypeOK, Dies, Mishaps
<1>2. Held'
  BY DEF Held, Dies
<1>3. Known'
  BY SMTT(30), SameLog DEF Base, Known, Dies, InEngine
<1>4. QED
  BY <1>1, <1>2, <1>3 DEF Base

\* The engine takes a task.
LEMMA EngineStartBase ==
    ASSUME Base, NEW t \in Tasks, EngineStart(t)
    PROVE  /\ Base'
           /\ queued' = queued \ {t} /\ t \in queued /\ running'[t] = running[t] + 1
           /\ \A u \in Tasks : u # t => running'[u] = running[u]
           /\ running[t] \in Nat
<1>1. /\ t \in queued /\ queued' = queued \ {t} /\ running' = [running EXCEPT ![t] = @ + 1]
      /\ edges' = edges /\ row' = row /\ op' = op /\ log' = log
      /\ stored' = stored /\ pending' = pending
      /\ calls' = calls /\ faults' = faults /\ sent' = sent /\ given' = given
      /\ mishaps' = mishaps
  BY DEF EngineStart, eventVars, ghostVars
<1>2. /\ running' \in [Tasks -> Nat] /\ running'[t] = running[t] + 1 /\ running[t] \in Nat
      /\ \A u \in Tasks : u # t => running'[u] = running[u]
  BY <1>1 DEF Base, TypeOK
<1>3. TypeOK'
  BY <1>1, <1>2 DEF Base, TypeOK
<1>4. Held'
  BY <1>1 DEF Base, Held
<1>5. Known'
  BY <1>1, <1>2, SameLog DEF Base, Known, InEngine
<1>6. QED
  BY <1>1, <1>2, <1>3, <1>4, <1>5 DEF Base

\* An execution ends.
LEMMA EngineFinishBase ==
    ASSUME Base, NEW t \in Tasks, EngineFinish(t)
    PROVE  /\ Base' /\ InEngine(t)
           /\ running'[t] = running[t] - 1 /\ running[t] \in Nat
           /\ \A u \in Tasks : u # t => running'[u] = running[u]
<1>1. /\ running[t] > 0 /\ running' = [running EXCEPT ![t] = @ - 1]
      /\ edges' = edges /\ row' = row /\ op' = op /\ queued' = queued
      /\ pending' = pending \cup {Len(log) + 1}
      /\ calls' = calls /\ faults' = faults /\ sent' = sent /\ given' = given
      /\ mishaps' = mishaps
  BY DEF EngineFinish, ghostVars
<1>2. running \in [Tasks -> Nat]
  BY DEF Base, TypeOK
<1>3. running[t] \in Nat /\ running[t] - 1 \in Nat
  BY <1>1, <1>2
<1>4. /\ running' \in [Tasks -> Nat] /\ running'[t] = running[t] - 1
      /\ \A u \in Tasks : u # t => running'[u] = running[u]
  BY <1>1, <1>2, <1>3
<1>5. log' \in Seq(Events) /\ pending' \subseteq DOMAIN log' /\ stored' \in Nat
  <2>1. PICK e \in Events :
             /\ stored \in Nat /\ stored' = stored + 1
             /\ log' \in Seq(Events) /\ Len(log) \in Nat
             /\ DOMAIN log' = 1..(Len(log) + 1)
             /\ \A k \in DOMAIN log : k \in DOMAIN log'
    BY FinishFacts DEF Base
  <2>2. Len(log) + 1 \in DOMAIN log'
    BY <2>1
  <2>3. pending \subseteq DOMAIN log
    BY DEF Base, TypeOK
  <2>4. QED
    BY <2>1, <2>2, <2>3, <1>1
<1>6. TypeOK'
  BY <1>1, <1>4, <1>5 DEF Base, TypeOK
<1>7. Held'
  BY <1>1 DEF Base, Held
<1>8. InEngine(t)
  BY <1>1 DEF InEngine
<1>9. Known'
  <2>1. ASSUME NEW u \in Tasks, (InEngine(u) \/ sent[u] > 0 \/ Ended(u))'
        PROVE  row'[u[1]] # NoInstance
    <3>1. CASE u = t
      BY <3>1, <1>1, <1>8 DEF Base, Known
    <3>2. CASE u # t
      <4>1. Ended(u)' => Ended(u)
        BY <3>2, LoggedGrows DEF Ended, Base
      <4>2. QED
        BY <2>1, <3>2, <4>1, <1>1, <1>4 DEF Base, Known, InEngine
    <3>3. QED
      BY <3>1, <3>2
  <2>2. QED
    BY <2>1 DEF Known
<1>10. QED
  BY <1>3, <1>4, <1>6, <1>7, <1>8, <1>9 DEF Base

\* The calls take the lock for one instance.
LEMMA CallBegins ==
    ASSUME Base, NEW i \in Instances,
           \/ StartWorkflow(i) \/ PauseWorkflow(i) \/ ResumeWorkflow(i) \/ CancelWorkflow(i)
           \/ RecoverWorkflow(i) \/ OnOtherEvent(i)
    PROVE  \E where \in {"save", "dispatch"}, copy \in Instance : Begins(i, where, copy)
  BY StartBegins, PauseBegins, CancelBegins, RecoverBegins, OtherBegins

\* The engine stores an event of its own, or nothing happens.
Idles ==
    /\ edges' = edges /\ row' = row /\ op' = op /\ queued' = queued /\ running' = running
    /\ log' = log /\ pending' = pending /\ faults' = faults
    /\ sent' = sent /\ given' = given /\ mishaps' = mishaps
    /\ stored' \in Nat /\ stored <= stored' /\ calls' \in 0..MaxCalls

\* Both are such steps.
LEMMA IdleFacts ==
    ASSUME Base, EngineLogs \/ UNCHANGED vars
    PROVE  Idles
<1>1. stored \in Nat /\ calls \in 0..MaxCalls /\ MaxCalls \in Nat
  BY ConstantsAssumption DEF Base, TypeOK
<1>2. CASE EngineLogs
  BY <1>1, <1>2 DEF EngineLogs, Idles, Counted, engineVars, ghostVars
<1>3. CASE UNCHANGED vars
  BY <1>1, <1>3 DEF vars, Idles, engineVars, eventVars, ghostVars
<1>4. QED
  BY <1>2, <1>3

\* Such a step changes nothing of it.
LEMMA IdleBase ==
    ASSUME Base, Idles
    PROVE  Base'
  BY SameLog DEF Idles, Base, TypeOK, Held, Known, InEngine

\* Every step keeps it.
LEMMA NextBase ==
    ASSUME Base, [Next]_vars
    PROVE  Base'
<1>1. ASSUME NEW i \in Instances,
             \/ StartWorkflow(i) \/ PauseWorkflow(i) \/ ResumeWorkflow(i)
             \/ CancelWorkflow(i) \/ RecoverWorkflow(i) \/ OnOtherEvent(i)
      PROVE  Base'
  BY <1>1, CallBegins, BeginsBase
<1>2. ASSUME NEW k \in DOMAIN log, OnRuntimeEvent(k) PROVE Base'
  <2>1. PICK i : i = log[k].task[1]
    OBVIOUS
  <2>2. CASE row[i].status = "RUNNING"
    <3>1. i \in Instances /\ \E copy \in Instance : Begins(i, "save", copy)
      BY <1>2, <2>1, <2>2, EventBegins
    <3>2. QED
      BY <3>1, BeginsBase
  <2>3. CASE row[i].status # "RUNNING"
    BY <1>2, <2>1, <2>3, EventDrops, DropsBase
  <2>4. QED
    BY <2>2, <2>3
<1>3. CASE Checkpoint \/ Dispatched
  BY <1>3, WriteFacts, WritesBase DEF Base
<1>4. ASSUME NEW n \in Nodes, Dispatch(n) PROVE Base'
  BY <1>4, DispatchFacts, SendsBase DEF Base
<1>5. CASE Raise
  BY <1>5, RaiseFacts, FailsBase DEF Base
<1>6. ASSUME NEW t \in Tasks, Engine(t) PROVE Base'
  BY <1>6, EngineStartBase, EngineFinishBase DEF Engine
<1>7. CASE Crash
  BY <1>7, CrashFacts, DiesBase DEF Base
<1>8. CASE EngineLogs \/ UNCHANGED vars
  BY <1>8, IdleFacts, IdleBase
<1>9. QED
  BY <1>1, <1>2, <1>3, <1>4, <1>5, <1>6, <1>7, <1>8 DEF Next, Orchestrator

\* No rows, no call, no tasks.
LEMMA InitBase ==
    ASSUME Init
    PROVE  Base
<1>1. << >> \in Seq(Events) /\ DOMAIN << >> = {}
  OBVIOUS
<1>2. 0 \in 0..MaxCalls /\ 0 \in 0..MaxFaults
  BY ConstantsAssumption
<1>3. TypeOK
  BY <1>1, <1>2 DEF Init, TypeOK
<1>4. Held
  BY DEF Init, Held
<1>5. Known
  BY <1>1 DEF Init, Known, InEngine, Ended, Logged
<1>6. QED
  BY <1>3, <1>4, <1>5 DEF Base

\* The orchestrator's and the engine's state keep their types.
THEOREM Typing == Spec => []TypeOK
<1>1. Init => Base
  BY InitBase
<1>2. Base /\ [Next]_vars => Base'
  BY NextBase
<1>3. Base => TypeOK
  BY DEF Base
<1>4. QED
  BY <1>1, <1>2, <1>3, PTL DEF Spec

----------------------------------------------------------------------------
(* What is over.                                                           *)

\* Only the call that holds the lock changes a row or sends a task.
LEMMA RowStep ==
    ASSUME Base, [Next]_vars
    PROVE  \/ row' = row /\ sent' = sent
           \/ Writes
           \/ \E n \in Nodes : Sends(n)
<1>1. ASSUME NEW i \in Instances,
             \/ StartWorkflow(i) \/ PauseWorkflow(i) \/ ResumeWorkflow(i)
             \/ CancelWorkflow(i) \/ RecoverWorkflow(i) \/ OnOtherEvent(i)
      PROVE  row' = row /\ sent' = sent
  BY <1>1, CallBegins DEF Begins
<1>2. ASSUME NEW k \in DOMAIN log, OnRuntimeEvent(k) PROVE row' = row /\ sent' = sent
  BY <1>2 DEF OnRuntimeEvent, ghostVars
<1>3. CASE Checkpoint \/ Dispatched
  BY <1>3, WriteFacts DEF Base
<1>4. ASSUME NEW n \in Nodes, Dispatch(n) PROVE Sends(n)
  BY <1>4, DispatchFacts DEF Base
<1>5. CASE Raise
  BY <1>5 DEF Raise, ghostVars
<1>6. ASSUME NEW t \in Tasks, Engine(t) PROVE row' = row /\ sent' = sent
  BY <1>6 DEF Engine, EngineStart, EngineFinish, ghostVars
<1>7. CASE Crash
  BY <1>7 DEF Crash, ghostVars
<1>8. CASE EngineLogs \/ UNCHANGED vars
  BY <1>8, IdleFacts DEF Idles
<1>9. QED
  BY <1>1, <1>2, <1>3, <1>4, <1>5, <1>6, <1>7, <1>8 DEF Next, Orchestrator

\* No step changes a workflow that is over.
LEMMA OverStep ==
    ASSUME Base, [Next]_vars, NEW i \in Instances, Is(i, Over)
    PROVE  row'[i] = row[i] /\ \A n \in Nodes : sent'[<<i, n>>] = sent[<<i, n>>]
<1>1. row[i] # NoInstance /\ row[i].status \notin {"RUNNING", "PAUSED"}
  BY DEF Is, Over
<1>2. op # Free => op.id # i
  BY <1>1 DEF Base, Held
<1>3. \A n \in Nodes : <<i, n>> \in Tasks
  BY DEF Tasks
<1>4. CASE Writes
  BY <1>2, <1>4 DEF Writes
<1>5. ASSUME NEW n \in Nodes, Sends(n)
      PROVE  row'[i] = row[i] /\ \A m \in Nodes : sent'[<<i, m>>] = sent[<<i, m>>]
  BY <1>2, <1>3, <1>5 DEF Sends
<1>6. QED
  BY <1>4, <1>5, RowStep

\* A workflow that succeeded, failed or was cancelled stays as it is and none of
\* its nodes is scheduled any more, whatever is delivered late or twice and
\* whatever is called: for any number of instances and any graph.
THEOREM Finality == Spec => OverIsOver
<1>1. Base /\ [Next]_vars
        => [\A i \in Instances : Is(i, Over) =>
              /\ row'[i] = row[i]
              /\ \A n \in Nodes : sent'[<<i, n>>] = sent[<<i, n>>]]_vars
  BY OverStep
<1>2. Init => Base
  BY InitBase
<1>3. Base /\ [Next]_vars => Base'
  BY NextBase
<1>4. QED
  BY <1>1, <1>2, <1>3, PTL DEF Spec, OverIsOver

----------------------------------------------------------------------------
(* What the states of the nodes rest on.                                   *)

\* What is true of an instance stays true while nothing is stored.
LEMMA TruthfulKept ==
    ASSUME NEW i, NEW inst, Truthful(i, inst), log' = log, stored' = stored,
           Apart' => Apart, "recovered" \notin mishaps'[i] => "recovered" \notin mishaps[i]
    PROVE  Truthful(i, inst)'
  BY SameLog DEF Truthful, Earned, Attested, Later

\* ... while events are stored that name no node.
LEMMA TruthfulIdle ==
    ASSUME NEW i, NEW inst \in Instance, Truthful(i, inst), log' = log,
           stored \in Nat, stored' \in Nat, stored <= stored',
           Apart' => Apart, "recovered" \notin mishaps'[i] => "recovered" \notin mishaps[i]
    PROVE  Truthful(i, inst)'
<1>1. inst.since \in Nat
  BY InstanceFacts
<1>2. QED
  BY <1>1, SameLog DEF Truthful, Earned, Attested, Later

\* ... whatever is logged.
LEMMA TruthfulFinish ==
    ASSUME TypeOK, NEW t \in Tasks, EngineFinish(t), NEW i, NEW inst, inst.since \in Nat,
           Truthful(i, inst)
    PROVE  Truthful(i, inst)'
<1>1. mishaps' = mishaps
  BY DEF EngineFinish
<1>2. Earned(i, inst)'
  BY <1>1 DEF Truthful, Earned
<1>3. Attested(i, inst)'
  BY <1>1, LoggedGrows DEF Truthful, Attested, Ended, Apart
<1>4. Later(i, inst)'
  <2>1. PICK e \in Events :
           /\ stored \in Nat /\ stored' = stored + 1 /\ e.place = stored + 1
           /\ log'[Len(log) + 1] = e
           /\ \A k \in DOMAIN log : log'[k] = log[k]
           /\ \A k \in DOMAIN log' : k \in DOMAIN log \/ k = Len(log) + 1
    BY FinishFacts
  <2>2. /\ inst.since <= stored
        /\ \A k \in DOMAIN log : log[k].task[1] = i => inst.since < log[k].place
    BY DEF Truthful, Later
  <2>3. inst.since <= stored' /\ inst.since < e.place
    BY <2>1, <2>2
  <2>4. QED
    BY <2>1, <2>2, <2>3 DEF Later
<1>5. QED
  BY <1>2, <1>3, <1>4 DEF Truthful

\* The row of an instance, named.
LEMMA TruthfulRow ==
    ASSUME NEW i, NEW inst, row'[i] = inst, Truthful(i, inst)'
    PROVE  Truthful(i, row[i])'
  BY DEF Truthful, Earned, Attested, Later

\* The copy a call works on, named.
LEMMA TruthfulCopy ==
    ASSUME NEW i, NEW inst, op'.id = i, op'.copy = inst, Truthful(i, inst)'
    PROVE  Truthful(op.id, op.copy)'
  BY DEF Truthful, Earned, Attested, Later

\* A recovery is never forgotten.
LEMMA ApartKept ==
    ASSUME \A i \in Instances : "recovered" \in mishaps[i] => "recovered" \in mishaps'[i]
    PROVE  Apart' => Apart
  BY DEF Apart

\* A new instance.
LEMMA TruthfulNew ==
    ASSUME Base, NEW i \in Instances, row[i] = NoInstance, NEW inst \in Instance,
           inst.since = stored, inst.status = "RUNNING",
           \A n \in Nodes : inst.nodes[n] = "PENDING"
    PROVE  Truthful(i, inst)
<1>1. ASSUME NEW k \in DOMAIN log, log[k].task[1] = i PROVE FALSE
  <2>1. log[k].task \in Tasks /\ Ended(log[k].task)
    BY EventFacts DEF Base
  <2>2. QED
    BY <2>1, <1>1 DEF Base, Known
<1>2. stored \in Nat
  BY DEF Base, TypeOK
<1>3. QED
  BY <1>1, <1>2 DEF Truthful, Earned, Attested, Later

\* An instance to which an event of its own was applied.
LEMMA TruthfulApplied ==
    ASSUME TypeOK, NEW i \in Instances, NEW inst \in Instance, inst.status = "RUNNING",
           Truthful(i, inst), NEW n \in Nodes, NEW kind,
           Ended(<<i, n>>), Logged(<<i, n>>, {kind}),
           NEW mid, mid = Applied(inst, n, kind)
    PROVE  Truthful(i, mid)
<1>1. /\ mid.handling = inst.handling /\ mid.since = inst.since
      /\ \A m \in Nodes : m # n => mid.nodes[m] = inst.nodes[m]
  <2>1. mid.handling = inst.handling /\ mid.since = inst.since
    BY AppliedFacts
  <2>2. \A m \in Nodes \ {n} : mid.nodes[m] = inst.nodes[m]
    BY AppliedFacts
  <2>3. QED
    BY <2>1, <2>2, InstanceFacts
<1>2. CASE kind = "completed"
  <2>1. mid.nodes[n] = "SUCCEEDED" /\ mid.status = inst.status /\ mid.outs = inst.outs \cup {n}
    BY <1>2, AppliedFacts
  <2>2. Earned(i, mid)
    BY <2>1, <1>1 DEF Truthful, Earned
  <2>3. Attested(i, mid)
    BY <2>1, <1>1, <1>2 DEF Truthful, Attested
  <2>4. QED
    BY <2>2, <2>3, <1>1 DEF Truthful, Later
<1>3. CASE kind # "completed"
  <2>1. /\ mid.nodes[n] = FailedState(inst) /\ mid.outs = inst.outs
        /\ inst.handling = "IGNORE" => mid.status = inst.status
        /\ inst.handling # "IGNORE" => mid.status = "FAILED"
    BY <1>3, AppliedFacts
  <2>2. /\ FailedState(inst) \in {"SKIPPED", "FAILED"}
        /\ FailedState(inst) = "SKIPPED" <=> inst.handling = "IGNORE"
    BY FailedStateFacts
  <2>3. Earned(i, mid)
    BY <2>1, <2>2, <1>1 DEF Truthful, Earned
  <2>4. Attested(i, mid)
    BY <2>1, <2>2, <1>1 DEF Truthful, Attested
  <2>5. QED
    BY <2>3, <2>4, <1>1 DEF Truthful, Later
<1>4. QED
  BY <1>2, <1>3

\* An instance whose end was noticed.
LEMMA TruthfulConcluded ==
    ASSUME NEW i \in Instances, NEW inst \in Instance, Truthful(i, inst),
           NEW new, new = Concluded(inst)
    PROVE  Truthful(i, new)
<1>1. /\ new.nodes = inst.nodes /\ new.outs = inst.outs
      /\ new.handling = inst.handling /\ new.since = inst.since
      /\ \/ new.status = inst.status
         \/ new.status = "SUCCEEDED" /\ Completed(inst) /\ inst.status = "RUNNING"
  BY ConcludedFacts
<1>2. Earned(i, new)
  <2>1. CASE new.status = inst.status
    BY <2>1, <1>1 DEF Truthful, Earned
  <2>2. CASE new.status = "SUCCEEDED" /\ Completed(inst) /\ inst.status = "RUNNING"
    <3>1. \A n \in Nodes : /\ inst.nodes[n] \in NodeState
                           /\ inst.nodes[n] \notin {"PENDING", "RUNNING"}
      BY <2>2, InstanceFacts DEF Completed
    <3>2. QED
      BY <2>2, <3>1, <1>1 DEF Truthful, Earned, NodeState
  <2>3. QED
    BY <2>1, <2>2, <1>1
<1>3. Attested(i, new) /\ Later(i, new)
  BY <1>1 DEF Truthful, Attested, Later
<1>4. QED
  BY <1>2, <1>3 DEF Truthful

\* A recovered instance.
LEMMA TruthfulReconciled ==
    ASSUME TypeOK, NEW i \in Instances, NEW inst \in Instance, Truthful(i, inst),
           NEW new, new = Reconciled(inst), log' = log, stored' = stored,
           "recovered" \in mishaps'[i],
           Apart' => Apart
    PROVE  Truthful(i, new)'
<1>1. /\ new.handling = inst.handling /\ new.since = inst.since
      /\ new.outs = inst.outs \cup {n \in Nodes : \E k \in Replayed(inst) :
                                      log[k].task[2] = n /\ log[k].kind = "completed"}
      /\ \A n \in Nodes : new.nodes[n] =
           IF \E k \in Replayed(inst) : Decisive(inst, n, k) /\ log[k].kind = "completed"
           THEN "SUCCEEDED"
           ELSE IF \E k \in Replayed(inst) : Decisive(inst, n, k)
                THEN FailedState(inst) ELSE inst.nodes[n]
  BY ReconciledFacts
<1>2. /\ FailedState(inst) \in {"SKIPPED", "FAILED"}
      /\ FailedState(inst) = "SKIPPED" <=> inst.handling = "IGNORE"
  BY FailedStateFacts
<1>3. \A n \in Nodes : \A k \in Replayed(inst) :
         Decisive(inst, n, k) => k \in DOMAIN log /\ log[k].task[2] = n
  BY DEF Decisive, Replayed
<1>4. Earned(i, new)'
  <2>1. ASSUME NEW n \in Nodes PROVE new.nodes[n] = "SUCCEEDED" => n \in new.outs
    BY <1>1, <1>2, <1>3 DEF Truthful, Earned
  <2>2. ASSUME NEW n \in Nodes PROVE new.nodes[n] = "SKIPPED" => new.handling = "IGNORE"
    BY <1>1, <1>2 DEF Truthful, Earned
  <2>3. QED
    BY <2>1, <2>2 DEF Earned
<1>5. ASSUME Apart', NEW n \in Nodes
      PROVE  /\ new.nodes[n] = "SUCCEEDED" => Logged(<<i, n>>, {"completed"})'
             /\ new.nodes[n] = "SKIPPED" => Ended(<<i, n>>)'
  <2>1. \A j \in Instances : i = j
    BY <1>5 DEF Apart
  <2>2. ASSUME NEW k \in Replayed(inst), Decisive(inst, n, k)
        PROVE  k \in DOMAIN log /\ log[k].task = <<i, n>>
    <3>1. k \in DOMAIN log /\ log[k].task[2] = n
      BY <2>2, <1>3
    <3>2. log[k].task = <<log[k].task[1], log[k].task[2]>> /\ log[k].task[1] \in Instances
      BY <3>1, EventFacts
    <3>3. QED
      BY <2>1, <3>1, <3>2
  <2>3. ASSUME NEW k \in Replayed(inst), Decisive(inst, n, k)
        PROVE  Ended(<<i, n>>) /\ Logged(<<i, n>>, {log[k].kind})
    BY <2>2, <2>3, EventFacts
  <2>4. /\ inst.nodes[n] = "SUCCEEDED" => Logged(<<i, n>>, {"completed"})
        /\ inst.nodes[n] = "SKIPPED" => Ended(<<i, n>>)
    BY <1>5 DEF Truthful, Attested
  <2>5. /\ new.nodes[n] = "SUCCEEDED" => Logged(<<i, n>>, {"completed"})
        /\ new.nodes[n] = "SKIPPED" => Ended(<<i, n>>)
    BY <2>3, <2>4, <1>1, <1>2
  <2>6. QED
    BY <2>5, SameLog
<1>6. Attested(i, new)'
  BY <1>5 DEF Attested
<1>7. Later(i, new)'
  BY <1>1 DEF Truthful, Later
<1>8. QED
  BY <1>4, <1>6, <1>7 DEF Truthful

\* A call begins with a copy that is true to the log.
LEMMA BeginsSound ==
    ASSUME Base, Sound, NEW i \in Instances, NEW where, NEW copy \in Instance,
           Begins(i, where, copy), Truthful(i, copy)', Apart' => Apart,
           \A j \in Instances : "recovered" \in mishaps[j] => "recovered" \in mishaps'[j]
    PROVE  Sound'
<1>1. ASSUME NEW j \in Instances, row'[j] # NoInstance PROVE Truthful(j, row[j])'
  <2>1. PICK r : r = row[j]
    OBVIOUS
  <2>2. Truthful(j, r)
    BY <2>1, <1>1 DEF Sound, Begins
  <2>3. Truthful(j, r)'
    BY <2>2, TruthfulKept DEF Begins
  <2>4. row'[j] = r
    BY <2>1 DEF Begins
  <2>5. QED
    BY <2>3, <2>4, TruthfulRow
<1>2. Truthful(op.id, op.copy)'
  <2>1. op'.id = i /\ op'.copy = copy
    BY DEF Begins
  <2>2. QED
    BY <2>1, TruthfulCopy
<1>3. QED
  BY <1>1, <1>2 DEF Sound

\* A call that leaves the history alone begins.
LEMMA BeginsSame ==
    ASSUME Base, Sound, NEW i \in Instances, NEW where, NEW copy \in Instance,
           Begins(i, where, copy), Truthful(i, copy), mishaps' = mishaps
    PROVE  Sound'
<1>1. Apart' => Apart
  BY DEF Apart
<1>2. Truthful(i, copy)'
  BY <1>1, TruthfulKept DEF Begins
<1>3. QED
  BY <1>1, <1>2, BeginsSound

\* Rows and log stay and no call is under way after the step.
LEMMA EndsSound ==
    ASSUME Sound, row' = row, log' = log, stored' = stored, op' = Free,
           \A j \in Instances : "recovered" \in mishaps'[j] <=> "recovered" \in mishaps[j]
    PROVE  Sound'
<1>1. Apart' => Apart
  BY DEF Apart
<1>2. ASSUME NEW j \in Instances, row'[j] # NoInstance PROVE Truthful(j, row[j])'
  <2>1. PICK r : r = row[j]
    OBVIOUS
  <2>2. Truthful(j, r) /\ row'[j] = r
    BY <2>1, <1>2 DEF Sound
  <2>3. Truthful(j, r)'
    BY <2>2, <1>1, TruthfulKept
  <2>4. QED
    BY <2>2, <2>3, TruthfulRow
<1>3. QED
  BY <1>2 DEF Sound

\* A checkpoint writes what is true.
LEMMA WritesSound ==
    ASSUME Sound, Writes
    PROVE  Sound'
<1>1. (Apart' => Apart) /\ log' = log /\ stored' = stored /\ mishaps' = mishaps
  BY DEF Apart, Writes
<1>2. PICK i \in Instances : i = op.id
  BY DEF Writes
<1>3. PICK copy : copy = op.copy
  OBVIOUS
<1>4. Truthful(i, copy)
  BY <1>2, <1>3 DEF Sound, Writes
<1>5. Truthful(i, copy)'
  BY <1>1, <1>4, TruthfulKept
<1>6. ASSUME NEW j \in Instances, row'[j] # NoInstance PROVE Truthful(j, row[j])'
  <2>1. CASE j = i
    <3>1. row'[j] = copy
      BY <2>1, <1>2, <1>3 DEF Writes
    <3>2. QED
      BY <2>1, <3>1, <1>5, TruthfulRow
  <2>2. CASE j # i
    <3>1. PICK r : r = row[j]
      OBVIOUS
    <3>2. row'[j] = r /\ Truthful(j, r)
      BY <2>2, <3>1, <1>2, <1>6 DEF Sound, Writes
    <3>3. Truthful(j, r)'
      BY <3>2, <1>1, TruthfulKept
    <3>4. QED
      BY <3>2, <3>3, TruthfulRow
  <2>3. QED
    BY <2>1, <2>2
<1>7. op' # Free => Truthful(op.id, op.copy)'
  <2>1. op' # Free => op'.id = i /\ op'.copy = copy
    BY <1>2, <1>3 DEF Writes
  <2>2. QED
    BY <2>1, <1>5, TruthfulCopy
<1>8. QED
  BY <1>6, <1>7 DEF Sound

\* A dispatched node is RUNNING.
LEMMA SendsSound ==
    ASSUME Sound, NEW n \in Nodes, Sends(n)
    PROVE  Sound'
<1>1. (Apart' => Apart) /\ log' = log /\ stored' = stored /\ mishaps' = mishaps
  BY DEF Apart, Sends
<1>2. PICK i \in Instances : i = op.id
  BY DEF Sends
<1>3. PICK old : old = op.copy
  OBVIOUS
<1>4. PICK new : new = op'.copy
  OBVIOUS
<1>5. Truthful(i, old)
  BY <1>2, <1>3 DEF Sound, Sends
<1>6. /\ new.status = old.status /\ new.outs = old.outs /\ new.handling = old.handling
      /\ new.since = old.since /\ new.nodes[n] = "RUNNING"
      /\ \A m \in Nodes : m # n => new.nodes[m] = old.nodes[m]
      /\ old.nodes[n] = "PENDING"
  BY <1>3, <1>4 DEF Sends
<1>7. Truthful(i, new)
  <2>1. Earned(i, new)
    BY <1>5, <1>6 DEF Truthful, Earned
  <2>2. Attested(i, new) /\ Later(i, new)
    BY <1>5, <1>6 DEF Truthful, Attested, Later
  <2>3. QED
    BY <2>1, <2>2 DEF Truthful
<1>8. Truthful(i, new)'
  BY <1>1, <1>7, TruthfulKept
<1>9. Truthful(op.id, op.copy)'
  <2>1. op'.id = i /\ op'.copy = new
    BY <1>2, <1>4 DEF Sends
  <2>2. QED
    BY <2>1, <1>8, TruthfulCopy
<1>10. ASSUME NEW j \in Instances, row'[j] # NoInstance PROVE Truthful(j, row[j])'
  <2>1. PICK r : r = row[j]
    OBVIOUS
  <2>2. row'[j] = r /\ Truthful(j, r)
    BY <2>1, <1>10 DEF Sound, Sends
  <2>3. Truthful(j, r)'
    BY <2>2, <1>1, TruthfulKept
  <2>4. QED
    BY <2>2, <2>3, TruthfulRow
<1>11. QED
  BY <1>9, <1>10 DEF Sound

\* The engine leaves the instances alone.
LEMMA EngineSound ==
    ASSUME Base, Sound, NEW t \in Tasks, Engine(t)
    PROVE  Sound'
<1>1. row' = row /\ op' = op /\ mishaps' = mishaps
  BY DEF Engine, EngineStart, EngineFinish
<1>2. (Apart' => Apart) /\ (EngineStart(t) => log' = log /\ stored' = stored)
  BY <1>1 DEF Apart, EngineStart, eventVars
<1>3. ASSUME NEW i, NEW inst \in Instance, Truthful(i, inst)
      PROVE  Truthful(i, inst)'
  <2>1. CASE EngineStart(t)
    BY <2>1, <1>1, <1>2, <1>3, TruthfulKept
  <2>2. CASE EngineFinish(t)
    <3>1. inst.since \in Nat
      BY InstanceFacts
    <3>2. QED
      BY <2>2, <3>1, <1>3, TruthfulFinish DEF Base
  <2>3. QED
    BY <2>1, <2>2 DEF Engine
<1>4. ASSUME NEW j \in Instances, row'[j] # NoInstance PROVE Truthful(j, row[j])'
  <2>1. PICK r \in Instance : r = row[j]
    BY <1>1, <1>4 DEF Base, TypeOK
  <2>2. row'[j] = r /\ Truthful(j, r)
    BY <2>1, <1>1, <1>4 DEF Sound
  <2>3. Truthful(j, r)'
    BY <2>2, <1>3
  <2>4. QED
    BY <2>2, <2>3, TruthfulRow
<1>5. ASSUME op' # Free PROVE Truthful(op.id, op.copy)'
  <2>1. PICK i : i = op.id
    OBVIOUS
  <2>2. PICK c \in Instance : c = op.copy
    BY <1>1, <1>5, OpFacts DEF Base
  <2>3. op'.id = i /\ op'.copy = c /\ Truthful(i, c)
    BY <2>1, <2>2, <1>1, <1>5 DEF Sound
  <2>4. Truthful(i, c)'
    BY <2>3, <1>3
  <2>5. QED
    BY <2>3, <2>4, TruthfulCopy
<1>6. QED
  BY <1>4, <1>5 DEF Sound

\* Nor does a step of its that names no node concern them.
LEMMA IdleSound ==
    ASSUME Base, Sound, Idles
    PROVE  Sound'
<1>1. /\ row' = row /\ op' = op /\ mishaps' = mishaps /\ log' = log
      /\ stored \in Nat /\ stored' \in Nat /\ stored <= stored'
  BY DEF Idles, Base, TypeOK
<1>2. Apart' => Apart
  BY <1>1 DEF Apart
<1>3. ASSUME NEW j \in Instances, row'[j] # NoInstance PROVE Truthful(j, row[j])'
  <2>1. PICK r \in Instance : r = row[j]
    BY <1>1, <1>3 DEF Base, TypeOK
  <2>2. row'[j] = r /\ Truthful(j, r)
    BY <2>1, <1>1, <1>3 DEF Sound
  <2>3. Truthful(j, r)'
    BY <2>2, <1>1, <1>2, TruthfulIdle
  <2>4. QED
    BY <2>2, <2>3, TruthfulRow
<1>4. ASSUME op' # Free PROVE Truthful(op.id, op.copy)'
  <2>1. op.copy \in Instance /\ Truthful(op.id, op.copy)
    BY <1>1, <1>4, OpFacts DEF Sound, Base
  <2>2. PICK c, i : c \in Instance /\ c = op.copy /\ i = op.id
    BY <2>1
  <2>3. Truthful(i, c)'
    BY <2>1, <2>2, <1>1, <1>2, TruthfulIdle
  <2>4. QED
    BY <2>2, <2>3, <1>1
<1>5. QED
  BY <1>3, <1>4 DEF Sound

\* Every step keeps it.
LEMMA NextSound ==
    ASSUME Base, Sound, [Next]_vars
    PROVE  Sound'
<1>1. ASSUME NEW i \in Instances, StartWorkflow(i) PROVE Sound'
  <2>1. PICK copy \in Instance :
           /\ Begins(i, "save", copy) /\ row[i] = NoInstance /\ mishaps' = mishaps
           /\ copy.status = "RUNNING" /\ copy.since = stored
           /\ \A n \in Nodes : copy.nodes[n] = "PENDING"
    BY <1>1, StartBegins
  <2>2. Truthful(i, copy)
    BY <2>1, TruthfulNew
  <2>3. QED
    BY <2>1, <2>2, BeginsSame
<1>2. ASSUME NEW i \in Instances, PauseWorkflow(i) \/ ResumeWorkflow(i) PROVE Sound'
  <2>1. PICK copy \in Instance :
           /\ Begins(i, "save", copy) /\ row[i] \in Instance /\ mishaps' = mishaps
           /\ copy.status \in {"RUNNING", "PAUSED"}
           /\ copy.nodes = row[i].nodes /\ copy.outs = row[i].outs
    BY <1>2, PauseBegins
  <2>2. PICK r \in Instance : r = row[i]
    BY <2>1
  <2>3. /\ Truthful(i, r) /\ r.status \in {"RUNNING", "PAUSED"}
        /\ copy.nodes = r.nodes /\ copy.outs = r.outs /\ copy.handling = r.handling
        /\ copy.since = r.since
    BY <2>1, <2>2, InstanceFacts DEF Sound, Begins
  <2>4. Truthful(i, copy)
    BY <2>1, <2>3 DEF Truthful, Earned, Attested, Later
  <2>5. QED
    BY <2>1, <2>4, BeginsSame
<1>3. ASSUME NEW i \in Instances, CancelWorkflow(i) PROVE Sound'
  <2>1. PICK copy \in Instance :
           /\ Begins(i, "save", copy) /\ row[i] \in Instance /\ mishaps' = mishaps
           /\ copy.status = "CANCELLED" /\ copy.outs = row[i].outs
           /\ \A n \in Nodes :
                IF row[i].nodes[n] \in {"PENDING", "RUNNING"}
                THEN copy.nodes[n] = "CANCELLED" ELSE copy.nodes[n] = row[i].nodes[n]
    BY <1>3, CancelBegins
  <2>2. PICK r \in Instance : r = row[i]
    BY <2>1
  <2>3. /\ Truthful(i, r)
        /\ copy.outs = r.outs /\ copy.handling = r.handling /\ copy.since = r.since
        /\ \A n \in Nodes : copy.nodes[n] = "CANCELLED" \/ copy.nodes[n] = r.nodes[n]
    BY <2>1, <2>2, InstanceFacts DEF Sound, Begins
  <2>4. Earned(i, copy)
    BY <2>1, <2>3 DEF Truthful, Earned
  <2>5. Attested(i, copy) /\ Later(i, copy)
    BY <2>3 DEF Truthful, Attested, Later
  <2>6. Truthful(i, copy)
    BY <2>4, <2>5 DEF Truthful
  <2>7. QED
    BY <2>1, <2>6, BeginsSame
<1>4. ASSUME NEW i \in Instances, RecoverWorkflow(i) PROVE Sound'
  <2>1. PICK copy \in Instance :
           /\ copy = Reconciled(row[i]) /\ Begins(i, "dispatch", copy)
           /\ row[i] \in Instance
           /\ mishaps'[i] = (mishaps[i] \ {"crashed"}) \cup {"recovered"}
    BY <1>4, RecoverBegins
  <2>2. PICK r \in Instance : r = row[i]
    BY <2>1
  <2>3. \A j \in Instances : "recovered" \in mishaps[j] => "recovered" \in mishaps'[j]
    BY <2>1 DEF Begins
  <2>4. Apart' => Apart
    BY <2>3, ApartKept
  <2>5. Truthful(i, r) /\ copy = Reconciled(r) /\ log' = log
                       /\ stored' = stored /\ "recovered" \in mishaps'[i]
    BY <2>1, <2>2, InstanceFacts DEF Sound, Begins
  <2>6. Truthful(i, copy)'
    BY <2>4, <2>5, TruthfulReconciled DEF Base
  <2>7. QED
    BY <2>1, <2>3, <2>4, <2>6, BeginsSound
<1>5. ASSUME NEW i \in Instances, OnOtherEvent(i) PROVE Sound'
  <2>1. PICK copy \in Instance :
           /\ copy = Concluded(row[i]) /\ Begins(i, "save", copy) /\ row[i] \in Instance
           /\ mishaps' = mishaps
    BY <1>5, OtherBegins
  <2>2. PICK r \in Instance : r = row[i]
    BY <2>1
  <2>3. Truthful(i, r) /\ copy = Concluded(r)
    BY <2>1, <2>2, InstanceFacts DEF Sound
  <2>4. Truthful(i, copy)
    BY <2>3, TruthfulConcluded
  <2>5. QED
    BY <2>1, <2>4, BeginsSame
<1>6. ASSUME NEW k \in DOMAIN log, OnRuntimeEvent(k) PROVE Sound'
  <2>1. PICK i : i = log[k].task[1]
    OBVIOUS
  <2>2. PICK n : n = log[k].task[2]
    OBVIOUS
  <2>3. CASE row[i].status = "RUNNING"
    <3>1. i \in Instances /\ n \in Nodes /\ log[k].task = <<i, n>>
      BY <1>6, <2>1, <2>2, <2>3, EventBegins
    <3>2. PICK mid \in Instance, copy \in Instance :
             /\ mid = Applied(row[i], n, log[k].kind) /\ copy = Concluded(mid)
             /\ Begins(i, "save", copy) /\ row[i] \in Instance /\ mishaps' = mishaps
      BY <1>6, <2>1, <2>2, <2>3, EventBegins
    <3>3. PICK kind : kind = log[k].kind
      OBVIOUS
    <3>4. Ended(<<i, n>>) /\ Logged(<<i, n>>, {kind})
      BY <3>1, <3>3, EventFacts DEF Base
    <3>5. PICK r \in Instance : r = row[i]
      BY <3>2
    <3>6. Truthful(i, r) /\ mid = Applied(r, n, kind) /\ r.status = "RUNNING"
      BY <2>3, <3>1, <3>2, <3>3, <3>5, InstanceFacts DEF Sound
    <3>7. Truthful(i, mid)
      BY <3>1, <3>4, <3>6, TruthfulApplied DEF Base
    <3>8. Truthful(i, copy)
      BY <3>1, <3>2, <3>7, TruthfulConcluded
    <3>9. QED
      BY <3>1, <3>2, <3>8, BeginsSame
  <2>4. CASE row[i].status # "RUNNING"
    <3>1. i \in Instances /\ Drops(k, i)
      BY <1>6, <2>1, <2>4, EventDrops
    <3>2. \A j \in Instances : "recovered" \in mishaps'[j] <=> "recovered" \in mishaps[j]
      BY <3>1 DEF Drops
    <3>3. QED
      BY <3>1, <3>2, EndsSound DEF Drops
  <2>5. QED
    BY <2>3, <2>4
<1>7. CASE Checkpoint \/ Dispatched
  BY <1>7, WriteFacts, WritesSound DEF Base
<1>8. ASSUME NEW n \in Nodes, Dispatch(n) PROVE Sound'
  BY <1>8, DispatchFacts, SendsSound DEF Base
<1>9. CASE Raise
  <2>1. Fails
    BY <1>9, RaiseFacts DEF Base
  <2>2. \A j \in Instances : "recovered" \in mishaps'[j] <=> "recovered" \in mishaps[j]
    BY <2>1 DEF Fails
  <2>3. QED
    BY <2>1, <2>2, EndsSound DEF Fails
<1>10. ASSUME NEW t \in Tasks, Engine(t) PROVE Sound'
  BY <1>10, EngineSound
<1>11. CASE Crash
  <2>1. Dies
    BY <1>11, CrashFacts DEF Base
  <2>2. \A j \in Instances : "recovered" \in mishaps'[j] <=> "recovered" \in mishaps[j]
    BY <2>1 DEF Dies
  <2>3. QED
    BY <2>1, <2>2, EndsSound DEF Dies
<1>12. CASE EngineLogs \/ UNCHANGED vars
    BY <1>12, IdleFacts, IdleSound
<1>13. QED
  BY <1>1, <1>2, <1>3, <1>4, <1>5, <1>6, <1>7, <1>8, <1>9, <1>10, <1>11, <1>12
     DEF Next, Orchestrator

\* Nothing exists that could be wrong.
LEMMA InitSound ==
    ASSUME Init
    PROVE  Sound
  BY DEF Init, Sound

\* A workflow that was never recovered succeeds only when every node did, with
\* its output recorded, or failed where its failure is to be ignored: whatever is
\* delivered late, twice or in another order, and wherever a call raises or the
\* process dies.
THEOREM Success == Spec => []SuccessIsEarned
<1>1. Init => Base /\ Sound
  BY InitBase, InitSound
<1>2. Base /\ Sound /\ [Next]_vars => Base' /\ Sound'
  BY NextBase, NextSound
<1>3. Base /\ Sound => SuccessIsEarned
  <2>1. ASSUME Base, Sound, NEW i \in Instances, Is(i, {"SUCCEEDED"}),
               "recovered" \notin mishaps[i], NEW n \in Nodes
        PROVE  \/ row[i].nodes[n] = "SUCCEEDED" /\ n \in row[i].outs
               \/ row[i].nodes[n] = "SKIPPED" /\ row[i].handling = "IGNORE"
    BY <2>1 DEF Is, Sound, Truthful, Earned
  <2>2. QED
    BY <2>1 DEF SuccessIsEarned
<1>4. QED
  BY <1>1, <1>2, <1>3, PTL DEF Spec

----------------------------------------------------------------------------
(* Dependencies.                                                           *)

\* What no step takes back: edges, the log, recoveries; an instance that has a row
\* keeps one, with the policy it was started with.
LEMMA Lasting ==
    ASSUME Base, [Next]_vars
    PROVE  /\ edges' = edges
           /\ \A u, kinds : Logged(u, kinds) => Logged(u, kinds)'
           /\ \A i \in Instances : "recovered" \in mishaps[i] => "recovered" \in mishaps'[i]
           /\ \A i \in Instances : row[i] # NoInstance =>
                row'[i] # NoInstance /\ row'[i].handling = row[i].handling
<1>1. edges' = edges
  BY DEF Next, StartWorkflow, PauseWorkflow, ResumeWorkflow, CancelWorkflow,
     RecoverWorkflow, OnOtherEvent, OnRuntimeEvent, Orchestrator, Checkpoint, Dispatched,
     Dispatch, Raise, Engine, EngineStart, EngineLogs, EngineFinish, Crash, vars
<1>2. ASSUME NEW u, NEW kinds PROVE Logged(u, kinds) => Logged(u, kinds)'
  <2>1. ASSUME NEW t \in Tasks, EngineFinish(t) PROVE Logged(u, kinds) => Logged(u, kinds)'
    BY <2>1, LoggedGrows DEF Base
  <2>2. CASE log' = log
    BY <2>2, SameLog
  <2>3. QED
    BY <2>1, <2>2 DEF Next, StartWorkflow, PauseWorkflow, ResumeWorkflow, CancelWorkflow,
       RecoverWorkflow, OnOtherEvent, OnRuntimeEvent, Orchestrator, Checkpoint, Dispatched,
       Dispatch, Raise, Engine, EngineStart, EngineLogs, Crash, vars, eventVars
<1>3. ASSUME NEW i \in Instances, "recovered" \in mishaps[i]
      PROVE  "recovered" \in mishaps'[i]
  <2>1. mishaps \in [Instances -> Mishaps]
    BY DEF Base, TypeOK, Mishaps
  <2>2. CASE mishaps' = mishaps
    BY <1>3, <2>2
  <2>3. ASSUME NEW j \in Instances, RecoverWorkflow(j) PROVE "recovered" \in mishaps'[i]
    BY <1>3, <2>1, <2>3 DEF RecoverWorkflow
  <2>4. ASSUME NEW k \in DOMAIN log, OnRuntimeEvent(k) PROVE "recovered" \in mishaps'[i]
    BY <1>3, <2>1, <2>4 DEF OnRuntimeEvent
  <2>5. CASE Raise
    BY <1>3, <2>1, <2>5 DEF Raise
  <2>6. CASE Crash
    BY <1>3, <2>1, <2>6 DEF Crash
  <2>7. QED
    BY <2>2, <2>3, <2>4, <2>5, <2>6 DEF Next, StartWorkflow, PauseWorkflow, ResumeWorkflow,
       CancelWorkflow, OnOtherEvent, Orchestrator, Checkpoint, Dispatched, Dispatch, Engine,
       EngineStart, EngineLogs, EngineFinish, vars
<1>4. ASSUME NEW i \in Instances, row[i] # NoInstance
      PROVE  row'[i] # NoInstance /\ row'[i].handling = row[i].handling
  <2>1. CASE Writes
    <3>1. CASE i = op.id
      <4>1. row'[i] = op.copy /\ op.copy \in Instance /\ op # Free
        BY <2>1, <3>1 DEF Writes
      <4>2. op.copy.handling = row[i].handling
        BY <4>1, <3>1, <1>4 DEF Base, Held
      <4>3. QED
        BY <4>1, <4>2, InstanceFacts
    <3>2. CASE i # op.id
      BY <2>1, <3>2, <1>4 DEF Writes
    <3>3. QED
      BY <3>1, <3>2
  <2>2. ASSUME NEW n \in Nodes, Sends(n) PROVE row' = row
    BY <2>2 DEF Sends
  <2>3. QED
    BY <2>1, <2>2, <1>4, RowStep
<1>5. QED
  BY <1>1, <1>2, <1>3, <1>4

\* What each step does to the record of what was sent.
LEMMA SentStep ==
    ASSUME Base, [Next]_vars
    PROVE  (sent' = sent /\ given' = given) \/ \E n \in Nodes : Sends(n)
<1>1. ASSUME NEW n \in Nodes, Dispatch(n) PROVE Sends(n)
  BY <1>1, DispatchFacts DEF Base
<1>2. QED
  BY <1>1 DEF Next, StartWorkflow, PauseWorkflow, ResumeWorkflow, CancelWorkflow,
     RecoverWorkflow, OnOtherEvent, OnRuntimeEvent, Orchestrator, Checkpoint, Dispatched,
     Raise, Engine, EngineStart, EngineLogs, EngineFinish, Crash, vars, ghostVars

\* The task of node n of instance i may be sent: its dependencies are done.
Cleared(i, n) ==
    /\ \A p \in Parents(n) : Logged(<<i, p>>, Excused(i))
    /\ row[i].handling # "IGNORE" => Parents(n) \subseteq given[<<i, n>>]

\* A task that was sent stays cleared.
LEMMA ClearedKept ==
    ASSUME Base, [Next]_vars, NEW i \in Instances, NEW n \in Nodes, Cleared(i, n),
           row[i] # NoInstance, given'[<<i, n>>] = given[<<i, n>>]
    PROVE  Cleared(i, n)'
<1>1. Parents(n)' = Parents(n)
  BY Lasting DEF Parents
<1>2. Excused(i)' = Excused(i) /\ row'[i].handling = row[i].handling
  BY Lasting DEF Excused
<1>3. ASSUME NEW p \in Parents(n) PROVE Logged(<<i, p>>, Excused(i))'
  <2>1. PICK kinds : kinds = Excused(i)
    OBVIOUS
  <2>2. Logged(<<i, p>>, kinds)
    BY <2>1 DEF Cleared
  <2>3. Logged(<<i, p>>, kinds)'
    BY <2>2, Lasting
  <2>4. QED
    BY <2>1, <2>3, <1>2 DEF Logged
<1>4. QED
  BY <1>1, <1>2, <1>3 DEF Cleared

\* A task that is sent is cleared.
LEMMA SendsCleared ==
    ASSUME Base, Sound, Apart, NEW n \in Nodes, Sends(n)
    PROVE  Cleared(op.id, n)'
<1>1. PICK i \in Instances : i = op.id
  BY DEF Sends
<1>2. PICK c \in Instance : c = op.copy
  BY DEF Sends
<1>3. /\ row' = row /\ log' = log
      /\ stored' = stored /\ edges' = edges /\ given'[<<i, n>>] = c.outs
      /\ op'.id = i /\ row[i] # NoInstance /\ row[i].handling = c.handling
      /\ \A p \in Parents(n) : c.nodes[p] \in {"SUCCEEDED", "SKIPPED"}
  BY <1>1, <1>2 DEF Sends, Base, Held
<1>4. /\ \A p \in Nodes : /\ c.nodes[p] = "SUCCEEDED" => p \in c.outs
                          /\ c.nodes[p] = "SKIPPED" => c.handling = "IGNORE"
                          /\ c.nodes[p] = "SUCCEEDED" => Logged(<<i, p>>, {"completed"})
                          /\ c.nodes[p] = "SKIPPED" => Ended(<<i, p>>)
  BY <1>1, <1>2 DEF Sends, Sound, Truthful, Earned, Attested
<1>5. Parents(n)' = Parents(n) /\ Parents(n) \subseteq Nodes
  BY <1>3 DEF Parents
<1>6. ASSUME NEW p \in Parents(n) PROVE Logged(<<i, p>>, Excused(i))
  <2>1. CASE c.nodes[p] = "SUCCEEDED"
    <3>1. Logged(<<i, p>>, {"completed"})
      BY <2>1, <1>4, <1>5
    <3>2. QED
      BY <3>1 DEF Logged, Excused
  <2>2. CASE c.nodes[p] = "SKIPPED"
    <3>1. Ended(<<i, p>>) /\ row[i].handling = "IGNORE"
      BY <2>2, <1>3, <1>4, <1>5
    <3>2. QED
      BY <3>1 DEF Ended, Logged, Excused
  <2>3. QED
    BY <2>1, <2>2, <1>3
<1>7. c.handling # "IGNORE" => Parents(n) \subseteq c.outs
  BY <1>3, <1>4, <1>5
<1>8. QED
  BY <1>3, <1>5, <1>6, <1>7 DEF Cleared, Logged, Excused

\* Whatever was sent is cleared, after every step.
LEMMA NextOrdered ==
    ASSUME Base, Sound, Ordered, [Next]_vars
    PROVE  Ordered'
<1> SUFFICES ASSUME Apart', NEW i \in Instances, NEW n \in Nodes, sent'[<<i, n>>] > 0
             PROVE  Cleared(i, n)'
  BY DEF Ordered, DependenciesFirst, Cleared
<1>1. <<i, n>> \in Tasks
  BY DEF Tasks
<1>2. Apart
  BY Lasting, ApartKept
<1>3. sent[<<i, n>>] > 0 => Cleared(i, n) /\ row[i] # NoInstance
  BY <1>1, <1>2 DEF Ordered, DependenciesFirst, Cleared, Base, Known
<1>4. CASE sent' = sent /\ given' = given
  BY <1>3, <1>4, ClearedKept
<1>5. ASSUME NEW m \in Nodes, Sends(m) PROVE Cleared(i, n)'
  <2>1. CASE <<i, n>> = <<op.id, m>>
    <3>1. op'.id = i /\ m = n
      BY <2>1, <1>5 DEF Sends
    <3>2. Cleared(op.id, m)'
      BY <1>2, <1>5, SendsCleared
    <3>3. QED
      BY <3>1, <3>2 DEF Cleared, Logged, Excused, Parents
  <2>2. CASE <<i, n>> # <<op.id, m>>
    <3>1. sent'[<<i, n>>] = sent[<<i, n>>] /\ given'[<<i, n>>] = given[<<i, n>>]
      BY <2>2, <1>1, <1>5 DEF Sends
    <3>2. QED
      BY <3>1, <1>3, ClearedKept
  <2>3. QED
    BY <2>1, <2>2
<1>6. QED
  BY <1>4, <1>5, SentStep

\* A node's task reaches the scheduler only after the task of every parent ended
\* well (or with a failure that is to be ignored) and with its output: for any
\* graph, whatever is delivered late or twice, whatever raises or crashes; with
\* recoveries too when there is one instance, and otherwise as long as none of
\* the instances was recovered.
THEOREM Dependencies == Spec => [](Apart => DependenciesFirst)
<1>1. Init => Base /\ Sound /\ Ordered
  <2>1. ASSUME Init PROVE Ordered
    BY <2>1 DEF Init, Ordered, DependenciesFirst, Tasks
  <2>2. QED
    BY <2>1, InitBase, InitSound
<1>2. Base /\ Sound /\ Ordered /\ [Next]_vars => Base' /\ Sound' /\ Ordered'
  BY NextBase, NextSound, NextOrdered
<1>3. Ordered => (Apart => DependenciesFirst)
  BY DEF Ordered
<1>4. QED
  BY <1>1, <1>2, <1>3, PTL DEF Spec

----------------------------------------------------------------------------
(* Once.                                                                   *)

\* A set of natural numbers that is not empty has a least element.
LEMMA Least ==
    ASSUME NEW T, T \subseteq Nat, T # {}
    PROVE  \E x \in T : \A y \in T : x <= y
<1>1. PICK R : R = OpToRel(<, Nat)
  OBVIOUS
<1>2. IsWellFoundedOn(R, Nat)
  BY <1>1, NatLessThanWellFounded, Zenon
<1>3. \A x, y \in Nat : x < y => <<x, y>> \in R
  BY <1>1 DEF OpToRel
<1>4. PICK x \in T : \A y \in T : ~ (<<y, x>> \in R)
  BY <1>2, WFMin
<1>5. ASSUME NEW y \in T PROVE x <= y
  <2>1. x \in Nat /\ y \in Nat
    OBVIOUS
  <2>2. ~(y < x)
    BY <2>1, <1>3, <1>4
  <2>3. QED
    BY <2>1, <2>2
<1>6. QED
  BY <1>5

\* One that is bounded has a greatest.
LEMMA Greatest ==
    ASSUME NEW N \in Nat, NEW T, T \subseteq 0..N, T # {}
    PROVE  \E x \in T : \A y \in T : y <= x
<1> DEFINE U == {k \in Nat : \E x \in T : k = N - x}
<1>1. U \subseteq Nat
  OBVIOUS
<1>2. U # {}
  <2>1. PICK x \in T : TRUE
    OBVIOUS
  <2>2. N - x \in Nat
    OBVIOUS
  <2>3. QED
    BY <2>2
<1>3. PICK u \in U : \A v \in U : u <= v
  <2> HIDE DEF U
  <2>1. QED
    BY <1>1, <1>2, Least
<1>4. PICK x \in T : u = N - x
  OBVIOUS
<1>5. ASSUME NEW y \in T PROVE y <= x
  <2>1. N - y \in U /\ y \in 0..N /\ x \in 0..N
    OBVIOUS
  <2>2. N - x <= N - y
    BY <2>1, <1>3, <1>4
  <2>3. QED
    BY <2>1, <2>2
<1>6. QED
  BY <1>5

\* A recovery finds an outcome of every node that has one among the events it reads.
LEMMA RecoveryFinds ==
    ASSUME Base, NEW i \in Instances, NEW inst \in Instance, Later(i, inst),
           NEW n \in Nodes, NEW k \in DOMAIN log, log[k].task = <<i, n>>,
           ~(log[k].place > inst.since + StreamLimit)
    PROVE  \E m \in Replayed(inst) : Decisive(inst, n, m)
<1>1. DOMAIN log = 1..Len(log) /\ Len(log) \in Nat /\ StreamLimit \in Nat
      /\ inst.since \in Nat
  BY ConstantsAssumption, InstanceFacts DEF Base, TypeOK
<1> DEFINE T == {m \in Replayed(inst) : log[m].task[2] = n}
<1>2. T \subseteq 0..Len(log)
  BY <1>1 DEF Replayed
<1>3. T # {}
  <2>1. log[k].task[1] = i /\ log[k].task[2] = n
    OBVIOUS
  <2>2. inst.since < log[k].place
    BY <2>1 DEF Later
  <2>3. log[k].place <= inst.since + StreamLimit
    <3>1. log[k].place \in Nat
      BY EventFacts DEF Base
    <3>2. PICK p \in Nat, q \in Nat : p = log[k].place /\ q = inst.since + StreamLimit
      BY <1>1, <3>1
    <3>3. QED
      BY <3>2
  <2>4. QED
    BY <2>1, <2>2, <2>3 DEF Replayed
<1>4. PICK x \in T : \A y \in T : y <= x
  <2> HIDE DEF T
  <2>1. QED
    BY <1>1, <1>2, <1>3, Greatest
<1>5. QED
  BY <1>4 DEF Decisive

\* No call makes a node PENDING that was not.
LEMMA BeginsDue ==
    ASSUME Base, NEW i \in Instances,
           \/ StartWorkflow(i) \/ PauseWorkflow(i) \/ ResumeWorkflow(i) \/ CancelWorkflow(i)
           \/ RecoverWorkflow(i) \/ OnOtherEvent(i)
    PROVE  \E where \in {"save", "dispatch"}, copy \in Instance :
             /\ Begins(i, where, copy)
             /\ \A n \in Nodes : copy.nodes[n] = "PENDING" =>
                  row[i] = NoInstance \/ row[i].nodes[n] = "PENDING"
             /\ "raised" \in mishaps'[i] <=> "raised" \in mishaps[i]
             /\ mishaps' = mishaps \/ RecoverWorkflow(i)
<1>1. CASE StartWorkflow(i)
  BY <1>1, StartBegins
<1>2. CASE PauseWorkflow(i) \/ ResumeWorkflow(i)
  BY <1>2, PauseBegins
<1>3. CASE CancelWorkflow(i)
  <2>1. PICK copy \in Instance :
           /\ Begins(i, "save", copy) /\ mishaps' = mishaps
           /\ \A n \in Nodes :
                IF row[i].nodes[n] \in {"PENDING", "RUNNING"}
                THEN copy.nodes[n] = "CANCELLED" ELSE copy.nodes[n] = row[i].nodes[n]
    BY <1>3, CancelBegins
  <2>2. \A n \in Nodes : copy.nodes[n] = "PENDING" => row[i].nodes[n] = "PENDING"
    BY <2>1
  <2>3. QED
    BY <2>1, <2>2
<1>4. CASE RecoverWorkflow(i)
  <2>1. PICK copy \in Instance :
           /\ copy = Reconciled(row[i]) /\ Begins(i, "dispatch", copy)
           /\ row[i] \in Instance
           /\ mishaps'[i] = (mishaps[i] \ {"crashed"}) \cup {"recovered"}
    BY <1>4, RecoverBegins
  <2>2. PICK r \in Instance : r = row[i]
    BY <2>1
  <2>3. ASSUME NEW n \in Nodes, copy.nodes[n] = "PENDING" PROVE r.nodes[n] = "PENDING"
    <3>1. copy.nodes[n] = IF \E k \in Replayed(r) : Decisive(r, n, k)
                                                     /\ log[k].kind = "completed"
                          THEN "SUCCEEDED"
                          ELSE IF \E k \in Replayed(r) : Decisive(r, n, k)
                               THEN FailedState(r) ELSE r.nodes[n]
      BY <2>1, <2>2, ReconciledFacts
    <3>2. FailedState(r) # "PENDING"
      BY FailedStateFacts
    <3>3. QED
      BY <3>1, <3>2, <2>3
  <2>4. QED
    BY <1>4, <2>1, <2>2, <2>3
<1>5. CASE OnOtherEvent(i)
  <2>1. PICK copy \in Instance :
           /\ copy = Concluded(row[i]) /\ Begins(i, "save", copy) /\ row[i] \in Instance
           /\ mishaps' = mishaps
    BY <1>5, OtherBegins
  <2>2. copy.nodes = row[i].nodes
    BY <2>1, ConcludedFacts
  <2>3. QED
    BY <2>1, <2>2
<1>6. QED
  BY <1>1, <1>2, <1>3, <1>4, <1>5

\* Neither does an event.
LEMMA EventDue ==
    ASSUME Base, NEW k \in DOMAIN log, OnRuntimeEvent(k), NEW i, i = log[k].task[1],
           row[i].status = "RUNNING"
    PROVE  /\ i \in Instances
           /\ \E copy \in Instance :
                /\ Begins(i, "save", copy) /\ mishaps' = mishaps
                /\ \A n \in Nodes : copy.nodes[n] = "PENDING" => row[i].nodes[n] = "PENDING"
<1>1. PICK n : n = log[k].task[2]
  OBVIOUS
<1>2. i \in Instances /\ n \in Nodes
  BY <1>1, EventBegins
<1>3. PICK mid \in Instance, copy \in Instance :
           /\ mid = Applied(row[i], n, log[k].kind) /\ copy = Concluded(mid)
           /\ Begins(i, "save", copy) /\ row[i] \in Instance /\ mishaps' = mishaps
  BY <1>1, EventBegins
<1>4. PICK r \in Instance : r = row[i]
  BY <1>3
<1>5. PICK kind : kind = log[k].kind
  OBVIOUS
<1>6. mid = Applied(r, n, kind)
  BY <1>3, <1>4, <1>5
<1>7. /\ \A m \in Nodes \ {n} : mid.nodes[m] = r.nodes[m]
      /\ mid.nodes[n] = "SUCCEEDED" \/ mid.nodes[n] = FailedState(r)
  BY <1>2, <1>6, AppliedFacts
<1>8. FailedState(r) # "PENDING"
  BY FailedStateFacts
<1>9. copy.nodes = mid.nodes
  BY <1>3, ConcludedFacts
<1>10. \A m \in Nodes : copy.nodes[m] = "PENDING" => row[i].nodes[m] = "PENDING"
  BY <1>4, <1>7, <1>8, <1>9
<1>11. QED
  BY <1>2, <1>3, <1>10

\* The instance that a call works on, and those it does not.
LEMMA CurrentFacts ==
    ASSUME NEW j \in Instances
    PROVE  /\ op = Free => Current(j) = row[j]
           /\ op.id = j => Current(j) = op.copy
           /\ op.id # j => Current(j) = row[j]
  BY FreeFacts DEF Current

\* ... after a step.
LEMMA CurrentNext ==
    ASSUME NEW j \in Instances
    PROVE  /\ op' = Free => Current(j)' = row'[j]
           /\ op'.id = j => Current(j)' = op'.copy
           /\ op'.id # j => Current(j)' = row'[j]
  BY FreeFacts DEF Current

\* A step that revives no node of j and brings nothing of it into the engine.
LEMMA SingleKept ==
    ASSUME NEW j \in Instances, Single(j), running' = running, queued' \subseteq queued,
           "raised" \in mishaps[j] => "raised" \in mishaps'[j],
           \A n \in Nodes : Due(j, n)' => Due(j, n)
    PROVE  Single(j)'
  BY DEF Single, InEngine

\* ... and nothing into the log.
LEMMA FreshKept ==
    ASSUME NEW j \in Instances, Fresh(j), log' = log, row'[j] = row[j],
           "raised" \in mishaps[j] => "raised" \in mishaps'[j],
           "crashed" \in mishaps[j] => "crashed" \in mishaps'[j],
           "recovered" \in mishaps[j] => "recovered" \in mishaps'[j],
           \A n \in Nodes : Due(j, n)' => Due(j, n)
    PROVE  Fresh(j)'
  BY DEF Fresh, Overlooked

\* ... nor of an instance without a row: there are no outcomes of it.
LEMMA UnknownFresh ==
    ASSUME Base, NEW j \in Instances, row[j] = NoInstance, log' = log
    PROVE  Fresh(j)'
<1>1. ASSUME NEW n \in Nodes, NEW k \in DOMAIN log, log[k].task = <<j, n>> PROVE FALSE
  <2>1. <<j, n>> \in Tasks /\ <<j, n>>[1] = j
    BY DEF Tasks
  <2>2. Ended(<<j, n>>)
    BY <1>1, EventFacts DEF Base
  <2>3. QED
    BY <2>1, <2>2 DEF Base, Known
<1>2. QED
  BY <1>1 DEF Fresh

\* A call that begins revives nothing of the other instances.
LEMMA BeginsOthers ==
    ASSUME Base, NEW i \in Instances, NEW where, NEW copy, Begins(i, where, copy)
    PROVE  /\ \A j \in Instances : j # i =>
                /\ mishaps'[j] = mishaps[j] /\ Current(j)' = Current(j)
                /\ \A n \in Nodes : Due(j, n)' => Due(j, n)
           /\ Current(i) = row[i] /\ Current(i)' = copy
           /\ op = Free /\ row' = row /\ running' = running /\ queued' \subseteq queued
           /\ log' = log /\ stored' = stored /\ pending' \subseteq pending
<1>1. op = Free /\ op'.id = i /\ op'.copy = copy /\ row' = row
  BY DEF Begins
<1>2. \A j \in Instances : j # i => Current(j)' = Current(j)
  BY <1>1, CurrentFacts, CurrentNext
<1>3. \A j \in Instances : j # i => \A n \in Nodes : Due(j, n)' => Due(j, n)
  BY <1>2 DEF Due
<1>4. Current(i) = row[i] /\ Current(i)' = copy
  BY <1>1, CurrentFacts, CurrentNext
<1>5. QED
  BY <1>2, <1>3, <1>4 DEF Begins

\* A call begins, other than recover_workflow.
LEMMA BeginsOnce ==
    ASSUME Base, Once, NEW i \in Instances, NEW where, NEW copy \in Instance,
           Begins(i, where, copy), mishaps' = mishaps,
           \A n \in Nodes : copy.nodes[n] = "PENDING" =>
             row[i] = NoInstance \/ row[i].nodes[n] = "PENDING"
    PROVE  Once'
<1>1. ASSUME NEW j \in Instances, NEW n \in Nodes, Due(j, n)' PROVE Due(j, n)
  <2>1. CASE j # i
    BY <1>1, <2>1, BeginsOthers
  <2>2. CASE j = i
    <3>1. Current(i) = row[i] /\ Current(i)' = copy
      BY BeginsOthers
    <3>2. copy.nodes[n] = "PENDING"
      BY <1>1, <2>2, <3>1, InstanceFacts DEF Due
    <3>3. QED
      BY <2>2, <3>1, <3>2 DEF Due
  <2>3. QED
    BY <2>1, <2>2
<1>2. QED
  BY <1>1, SingleKept, FreshKept DEF Once, Begins

\* recover_workflow: every outcome is found that is not overlooked.
LEMMA RecoverOnce ==
    ASSUME Base, Sound, Once, NEW i \in Instances, RecoverWorkflow(i)
    PROVE  Once'
<1>1. PICK copy \in Instance :
         /\ copy = Reconciled(row[i]) /\ Begins(i, "dispatch", copy)
         /\ row[i] \in Instance
         /\ mishaps'[i] = (mishaps[i] \ {"crashed"}) \cup {"recovered"}
  BY RecoverBegins
<1>2. PICK r \in Instance : r = row[i]
  BY <1>1
<1>3. \A n \in Nodes : copy.nodes[n] =
        IF \E k \in Replayed(r) : Decisive(r, n, k) /\ log[k].kind = "completed"
        THEN "SUCCEEDED"
        ELSE IF \E k \in Replayed(r) : Decisive(r, n, k) THEN FailedState(r) ELSE r.nodes[n]
  BY <1>1, <1>2, ReconciledFacts
<1>4. FailedState(r) # "PENDING"
  BY FailedStateFacts
<1>5. /\ Current(i) = row[i] /\ Current(i)' = copy /\ running' = running
      /\ queued' \subseteq queued /\ row' = row /\ log' = log /\ stored' = stored
      /\ \A j \in Instances : j # i => /\ mishaps'[j] = mishaps[j]
                                       /\ \A n \in Nodes : Due(j, n)' => Due(j, n)
  BY <1>1, BeginsOthers
<1>6. ASSUME NEW j \in Instances, j # i PROVE Single(j)' /\ Fresh(j)'
  BY <1>5, <1>6, SingleKept, FreshKept DEF Once
<1>7. ASSUME NEW n \in Nodes, Due(i, n)'
      PROVE  /\ Due(i, n)
             /\ ~(\E k \in Replayed(r) : Decisive(r, n, k))
  <2>1. copy.nodes[n] = "PENDING"
    BY <1>5, <1>7, InstanceFacts DEF Due
  <2>2. r.nodes[n] = "PENDING" /\ ~(\E k \in Replayed(r) : Decisive(r, n, k))
    BY <2>1, <1>3, <1>4
  <2>3. QED
    BY <2>2, <1>2, <1>5 DEF Due
<1>8. Single(i)'
  <2>1. "raised" \in mishaps[i] => "raised" \in mishaps'[i]
    BY <1>1
  <2>2. QED
    BY <2>1, <1>5, <1>7, SingleKept DEF Once
<1>9. Fresh(i)'
  <2>1. ASSUME NEW n \in Nodes, NEW k \in DOMAIN log, Due(i, n)', log[k].task = <<i, n>>
        PROVE  log[k].place > r.since + StreamLimit
    <3>1. Truthful(i, row[i])
      BY <1>1, <1>2, InstanceFacts DEF Sound
    <3>2. Later(i, r)
      BY <3>1, <1>2 DEF Truthful
    <3>3. QED
      BY <2>1, <1>7, <3>2, RecoveryFinds
  <2>2. "recovered" \in mishaps'[i] /\ row'[i] = r
    BY <1>1, <1>2 DEF Begins
  <2>3. QED
    BY <2>1, <2>2, <1>5 DEF Fresh, Overlooked
<1>10. QED
  BY <1>6, <1>8, <1>9 DEF Once

\* An event is dropped.
LEMMA DropsOnce ==
    ASSUME Base, Once, NEW k, NEW i \in Instances, Drops(k, i)
    PROVE  Once'
<1>1. \A j \in Instances, n \in Nodes : Due(j, n)' => Due(j, n)
  BY DEF Drops, Due, Current
<1>2. \A j \in Instances : mishaps[j] \subseteq mishaps'[j]
  BY DEF Drops
<1>3. QED
  BY <1>1, <1>2, SingleKept, FreshKept DEF Once, Drops

\* A checkpoint changes which of them is the current one, not what it says.
LEMMA WritesCurrent ==
    ASSUME Base, Writes, NEW j \in Instances
    PROVE  Current(j)' = Current(j)
<1>1. CASE j = op.id
  <2>1. Current(j) = op.copy /\ row'[j] = op.copy
    BY <1>1, CurrentFacts DEF Writes
  <2>2. Current(j)' = op.copy
    BY <1>1, <2>1, CurrentNext DEF Writes
  <2>3. QED
    BY <2>1, <2>2
<1>2. CASE j # op.id
  <2>1. Current(j) = row[j] /\ row'[j] = row[j]
    BY <1>2, CurrentFacts DEF Writes
  <2>2. Current(j)' = row'[j]
    BY <1>2, CurrentNext DEF Writes
  <2>3. QED
    BY <2>1, <2>2
<1>3. QED
  BY <1>1, <1>2

\* A checkpoint.
LEMMA WritesOnce ==
    ASSUME Base, Once, Writes
    PROVE  Once'
<1>1. \A j \in Instances, n \in Nodes : Due(j, n)' => Due(j, n)
  BY WritesCurrent DEF Due
<1>2. ASSUME NEW j \in Instances PROVE Fresh(j)'
  <2>1. CASE row[j] = NoInstance
    BY <2>1, UnknownFresh DEF Writes
  <2>2. CASE row[j] # NoInstance
    <3>1. row'[j] = IF j = op.id THEN op.copy ELSE row[j]
      BY DEF Writes
    <3>2. row'[j].since = row[j].since
      BY <2>2, <3>1 DEF Base, Held, Writes
    <3>3. QED
      BY <1>1, <3>2 DEF Once, Fresh, Overlooked, Writes
  <2>3. QED
    BY <2>1, <2>2
<1>3. QED
  BY <1>1, <1>2, SingleKept DEF Once, Writes

\* What is current when a node is dispatched.
LEMMA SendsCurrent ==
    ASSUME Base, NEW n \in Nodes, Sends(n)
    PROVE  /\ \A j \in Instances : j # op.id => Current(j)' = Current(j)
           /\ Current(op.id) = op.copy /\ op'.id = op.id
           /\ \A j \in Instances : j = op.id => Current(j)' = op'.copy
           /\ Due(op.id, n)
           /\ \A j \in Instances, m \in Nodes :
                Due(j, m)' => Due(j, m) /\ <<j, m>> # <<op.id, n>>
<1>1. op.id \in Instances /\ op'.id = op.id /\ op'.copy \in Instance
      /\ op.copy \in Instance /\ op.copy.nodes[n] = "PENDING"
      /\ op'.copy.nodes[n] = "RUNNING"
      /\ \A m \in Nodes : m # n => op'.copy.nodes[m] = op.copy.nodes[m]
  BY DEF Sends
<1>2. \A j \in Instances : j # op.id => Current(j)' = Current(j)
  BY <1>1, CurrentFacts, CurrentNext DEF Sends
<1>3. Current(op.id) = op.copy /\ \A j \in Instances : j = op.id => Current(j)' = op'.copy
  BY <1>1, CurrentFacts, CurrentNext
<1>4. Due(op.id, n)
  BY <1>1, <1>3 DEF Due
<1>5. ASSUME NEW j \in Instances, NEW m \in Nodes, Due(j, m)'
      PROVE  Due(j, m) /\ <<j, m>> # <<op.id, n>>
  <2>1. CASE j # op.id
    BY <1>2, <1>5, <2>1 DEF Due
  <2>2. CASE j = op.id
    <3>1. op'.copy.nodes[m] = "PENDING"
      BY <1>1, <1>3, <1>5, <2>2, InstanceFacts DEF Due
    <3>2. m # n
      BY <3>1, <1>1
    <3>3. Current(j) = op.copy /\ op.copy.nodes[m] = "PENDING"
      BY <3>1, <3>2, <1>1, <1>3, <2>2
    <3>4. QED
      BY <3>2, <3>3 DEF Due
  <2>3. QED
    BY <2>1, <2>2
<1>6. QED
  BY <1>1, <1>2, <1>3, <1>4, <1>5

\* A node is dispatched: it was not in the engine, and is no longer due.
LEMMA SendsOnce ==
    ASSUME Base, Once, NEW n \in Nodes, Sends(n)
    PROVE  Once'
<1>1. /\ running' = running /\ queued' = queued \cup {<<op.id, n>>} /\ log' = log
      /\ stored' = stored
      /\ mishaps' = mishaps /\ op.id \in Instances
  BY DEF Sends
<1>2. ASSUME NEW j \in Instances PROVE Fresh(j)'
  BY <1>1, FreshKept, SendsCurrent DEF Once, Sends
<1>3. ASSUME NEW j \in Instances PROVE Single(j)'
  <2>1. SUFFICES ASSUME "raised" \notin mishaps[j], NEW m \in Nodes
                 PROVE  (/\ running[<<j, m>>] <= 1
                         /\ <<j, m>> \in queued => running[<<j, m>>] = 0
                         /\ Due(j, m) => ~InEngine(<<j, m>>))'
    BY <1>1 DEF Single
  <2>2. /\ running[<<j, m>>] <= 1
        /\ <<j, m>> \in queued => running[<<j, m>>] = 0
        /\ Due(j, m) => ~InEngine(<<j, m>>)
    BY <2>1 DEF Once, Single
  <2>3. CASE <<j, m>> = <<op.id, n>>
    <3>1. j = op.id /\ m = n
      BY <2>3
    <3>2. ~(running[<<j, m>>] > 0) /\ ~Due(j, m)'
      BY <2>2, <3>1, SendsCurrent DEF InEngine
    <3>3. <<j, m>> \in Tasks
      BY DEF Tasks
    <3>4. running[<<j, m>>] = 0
      BY <3>2, <3>3 DEF Base, TypeOK
    <3>5. QED
      BY <3>2, <3>4, <1>1
  <2>4. CASE <<j, m>> # <<op.id, n>>
    BY <2>2, <2>4, <1>1, SendsCurrent DEF InEngine
  <2>5. QED
    BY <2>3, <2>4
<1>4. QED
  BY <1>2, <1>3 DEF Once

\* A call raises: the instance it worked on is out of the promise.
LEMMA FailsOnce ==
    ASSUME Base, Once, Fails
    PROVE  Once'
<1>1. ASSUME NEW j \in Instances, j = op.id PROVE Single(j)' /\ Fresh(j)'
  BY <1>1 DEF Fails, Single, Fresh
<1>2. ASSUME NEW j \in Instances, j # op.id PROVE Single(j)' /\ Fresh(j)'
  <2>1. Current(j) = row[j] /\ Current(j)' = row[j]
    BY <1>2, CurrentFacts, CurrentNext DEF Fails
  <2>2. \A n \in Nodes : Due(j, n)' => Due(j, n)
    BY <2>1 DEF Due
  <2>3. QED
    BY <2>2, <1>2, SingleKept, FreshKept DEF Once, Fails
<1>3. QED
  BY <1>1, <1>2 DEF Once

\* The process dies: the engine is empty.
LEMMA DiesOnce ==
    ASSUME Base, Once, Dies
    PROVE  Once'
<1>1. ASSUME NEW j \in Instances PROVE Single(j)'
  <2>1. ASSUME NEW n \in Nodes PROVE running'[<<j, n>>] = 0 /\ <<j, n>> \notin queued'
    BY DEF Dies, Tasks
  <2>2. QED
    BY <2>1 DEF Single, InEngine
<1>2. ASSUME NEW j \in Instances PROVE Fresh(j)'
  <2>1. CASE row[j] # NoInstance
    BY <2>1 DEF Fresh, Dies
  <2>2. CASE row[j] = NoInstance
    BY <2>2, UnknownFresh DEF Dies
  <2>3. QED
    BY <2>1, <2>2
<1>3. QED
  BY <1>1, <1>2 DEF Once

\* The engine takes a task.
LEMMA EngineStartOnce ==
    ASSUME Base, Once, NEW t \in Tasks, EngineStart(t)
    PROVE  Once'
<1>1. /\ queued' = queued \ {t} /\ t \in queued /\ running'[t] = running[t] + 1
      /\ \A u \in Tasks : u # t => running'[u] = running[u]
  BY EngineStartBase
<1>2. op' = op /\ row' = row /\ log' = log /\ stored' = stored /\ mishaps' = mishaps
  BY DEF EngineStart, eventVars
<1>3. \A j \in Instances, n \in Nodes : Due(j, n)' <=> Due(j, n)
  BY <1>2 DEF Due, Current
<1>4. ASSUME NEW j \in Instances PROVE Single(j)'
  <2>1. ASSUME "raised" \notin mishaps[j], NEW m \in Nodes
        PROVE  (/\ running[<<j, m>>] <= 1
                /\ <<j, m>> \in queued => running[<<j, m>>] = 0
                /\ Due(j, m) => ~InEngine(<<j, m>>))'
    <3>1. /\ running[<<j, m>>] <= 1
          /\ <<j, m>> \in queued => running[<<j, m>>] = 0
          /\ Due(j, m) => ~InEngine(<<j, m>>)
      BY <2>1 DEF Once, Single
    <3>2. <<j, m>> \in Tasks
      BY DEF Tasks
    <3>3. CASE <<j, m>> = t
      BY <3>1, <3>3, <1>1, <1>3 DEF InEngine
    <3>4. CASE <<j, m>> # t
      BY <3>1, <3>2, <3>4, <1>1, <1>3 DEF InEngine
    <3>5. QED
      BY <3>3, <3>4
  <2>2. QED
    BY <2>1, <1>2 DEF Single
<1>5. QED
  BY <1>2, <1>3, <1>4, FreshKept DEF Once

\* An execution ends: a node that is due was not in the engine.
LEMMA EngineFinishOnce ==
    ASSUME Base, Once, NEW t \in Tasks, EngineFinish(t)
    PROVE  Once'
<1>1. /\ InEngine(t) /\ running'[t] = running[t] - 1 /\ running[t] \in Nat
      /\ \A u \in Tasks : u # t => running'[u] = running[u]
  BY EngineFinishBase
<1>2. op' = op /\ row' = row /\ mishaps' = mishaps /\ queued' = queued /\ running[t] > 0
  BY DEF EngineFinish
<1>3. \A j \in Instances, n \in Nodes : Due(j, n)' <=> Due(j, n)
  BY <1>2 DEF Due, Current
<1>4. ASSUME NEW j \in Instances PROVE Single(j)'
  <2>1. ASSUME "raised" \notin mishaps[j], NEW m \in Nodes
        PROVE  (/\ running[<<j, m>>] <= 1
                /\ <<j, m>> \in queued => running[<<j, m>>] = 0
                /\ Due(j, m) => ~InEngine(<<j, m>>))'
    <3>1. /\ running[<<j, m>>] <= 1
          /\ <<j, m>> \in queued => running[<<j, m>>] = 0
          /\ Due(j, m) => ~InEngine(<<j, m>>)
      BY <2>1 DEF Once, Single
    <3>2. <<j, m>> \in Tasks
      BY DEF Tasks
    <3>3. CASE <<j, m>> = t
      BY <3>1, <3>3, <1>1, <1>2, <1>3 DEF InEngine
    <3>4. CASE <<j, m>> # t
      BY <3>1, <3>2, <3>4, <1>1, <1>2, <1>3 DEF InEngine
    <3>5. QED
      BY <3>3, <3>4
  <2>2. QED
    BY <2>1, <1>2 DEF Single
<1>5. ASSUME NEW j \in Instances PROVE Fresh(j)'
  <2>1. PICK e \in Events :
           /\ e.task = t /\ log'[Len(log) + 1] = e
           /\ \A k \in DOMAIN log : log'[k] = log[k]
           /\ \A k \in DOMAIN log' : k \in DOMAIN log \/ k = Len(log) + 1
    BY FinishFacts DEF Base
  <2>2. ASSUME mishaps[j] \cap {"raised", "crashed"} = {},
               NEW m \in Nodes, Due(j, m), NEW k \in DOMAIN log', log'[k].task = <<j, m>>
        PROVE  Overlooked(j, k)'
    <3>1. ~InEngine(<<j, m>>)
      BY <2>2 DEF Once, Single
    <3>2. k \in DOMAIN log /\ log'[k] = log[k]
      BY <2>1, <2>2, <3>1, <1>1
    <3>3. Overlooked(j, k)
      BY <2>2, <3>2 DEF Once, Fresh
    <3>4. QED
      BY <3>2, <3>3, <1>2 DEF Overlooked
  <2>3. QED
    BY <2>2, <1>2, <1>3 DEF Fresh
<1>6. QED
  BY <1>4, <1>5 DEF Once

\* Every step keeps it.
LEMMA NextOnce ==
    ASSUME Base, Sound, Once, [Next]_vars
    PROVE  Once'
<1>1. ASSUME NEW i \in Instances,
             \/ StartWorkflow(i) \/ PauseWorkflow(i) \/ ResumeWorkflow(i)
             \/ CancelWorkflow(i) \/ RecoverWorkflow(i) \/ OnOtherEvent(i)
      PROVE  Once'
  <2>1. CASE RecoverWorkflow(i)
    BY <2>1, RecoverOnce
  <2>2. CASE ~RecoverWorkflow(i)
    <3>1. PICK where \in {"save", "dispatch"}, copy \in Instance :
             /\ Begins(i, where, copy) /\ mishaps' = mishaps
             /\ \A n \in Nodes : copy.nodes[n] = "PENDING" =>
                  row[i] = NoInstance \/ row[i].nodes[n] = "PENDING"
      BY <1>1, <2>2, BeginsDue
    <3>2. QED
      BY <3>1, BeginsOnce
  <2>3. QED
    BY <2>1, <2>2
<1>2. ASSUME NEW k \in DOMAIN log, OnRuntimeEvent(k) PROVE Once'
  <2>1. PICK i : i = log[k].task[1]
    OBVIOUS
  <2>2. CASE row[i].status = "RUNNING"
    <3>1. i \in Instances
      BY <1>2, <2>1, <2>2, EventDue
    <3>2. PICK copy \in Instance :
             /\ Begins(i, "save", copy) /\ mishaps' = mishaps
             /\ \A n \in Nodes : copy.nodes[n] = "PENDING" => row[i].nodes[n] = "PENDING"
      BY <1>2, <2>1, <2>2, EventDue
    <3>3. QED
      BY <3>1, <3>2, BeginsOnce
  <2>3. CASE row[i].status # "RUNNING"
    BY <1>2, <2>1, <2>3, EventDrops, DropsOnce
  <2>4. QED
    BY <2>2, <2>3
<1>3. CASE Checkpoint \/ Dispatched
  BY <1>3, WriteFacts, WritesOnce DEF Base
<1>4. ASSUME NEW n \in Nodes, Dispatch(n) PROVE Once'
  BY <1>4, DispatchFacts, SendsOnce DEF Base
<1>5. CASE Raise
  BY <1>5, RaiseFacts, FailsOnce DEF Base
<1>6. ASSUME NEW t \in Tasks, Engine(t) PROVE Once'
  BY <1>6, EngineStartOnce, EngineFinishOnce DEF Engine
<1>7. CASE Crash
  BY <1>7, CrashFacts, DiesOnce DEF Base
<1>8. CASE EngineLogs \/ UNCHANGED vars
  <2>1. /\ row' = row /\ op' = op /\ queued' = queued /\ running' = running
        /\ log' = log /\ mishaps' = mishaps
    BY <1>8, IdleFacts DEF Idles
  <2>2. \A j \in Instances, n \in Nodes : Due(j, n)' => Due(j, n)
    BY <2>1 DEF Due, Current
  <2>3. QED
    BY <2>1, <2>2, SingleKept, FreshKept DEF Once
<1>9. QED
  BY <1>1, <1>2, <1>3, <1>4, <1>5, <1>6, <1>7, <1>8 DEF Next, Orchestrator

\* Nothing is in the engine, nothing was.
LEMMA InitOnce ==
    ASSUME Init
    PROVE  Once
<1>1. \A i \in Instances, n \in Nodes : <<i, n>> \in Tasks
  BY DEF Tasks
<1>2. << >> \in Seq(Events) /\ DOMAIN << >> = {}
  OBVIOUS
<1>3. QED
  BY <1>1, <1>2 DEF Init, Once, Single, Fresh, InEngine, Ended, Logged

\* Unless a call raised half-way, the engine never holds two copies of a node's
\* task, however calls, crashes and recoveries interleave with late and repeated
\* events.
THEOREM Copies == Spec => []OneCopy
<1>1. Init => Base /\ Sound /\ Once
  BY InitBase, InitSound, InitOnce
<1>2. Base /\ Sound /\ Once /\ [Next]_vars => Base' /\ Sound' /\ Once'
  BY NextBase, NextSound, NextOnce
<1>3. Base /\ Once => OneCopy
  <2>1. ASSUME Base, Once, NEW t \in Tasks, "raised" \notin mishaps[t[1]]
        PROVE  running[t] + Cardinality(queued \cap {t}) <= 1
    <3>1. PICK i \in Instances, n \in Nodes : t = <<i, n>>
      BY DEF Tasks
    <3>2. t[1] = i /\ running[t] \in Nat
      BY <2>1, <3>1 DEF Base, TypeOK
    <3>3. t \in queued => running[t] = 0
      BY <2>1, <3>1, <3>2 DEF Once, Single
    <3>4. running[t] <= 1
      BY <2>1, <3>1, <3>2 DEF Once, Single
    <3>5. CASE t \in queued
      <4>1. queued \cap {t} = {t}
        BY <3>5
      <4>2. Cardinality({t}) = 1
        BY FS_Singleton
      <4>3. running[t] = 0
        BY <3>3, <3>5
      <4>4. QED
        BY <4>1, <4>2, <4>3
    <3>6. CASE t \notin queued
      <4>1. queued \cap {t} = {}
        BY <3>6
      <4>2. Cardinality({}) = 0
        BY FS_EmptySet
      <4>3. QED
        BY <4>1, <4>2, <3>2, <3>4
    <3>7. QED
      BY <3>5, <3>6
  <2>2. QED
    BY <2>1 DEF OneCopy
<1>4. QED
  BY <1>1, <1>2, <1>3, PTL DEF Spec

\* A node whose outcome is in the event store is only scheduled again if a call
\* raised half-way, if a crash was not recovered from, or if a recovery overlooked
\* the outcome because StreamLimit events or more were stored before it since the
\* start of the workflow, the engine's own events included.
THEOREM Reruns == Spec => NoRerun
<1>1. Init => Base /\ Sound /\ Once
  BY InitBase, InitSound, InitOnce
<1>2. Base /\ Sound /\ Once /\ [Next]_vars => Base' /\ Sound' /\ Once'
  BY NextBase, NextSound, NextOnce
<1>3. Base /\ Once /\ [Next]_vars =>
        [\A t \in Tasks :
           /\ sent'[t] > sent[t]
           /\ mishaps[t[1]] \cap {"raised", "crashed"} = {}
           => \A k \in DOMAIN log : log[k].task = t =>
                /\ "recovered" \in mishaps[t[1]]
                /\ log[k].place > row[t[1]].since + StreamLimit]_vars
  <2>1. ASSUME Base, Once, [Next]_vars, NEW t \in Tasks,
               sent'[t] > sent[t], mishaps[t[1]] \cap {"raised", "crashed"} = {},
               NEW k \in DOMAIN log, log[k].task = t
        PROVE  Overlooked(t[1], k)
    <3>1. sent[t] \in Nat
      BY <2>1 DEF Base, TypeOK
    <3>2. PICK n \in Nodes : Sends(n)
      BY <2>1, <3>1, SentStep
    <3>3. t = <<op.id, n>> /\ op.id \in Instances /\ t[1] = op.id
      BY <2>1, <3>1, <3>2 DEF Sends
    <3>4. Due(op.id, n)
      BY <2>1, <3>2, SendsCurrent
    <3>5. QED
      BY <2>1, <3>3, <3>4 DEF Once, Fresh
  <2>2. QED
    BY <2>1 DEF Overlooked
<1>4. QED
  BY <1>1, <1>2, <1>3, PTL DEF Spec, NoRerun

----------------------------------------------------------------------------
(* Nothing stalls.                                                         *)

\* A step that leaves instance j alone, in its row and in a call.
LEMMA GoingKept ==
    ASSUME NEW j \in Instances, Going(j), mishaps'[j] = {} => mishaps[j] = {},
           row'[j] = row[j], edges' = edges,
           op' = op \/ (op.id # j /\ op'.id # j),
           \A n \in Nodes : Awaited(<<j, n>>) => Awaited(<<j, n>>)'
    PROVE  Going(j)'
<1>1. Current(j)' = Current(j)
  BY CurrentFacts, CurrentNext DEF Current
<1>2. /\ Unfinished(row[j])' <=> Unfinished(row[j])
      /\ op' = op => (Unfinished(op.copy)' <=> Unfinished(op.copy))
  BY DEF Unfinished, Completed
<1>3. Blocked(j) => Blocked(j)'
  BY DEF Blocked, Is, Parents
<1>4. SUFFICES ASSUME mishaps'[j] = {}
               PROVE  /\ row'[j] # NoInstance => Unfinished(row[j])'
                      /\ op'.id = j => Unfinished(op.copy)'
                      /\ \A n \in Nodes : Current(j)' # NoInstance
                                          /\ Current(j)'.nodes[n] = "RUNNING"
                                            => Awaited(<<j, n>>)'
                      /\ Blocked(j)'
  BY DEF Going
<1>5. /\ row[j] # NoInstance => Unfinished(row[j])
      /\ op.id = j => Unfinished(op.copy)
      /\ \A n \in Nodes : Current(j) # NoInstance /\ Current(j).nodes[n] = "RUNNING"
                            => Awaited(<<j, n>>)
      /\ Blocked(j)
  BY <1>4 DEF Going
<1>6. QED
  BY <1>1, <1>2, <1>3, <1>5

\* A call begins that does what it should: the copy is unfinished while it runs,
\* and what is RUNNING in it was so in the row and is still awaited.
LEMMA BeginsGoing ==
    ASSUME Base, Lively, Nodes # {}, NEW i \in Instances, NEW where, NEW copy \in Instance,
           Begins(i, where, copy),
           mishaps'[i] = {} =>
             /\ mishaps[i] = {} /\ Unfinished(copy)
             /\ \A n \in Nodes : copy.nodes[n] = "RUNNING" =>
                  /\ row[i] # NoInstance /\ row[i].nodes[n] = "RUNNING"
                  /\ Awaited(<<i, n>>) => Awaited(<<i, n>>)',
           \A j \in Instances, n \in Nodes : j # i /\ Awaited(<<j, n>>) => Awaited(<<j, n>>)'
    PROVE  Lively'
<1>1. /\ op = Free /\ op'.id = i /\ op'.copy = copy /\ row' = row /\ edges' = edges
      /\ \A j \in Instances : j # i => mishaps'[j] = mishaps[j]
      /\ Current(i) = row[i] /\ Current(i)' = copy
  BY BeginsOthers DEF Begins
<1>2. ASSUME NEW j \in Instances, j # i PROVE Going(j)'
  <2>1. op.id # j /\ op'.id # j
    BY <1>1, <1>2, FreeFacts
  <2>2. QED
    BY <1>1, <1>2, <2>1, GoingKept DEF Lively
<1>3. Going(i)'
  <2>1. SUFFICES ASSUME mishaps'[i] = {}
                 PROVE  /\ row'[i] # NoInstance => Unfinished(row[i])'
                        /\ op'.id = i => Unfinished(op.copy)'
                        /\ \A n \in Nodes : Current(i)' # NoInstance
                                            /\ Current(i)'.nodes[n] = "RUNNING"
                                              => Awaited(<<i, n>>)'
                        /\ Blocked(i)'
    BY DEF Going
  <2>2. /\ row[i] # NoInstance => Unfinished(row[i])
        /\ \A n \in Nodes : Current(i) # NoInstance /\ Current(i).nodes[n] = "RUNNING"
                            => Awaited(<<i, n>>)
    BY <2>1 DEF Lively, Going
  <2>3. row'[i] # NoInstance => Unfinished(row[i])'
    BY <2>2, <1>1 DEF Unfinished, Completed
  <2>4. Unfinished(op.copy)'
    BY <2>1, <1>1 DEF Unfinished, Completed
  <2>5. Blocked(i)'
    BY <1>1 DEF Blocked
  <2>6. QED
    BY <2>1, <2>2, <2>3, <2>4, <2>5, <1>1
<1>4. QED
  BY <1>2, <1>3 DEF Lively

\* The states of the nodes decide whether an instance is complete.
LEMMA CompletedSame ==
    ASSUME NEW a, NEW b, a.nodes = b.nodes
    PROVE  Completed(a) <=> Completed(b)
  BY DEF Completed

\* start_workflow, pause_workflow, resume_workflow, an event of another kind.
LEMMA PlainGoing ==
    ASSUME Base, Lively, Nodes # {}, NEW i \in Instances,
           \/ StartWorkflow(i) \/ PauseWorkflow(i) \/ ResumeWorkflow(i) \/ OnOtherEvent(i)
    PROVE  Lively'
<1>1. ASSUME NEW copy \in Instance, Begins(i, "save", copy), mishaps' = mishaps,
             queued' = queued, pending' = pending,
             mishaps[i] = {} => Unfinished(copy),
             \A n \in Nodes : copy.nodes[n] = "RUNNING" =>
               row[i] # NoInstance /\ row[i].nodes[n] = "RUNNING"
      PROVE  Lively'
  <2>1. \A j \in Instances, n \in Nodes : Awaited(<<j, n>>) => Awaited(<<j, n>>)'
    BY <1>1 DEF Awaited, InEngine, Begins
  <2>2. QED
    BY <1>1, <2>1, BeginsGoing
<1>2. CASE StartWorkflow(i)
  <2>1. PICK copy \in Instance :
           /\ Begins(i, "save", copy) /\ mishaps' = mishaps /\ queued' = queued
           /\ pending' = pending /\ \A n \in Nodes : copy.nodes[n] = "PENDING"
    BY <1>2, StartBegins
  <2>2. Unfinished(copy)
    BY <2>1 DEF Unfinished, Completed
  <2>3. QED
    BY <1>1, <2>1, <2>2
<1>3. CASE PauseWorkflow(i) \/ ResumeWorkflow(i)
  <2>1. PICK copy \in Instance :
           /\ Begins(i, "save", copy) /\ row[i] \in Instance
           /\ mishaps' = mishaps /\ queued' = queued /\ pending' = pending
           /\ copy.nodes = row[i].nodes
    BY <1>3, PauseBegins
  <2>2. PICK r \in Instance : r = row[i]
    BY <2>1
  <2>3. r # NoInstance /\ r.status \in {"RUNNING", "PAUSED"}
    BY <2>1, <2>2, InstanceFacts DEF Begins
  <2>4. mishaps[i] = {} => Unfinished(copy)
    <3>1. mishaps[i] = {} => Unfinished(row[i])
      BY <2>2, <2>3 DEF Lively, Going
    <3>2. mishaps[i] = {} => ~Completed(r)
      BY <3>1, <2>2, <2>3 DEF Unfinished, Completed
    <3>3. QED
      BY <3>2, <2>1, <2>2, CompletedSame DEF Unfinished
  <2>5. QED
    BY <1>1, <2>1, <2>2, <2>3, <2>4
<1>4. CASE OnOtherEvent(i)
  <2>1. PICK copy \in Instance :
           /\ copy = Concluded(row[i]) /\ Begins(i, "save", copy) /\ row[i] \in Instance
           /\ row[i].status = "RUNNING"
           /\ mishaps' = mishaps /\ queued' = queued /\ pending' = pending
    BY <1>4, OtherBegins
  <2>2. PICK r \in Instance : r = row[i]
    BY <2>1
  <2>3. r # NoInstance /\ r.status = "RUNNING" /\ copy = Concluded(r)
    BY <2>1, <2>2, InstanceFacts
  <2>4. /\ copy.nodes = r.nodes
        /\ copy.status = "SUCCEEDED" \/ ~Completed(r)
    BY <2>3, ConcludedFacts
  <2>5. Unfinished(copy)
    BY <2>4, CompletedSame DEF Unfinished
  <2>6. QED
    BY <1>1, <2>1, <2>2, <2>3, <2>4, <2>5
<1>5. QED
  BY <1>2, <1>3, <1>4

\* cancel_workflow: nothing of the instance is RUNNING any more.
LEMMA CancelGoing ==
    ASSUME Base, Lively, Nodes # {}, NEW i \in Instances, CancelWorkflow(i)
    PROVE  Lively'
<1>1. PICK copy \in Instance :
         /\ Begins(i, "save", copy) /\ mishaps' = mishaps /\ pending' = pending
         /\ copy.status = "CANCELLED"
         /\ \A n \in Nodes :
              IF row[i].nodes[n] \in {"PENDING", "RUNNING"}
              THEN copy.nodes[n] = "CANCELLED" ELSE copy.nodes[n] = row[i].nodes[n]
         /\ \A t \in queued : t[1] # i => t \in queued'
  BY CancelBegins
<1>2. Unfinished(copy) /\ \A n \in Nodes : copy.nodes[n] # "RUNNING"
  BY <1>1 DEF Unfinished
<1>3. \A j \in Instances, n \in Nodes : j # i /\ Awaited(<<j, n>>) => Awaited(<<j, n>>)'
  BY <1>1 DEF Awaited, InEngine, Begins
<1>4. QED
  BY <1>1, <1>2, <1>3, BeginsGoing

\* recover_workflow takes the instance out of the promise.
LEMMA RecoverGoing ==
    ASSUME Base, Lively, Nodes # {}, NEW i \in Instances, RecoverWorkflow(i)
    PROVE  Lively'
<1>1. PICK copy \in Instance :
         /\ Begins(i, "dispatch", copy)
         /\ mishaps'[i] = (mishaps[i] \ {"crashed"}) \cup {"recovered"}
         /\ queued' = queued /\ pending' = pending
  BY RecoverBegins
<1>2. mishaps'[i] # {}
  BY <1>1
<1>3. \A j \in Instances, n \in Nodes : j # i /\ Awaited(<<j, n>>) => Awaited(<<j, n>>)'
  BY <1>1 DEF Awaited, InEngine, Begins
<1>4. QED
  BY <1>1, <1>2, <1>3, BeginsGoing

\* on_runtime_event: the node of the event is no longer RUNNING, and the events of
\* the others are still under way.
LEMMA EventGoing ==
    ASSUME Base, Lively, Nodes # {}, NEW k \in DOMAIN log, OnRuntimeEvent(k)
    PROVE  Lively'
<1>1. PICK i, n : i = log[k].task[1] /\ n = log[k].task[2]
  OBVIOUS
<1>2. i \in Instances /\ n \in Nodes /\ log[k].task = <<i, n>>
  BY <1>1, EventFacts DEF Base
<1>3. ASSUME running' = running, log' = log, stored' = stored,
             queued' = queued, pending \ {k} \subseteq pending',
             NEW j \in Instances, NEW m \in Nodes, <<j, m>> # <<i, n>> \/ k \notin pending,
             Awaited(<<j, m>>)
      PROVE  Awaited(<<j, m>>)'
  BY <1>2, <1>3 DEF Awaited, InEngine
<1>4. CASE row[i].status = "RUNNING"
  <2>1. PICK mid \in Instance, copy \in Instance :
             /\ mid = Applied(row[i], n, log[k].kind) /\ copy = Concluded(mid)
             /\ Begins(i, "save", copy) /\ row[i] \in Instance
             /\ mishaps' = mishaps /\ queued' = queued /\ pending \ {k} \subseteq pending'
    BY <1>1, <1>4, EventBegins
  <2>2. PICK r \in Instance : r = row[i]
    BY <2>1
  <2>3. PICK kind : kind = log[k].kind
    OBVIOUS
  <2>4. mid = Applied(r, n, kind) /\ r.status = "RUNNING" /\ r # NoInstance
    BY <2>1, <2>2, <2>3, <1>4, InstanceFacts
  <2>5. /\ \A m \in Nodes \ {n} : mid.nodes[m] = r.nodes[m]
        /\ mid.nodes[n] = "SUCCEEDED" \/ mid.nodes[n] = FailedState(r)
        /\ mid.status = "RUNNING" \/ mid.status = "FAILED"
    BY <1>2, <2>4, AppliedFacts
  <2>6. FailedState(r) # "RUNNING"
    BY FailedStateFacts
  <2>7. /\ copy.nodes = mid.nodes
        /\ copy.status \in {"SUCCEEDED", "FAILED"} \/ ~Completed(mid)
    BY <2>1, <2>5, ConcludedFacts
  <2>8. Unfinished(copy)
    BY <2>7, CompletedSame DEF Unfinished
  <2>9. ASSUME NEW m \in Nodes, copy.nodes[m] = "RUNNING"
        PROVE  /\ m # n /\ row[i] # NoInstance /\ row[i].nodes[m] = "RUNNING"
               /\ Awaited(<<i, m>>) => Awaited(<<i, m>>)'
    <3>1. m # n
      BY <2>9, <2>5, <2>6, <2>7
    <3>2. r.nodes[m] = "RUNNING"
      BY <3>1, <2>9, <2>5, <2>7
    <3>3. Awaited(<<i, m>>) => Awaited(<<i, m>>)'
      BY <3>1, <1>2, <1>3, <2>1 DEF Begins
    <3>4. QED
      BY <3>1, <3>2, <3>3, <2>2, <2>4
  <2>10. \A j \in Instances, m \in Nodes : j # i /\ Awaited(<<j, m>>) => Awaited(<<j, m>>)'
    BY <1>3, <2>1 DEF Begins
  <2>11. QED
    BY <1>2, <2>1, <2>8, <2>9, <2>10, BeginsGoing
<1>5. CASE row[i].status # "RUNNING"
  <2>1. Drops(k, i)
    BY <1>1, <1>5, EventDrops
  <2>2. /\ op = Free /\ op' = op /\ row' = row /\ edges' = edges
        /\ running' = running /\ log' = log /\ stored' = stored /\ queued' = queued
        /\ pending \ {k} \subseteq pending'
        /\ \A j \in Instances : j # i => mishaps'[j] = mishaps[j]
        /\ k \in pending => mishaps'[i] = mishaps[i] \cup {"dropped"}
        /\ k \notin pending => mishaps'[i] = mishaps[i]
    BY <2>1 DEF Drops
  <2>3. ASSUME NEW j \in Instances, j # i \/ k \notin pending PROVE Going(j)'
    <3>1. \A m \in Nodes : Awaited(<<j, m>>) => Awaited(<<j, m>>)'
      BY <2>2, <2>3, <1>3
    <3>2. mishaps'[j] = mishaps[j]
      BY <2>2, <2>3
    <3>3. QED
      BY <3>1, <3>2, <2>2, GoingKept DEF Lively
  <2>4. CASE k \in pending
    <3>1. Going(i)'
      BY <2>2, <2>4 DEF Going
    <3>2. QED
      BY <3>1, <2>3 DEF Lively
  <2>5. QED
    BY <2>3, <2>4 DEF Lively
<1>6. QED
  BY <1>4, <1>5

\* A checkpoint; at the end of the call every node that could be is dispatched.
LEMMA WritesGoing ==
    ASSUME Base, Lively, Nodes # {}, Checkpoint \/ Dispatched
    PROVE  Lively'
<1>1. Writes
  BY WriteFacts DEF Base
<1>2. PICK i \in Instances : i = op.id
  BY <1>1 DEF Writes
<1>3. PICK c \in Instance : c = op.copy
  BY <1>1 DEF Writes
<1>4. /\ op # Free /\ row'[i] = c /\ \A j \in Instances : j # i => row'[j] = row[j]
      /\ edges' = edges /\ queued' = queued /\ running' = running /\ log' = log
      /\ stored' = stored
      /\ pending' = pending /\ mishaps' = mishaps
      /\ op' = Free \/ (op'.id = i /\ op'.copy = c)
  BY <1>1, <1>2, <1>3 DEF Writes
<1>5. \A t : Awaited(t)' <=> Awaited(t)
  BY <1>4 DEF Awaited, InEngine
<1>6. ASSUME NEW j \in Instances, j # i PROVE Going(j)'
  <2>1. op.id # j /\ op'.id # j
    BY <1>2, <1>4, <1>6, FreeFacts
  <2>2. QED
    BY <2>1, <1>4, <1>5, <1>6, GoingKept DEF Lively
<1>7. Going(i)'
  <2>1. SUFFICES ASSUME mishaps[i] = {}
                 PROVE  /\ row'[i] # NoInstance => Unfinished(row[i])'
                        /\ op'.id = i => Unfinished(op.copy)'
                        /\ \A n \in Nodes : Current(i)' # NoInstance
                                            /\ Current(i)'.nodes[n] = "RUNNING"
                                              => Awaited(<<i, n>>)'
                        /\ Blocked(i)'
    BY <1>4 DEF Going
  <2>2. /\ Unfinished(op.copy)
        /\ \A n \in Nodes : Current(i) # NoInstance /\ Current(i).nodes[n] = "RUNNING"
                            => Awaited(<<i, n>>)
    BY <2>1, <1>2 DEF Lively, Going
  <2>3. Unfinished(row[i])' /\ (op'.id = i => Unfinished(op.copy)')
    BY <2>2, <1>3, <1>4, FreeFacts DEF Unfinished, Completed
  <2>4. Current(i)' = Current(i)
    BY <1>1, WritesCurrent
  <2>5. Blocked(i)'
    <3>1. CASE op' # Free
      BY <3>1, <1>4 DEF Blocked
    <3>2. CASE op' = Free
      <4>1. c.status # "RUNNING" \/ \A n \in Nodes : ~Eligible(n)
        <5>1. op.id = i /\ op \in Holding
          BY <1>2, <1>4, OpFacts DEF Base
        <5>2. [op EXCEPT !.at = "dispatch"].id = i
          BY <5>1 DEF Holding
        <5>3. [op EXCEPT !.at = "dispatch"] # Free
          BY <5>2, FreeFacts
        <5>4. QED
          BY <5>3, <3>2, <1>3 DEF Checkpoint, Dispatched
      <4>2. \A n \in Nodes : ~Eligible(n) => (c.nodes[n] = "PENDING" =>
               \E p \in Parents(n) : c.nodes[p] \notin {"SUCCEEDED", "SKIPPED"})
        BY <1>3 DEF Eligible
      <4>3. \A n \in Nodes : Parents(n)' = Parents(n)
        BY <1>4 DEF Parents
      <4>4. QED
        BY <4>1, <4>2, <4>3, <1>4 DEF Blocked, Is
    <3>3. QED
      BY <3>1, <3>2
  <2>6. QED
    BY <2>2, <2>3, <2>4, <2>5, <1>5
<1>8. QED
  BY <1>6, <1>7 DEF Lively

\* A node is dispatched: it is RUNNING and its task is queued.
LEMMA SendsGoing ==
    ASSUME Base, Lively, Nodes # {}, NEW n \in Nodes, Sends(n)
    PROVE  Lively'
<1>1. PICK i \in Instances : i = op.id
  BY DEF Sends
<1>2. /\ op'.id = i /\ row' = row /\ edges' = edges /\ running' = running /\ log' = log
      /\ stored' = stored
      /\ pending' = pending /\ mishaps' = mishaps /\ queued' = queued \cup {<<i, n>>}
      /\ op'.copy.nodes[n] = "RUNNING"
      /\ \A m \in Nodes : m # n => op'.copy.nodes[m] = op.copy.nodes[m]
      /\ op.copy # NoInstance
  BY <1>1, InstanceFacts DEF Sends
<1>3. \A t : Awaited(t) => Awaited(t)'
  BY <1>2 DEF Awaited, InEngine
<1>4. ASSUME NEW j \in Instances, j # i PROVE Going(j)'
  BY <1>1, <1>2, <1>3, <1>4, GoingKept DEF Lively
<1>5. Going(i)'
  <2>1. SUFFICES ASSUME mishaps[i] = {}
                 PROVE  /\ row'[i] # NoInstance => Unfinished(row[i])'
                        /\ op'.id = i => Unfinished(op.copy)'
                        /\ \A m \in Nodes : Current(i)' # NoInstance
                                            /\ Current(i)'.nodes[m] = "RUNNING"
                                              => Awaited(<<i, m>>)'
                        /\ Blocked(i)'
    BY <1>2 DEF Going
  <2>2. /\ row[i] # NoInstance => Unfinished(row[i])
        /\ \A m \in Nodes : Current(i) # NoInstance /\ Current(i).nodes[m] = "RUNNING"
                            => Awaited(<<i, m>>)
    BY <2>1, <1>2 DEF Lively, Going
  <2>3. row'[i] # NoInstance => Unfinished(row[i])'
    BY <2>2, <1>2 DEF Unfinished, Completed
  <2>4. Unfinished(op.copy)'
    BY <1>2 DEF Unfinished, Completed
  <2>5. Current(i) = op.copy /\ Current(i)' = op'.copy
    BY <1>1, SendsCurrent
  <2>6. Awaited(<<i, n>>)'
    BY <1>2 DEF Awaited, InEngine
  <2>7. Blocked(i)'
    BY <1>2 DEF Blocked
  <2>8. ASSUME NEW m \in Nodes, op'.copy.nodes[m] = "RUNNING" PROVE Awaited(<<i, m>>)'
    BY <2>8, <2>2, <2>5, <2>6, <1>2, <1>3
  <2>9. QED
    BY <2>3, <2>4, <2>5, <2>7, <2>8
<1>6. QED
  BY <1>4, <1>5 DEF Lively

\* A call raises.
LEMMA FailsGoing ==
    ASSUME Base, Lively, Nodes # {}, Fails
    PROVE  Lively'
<1>1. \A t : Awaited(t) => Awaited(t)'
  BY DEF Awaited, InEngine, Fails
<1>2. ASSUME NEW j \in Instances, j = op.id PROVE Going(j)'
  BY <1>2 DEF Going, Fails
<1>3. ASSUME NEW j \in Instances, j # op.id PROVE Going(j)'
  <2>1. op'.id # j
    BY FreeFacts DEF Fails
  <2>2. QED
    BY <1>1, <1>3, <2>1, GoingKept DEF Lively, Fails
<1>4. QED
  BY <1>2, <1>3 DEF Lively

\* The process dies.
LEMMA DiesGoing ==
    ASSUME Base, Lively, Nodes # {}, Dies
    PROVE  Lively'
<1>1. ASSUME NEW j \in Instances, row[j] # NoInstance PROVE Going(j)'
  BY <1>1 DEF Going, Dies
<1>2. ASSUME NEW j \in Instances, row[j] = NoInstance PROVE Going(j)'
  <2>1. op'.id # j /\ row'[j] = NoInstance /\ Current(j)' = NoInstance
    BY <1>2, FreeFacts, CurrentNext DEF Dies
  <2>2. QED
    BY <2>1 DEF Going, Blocked, Is
<1>3. QED
  BY <1>1, <1>2 DEF Lively

\* The engine takes a task or ends it; then its event is under way.
LEMMA EngineGoing ==
    ASSUME Base, Lively, Nodes # {}, NEW t \in Tasks, Engine(t)
    PROVE  Lively'
<1>1. op' = op /\ row' = row /\ mishaps' = mishaps /\ edges' = edges
  BY DEF Engine, EngineStart, EngineFinish
<1>2. CASE EngineStart(t)
  <2>1. /\ queued' = queued \ {t} /\ running'[t] = running[t] + 1
        /\ \A u \in Tasks : u # t => running'[u] = running[u]
        /\ running[t] \in Nat
    BY <1>2, EngineStartBase
  <2>2. log' = log /\ stored' = stored /\ pending' = pending
    BY <1>2 DEF EngineStart, eventVars
  <2>3. \A u \in Tasks : Awaited(u) => Awaited(u)'
    BY <2>1, <2>2 DEF Awaited, InEngine
  <2>4. QED
    BY <1>1, <2>3, GoingKept DEF Lively, Tasks
<1>3. CASE EngineFinish(t)
  <2>1. \A u \in Tasks : u # t => running'[u] = running[u]
    BY <1>3, EngineFinishBase
  <2>2. queued' = queued /\ pending' = pending \cup {Len(log) + 1}
    BY <1>3 DEF EngineFinish
  <2>3. PICK e \in Events :
           /\ e.task = t /\ log'[Len(log) + 1] = e
           /\ \A k \in DOMAIN log : log'[k] = log[k]
    BY <1>3, FinishFacts DEF Base
  <2>4. pending \subseteq DOMAIN log
    BY DEF Base, TypeOK
  <2>5. ASSUME NEW u \in Tasks, Awaited(u) PROVE Awaited(u)'
    <3>1. CASE u = t
      BY <3>1, <2>2, <2>3 DEF Awaited
    <3>2. CASE u # t
      BY <3>2, <2>1, <2>2, <2>3, <2>4, <2>5 DEF Awaited, InEngine
    <3>3. QED
      BY <3>1, <3>2
  <2>6. QED
    BY <1>1, <2>5, GoingKept DEF Lively, Tasks
<1>4. QED
  BY <1>2, <1>3 DEF Engine

\* Every step keeps it.
LEMMA NextLively ==
    ASSUME Base, Lively, [Next]_vars
    PROVE  Lively'
<1> SUFFICES ASSUME Nodes # {} PROVE Lively'
  BY DEF Lively
<1>1. ASSUME NEW i \in Instances,
             \/ StartWorkflow(i) \/ PauseWorkflow(i) \/ ResumeWorkflow(i)
             \/ CancelWorkflow(i) \/ RecoverWorkflow(i) \/ OnOtherEvent(i)
      PROVE  Lively'
  BY <1>1, PlainGoing, CancelGoing, RecoverGoing
<1>2. ASSUME NEW k \in DOMAIN log, OnRuntimeEvent(k) PROVE Lively'
  BY <1>2, EventGoing
<1>3. CASE Checkpoint \/ Dispatched
  BY <1>3, WritesGoing
<1>4. ASSUME NEW n \in Nodes, Dispatch(n) PROVE Lively'
  BY <1>4, DispatchFacts, SendsGoing DEF Base
<1>5. CASE Raise
  BY <1>5, RaiseFacts, FailsGoing DEF Base
<1>6. ASSUME NEW t \in Tasks, Engine(t) PROVE Lively'
  BY <1>6, EngineGoing
<1>7. CASE Crash
  BY <1>7, CrashFacts, DiesGoing DEF Base
<1>8. CASE EngineLogs \/ UNCHANGED vars
  <2>1. /\ row' = row /\ op' = op /\ edges' = edges /\ mishaps' = mishaps
        /\ queued' = queued /\ running' = running /\ log' = log
        /\ pending' = pending
    BY <1>8, IdleFacts DEF Idles
  <2>2. \A t : Awaited(t) => Awaited(t)'
    BY <2>1 DEF Awaited, InEngine
  <2>3. QED
    BY <2>1, <2>2, GoingKept DEF Lively
<1>9. QED
  BY <1>1, <1>2, <1>3, <1>4, <1>5, <1>6, <1>7, <1>8 DEF Next, Orchestrator

\* As long as no event is dropped and nothing raises, crashes or is recovered, a
\* RUNNING workflow never waits for nothing: between two calls it has a node to
\* go, every RUNNING node has a task in the engine or an event under way, and no
\* node that could be dispatched was forgotten.  (A workflow without nodes, which
\* start_workflow accepts, stays RUNNING for ever.)
THEOREM Progress ==
    ASSUME Nodes # {}
    PROVE  Spec => []NothingStalls
<1>1. Init => Base /\ Lively
  <2>1. ASSUME Init PROVE Lively
    <3>1. \A i \in Instances : row[i] = NoInstance /\ op.id # i /\ Current(i) = NoInstance
      BY <2>1, FreeFacts, CurrentFacts DEF Init
    <3>2. QED
      BY <3>1 DEF Lively, Going, Blocked, Is
  <2>2. QED
    BY <2>1, InitBase
<1>2. Base /\ Lively /\ [Next]_vars => Base' /\ Lively'
  BY NextBase, NextLively
<1>3. Lively => NothingStalls
  <2>1. ASSUME Lively, NEW i \in Instances, mishaps[i] = {}, Is(i, {"RUNNING"}), op.id # i
        PROVE  /\ ~Completed(row[i])
               /\ \A n \in Nodes :
                    /\ row[i].nodes[n] = "RUNNING" => Awaited(<<i, n>>)
                    /\ row[i].nodes[n] = "PENDING" =>
                         \E p \in Parents(n) : row[i].nodes[p] \notin {"SUCCEEDED", "SKIPPED"}
    <3>1. row[i] # NoInstance /\ row[i].status = "RUNNING" /\ Current(i) = row[i]
      BY <2>1, CurrentFacts DEF Is
    <3>2. Going(i)
      BY <2>1 DEF Lively
    <3>3. Unfinished(row[i]) /\ Blocked(i)
          /\ \A n \in Nodes : row[i].nodes[n] = "RUNNING" => Awaited(<<i, n>>)
      BY <2>1, <3>1, <3>2 DEF Going
    <3>4. QED
      BY <2>1, <3>1, <3>3 DEF Unfinished, Blocked
  <2>2. QED
    BY <2>1 DEF NothingStalls, Alive, Awaited, InEngine
<1>4. QED
  BY <1>1, <1>2, <1>3, PTL DEF Spec

----------------------------------------------------------------------------
(* The planner, for any node ids and edges: the variables of the graph are *)
(* ExecutionGraph's, the others are declared for the instance.             *)

CONSTANT MaxEdges
VARIABLES inDegree, queue, topo

Pl == INSTANCE Planner

\* The element the community fold takes out of a set.
Pick(s) == CHOOSE x \in s : TRUE

\* The edges e into v from the nodes of S, counted.
Into(e, v, S) == Pl!MapThenSumSet(LAMBDA u : e[<<u, v>>], S)

\* g sums f over the sets of D, the way that fold does.
Sums(g, f, D) ==
    g = [s \in D |-> IF s = {} THEN 0 ELSE f[Pick(s)] + g[s \ {Pick(s)}]]

\* The subsets of at most n elements.
Small(S, n) == {s \in SUBSET S : Cardinality(s) <= n}

\* What is left without the element picked is smaller.
LEMMA PickSmaller ==
    ASSUME NEW S, IsFiniteSet(S), NEW s \in SUBSET S, s # {}
    PROVE  /\ Pick(s) \in s /\ s \ {Pick(s)} \in SUBSET S
           /\ Cardinality(s) \in Nat /\ Cardinality(s \ {Pick(s)}) = Cardinality(s) - 1
           /\ Cardinality(s \ {Pick(s)}) \in Nat
<1>1. Pick(s) \in s
  BY DEF Pick
<1>2. IsFiniteSet(s) /\ IsFiniteSet(s \ {Pick(s)})
  BY FS_Subset, FS_RemoveElement
<1>3. QED
  BY <1>1, <1>2, FS_CardinalityType, FS_RemoveElement

\* There is such a function for the sets of at most n elements ...
LEMMA SumsSmall ==
    ASSUME NEW S, IsFiniteSet(S), NEW f, NEW n \in Nat
    PROVE  \E g : Sums(g, f, Small(S, n))
<1> DEFINE B == {m \in Nat : ~ \E g : Sums(g, f, Small(S, m))}
<1>1. SUFFICES ASSUME B # {} PROVE FALSE
  OBVIOUS
<1>2. PICK m \in B : \A k \in B : m <= k
  <2>1. B \subseteq Nat
    OBVIOUS
  <2> HIDE DEF B
  <2>2. QED
    BY <1>1, <2>1, Least
<1>3. m \in Nat /\ ~ \E g : Sums(g, f, Small(S, m))
  OBVIOUS
<1>4. CASE m = 0
  <2> DEFINE g == [s \in Small(S, m) |-> 0]
  <2>1. ASSUME NEW s \in Small(S, m) PROVE s = {}
    BY <1>4, FS_Subset, FS_CardinalityType, FS_EmptySet DEF Small
  <2>2. Sums(g, f, Small(S, m))
    BY <2>1 DEF Sums
  <2>3. QED
    BY <1>3, <2>2
<1>5. CASE m # 0
  <2>1. m - 1 \in Nat /\ m - 1 \notin B
    BY <1>2, <1>5
  <2>2. PICK g : Sums(g, f, Small(S, m - 1))
    BY <2>1
  <2> DEFINE V(s, d) == IF s = {} THEN 0 ELSE f[Pick(s)] + d[s \ {Pick(s)}]
             h == [s \in Small(S, m) |-> V(s, g)]
  <2>3. \A s \in Small(S, m - 1) : g[s] = V(s, g) /\ s \in Small(S, m)
    <3>1. \A s \in Small(S, m - 1) : g[s] = V(s, g)
      BY <2>2 DEF Sums
    <3>2. ASSUME NEW s \in Small(S, m - 1) PROVE s \in Small(S, m)
      <4>1. Cardinality(s) \in Nat
        BY FS_Subset, FS_CardinalityType DEF Small
      <4>2. QED
        BY <4>1, <1>3 DEF Small
    <3>3. QED
      BY <3>1, <3>2
  <2>4. ASSUME NEW s \in Small(S, m) PROVE V(s, h) = V(s, g)
    <3>1. CASE s = {}
      BY <3>1
    <3>2. CASE s # {}
      <4>1. s \ {Pick(s)} \in Small(S, m - 1)
        BY <3>2, <1>3, PickSmaller DEF Small
      <4>2. h[s \ {Pick(s)}] = g[s \ {Pick(s)}]
        <5>1. PICK r : r = s \ {Pick(s)}
          OBVIOUS
        <5>2. h[r] = V(r, g) /\ g[r] = V(r, g)
          <6>1. r \in Small(S, m - 1) /\ r \in Small(S, m)
            BY <4>1, <5>1, <2>3
          <6> HIDE DEF V
          <6>2. QED
            BY <6>1, <2>3
        <5>3. QED
          BY <5>1, <5>2
      <4> HIDE DEF h
      <4>3. QED
        BY <4>2
    <3>3. QED
      BY <3>1, <3>2
  <2>5. h = [s \in Small(S, m) |-> V(s, h)]
    <3>1. PICK d : d = h
      OBVIOUS
    <3>2. \A s \in Small(S, m) : V(s, d) = V(s, g)
      BY <2>4, <3>1
    <3>3. d = [s \in Small(S, m) |-> V(s, g)]
      BY <3>1
    <3> HIDE DEF V, h
    <3>4. d = [s \in Small(S, m) |-> V(s, d)]
      BY <3>2, <3>3
    <3>5. QED
      BY <3>1, <3>4
  <2>6. Sums(h, f, Small(S, m))
    <3> HIDE DEF h
    <3>1. QED
      BY <2>5 DEF Sums
  <2>7. QED
    BY <1>3, <2>6
<1>6. QED
  BY <1>4, <1>5

\* ... and so for all subsets of a finite set; the community fold is its value.
LEMMA IntoSums ==
    ASSUME NEW S, NEW e, NEW v, NEW f, IsFiniteSet(S), \A u \in S : f[u] = e[<<u, v>>]
    PROVE  \E g : Sums(g, f, SUBSET S) /\ Into(e, v, S) = g[S]
<1> DEFINE Fold(g) == g = [s \in SUBSET S |-> IF s = {} THEN 0
                                              ELSE e[<<Pick(s), v>>] + g[s \ {Pick(s)}]]
<1>1. Cardinality(S) \in Nat
  BY FS_CardinalityType
<1>2. SUBSET S = Small(S, Cardinality(S))
  BY FS_Subset DEF Small
<1>3. \E g : Sums(g, f, SUBSET S)
  <2>1. PICK n \in Nat : SUBSET S = Small(S, n)
    BY <1>1, <1>2
  <2>2. \E g : Sums(g, f, Small(S, n))
    BY SumsSmall
  <2>3. QED
    BY <2>1, <2>2
<1>4. ASSUME NEW g PROVE Fold(g) <=> Sums(g, f, SUBSET S)
  <2>1. ASSUME NEW s \in SUBSET S, s # {} PROVE f[Pick(s)] = e[<<Pick(s), v>>]
    <3>1. Pick(s) \in S
      BY <2>1 DEF Pick
    <3>2. QED
      BY <3>1
  <2>2. PICK A, B : /\ A = [s \in SUBSET S |-> IF s = {} THEN 0
                                            ELSE e[<<Pick(s), v>>] + g[s \ {Pick(s)}]]
                    /\ B = [s \in SUBSET S |-> IF s = {} THEN 0
                                            ELSE f[Pick(s)] + g[s \ {Pick(s)}]]
    OBVIOUS
  <2>3. A = B
    BY <2>1, <2>2
  <2>4. QED
    BY <2>2, <2>3, Zenon DEF Sums
<1>5. PICK h : h = CHOOSE g : Fold(g)
  OBVIOUS
<1>6. Fold(h)
  <2> HIDE DEF Fold
  <2>1. QED
    BY <1>3, <1>4, <1>5
<1>7. Into(e, v, S) = h[S]
  BY <1>5, Zenon DEF Into, Pick, Pl!MapThenSumSet, Pl!MapThenFoldSet
<1>8. Sums(h, f, SUBSET S)
  <2> HIDE DEF Fold
  <2>1. QED
    BY <1>4, <1>6
<1>9. QED
  BY <1>7, <1>8

\* The order in which the elements are picked does not matter.
LEMMA SumsRemove ==
    ASSUME NEW S, NEW s \in SUBSET S, NEW f, NEW g, NEW w \in s, IsFiniteSet(S),
           \A u \in S : f[u] \in Nat, Sums(g, f, SUBSET S)
    PROVE  g[s] \in Nat /\ g[s \ {w}] \in Nat /\ g[s] = f[w] + g[s \ {w}]
<1> DEFINE Good(r) == g[r] \in Nat /\ \A u \in r : g[r] = f[u] + g[r \ {u}]
           B == {m \in Nat : \E r \in SUBSET S : Cardinality(r) = m /\ ~Good(r)}
<1>1. SUFFICES ASSUME \E r \in SUBSET S : ~Good(r) PROVE FALSE
  <2>1. s \ {w} \in SUBSET S
    OBVIOUS
  <2>2. Good(s) /\ Good(s \ {w})
    BY <2>1
  <2>3. QED
    BY <2>2
<1>2. B # {}
  <2>1. \A r \in SUBSET S : Cardinality(r) \in Nat
    BY FS_Subset, FS_CardinalityType
  <2>2. QED
    BY <1>1, <2>1
<1>3. PICK m \in B : \A k \in B : m <= k
  <2>1. B \subseteq Nat
    OBVIOUS
  <2> HIDE DEF B
  <2>2. QED
    BY <1>2, <2>1, Least
<1>4. PICK r \in SUBSET S : Cardinality(r) = m /\ ~Good(r)
  OBVIOUS
<1>5. ASSUME NEW t \in SUBSET S, Cardinality(t) = m - 1, m - 1 \in Nat PROVE Good(t)
  <2>1. m - 1 \notin B
    BY <1>3, <1>5
  <2> HIDE DEF Good
  <2>2. QED
    BY <2>1, <1>5
<1>6. r # {}
  <2>1. {} \in SUBSET S
    OBVIOUS
  <2>2. g[{}] = 0
    BY <2>1 DEF Sums
  <2>3. Good({})
    BY <2>2
  <2> HIDE DEF Good
  <2>4. QED
    BY <1>4, <2>3
<1>7. PICK x : x = Pick(r)
  OBVIOUS
<1>8. /\ x \in r /\ r \ {x} \in SUBSET S /\ Cardinality(r) \in Nat
      /\ Cardinality(r \ {x}) = Cardinality(r) - 1 /\ Cardinality(r \ {x}) \in Nat
  BY <1>6, <1>7, PickSmaller, Zenon
<1>9. /\ g[r] = f[x] + g[r \ {x}] /\ Good(r \ {x}) /\ f[x] \in Nat
      /\ g[r] \in Nat
  <2>1. g[r] = f[x] + g[r \ {x}]
    BY <1>6, <1>7 DEF Sums
  <2>2. Good(r \ {x})
    BY <1>4, <1>5, <1>8
  <2>3. f[x] \in Nat
    BY <1>8
  <2>4. g[r \ {x}] \in Nat
    BY <2>2
  <2> HIDE DEF Good
  <2>5. QED
    BY <2>1, <2>2, <2>3, <2>4
<1>10. ASSUME NEW u \in r PROVE g[r] = f[u] + g[r \ {u}]
  <2>1. CASE u = x
    BY <1>9, <2>1
  <2>2. CASE u # x
    <3>1. IsFiniteSet(r) /\ r \ {u} \in SUBSET S /\ Cardinality(r \ {u}) = m - 1
      BY <1>4, FS_Subset, FS_RemoveElement
    <3>2. Good(r \ {u})
      BY <1>4, <1>5, <1>8, <3>1
    <3>3. x \in r \ {u} /\ u \in r \ {x}
      BY <1>8, <2>2
    <3>4. (r \ {u}) \ {x} = (r \ {x}) \ {u}
      OBVIOUS
    <3>5. PICK t : t = (r \ {x}) \ {u}
      OBVIOUS
    <3>6. g[r \ {u}] = f[x] + g[t] /\ g[r \ {x}] = f[u] + g[t]
      BY <1>9, <3>2, <3>3, <3>4, <3>5
    <3>7. g[t] \in Nat
      <4>0. PICK q : q = r \ {x}
        OBVIOUS
      <4>1. /\ t \in SUBSET S /\ Cardinality(q) = m - 1 /\ IsFiniteSet(q)
            /\ u \in q /\ t = q \ {u}
        BY <1>4, <1>8, <3>3, <3>5, <4>0, FS_Subset
      <4>2. Cardinality(t) = m - 2 /\ Cardinality(t) \in Nat
        <5>1. Cardinality(q \ {u}) = Cardinality(q) - 1 /\ IsFiniteSet(q \ {u})
          BY <4>1, FS_RemoveElement
        <5>2. Cardinality(t) \in Nat
          BY <4>1, <5>1, FS_CardinalityType
        <5>3. m \in Nat
          OBVIOUS
        <5>4. QED
          BY <4>1, <5>1, <5>2, <5>3
      <4>3. Cardinality(t) \notin B
        BY <1>3, <4>2
      <4>4. QED
        BY <4>1, <4>2, <4>3
    <3>8. f[u] \in Nat
      OBVIOUS
    <3>9. QED
      BY <1>9, <3>6, <3>7, <3>8
  <2>3. QED
    BY <2>1, <2>2
<1>11. QED
  <2>1. Good(r)
    BY <1>9, <1>10
  <2> HIDE DEF Good
  <2>2. QED
    BY <1>4, <2>1

\* Nor does the set the function is defined on.
LEMMA SumsSame ==
    ASSUME NEW S, NEW T \in SUBSET S, NEW f, NEW g, NEW h, IsFiniteSet(S),
           Sums(g, f, SUBSET S), Sums(h, f, SUBSET T)
    PROVE  g[T] = h[T]
<1> DEFINE B == {m \in Nat : \E r \in SUBSET T : Cardinality(r) = m /\ g[r] # h[r]}
<1>1. SUFFICES ASSUME g[T] # h[T] PROVE FALSE
  OBVIOUS
<1>2. B # {}
  BY <1>1, FS_Subset, FS_CardinalityType
<1>3. PICK m \in B : \A k \in B : m <= k
  <2>1. B \subseteq Nat
    OBVIOUS
  <2> HIDE DEF B
  <2>2. QED
    BY <1>2, <2>1, Least
<1>4. PICK r \in SUBSET T : Cardinality(r) = m /\ g[r] # h[r]
  OBVIOUS
<1>5. r # {}
  BY <1>4 DEF Sums
<1>6. PICK x : x = Pick(r)
  OBVIOUS
<1>7. /\ x \in r /\ r \ {x} \in SUBSET T /\ Cardinality(r) \in Nat
      /\ Cardinality(r \ {x}) = Cardinality(r) - 1 /\ Cardinality(r \ {x}) \in Nat
  BY <1>5, <1>6, PickSmaller, FS_Subset, Zenon
<1>8. g[r \ {x}] = h[r \ {x}]
  BY <1>3, <1>4, <1>7
<1>9. g[r] = f[x] + g[r \ {x}] /\ h[r] = f[x] + h[r \ {x}]
  <2>1. r \in SUBSET S
    OBVIOUS
  <2>2. QED
    BY <1>5, <1>6, <2>1 DEF Sums
<1>10. QED
  BY <1>4, <1>8, <1>9

\* A node that leaves S takes its edges with it ...
LEMMA IntoRemove ==
    ASSUME NEW S, NEW e, NEW v, NEW u \in S, IsFiniteSet(S),
           \A w \in S : e[<<w, v>>] \in Nat
    PROVE  /\ Into(e, v, S) \in Nat /\ Into(e, v, S \ {u}) \in Nat
           /\ Into(e, v, S) = e[<<u, v>>] + Into(e, v, S \ {u})
<1>1. PICK T : T = S \ {u}
  OBVIOUS
<1>2. T \in SUBSET S /\ IsFiniteSet(T)
  BY <1>1, FS_Subset
<1>3. PICK f : f = [w \in S |-> e[<<w, v>>]]
  OBVIOUS
<1>4. \A w \in S : f[w] = e[<<w, v>>] /\ f[w] \in Nat
  BY <1>3
<1>5. PICK g : Sums(g, f, SUBSET S) /\ Into(e, v, S) = g[S]
  BY <1>4, IntoSums
<1>6. PICK h : Sums(h, f, SUBSET T) /\ Into(e, v, T) = h[T]
  BY <1>2, <1>4, IntoSums
<1>7. Sums(g, f, SUBSET S) /\ Sums(h, f, SUBSET T)
  BY <1>5, <1>6
<1>8. g[T] = h[T]
  BY ONLY IsFiniteSet(S), <1>2, <1>7, SumsSame
<1>9. g[S] \in Nat /\ g[S] = f[u] + g[T] /\ g[T] \in Nat
  <2>1. S \in SUBSET S /\ u \in S /\ \A w \in S : f[w] \in Nat
    BY <1>4
  <2>2. g[S] \in Nat /\ g[S \ {u}] \in Nat /\ g[S] = f[u] + g[S \ {u}]
    BY ONLY IsFiniteSet(S), <1>7, <2>1, SumsRemove
  <2>3. QED
    BY <1>1, <2>2
<1>10. QED
  BY <1>1, <1>4, <1>5, <1>6, <1>8, <1>9

\* ... and no edges are left when none is from S.
LEMMA IntoZero ==
    ASSUME NEW S, NEW e, NEW v, IsFiniteSet(S), \A u \in S : e[<<u, v>>] \in Nat
    PROVE  /\ Into(e, v, S) \in Nat
           /\ Into(e, v, S) = 0 <=> \A u \in S : e[<<u, v>>] = 0
<1>0. PICK f : f = [w \in S |-> e[<<w, v>>]]
  OBVIOUS
<1>1. \A w \in S : f[w] = e[<<w, v>>] /\ f[w] \in Nat
  BY <1>0
<1>2. PICK g : Sums(g, f, SUBSET S) /\ Into(e, v, S) = g[S]
  BY <1>1, IntoSums
<1>3. Sums(g, f, SUBSET S)
  BY <1>2
<1>4. ASSUME NEW u \in S
      PROVE  g[S] \in Nat /\ g[S \ {u}] \in Nat /\ g[S] = f[u] + g[S \ {u}]
  <2>1. S \in SUBSET S /\ u \in S /\ \A w \in S : f[w] \in Nat
    BY <1>1
  <2>2. QED
    BY ONLY IsFiniteSet(S), <1>3, <2>1, SumsRemove
<1>5. ASSUME g[S] = 0, NEW u \in S PROVE f[u] = 0
  <2>1. f[u] \in Nat
    BY <1>1, <1>5
  <2>2. g[S \ {u}] \in Nat /\ 0 = f[u] + g[S \ {u}]
    BY <1>4, <1>5
  <2>3. QED
    BY ONLY <2>1, <2>2
<1>6. ASSUME \A u \in S : f[u] = 0, g[S] # 0 PROVE FALSE
  <2> DEFINE B == {m \in Nat : \E r \in SUBSET S : Cardinality(r) = m /\ g[r] # 0}
  <2>1. B # {}
    BY <1>6, FS_CardinalityType
  <2>2. PICK m \in B : \A k \in B : m <= k
    <3>1. B \subseteq Nat
      OBVIOUS
    <3> HIDE DEF B
    <3>2. QED
      BY <2>1, <3>1, Least
  <2>3. PICK r \in SUBSET S : Cardinality(r) = m /\ g[r] # 0
    OBVIOUS
  <2>4. r # {}
    BY <1>3, <2>3 DEF Sums
  <2>5. PICK x : x = Pick(r)
    OBVIOUS
  <2>6. /\ x \in r /\ r \ {x} \in SUBSET S /\ Cardinality(r) \in Nat
        /\ Cardinality(r \ {x}) = Cardinality(r) - 1 /\ Cardinality(r \ {x}) \in Nat
    BY <2>4, <2>5, PickSmaller, Zenon
  <2>7. g[r \ {x}] = 0
    BY <2>2, <2>3, <2>6
  <2>8. g[r] = f[x] + g[r \ {x}]
    BY <1>3, <2>4, <2>5 DEF Sums
  <2>9. QED
    BY <1>6, <2>3, <2>6, <2>7, <2>8
<1>7. g[S] \in Nat
  <2>1. CASE S = {}
    BY <1>3, <2>1 DEF Sums
  <2>2. CASE S # {}
    <3>1. PICK u : u \in S
      BY <2>2
    <3>2. QED
      BY <1>4, <3>1
  <2>3. QED
    BY <2>1, <2>2
<1>8. g[S] = 0 <=> \A u \in S : e[<<u, v>>] = 0
  BY <1>1, <1>5, <1>6
<1>9. QED
  BY <1>2, <1>7, <1>8

----------------------------------------------------------------------------
(* Kahn's algorithm.                                                       *)

\* P: the nodes popped in the current run.  in_degree counts the edges from the
\* others, the queue has the others without one, and nobody was popped before
\* its parents.
KahnInv(P) ==
    /\ P \subseteq nodes /\ queue \subseteq nodes \ P
    /\ \A v \in Ids : inDegree[v] = Into(arcs, v, Ids \ P)
    /\ \A v \in nodes \ P : v \in queue <=> inDegree[v] = 0
    /\ \A v \in P, u \in Ids : Pl!Edge(u, v) => u \in P

\* The start of a run.
LEMMA KahnStart ==
    ASSUME IsFiniteSet(Ids), Pl!TypeOK, Pl!Kahn, UNCHANGED <<nodes, arcs>>
    PROVE  KahnInv({})' /\ inDegree' \in [Ids -> Nat] /\ queue' \subseteq nodes
<1>1. /\ nodes \subseteq Ids /\ \A u, v \in Ids : arcs[<<u, v>>] \in Nat
  BY DEF Pl!TypeOK, Pl!Pairs
<1>2. ASSUME NEW v \in Ids
      PROVE  /\ Pl!Degree(v) = Into(arcs, v, Ids) /\ Into(arcs, v, Ids) \in Nat
  <2>1. Pl!Degree(v) = Into(arcs, v, Ids)
    BY Zenon DEF Pl!Degree, Into
  <2>2. PICK e : e = arcs
    OBVIOUS
  <2>3. Into(e, v, Ids) \in Nat
    <3>1. \A u \in Ids : e[<<u, v>>] \in Nat
      BY <1>1, <2>2
    <3>2. QED
      BY ONLY IsFiniteSet(Ids), <3>1, IntoZero
  <2>4. QED
    BY <2>1, <2>2, <2>3
<1>3. inDegree' = [v \in Ids |-> Pl!Degree(v)] /\ queue' = {v \in nodes : Pl!Degree(v) = 0}
  BY DEF Pl!Kahn
<1>4. \A v \in Ids : inDegree'[v] = Into(arcs, v, Ids)
  BY <1>2, <1>3
<1>5. Ids \ {} = Ids
  OBVIOUS
<1>6. \A v \in nodes : v \in queue' <=> inDegree'[v] = 0
  BY <1>1, <1>3
<1>7. inDegree' \in [Ids -> Nat] /\ queue' \subseteq nodes
  BY <1>2, <1>3
<1>8. QED
  BY <1>4, <1>5, <1>6, <1>7 DEF KahnInv

\* A node that is popped has no parents but popped ones.
LEMMA PoppedParents ==
    ASSUME IsFiniteSet(Ids), Pl!TypeOK, NEW P, KahnInv(P), NEW v \in Ids
    PROVE  /\ inDegree[v] \in Nat
           /\ inDegree[v] = 0 <=> \A u \in Ids : Pl!Edge(u, v) => u \in P
<1>1. \A u \in Ids : arcs[<<u, v>>] \in Nat
  BY DEF Pl!TypeOK, Pl!Pairs
<1>2. PICK e, S : e = arcs /\ S = Ids \ P
  OBVIOUS
<1>3. IsFiniteSet(S) /\ \A u \in S : e[<<u, v>>] \in Nat
  BY <1>1, <1>2, FS_Subset
<1>4. /\ Into(e, v, S) \in Nat
      /\ Into(e, v, S) = 0 <=> \A u \in S : e[<<u, v>>] = 0
  BY ONLY <1>3, IntoZero
<1>5. inDegree[v] = Into(e, v, S)
  BY <1>2 DEF KahnInv
<1>6. QED
  BY <1>1, <1>2, <1>4, <1>5 DEF Pl!Edge

\* One round of the loop.
LEMMA KahnPop ==
    ASSUME IsFiniteSet(Ids), Pl!TypeOK, ~Pl!Dangling, NEW P, KahnInv(P),
           NEW u \in Ids, Pl!Pop(u), UNCHANGED <<nodes, arcs>>
    PROVE  /\ u \in nodes \ P
           /\ \A w \in Ids : Pl!Edge(w, u) => w \in P
           /\ \A v \in Ids : Pl!Edge(u, v) => v \notin P \cup {u}
           /\ KahnInv(P \cup {u})'
           /\ inDegree' \in [Ids -> Nat] /\ queue' \subseteq nodes
<1>1. /\ nodes \subseteq Ids /\ \A w, v \in Ids : arcs[<<w, v>>] \in Nat
  BY DEF Pl!TypeOK, Pl!Pairs
<1>2. /\ u \in queue /\ u \in nodes \ P
      /\ \A v \in Ids : inDegree'[v] = inDegree[v] - arcs[<<u, v>>]
      /\ queue' = (queue \ {u}) \cup {v \in Ids : Pl!Edge(u, v) /\ inDegree[v] = arcs[<<u, v>>]}
      /\ DOMAIN inDegree' = Ids /\ inDegree' = [v \in Ids |-> inDegree'[v]]
  BY DEF Pl!Pop, KahnInv
<1>3. \A w \in Ids : Pl!Edge(w, u) => w \in P
  <2>1. inDegree[u] = 0
    BY <1>2 DEF KahnInv
  <2>2. QED
    BY <2>1, PoppedParents
<1>4. \A v \in Ids : Pl!Edge(u, v) => v \in nodes \ (P \cup {u})
  BY <1>2, <1>3 DEF KahnInv, Pl!Dangling
<1>5. ASSUME NEW v \in Ids
      PROVE  /\ inDegree'[v] \in Nat /\ inDegree'[v] = Into(arcs, v, Ids \ (P \cup {u}))
             /\ inDegree[v] = arcs[<<u, v>>] + inDegree'[v]
  <2>1. PICK e, S : e = arcs /\ S = Ids \ P
    OBVIOUS
  <2>2. IsFiniteSet(S) /\ u \in S /\ \A w \in S : e[<<w, v>>] \in Nat
    BY <1>1, <1>2, <2>1, FS_Subset
  <2>3. /\ Into(e, v, S) \in Nat /\ Into(e, v, S \ {u}) \in Nat
        /\ Into(e, v, S) = e[<<u, v>>] + Into(e, v, S \ {u})
    BY ONLY <2>2, IntoRemove
  <2>4. S \ {u} = Ids \ (P \cup {u}) /\ inDegree[v] = Into(e, v, S)
    BY <2>1 DEF KahnInv
  <2>5. PICK a, b : a = e[<<u, v>>] /\ b = Into(e, v, S \ {u})
    OBVIOUS
  <2>6. a \in Nat /\ b \in Nat /\ inDegree[v] = a + b /\ inDegree'[v] = inDegree[v] - a
    BY <1>2, <2>1, <2>2, <2>3, <2>4, <2>5
  <2>7. inDegree'[v] = b
    BY <2>6
  <2>8. QED
    BY <2>1, <2>4, <2>5, <2>6, <2>7
<1>6. queue' \subseteq nodes \ (P \cup {u})
  BY <1>2, <1>4 DEF KahnInv
<1>7. ASSUME NEW v \in nodes \ (P \cup {u}) PROVE v \in queue' <=> inDegree'[v] = 0
  <2>1. v \in Ids /\ arcs[<<u, v>>] \in Nat /\ (v \in queue <=> inDegree[v] = 0)
    BY <1>1 DEF KahnInv
  <2>2. v \in queue' <=> v \in queue \/ (Pl!Edge(u, v) /\ inDegree[v] = arcs[<<u, v>>])
    BY <1>2, <2>1
  <2>3. QED
    BY <1>5, <2>1, <2>2 DEF Pl!Edge
<1>8. \A v \in P \cup {u}, w \in Ids : Pl!Edge(w, v) => w \in P \cup {u}
  BY <1>3 DEF KahnInv
<1>9. \A w, v \in Ids : Pl!Edge(w, v)' <=> Pl!Edge(w, v)
  BY DEF Pl!Edge
<1>10. P \cup {u} \subseteq nodes
  BY <1>2 DEF KahnInv
<1>11. KahnInv(P \cup {u})'
  BY <1>1, <1>5, <1>6, <1>7, <1>8, <1>9, <1>10 DEF KahnInv
<1>12. QED
  BY <1>2, <1>3, <1>4, <1>5, <1>6, <1>11

\* The end of a run: if a node is left then the graph has a cycle.
LEMMA KahnEnd ==
    ASSUME IsFiniteSet(Ids), Pl!TypeOK, ~Pl!Dangling, NEW P, KahnInv(P), queue = {},
           P # nodes
    PROVE  Pl!HasCycle
<1>1. /\ nodes \subseteq Ids /\ P \subseteq nodes
  BY DEF Pl!TypeOK, KahnInv
<1>2. PICK S : S = nodes \ P
  OBVIOUS
<1>3. S \in SUBSET nodes /\ S # {}
  BY <1>1, <1>2
<1>4. ASSUME NEW v \in S PROVE \E u \in S : Pl!Edge(u, v)
  <2>1. v \in Ids /\ inDegree[v] # 0
    BY <1>1, <1>2 DEF KahnInv
  <2>2. PICK u \in Ids : Pl!Edge(u, v) /\ u \notin P
    BY <2>1, PoppedParents
  <2>3. u \in nodes
    BY <2>1, <2>2 DEF Pl!Dangling
  <2>4. QED
    BY <1>2, <2>2, <2>3
<1>5. QED
  BY <1>3, <1>4 DEF Pl!HasCycle

----------------------------------------------------------------------------
(* build(): the order in which _validate_dag visits the nodes.             *)

\* The nodes visited so far.
Visited == {topo[i] : i \in 1..Len(topo)}

\* No node is visited twice, none before its parents.
ParentsFirst ==
    /\ \A i, j \in 1..Len(topo) : topo[i] = topo[j] => i = j
    /\ \A i \in 1..Len(topo), u \in Ids :
          Pl!Edge(u, topo[i]) => \E j \in 1..Len(topo) : j < i /\ topo[j] = u

\* There is one place in the order for each node visited.
LEMMA VisitedCount ==
    ASSUME topo \in Seq(nodes), ParentsFirst
    PROVE  IsFiniteSet(Visited) /\ Cardinality(Visited) = Len(topo)
<1>1. Len(topo) \in Nat
  OBVIOUS
<1>2. PICK n, s, V : n = Len(topo) /\ s = topo /\ V = Visited
  OBVIOUS
<1>3. IsFiniteSet(1..n) /\ Cardinality(1..n) = n
  <2>1. n \in Nat
    BY <1>1, <1>2
  <2>2. QED
    BY <2>1, FS_Interval
<1>4. [i \in 1..n |-> s[i]] \in Bijection(1..n, V)
  BY <1>2 DEF Visited, ParentsFirst, Bijection, Injection, Surjection, IsInjective
<1>5. ExistsBijection(1..n, V)
  BY <1>4 DEF ExistsBijection
<1>6. QED
  BY <1>2, <1>3, <1>5, FS_Bijection

\* A graph all of whose nodes are visited has no cycle: the first node of it to
\* be visited would have been visited before its parent.
LEMMA VisitedAcyclic ==
    ASSUME Pl!TypeOK, ParentsFirst, Visited = nodes
    PROVE  ~Pl!HasCycle
<1>1. SUFFICES ASSUME NEW S \in SUBSET nodes, S # {},
                      \A v \in S : \E u \in S : Pl!Edge(u, v)
               PROVE  FALSE
  BY DEF Pl!HasCycle
<1>2. topo \in Seq(nodes) /\ Len(topo) \in Nat /\ nodes \subseteq Ids
  BY DEF Pl!TypeOK
<1>3. PICK I : I = {i \in 1..Len(topo) : topo[i] \in S}
  OBVIOUS
<1>4. I \subseteq Nat /\ I # {}
  <2>1. PICK v : v \in S /\ v \in Visited
    BY <1>1
  <2>2. PICK i \in 1..Len(topo) : topo[i] = v
    BY <2>1 DEF Visited
  <2>3. I \subseteq Nat
    BY <1>2, <1>3
  <2>4. QED
    BY <1>3, <2>1, <2>2, <2>3
<1>5. PICK i \in I : \A j \in I : i <= j
  BY <1>4, Least
<1>6. PICK u \in S : Pl!Edge(u, topo[i])
  BY <1>1, <1>3
<1>7. PICK j \in 1..Len(topo) : j < i /\ topo[j] = u
  BY <1>2, <1>3, <1>6 DEF ParentsFirst
<1>8. j \in I
  BY <1>3, <1>6, <1>7
<1>9. i \in Nat /\ j \in Nat /\ i <= j
  BY <1>3, <1>5, <1>8
<1>10. QED
  BY <1>7, <1>9

\* Visiting one more.
LEMMA VisitNext ==
    ASSUME Pl!TypeOK, ParentsFirst, NEW u \in nodes, u \notin Visited,
           \A w \in Ids : Pl!Edge(w, u) => w \in Visited,
           topo' = Append(topo, u), UNCHANGED <<nodes, arcs>>
    PROVE  ParentsFirst' /\ Visited' = Visited \cup {u} /\ topo' \in Seq(nodes)
<1>1. topo \in Seq(nodes) /\ Len(topo) \in Nat
  BY DEF Pl!TypeOK
<1>2. /\ Len(topo') = Len(topo) + 1 /\ topo' \in Seq(nodes)
      /\ \A i \in 1..Len(topo) : topo'[i] = topo[i]
      /\ topo'[Len(topo) + 1] = u
  BY <1>1
<1>3. PICK n : n = Len(topo)
  OBVIOUS
<1>4. n \in Nat /\ \A i \in 1..(n + 1) : i \in 1..n \/ i = n + 1
  BY <1>1, <1>3
<1>5. Visited' = Visited \cup {u}
  <2>1. \A i \in 1..n : i \in 1..(n + 1)
    BY <1>4
  <2>2. n + 1 \in 1..(n + 1)
    BY <1>4
  <2>3. QED
    BY <1>2, <1>3, <1>4, <2>1, <2>2 DEF Visited
<1>6. \A i \in 1..n : topo[i] # u
  BY <1>3 DEF Visited
<1>7. \A i, j \in 1..(n + 1) : topo'[i] = topo'[j] => i = j
  BY <1>2, <1>3, <1>4, <1>6 DEF ParentsFirst
<1>8. ASSUME NEW i \in 1..(n + 1), NEW w \in Ids, Pl!Edge(w, topo'[i])
      PROVE  \E j \in 1..(n + 1) : j < i /\ topo'[j] = w
  <2>1. CASE i \in 1..n
    <3>1. PICK j \in 1..n : j < i /\ topo[j] = w
      BY <1>2, <1>3, <1>8, <2>1 DEF ParentsFirst
    <3>2. j \in 1..(n + 1) /\ topo'[j] = w
      BY <1>2, <1>3, <1>4, <3>1
    <3>3. QED
      BY <3>1, <3>2
  <2>2. CASE i = n + 1
    <3>1. PICK j \in 1..n : topo[j] = w
      BY <1>2, <1>3, <1>8, <2>2 DEF Visited
    <3>2. j \in 1..(n + 1) /\ topo'[j] = w /\ j < i
      BY <1>2, <1>3, <1>4, <2>2, <3>1
    <3>3. QED
      BY <3>2
  <2>3. QED
    BY <1>4, <2>1, <2>2
<1>9. \A w, v : Pl!Edge(w, v)' <=> Pl!Edge(w, v)
  BY DEF Pl!Edge
<1>10. ParentsFirst'
  BY <1>2, <1>3, <1>7, <1>8, <1>9 DEF ParentsFirst
<1>11. QED
  BY <1>2, <1>5, <1>10

----------------------------------------------------------------------------
(* plan(): the nodes' levels.                                              *)

\* P: the nodes popped.  Their children are above them, and a node that is not
\* on level 0 is one above a parent.
LevelInv(P) ==
    /\ \A u \in P, v \in Ids : Pl!Edge(u, v) => levels[v] >= levels[u] + 1
    /\ \A v \in Ids : \/ levels[v] = 0
                      \/ \E u \in P : Pl!Edge(u, v) /\ levels[v] = levels[u] + 1

\* The greater of two levels.
LEMMA RaisedFacts ==
    ASSUME levels \in [Ids -> Nat], NEW u \in Ids, NEW v \in Ids
    PROVE  Pl!Raised(u, v) = IF levels[v] >= levels[u] + 1 THEN levels[v] ELSE levels[u] + 1
<1>1. PICK a, b : a = levels[v] /\ b = levels[u] + 1
  OBVIOUS
<1>2. a \in Nat /\ b \in Nat
  BY <1>1
<1>3. PICK m : m = CHOOSE x \in {a, b} : \A y \in {a, b} : x >= y
  OBVIOUS
<1>4. m \in {a, b} /\ \A y \in {a, b} : m >= y
  <2>1. \E x \in {a, b} : \A y \in {a, b} : x >= y
    BY <1>2
  <2>2. QED
    BY <1>3, <2>1
<1>5. Pl!Raised(u, v) = m
  BY <1>1, <1>3 DEF Pl!Raised, Pl!Max
<1>6. QED
  BY <1>1, <1>2, <1>4, <1>5

\* Popping u lifts its children, none of which was popped.
LEMMA LevelPop ==
    ASSUME Pl!TypeOK, NEW P, P \subseteq nodes, LevelInv(P), NEW u \in Ids,
           \A w \in Ids : Pl!Edge(w, u) => w \in P,
           \A v \in Ids : Pl!Edge(u, v) => v \notin P \cup {u},
           levels' = [v \in Ids |-> IF Pl!Edge(u, v) THEN Pl!Raised(u, v) ELSE levels[v]],
           UNCHANGED arcs
    PROVE  LevelInv(P \cup {u})' /\ levels' \in [Ids -> Nat]
<1>1. P \subseteq Ids /\ levels \in [Ids -> Nat]
  BY DEF Pl!TypeOK
<1>2. ASSUME NEW v \in Ids
      PROVE  /\ levels[v] \in Nat /\ levels'[v] \in Nat /\ levels'[v] >= levels[v]
             /\ ~Pl!Edge(u, v) => levels'[v] = levels[v]
             /\ Pl!Edge(u, v) => /\ levels'[v] >= levels[u] + 1
                                 /\ levels'[v] = levels[v] \/ levels'[v] = levels[u] + 1
  BY <1>1, RaisedFacts
<1>3. \A w \in P \cup {u} : levels'[w] = levels[w] /\ w \in Ids
  BY <1>1, <1>2
<1>4. \A w, v : Pl!Edge(w, v)' <=> Pl!Edge(w, v)
  BY DEF Pl!Edge
<1>5. ASSUME NEW w \in P \cup {u}, NEW v \in Ids, Pl!Edge(w, v)
      PROVE  levels'[v] >= levels'[w] + 1
  <2>1. /\ levels'[w] = levels[w] /\ levels[w] \in Nat /\ levels[v] \in Nat
        /\ levels'[v] \in Nat /\ levels'[v] >= levels[v]
    BY <1>2, <1>3
  <2>2. CASE w \in P
    <3>1. levels[v] >= levels[w] + 1
      BY <1>5, <2>2 DEF LevelInv
    <3>2. QED
      BY <2>1, <3>1
  <2>3. CASE w = u
    BY <1>2, <1>5, <2>1, <2>3
  <2>4. QED
    BY <2>2, <2>3
<1>6. ASSUME NEW v \in Ids
      PROVE  \/ levels'[v] = 0
             \/ \E w \in P \cup {u} : Pl!Edge(w, v) /\ levels'[v] = levels'[w] + 1
  <2>1. CASE levels'[v] = levels[v]
    BY <1>3, <2>1 DEF LevelInv
  <2>2. CASE levels'[v] # levels[v]
    BY <1>2, <1>3, <2>2
  <2>3. QED
    BY <2>1, <2>2
<1>7. LevelInv(P \cup {u})'
  BY <1>4, <1>5, <1>6 DEF LevelInv
<1>8. levels' \in [Ids -> Nat]
  BY <1>2
<1>9. QED
  BY <1>7, <1>8

\* Of the nodes of a finite set that is not empty one is on the highest level.
LEMMA Highest ==
    ASSUME NEW S, NEW f \in [S -> Nat], NEW T \in SUBSET S, IsFiniteSet(T), T # {}
    PROVE  \E x \in T : \A y \in T : f[y] <= f[x]
<1> DEFINE Bad(m) == \E U \in SUBSET T : /\ U # {} /\ Cardinality(U) = m
                                         /\ ~ \E x \in U : \A y \in U : f[y] <= f[x]
           B == {m \in Nat : Bad(m)}
<1>1. SUFFICES ASSUME ~ \E x \in T : \A y \in T : f[y] <= f[x] PROVE FALSE
  OBVIOUS
<1>2. B # {}
  <2>1. Cardinality(T) \in Nat
    BY FS_CardinalityType
  <2>2. QED
    BY <1>1, <2>1
<1>3. PICK m \in B : \A k \in B : m <= k
  <2>1. B \subseteq Nat
    OBVIOUS
  <2> HIDE DEF B
  <2>2. QED
    BY <1>2, <2>1, Least
<1>4. PICK U \in SUBSET T : /\ U # {} /\ Cardinality(U) = m
                            /\ ~ \E x \in U : \A y \in U : f[y] <= f[x]
  OBVIOUS
<1>5. PICK z \in U : TRUE
  BY <1>4
<1>6. PICK R : R = U \ {z}
  OBVIOUS
<1>7. /\ R \in SUBSET T /\ IsFiniteSet(R) /\ Cardinality(R) = m - 1 /\ m \in Nat
      /\ Cardinality(R) \in Nat
  <2>1. IsFiniteSet(U)
    BY FS_Subset
  <2>2. IsFiniteSet(R) /\ Cardinality(R) = m - 1
    BY <1>4, <1>6, <2>1, FS_RemoveElement
  <2>3. QED
    BY <1>6, <2>2, FS_CardinalityType
<1>8. \A y \in T : f[y] \in Nat
  OBVIOUS
<1>9. CASE R = {}
  <2>1. \A y \in U : y = z
    BY <1>6, <1>9
  <2>2. f[z] <= f[z]
    BY <1>8
  <2>3. QED
    BY <1>4, <2>1, <2>2
<1>10. CASE R # {}
  <2>1. m - 1 \notin B /\ m - 1 \in Nat
    BY <1>3, <1>7
  <2>2. PICK x \in R : \A y \in R : f[y] <= f[x]
    BY <1>7, <1>10, <2>1
  <2>3. x \in U /\ f[x] \in Nat /\ f[z] \in Nat
    BY <1>6, <1>8
  <2>4. CASE f[z] <= f[x]
    BY <1>4, <1>6, <2>2, <2>3, <2>4
  <2>5. CASE f[x] < f[z]
    <3>1. ASSUME NEW y \in U PROVE f[y] <= f[z]
      <4>1. f[y] \in Nat
        BY <1>8
      <4>2. y = z \/ f[y] <= f[x]
        BY <1>6, <2>2
      <4>3. QED
        BY <2>3, <2>5, <4>1, <4>2
    <3>2. QED
      BY <1>4, <3>1
  <2>6. QED
    BY <2>3, <2>4, <2>5
<1>11. QED
  BY <1>9, <1>10

\* The last phase.
LEMMA MaxLevelFacts ==
    ASSUME IsFiniteSet(Ids), Pl!TypeOK, nodes # {}
    PROVE  /\ \E n \in nodes : levels[n] = Pl!MaxLevel
           /\ \A n \in nodes : levels[n] <= Pl!MaxLevel
           /\ Pl!MaxLevel \in Nat
<1>1. nodes \in SUBSET Ids /\ levels \in [Ids -> Nat] /\ IsFiniteSet(nodes)
  BY FS_Subset DEF Pl!TypeOK
<1>2. PICK N, f : N = nodes /\ f = levels
  OBVIOUS
<1>3. \E x \in N : \A y \in N : f[y] <= f[x]
  BY <1>1, <1>2, Highest
<1>4. PICK S : S = {levels[n] : n \in nodes}
  OBVIOUS
<1>5. \E x \in S : \A y \in S : x >= y
  BY <1>1, <1>2, <1>3, <1>4
<1>6. Pl!MaxLevel = CHOOSE x \in S : \A y \in S : x >= y
  BY <1>4 DEF Pl!MaxLevel, Pl!Max
<1>7. Pl!MaxLevel \in S /\ \A y \in S : Pl!MaxLevel >= y
  BY <1>5, <1>6
<1>8. QED
  BY <1>1, <1>4, <1>7

----------------------------------------------------------------------------
(* Walks and levels.                                                       *)

\* A walk, of whatever length.
Stepwise(w) == \A j \in 1..(Len(w) - 1) : Pl!Edge(w[j], w[j + 1])

\* A walk that climbs one level with every step.
Rising(w) == \A j \in 1..(Len(w) - 1) : /\ Pl!Edge(w[j], w[j + 1])
                                        /\ levels[w[j + 1]] = levels[w[j]] + 1

\* The planner counts as everybody does.
LEMMA PlCardinality ==
    ASSUME NEW S
    PROVE  Pl!Cardinality(S) = Cardinality(S)
BY Zenon DEF Pl!Cardinality, Cardinality

\* Walks has those that have no more nodes than the graph.
LEMMA WalksAre ==
    ASSUME IsFiniteSet(nodes), NEW w
    PROVE  w \in Pl!Walks <=> /\ w \in Seq(nodes) /\ Len(w) \in 1..Cardinality(nodes)
                              /\ Stepwise(w)
<1>1. Cardinality(nodes) \in Nat
  BY FS_CardinalityType
<1>2. ASSUME NEW k \in Nat, w \in [1..k -> nodes] PROVE w \in Seq(nodes) /\ Len(w) = k
  BY <1>2
<1>3. ASSUME w \in Seq(nodes) PROVE w \in [1..Len(w) -> nodes] /\ Len(w) \in Nat
  BY <1>3
<1>4. w \in UNION {[1..k -> nodes] : k \in 1..Cardinality(nodes)}
        <=> w \in Seq(nodes) /\ Len(w) \in 1..Cardinality(nodes)
  BY <1>1, <1>2, <1>3
<1>5. w \in Pl!Walks <=> /\ w \in UNION {[1..k -> nodes] : k \in 1..Cardinality(nodes)}
                         /\ Stepwise(w)
  <2>1. PICK U, c : U = UNION {[1..k -> nodes] : k \in 1..c} /\ c = Cardinality(nodes)
    OBVIOUS
  <2>2. Pl!Walks = {x \in U : \A j \in 1..(Len(x) - 1) : Pl!Edge(x[j], x[j + 1])}
    <3>1. Pl!Cardinality(nodes) = c
      BY <2>1, PlCardinality, Zenon
    <3>2. QED
      BY <2>1, <3>1 DEF Pl!Walks
  <2>3. w \in Pl!Walks <=> w \in U /\ \A j \in 1..(Len(w) - 1) : Pl!Edge(w[j], w[j + 1])
    BY <2>2
  <2>4. QED
    BY <2>1, <2>3, Zenon DEF Stepwise
<1>6. QED
  BY <1>4, <1>5, Zenon

\* The i-th node of a walk is on level i - 1 or above.
LEMMA WalkClimbs ==
    ASSUME Pl!TypeOK, LevelInv(nodes), NEW w \in Seq(nodes), Stepwise(w),
           NEW i \in 1..Len(w)
    PROVE  levels[w[i]] \in Nat /\ levels[w[i]] >= i - 1
<1> DEFINE B == {m \in Nat : m \in 1..Len(w) /\ ~(levels[w[m]] >= m - 1)}
<1>1. nodes \subseteq Ids /\ levels \in [Ids -> Nat] /\ Len(w) \in Nat
  BY DEF Pl!TypeOK
<1>2. \A m \in 1..Len(w) : w[m] \in Ids /\ w[m] \in nodes /\ levels[w[m]] \in Nat
  BY <1>1
<1>3. SUFFICES ASSUME B # {} PROVE FALSE
  <2>1. i \in Nat
    BY <1>1
  <2>2. i \notin B
    OBVIOUS
  <2>3. QED
    BY <1>2, <2>1, <2>2
<1>4. PICK m \in B : \A k \in B : m <= k
  <2>1. B \subseteq Nat
    OBVIOUS
  <2> HIDE DEF B
  <2>2. QED
    BY <1>3, <2>1, Least
<1>5. m \in Nat /\ m \in 1..Len(w) /\ ~(levels[w[m]] >= m - 1)
  OBVIOUS
<1>6. m # 1
  BY <1>2, <1>5
<1>7. m - 1 \in 1..Len(w) /\ m - 1 \in 1..(Len(w) - 1) /\ (m - 1) + 1 = m /\ m - 1 \in Nat
  BY <1>1, <1>5, <1>6
<1>8. levels[w[m - 1]] >= (m - 1) - 1
  <2>1. m - 1 \notin B
    BY <1>4, <1>7
  <2>2. QED
    BY <1>7, <2>1
<1>9. Pl!Edge(w[m - 1], w[m])
  BY <1>7 DEF Stepwise
<1>10. levels[w[m]] >= levels[w[m - 1]] + 1
  BY <1>2, <1>5, <1>7, <1>9 DEF LevelInv
<1>11. QED
  BY <1>2, <1>5, <1>7, <1>8, <1>10

\* One that climbs step by step is where it has to be ...
LEMMA RisingLevels ==
    ASSUME Pl!TypeOK, NEW w \in Seq(nodes), Rising(w), NEW i \in 1..Len(w)
    PROVE  levels[w[i]] = levels[w[1]] + i - 1
<1> DEFINE Good(m) == levels[w[m]] = levels[w[1]] + m - 1
           B == {m \in Nat : m \in 1..Len(w) /\ ~Good(m)}
<1>1. nodes \subseteq Ids /\ levels \in [Ids -> Nat] /\ Len(w) \in Nat
  BY DEF Pl!TypeOK
<1>2. \A m \in 1..Len(w) : w[m] \in Ids /\ w[m] \in nodes /\ levels[w[m]] \in Nat
  BY <1>1
<1>3. SUFFICES ASSUME B # {} PROVE FALSE
  <2>1. i \in Nat
    BY <1>1
  <2>2. i \notin B
    OBVIOUS
  <2>3. QED
    BY <2>1, <2>2
<1>4. PICK m \in B : \A k \in B : m <= k
  <2>1. B \subseteq Nat
    OBVIOUS
  <2> HIDE DEF B
  <2>2. QED
    BY <1>3, <2>1, Least
<1>5. m \in Nat /\ m \in 1..Len(w) /\ ~Good(m)
  OBVIOUS
<1>6. 1 \in 1..Len(w)
  BY <1>1, <1>5
<1>7. m # 1
  BY <1>2, <1>5
<1>8. m - 1 \in 1..Len(w) /\ m - 1 \in 1..(Len(w) - 1) /\ (m - 1) + 1 = m /\ m - 1 \in Nat
  BY <1>1, <1>5, <1>7
<1>9. Good(m - 1)
  <2>1. m - 1 \notin B
    BY <1>4, <1>8
  <2> HIDE DEF Good
  <2>2. QED
    BY <1>8, <2>1
<1>10. levels[w[m]] = levels[w[m - 1]] + 1
  BY <1>8 DEF Rising
<1>11. PICK a, b, c : a = levels[w[m]] /\ b = levels[w[m - 1]] /\ c = levels[w[1]]
  OBVIOUS
<1>12. a \in Nat /\ b \in Nat /\ c \in Nat /\ a = b + 1 /\ b = c + (m - 1) - 1
  BY <1>2, <1>5, <1>6, <1>8, <1>9, <1>10, <1>11
<1>13. a = c + m - 1
  BY ONLY <1>12, m \in Nat
<1>14. QED
  BY <1>5, <1>11, <1>13

\* ... and visits no node twice.
LEMMA RisingFits ==
    ASSUME Pl!TypeOK, IsFiniteSet(nodes), NEW w \in Seq(nodes), Len(w) > 0, Rising(w)
    PROVE  Stepwise(w) /\ Len(w) \in 1..Cardinality(nodes)
<1>1. nodes \subseteq Ids /\ levels \in [Ids -> Nat] /\ Len(w) \in Nat
  BY DEF Pl!TypeOK
<1>2. \A m \in 1..Len(w) : w[m] \in Ids /\ w[m] \in nodes /\ levels[w[m]] \in Nat
  BY <1>1
<1>3. \A i \in 1..Len(w) : levels[w[i]] = levels[w[1]] + i - 1
  BY RisingLevels
<1>4. 1 \in 1..Len(w)
  BY <1>1
<1>5. \A i, j \in 1..Len(w) : w[i] = w[j] => i = j
  BY <1>2, <1>3, <1>4
<1>6. PICK n, N : n = Len(w) /\ N = nodes
  OBVIOUS
<1>7. IsFiniteSet(1..n) /\ Cardinality(1..n) = n /\ n \in Nat
  <2>1. n \in Nat /\ n > 0
    BY <1>1, <1>6
  <2>2. QED
    BY ONLY <2>1, FS_Interval
<1>8. w \in Injection(1..n, N)
  BY <1>2, <1>5, <1>6 DEF Injection, IsInjective
<1>9. n <= Cardinality(N)
  BY <1>6, <1>7, <1>8, FS_Injection
<1>10. Len(w) \in 1..Cardinality(nodes)
  BY <1>1, <1>6, <1>9, FS_CardinalityType
<1>11. QED
  BY <1>10 DEF Stepwise, Rising

\* To every node leads one from level 0: a parent one level below, its parent
\* one below that, and so on.
LEMMA RisingExists ==
    ASSUME Pl!TypeOK, LevelInv(nodes), NEW n \in nodes
    PROVE  \E w \in Seq(nodes) : /\ Len(w) = levels[n] + 1 /\ w[Len(w)] = n
                                 /\ Rising(w)
<1> DEFINE Reached(x) == \E w \in Seq(nodes) : /\ Len(w) = levels[x] + 1 /\ w[Len(w)] = x
                                               /\ Rising(w)
           B == {m \in Nat : \E x \in nodes : levels[x] = m /\ ~Reached(x)}
<1>1. nodes \subseteq Ids /\ levels \in [Ids -> Nat] /\ \A x \in nodes : levels[x] \in Nat
  BY DEF Pl!TypeOK
<1>2. SUFFICES ASSUME ~Reached(n) PROVE FALSE
  OBVIOUS
<1>3. B # {}
  <2> HIDE DEF Reached
  <2>1. QED
    BY <1>1, <1>2
<1>4. PICK m \in B : \A k \in B : m <= k
  <2>1. B \subseteq Nat
    OBVIOUS
  <2> HIDE DEF B
  <2>2. QED
    BY <1>3, <2>1, Least
<1>5. PICK x \in nodes : levels[x] = m /\ ~Reached(x)
  OBVIOUS
<1>6. CASE m = 0
  <2>1. PICK w : w = <<x>>
    OBVIOUS
  <2>2. w \in Seq(nodes) /\ Len(w) = 1 /\ w[1] = x
    BY <2>1
  <2>3. Rising(w)
    BY <2>2 DEF Rising
  <2>4. QED
    BY <1>5, <1>6, <2>2, <2>3
<1>7. CASE m # 0
  <2>1. PICK u \in nodes : Pl!Edge(u, x) /\ levels[x] = levels[u] + 1
    BY <1>1, <1>5, <1>7 DEF LevelInv
  <2>2. Reached(u)
    <3>1. levels[u] \in Nat /\ levels[u] < m
      BY <1>1, <1>5, <2>1
    <3>2. PICK k : k = levels[u]
      OBVIOUS
    <3>3. k \notin B
      <4>1. k \in Nat /\ k < m /\ m \in Nat
        BY <1>1, <1>5, <3>1, <3>2
      <4> HIDE DEF B
      <4>2. QED
        BY <1>4, <4>1
    <3> HIDE DEF Reached
    <3>4. QED
      BY <3>1, <3>2, <3>3
  <2>3. PICK v \in Seq(nodes) : /\ Len(v) = levels[u] + 1 /\ v[Len(v)] = u
                                /\ Rising(v)
    BY <2>2
  <2>4. PICK w : w = Append(v, x)
    OBVIOUS
  <2>5. PICK k : k = Len(v)
    OBVIOUS
  <2>6. k \in Nat /\ k > 0 /\ k = levels[u] + 1 /\ v[k] = u
    BY <1>1, <2>3, <2>5
  <2>7. /\ w \in Seq(nodes) /\ Len(w) = k + 1 /\ w[k + 1] = x
        /\ \A j \in 1..k : w[j] = v[j]
    BY <2>3, <2>4, <2>5
  <2>8. ASSUME NEW j \in 1..k
        PROVE  Pl!Edge(w[j], w[j + 1]) /\ levels[w[j + 1]] = levels[w[j]] + 1
    <3>1. CASE j = k
      BY <2>1, <2>6, <2>7, <3>1
    <3>2. CASE j # k
      <4>1. j \in 1..(k - 1) /\ j + 1 \in 1..k
        BY <2>6, <3>2
      <4>2. Pl!Edge(v[j], v[j + 1]) /\ levels[v[j + 1]] = levels[v[j]] + 1
        BY <2>3, <2>5, <4>1 DEF Rising
      <4>3. QED
        BY <2>7, <4>1, <4>2
    <3>3. QED
      BY <3>1, <3>2
  <2>9. Rising(w)
    <3>1. Len(w) - 1 = k
      BY <2>6, <2>7
    <3>2. QED
      BY <2>8, <3>1 DEF Rising
  <2>10. Len(w) = levels[x] + 1 /\ w[Len(w)] = x
    BY <2>1, <2>6, <2>7
  <2>11. QED
    BY <1>5, <2>7, <2>9, <2>10
<1>8. QED
  BY <1>6, <1>7

\* Levels are distances from the roots: a phase for each up to the last, and
\* the longest walks that end in a node are as long as its level.
LEMMA LevelsRight ==
    ASSUME IsFiniteSet(Ids), Pl!TypeOK, nodes # {}, LevelInv(nodes)
    PROVE  \A l \in 0..Pl!MaxLevel :
              /\ Pl!Phase(l) # {}
              /\ \A n \in Pl!Phase(l) :
                   l = Pl!Max({Len(w) - 1 : w \in {x \in Pl!Walks : x[Len(x)] = n}})
<1>1. nodes \subseteq Ids /\ levels \in [Ids -> Nat] /\ IsFiniteSet(nodes)
  BY FS_Subset DEF Pl!TypeOK
<1>2. ASSUME NEW l \in 0..Pl!MaxLevel PROVE Pl!Phase(l) # {}
  <2>1. PICK n \in nodes : levels[n] = Pl!MaxLevel
    BY <1>1, MaxLevelFacts
  <2>2. PICK w \in Seq(nodes) : Len(w) = levels[n] + 1 /\ w[Len(w)] = n /\ Rising(w)
    BY RisingExists
  <2>3. levels[n] \in Nat /\ l \in Nat /\ l <= levels[n]
    BY <1>1, <2>1
  <2>4. Len(w) > 0 /\ Len(w) \in 1..Len(w) /\ l + 1 \in 1..Len(w)
    BY <2>2, <2>3
  <2>5. \A i \in 1..Len(w) : levels[w[i]] = levels[w[1]] + i - 1
    BY <2>2, RisingLevels
  <2>6. w[1] \in nodes /\ w[l + 1] \in nodes /\ levels[w[1]] \in Nat
    BY <1>1, <2>3, <2>4
  <2>7. levels[w[1]] = 0
    <3>1. PICK a, b : a = levels[w[1]] /\ b = levels[n]
      OBVIOUS
    <3>2. b = a + Len(w) - 1 /\ Len(w) = b + 1 /\ a \in Nat /\ b \in Nat
      BY <2>2, <2>3, <2>4, <2>5, <2>6, <3>1
    <3>3. a = 0
      BY ONLY <3>2
    <3>4. QED
      BY <3>1, <3>3
  <2>8. levels[w[l + 1]] = l
    BY <2>3, <2>4, <2>5, <2>7
  <2>9. QED
    BY <2>6, <2>8 DEF Pl!Phase
<1>3. ASSUME NEW l \in 0..Pl!MaxLevel, NEW n \in Pl!Phase(l)
      PROVE  l = Pl!Max({Len(w) - 1 : w \in {x \in Pl!Walks : x[Len(x)] = n}})
  <2>1. n \in nodes /\ levels[n] = l /\ l \in Nat
    BY <1>1 DEF Pl!Phase
  <2>2. PICK S : S = {Len(w) - 1 : w \in {x \in Pl!Walks : x[Len(x)] = n}}
    OBVIOUS
  <2>3. l \in S
    <3>1. PICK w \in Seq(nodes) : Len(w) = l + 1 /\ w[Len(w)] = n /\ Rising(w)
      BY <2>1, RisingExists
    <3>2. Stepwise(w) /\ Len(w) \in 1..Cardinality(nodes)
      BY <1>1, <2>1, <3>1, RisingFits
    <3>3. w \in Pl!Walks
      BY <1>1, <3>2, WalksAre
    <3>4. Len(w) - 1 = l
      BY <2>1, <3>1
    <3>5. QED
      BY <2>2, <3>1, <3>3, <3>4
  <2>4. ASSUME NEW y \in S PROVE y \in Int /\ l >= y
    <3>1. PICK w \in Pl!Walks : w[Len(w)] = n /\ y = Len(w) - 1
      BY <2>2
    <3>2. w \in Seq(nodes) /\ Len(w) \in 1..Cardinality(nodes) /\ Stepwise(w)
      BY <1>1, WalksAre
    <3>3. Len(w) \in Nat /\ Len(w) \in 1..Len(w)
      BY <3>2
    <3>4. levels[w[Len(w)]] >= Len(w) - 1
      BY <3>2, <3>3, WalkClimbs
    <3>5. QED
      BY <2>1, <3>1, <3>3, <3>4
  <2>5. PICK m : m = CHOOSE x \in S : \A y \in S : x >= y
    OBVIOUS
  <2>6. m \in S /\ \A y \in S : m >= y
    <3>1. \E x \in S : \A y \in S : x >= y
      BY <2>3, <2>4
    <3>2. QED
      BY <2>5, <3>1
  <2>7. l = m
    BY <2>1, <2>3, <2>4, <2>6
  <2>8. QED
    BY <2>2, <2>5, <2>7 DEF Pl!Max
<1>4. QED
  BY <1>2, <1>3

----------------------------------------------------------------------------
(* The inductive invariant.                                                *)

\* The critical path as far as it is traced: it ends on the last level and
\* climbs one level with every step.
Traced ==
    /\ Len(path) > 0 /\ Rising(path)
    /\ \A n \in nodes : levels[n] <= levels[path[Len(path)]]

\* What each step of the builder and of the planner relies on.
PlannerInv ==
    /\ Pl!TypeOK
    /\ at = "build" => topo = <<>> /\ path = <<>>
    /\ at \in {"build", "validate", "built"} => levels = [n \in Ids |-> 0]
    /\ at \notin {"build", "invalid"} => ~Pl!Dangling
    /\ at = "validate" => KahnInv(Visited) /\ ParentsFirst
    /\ Pl!RejectsCycles
    /\ at \in {"level", "trace"} => nodes # {}
    /\ at = "level" => \E P \in SUBSET nodes : KahnInv(P) /\ LevelInv(P)
    /\ at \in {"trace", "planned"} /\ nodes # {} => LevelInv(nodes) /\ Traced
    /\ at = "planned" /\ nodes # {} => \A p \in Ids : ~Pl!Edge(p, path[1])

\* What is said of the graph stays true as long as the graph does.
LEMMA GraphKept ==
    ASSUME UNCHANGED <<nodes, arcs>>
    PROVE  /\ Pl!HasCycle' <=> Pl!HasCycle
           /\ Pl!Dangling' <=> Pl!Dangling
           /\ \A u, v : Pl!Edge(u, v)' <=> Pl!Edge(u, v)
<1>1. \A u, v : Pl!Edge(u, v)' <=> Pl!Edge(u, v)
  BY DEF Pl!Edge
<1>2. Pl!HasCycle' <=> Pl!HasCycle
  BY <1>1 DEF Pl!HasCycle
<1>3. Pl!Dangling' <=> Pl!Dangling
  BY <1>1 DEF Pl!Dangling
<1>4. QED
  BY <1>1, <1>2, <1>3

\* The empty graph.
LEMMA PlannerInit ==
    ASSUME Pl!Init
    PROVE  PlannerInv
<1>1. /\ nodes = {} /\ at = "build" /\ queue = {} /\ topo = <<>> /\ path = <<>>
      /\ arcs = [e \in Pl!Pairs |-> 0]
      /\ inDegree = [n \in Ids |-> 0] /\ levels = [n \in Ids |-> 0]
  BY DEF Pl!Init
<1>2. Pl!TypeOK
  BY <1>1 DEF Pl!TypeOK, Pl!Steps
<1>3. Pl!RejectsCycles
  BY <1>1 DEF Pl!RejectsCycles
<1>4. QED
  BY <1>1, <1>2, <1>3 DEF PlannerInv

\* add_node() and connect(): nothing has been decided yet.
LEMMA BuilderKeeps ==
    ASSUME PlannerInv, \/ \E n \in Ids : Pl!AddNode(n)
                       \/ \E u, v \in Ids : Pl!Connect(u, v)
    PROVE  PlannerInv'
<1>1. /\ at = "build" /\ UNCHANGED <<at, inDegree, queue, topo, levels, path>>
      /\ topo = <<>> /\ path = <<>> /\ levels = [n \in Ids |-> 0]
      /\ nodes \subseteq Ids /\ queue \subseteq nodes
      /\ inDegree \in [Ids -> Nat] /\ arcs \in [Pl!Pairs -> Nat]
  BY DEF PlannerInv, Pl!TypeOK, Pl!AddNode, Pl!Connect
<1>2. nodes' \subseteq Ids /\ nodes \subseteq nodes' /\ arcs' \in [Pl!Pairs -> Nat]
  <2>1. CASE \E n \in Ids : Pl!AddNode(n)
    BY <1>1, <2>1 DEF Pl!AddNode
  <2>2. CASE \E u, v \in Ids : Pl!Connect(u, v)
    <3>1. PICK u \in Ids, v \in Ids : /\ nodes' = nodes
                            /\ arcs' = [arcs EXCEPT ![<<u, v>>] = arcs[<<u, v>>] + 1]
      BY <2>2 DEF Pl!Connect
    <3>2. PICK p : p = <<u, v>>
      OBVIOUS
    <3>3. p \in Pl!Pairs
      BY <3>2 DEF Pl!Pairs
    <3>4. arcs[p] \in Nat /\ arcs[p] + 1 \in Nat
      BY <1>1, <3>3
    <3>5. arcs' = [arcs EXCEPT ![p] = arcs[p] + 1]
      BY <3>1, <3>2
    <3>6. arcs' \in [Pl!Pairs -> Nat]
      BY <1>1, <3>4, <3>5
    <3>7. QED
      BY <1>1, <3>1, <3>6
  <2>3. QED
    BY <2>1, <2>2
<1>3. Pl!TypeOK'
  BY <1>1, <1>2 DEF Pl!TypeOK, Pl!Steps
<1>4. Pl!RejectsCycles'
  BY <1>1 DEF Pl!RejectsCycles
<1>5. QED
  BY <1>1, <1>3, <1>4 DEF PlannerInv

\* build(): a graph with edges to nowhere is refused, another is searched.
LEMMA BuildKeeps ==
    ASSUME IsFiniteSet(Ids), PlannerInv, Pl!Build
    PROVE  PlannerInv'
<1>1. /\ at = "build" /\ UNCHANGED <<nodes, arcs, topo, levels, path>>
      /\ topo = <<>> /\ levels = [n \in Ids |-> 0] /\ Pl!TypeOK
  BY DEF PlannerInv, Pl!Build, Pl!graph
<1>2. CASE Pl!Dangling /\ at' = "invalid" /\ UNCHANGED <<inDegree, queue>>
  <2>1. Pl!TypeOK'
    BY <1>1, <1>2 DEF Pl!TypeOK, Pl!Steps, Pl!Pairs
  <2>2. Pl!RejectsCycles'
    BY <1>2 DEF Pl!RejectsCycles
  <2>3. QED
    BY <1>2, <2>1, <2>2 DEF PlannerInv
<1>3. CASE ~Pl!Dangling /\ at' = "validate" /\ Pl!Kahn
  <2>1. KahnInv({})' /\ inDegree' \in [Ids -> Nat] /\ queue' \subseteq nodes
    BY <1>1, <1>3, KahnStart
  <2>2. Visited' = {}
    BY <1>1 DEF Visited
  <2>3. KahnInv(Visited)'
    BY <2>1, <2>2 DEF KahnInv
  <2>4. ParentsFirst'
    BY <1>1 DEF ParentsFirst
  <2>5. Pl!TypeOK'
    BY <1>1, <1>3, <2>1 DEF Pl!TypeOK, Pl!Steps, Pl!Pairs
  <2>6. Pl!RejectsCycles'
    BY <1>3 DEF Pl!RejectsCycles
  <2>7. ~Pl!Dangling'
    BY <1>1, <1>3, GraphKept
  <2>8. QED
    BY <1>1, <1>3, <2>3, <2>4, <2>5, <2>6, <2>7 DEF PlannerInv
<1>4. QED
  BY <1>2, <1>3 DEF Pl!Build

\* A round of _validate_dag.
LEMMA ValidateDagKeeps ==
    ASSUME IsFiniteSet(Ids), PlannerInv, NEW u \in Ids, Pl!ValidateDag(u)
    PROVE  PlannerInv'
<1>1. /\ at = "validate" /\ UNCHANGED <<nodes, arcs, at, levels, path>>
      /\ Pl!Pop(u) /\ topo' = Append(topo, u)
      /\ levels = [n \in Ids |-> 0] /\ Pl!TypeOK /\ ~Pl!Dangling
      /\ KahnInv(Visited) /\ ParentsFirst
  BY DEF PlannerInv, Pl!ValidateDag, Pl!graph
<1>2. PICK P : P = Visited
  OBVIOUS
<1>3. KahnInv(P)
  BY <1>1, <1>2
<1>4. /\ u \in nodes \ P
      /\ \A w \in Ids : Pl!Edge(w, u) => w \in P
      /\ KahnInv(P \cup {u})'
      /\ inDegree' \in [Ids -> Nat] /\ queue' \subseteq nodes
  BY <1>1, <1>3, KahnPop
<1>5. ParentsFirst' /\ Visited' = P \cup {u} /\ topo' \in Seq(nodes)
  BY <1>1, <1>2, <1>4, VisitNext
<1>6. KahnInv(Visited)'
  BY <1>4, <1>5 DEF KahnInv
<1>7. Pl!TypeOK'
  BY <1>1, <1>4, <1>5 DEF Pl!TypeOK, Pl!Steps, Pl!Pairs
<1>8. Pl!RejectsCycles'
  BY <1>1 DEF Pl!RejectsCycles
<1>9. ~Pl!Dangling'
  BY <1>1, GraphKept
<1>10. QED
  BY <1>1, <1>5, <1>6, <1>7, <1>8, <1>9 DEF PlannerInv

\* Its verdict is right: all nodes are visited if and only if there is no cycle.
LEMMA ValidatedKeeps ==
    ASSUME IsFiniteSet(Ids), PlannerInv, Pl!Validated
    PROVE  PlannerInv'
<1>1. /\ at = "validate" /\ queue = {}
      /\ UNCHANGED <<nodes, arcs, inDegree, queue, topo, levels, path>>
      /\ at' = IF Len(topo) = Pl!Cardinality(nodes) THEN "built" ELSE "cyclic"
      /\ levels = [n \in Ids |-> 0] /\ Pl!TypeOK /\ ~Pl!Dangling
      /\ KahnInv(Visited) /\ ParentsFirst
  BY DEF PlannerInv, Pl!Validated, Pl!graph
<1>2. PICK P, N, c : P = Visited /\ N = nodes /\ c = Cardinality(nodes)
  OBVIOUS
<1>3. Pl!Cardinality(nodes) = c
  BY <1>2, PlCardinality, Zenon
<1>4. IsFiniteSet(P) /\ Cardinality(P) = Len(topo) /\ P \subseteq N /\ IsFiniteSet(N)
  <2>1. topo \in Seq(nodes) /\ nodes \subseteq Ids
    BY <1>1 DEF Pl!TypeOK
  <2>2. IsFiniteSet(P) /\ Cardinality(P) = Len(topo)
    BY <1>1, <1>2, <2>1, VisitedCount
  <2>3. P \subseteq N
    BY <1>1, <1>2 DEF KahnInv
  <2>4. QED
    BY <1>2, <2>1, <2>2, <2>3, FS_Subset
<1>5. Pl!HasCycle' <=> Pl!HasCycle
  BY <1>1, GraphKept
<1>6. ~Pl!Dangling'
  BY <1>1, GraphKept
<1>7. Pl!TypeOK'
  BY <1>1 DEF Pl!TypeOK, Pl!Steps, Pl!Pairs
<1>8. CASE P = N
  <2>1. ~Pl!HasCycle
    BY <1>1, <1>2, <1>8, VisitedAcyclic
  <2>2. at' = "built"
    BY <1>1, <1>2, <1>3, <1>4, <1>8
  <2>3. Pl!RejectsCycles'
    BY <1>5, <2>1, <2>2 DEF Pl!RejectsCycles
  <2>4. QED
    BY <1>1, <1>6, <1>7, <2>2, <2>3 DEF PlannerInv
<1>9. CASE P # N
  <2>1. Pl!HasCycle
    <3>1. KahnInv(P) /\ P # nodes
      BY <1>1, <1>2, <1>9
    <3>2. QED
      BY <1>1, <3>1, KahnEnd
  <2>2. at' = "cyclic"
    <3>1. Cardinality(P) # Cardinality(N)
      BY <1>4, <1>9, FS_Subset
    <3>2. QED
      BY <1>1, <1>2, <1>3, <1>4, <3>1
  <2>3. Pl!RejectsCycles'
    BY <1>5, <2>1, <2>2 DEF Pl!RejectsCycles
  <2>4. QED
    BY <1>6, <1>7, <2>2, <2>3 DEF PlannerInv
<1>10. QED
  BY <1>8, <1>9

\* plan(): nothing for a graph without nodes, a second search for another.
LEMMA PlanKeeps ==
    ASSUME IsFiniteSet(Ids), PlannerInv, Pl!Plan
    PROVE  PlannerInv'
<1>1. /\ at = "built" /\ UNCHANGED <<nodes, arcs, topo, levels, path>>
      /\ levels = [n \in Ids |-> 0] /\ Pl!TypeOK /\ ~Pl!Dangling /\ ~Pl!HasCycle
  BY DEF PlannerInv, Pl!RejectsCycles, Pl!Plan, Pl!graph
<1>2. ~Pl!HasCycle' /\ ~Pl!Dangling'
  BY <1>1, GraphKept
<1>3. CASE nodes = {} /\ at' = "planned" /\ UNCHANGED <<inDegree, queue>>
  <2>1. Pl!TypeOK'
    BY <1>1, <1>3 DEF Pl!TypeOK, Pl!Steps, Pl!Pairs
  <2>2. Pl!RejectsCycles'
    BY <1>2, <1>3 DEF Pl!RejectsCycles
  <2>3. QED
    BY <1>1, <1>2, <1>3, <2>1, <2>2 DEF PlannerInv
<1>4. CASE nodes # {} /\ at' = "level" /\ Pl!Kahn
  <2>1. KahnInv({})' /\ inDegree' \in [Ids -> Nat] /\ queue' \subseteq nodes
    BY <1>1, <1>4, KahnStart
  <2>2. LevelInv({})'
    BY <1>1 DEF LevelInv
  <2>3. \E P \in SUBSET nodes' : KahnInv(P)' /\ LevelInv(P)'
    <3>1. {} \in SUBSET nodes'
      OBVIOUS
    <3>2. QED
      BY <2>1, <2>2, <3>1
  <2>4. Pl!TypeOK'
    BY <1>1, <1>4, <2>1 DEF Pl!TypeOK, Pl!Steps, Pl!Pairs
  <2>5. Pl!RejectsCycles'
    BY <1>2, <1>4 DEF Pl!RejectsCycles
  <2>6. QED
    BY <1>1, <1>2, <1>4, <2>3, <2>4, <2>5 DEF PlannerInv
<1>5. QED
  BY <1>3, <1>4 DEF Pl!Plan

\* A round of _resolve_levels.
LEMMA ResolveLevelsKeeps ==
    ASSUME IsFiniteSet(Ids), PlannerInv, NEW u \in Ids, Pl!ResolveLevels(u)
    PROVE  PlannerInv'
<1>1. /\ at = "level" /\ UNCHANGED <<nodes, arcs, at, topo, path>> /\ Pl!Pop(u)
      /\ levels' = [v \in Ids |-> IF Pl!Edge(u, v) THEN Pl!Raised(u, v) ELSE levels[v]]
      /\ Pl!TypeOK /\ ~Pl!Dangling /\ ~Pl!HasCycle /\ nodes # {}
  BY DEF PlannerInv, Pl!RejectsCycles, Pl!ResolveLevels, Pl!graph
<1>2. PICK P \in SUBSET nodes : KahnInv(P) /\ LevelInv(P)
  BY <1>1 DEF PlannerInv
<1>3. /\ u \in nodes \ P
      /\ \A w \in Ids : Pl!Edge(w, u) => w \in P
      /\ \A v \in Ids : Pl!Edge(u, v) => v \notin P \cup {u}
      /\ KahnInv(P \cup {u})'
      /\ inDegree' \in [Ids -> Nat] /\ queue' \subseteq nodes
  BY <1>1, <1>2, KahnPop
<1>4. LevelInv(P \cup {u})' /\ levels' \in [Ids -> Nat]
  BY <1>1, <1>2, <1>3, LevelPop
<1>5. P \cup {u} \in SUBSET nodes'
  BY <1>1, <1>3
<1>6. Pl!TypeOK'
  BY <1>1, <1>3, <1>4 DEF Pl!TypeOK, Pl!Steps, Pl!Pairs
<1>7. ~Pl!HasCycle' /\ ~Pl!Dangling'
  BY <1>1, GraphKept
<1>8. Pl!RejectsCycles'
  BY <1>1, <1>7 DEF Pl!RejectsCycles
<1>9. QED
  BY <1>1, <1>3, <1>4, <1>5, <1>6, <1>7, <1>8 DEF PlannerInv

\* Every node was popped, so that the levels are final.
LEMMA LevelsResolvedKeeps ==
    ASSUME IsFiniteSet(Ids), PlannerInv, Pl!LevelsResolved
    PROVE  PlannerInv'
<1>1. /\ at = "level" /\ at' = "trace" /\ queue = {}
      /\ UNCHANGED <<nodes, arcs, inDegree, queue, topo, levels>>
      /\ Pl!TypeOK /\ ~Pl!Dangling /\ ~Pl!HasCycle /\ nodes # {}
  BY DEF PlannerInv, Pl!RejectsCycles, Pl!LevelsResolved, Pl!graph
<1>2. PICK P \in SUBSET nodes : KahnInv(P) /\ LevelInv(P)
  BY <1>1 DEF PlannerInv
<1>3. P = nodes
  BY <1>1, <1>2, KahnEnd
<1>4. PICK n \in nodes : levels[n] = Pl!MaxLevel /\ path' = <<n>>
  BY DEF Pl!LevelsResolved
<1>5. path' \in Seq(nodes') /\ Len(path') = 1 /\ path'[1] = n
  BY <1>1, <1>4
<1>6. Traced'
  <2>1. Rising(path)'
    BY <1>5 DEF Rising
  <2>2. \A x \in nodes : levels[x] <= levels[n]
    BY <1>1, <1>4, MaxLevelFacts
  <2>3. QED
    BY <1>1, <1>5, <2>1, <2>2 DEF Traced
<1>7. LevelInv(nodes)'
  BY <1>1, <1>2, <1>3, GraphKept DEF LevelInv
<1>8. Pl!TypeOK'
  BY <1>1, <1>5 DEF Pl!TypeOK, Pl!Steps, Pl!Pairs
<1>9. ~Pl!HasCycle' /\ ~Pl!Dangling'
  BY <1>1, GraphKept
<1>10. Pl!RejectsCycles'
  BY <1>1, <1>9 DEF Pl!RejectsCycles
<1>11. QED
  BY <1>1, <1>6, <1>7, <1>8, <1>9, <1>10 DEF PlannerInv

\* The best parent is one level below.
LEMMA BestParentFacts ==
    ASSUME Pl!TypeOK, ~Pl!Dangling, LevelInv(nodes), NEW p \in Ids, NEW v \in nodes,
           Pl!BestParent(p, v)
    PROVE  p \in nodes /\ levels[v] = levels[p] + 1
<1>1. nodes \subseteq Ids /\ levels \in [Ids -> Nat] /\ v \in Ids
  BY DEF Pl!TypeOK
<1>2. Pl!Edge(p, v) /\ \A q \in Ids : Pl!Edge(q, v) => levels[q] <= levels[p]
  BY DEF Pl!BestParent
<1>3. p \in nodes
  BY <1>1, <1>2 DEF Pl!Dangling
<1>4. levels[v] >= levels[p] + 1
  BY <1>1, <1>2, <1>3 DEF LevelInv
<1>5. PICK q \in nodes : Pl!Edge(q, v) /\ levels[v] = levels[q] + 1
  BY <1>1, <1>4 DEF LevelInv
<1>6. levels[q] <= levels[p] /\ levels[q] \in Nat /\ levels[p] \in Nat
  BY <1>1, <1>2, <1>5
<1>7. QED
  BY <1>3, <1>4, <1>5, <1>6

\* A step back along the path, or the end of it.
LEMMA CalculateCriticalPathKeeps ==
    ASSUME PlannerInv, Pl!CalculateCriticalPath
    PROVE  PlannerInv'
<1>1. /\ at = "trace" /\ UNCHANGED <<nodes, arcs, inDegree, queue, topo, levels>>
      /\ Pl!TypeOK /\ ~Pl!Dangling /\ ~Pl!HasCycle /\ nodes # {}
      /\ LevelInv(nodes) /\ Traced
  BY DEF PlannerInv, Pl!RejectsCycles, Pl!CalculateCriticalPath, Pl!graph
<1>2. LevelInv(nodes)'
  BY <1>1, GraphKept DEF LevelInv
<1>3. ~Pl!HasCycle' /\ ~Pl!Dangling'
  BY <1>1, GraphKept
<1>4. PICK n : n = Len(path)
  OBVIOUS
<1>5. path \in Seq(nodes) /\ n \in Nat /\ n > 0 /\ Head(path) = path[1] /\ path[1] \in nodes
  BY <1>1, <1>4 DEF Traced, Pl!TypeOK
<1>6. ASSUME NEW p \in Ids, Pl!BestParent(p, Head(path)), path' = <<p>> \o path, UNCHANGED at
      PROVE  PlannerInv'
  <2>1. p \in nodes /\ levels[path[1]] = levels[p] + 1 /\ Pl!Edge(p, path[1])
    BY <1>1, <1>5, <1>6, BestParentFacts DEF Pl!BestParent
  <2>2. /\ path' \in Seq(nodes) /\ Len(path') = n + 1 /\ path'[1] = p
        /\ \A j \in 1..n : path'[j + 1] = path[j]
    BY <1>4, <1>5, <1>6, <2>1
  <2>3. ASSUME NEW j \in 1..n
        PROVE  Pl!Edge(path'[j], path'[j + 1]) /\ levels[path'[j + 1]] = levels[path'[j]] + 1
    <3>1. CASE j = 1
      <4>1. path'[j + 1] = path[1] /\ path'[j] = p
        BY <2>2, <3>1
      <4>2. QED
        BY <2>1, <4>1
    <3>2. CASE j # 1
      <4>1. PICK i : i = j - 1
        OBVIOUS
      <4>2. i \in 1..(n - 1) /\ i \in 1..n /\ i + 1 = j
        BY <1>5, <3>2, <4>1
      <4>3. path'[j] = path[i] /\ path'[j + 1] = path[i + 1]
        BY <2>2, <4>2
      <4>4. Pl!Edge(path[i], path[i + 1]) /\ levels[path[i + 1]] = levels[path[i]] + 1
        BY <1>1, <1>4, <4>2 DEF Traced, Rising
      <4>5. QED
        BY <4>3, <4>4
    <3>3. QED
      BY <3>1, <3>2
  <2>4. Rising(path)'
    <3>1. Len(path') - 1 = n
      BY <1>5, <2>2
    <3>2. QED
      BY <1>1, <2>3, <3>1, GraphKept DEF Rising
  <2>5. path'[Len(path')] = path[Len(path)]
    BY <1>4, <1>5, <2>2
  <2>6. Traced'
    BY <1>1, <1>5, <2>2, <2>4, <2>5 DEF Traced
  <2>7. Pl!TypeOK'
    BY <1>1, <1>6, <2>2 DEF Pl!TypeOK, Pl!Steps, Pl!Pairs
  <2>8. Pl!RejectsCycles'
    BY <1>1, <1>3, <1>6 DEF Pl!RejectsCycles
  <2>9. QED
    BY <1>1, <1>2, <1>3, <1>6, <2>6, <2>7, <2>8 DEF PlannerInv
<1>7. ASSUME \A p \in Ids : ~Pl!Edge(p, Head(path)), at' = "planned", UNCHANGED path
      PROVE  PlannerInv'
  <2>1. Traced'
    BY <1>1, <1>7, GraphKept DEF Traced, Rising
  <2>2. \A p \in Ids : ~Pl!Edge(p, path[1])'
    BY <1>1, <1>5, <1>7, GraphKept
  <2>3. Pl!TypeOK'
    BY <1>1, <1>7 DEF Pl!TypeOK, Pl!Steps, Pl!Pairs
  <2>4. Pl!RejectsCycles'
    BY <1>3, <1>7 DEF Pl!RejectsCycles
  <2>5. QED
    BY <1>1, <1>2, <1>3, <1>7, <2>1, <2>2, <2>3, <2>4 DEF PlannerInv
<1>8. QED
  BY <1>6, <1>7 DEF Pl!CalculateCriticalPath

\* A step that changes nothing.
LEMMA PlannerStutters ==
    ASSUME PlannerInv, UNCHANGED Pl!vars
    PROVE  PlannerInv'
<1>1. UNCHANGED <<nodes, arcs, at, inDegree, queue, topo, levels, path>>
  BY DEF Pl!vars, Pl!graph
<1>2. /\ Pl!HasCycle' <=> Pl!HasCycle
      /\ Pl!Dangling' <=> Pl!Dangling
      /\ \A u, v : Pl!Edge(u, v)' <=> Pl!Edge(u, v)
  BY <1>1, GraphKept
<1>3. /\ Pl!TypeOK' <=> Pl!TypeOK
      /\ Pl!RejectsCycles' <=> Pl!RejectsCycles
  BY <1>1, <1>2 DEF Pl!TypeOK, Pl!Pairs, Pl!RejectsCycles
<1>4. \A P : KahnInv(P)' <=> KahnInv(P)
  BY <1>1, <1>2 DEF KahnInv
<1>5. \A P : LevelInv(P)' <=> LevelInv(P)
  BY <1>1, <1>2 DEF LevelInv
<1>6. (ParentsFirst' <=> ParentsFirst) /\ Visited' = Visited
  BY <1>1, <1>2 DEF ParentsFirst, Visited
<1>7. Traced' <=> Traced
  BY <1>1, <1>2 DEF Traced, Rising
<1>8. KahnInv(Visited)' <=> KahnInv(Visited)
  BY <1>1, <1>2, <1>6 DEF KahnInv
<1>9. LevelInv(nodes)' <=> LevelInv(nodes)
  BY <1>1, <1>2 DEF LevelInv
<1>10. QED
  BY <1>1, <1>2, <1>3, <1>4, <1>5, <1>6, <1>7, <1>8, <1>9 DEF PlannerInv

\* Every step keeps the invariant.
LEMMA PlannerNext ==
    ASSUME IsFiniteSet(Ids), PlannerInv, [Pl!Next]_(Pl!vars)
    PROVE  PlannerInv'
BY BuilderKeeps, BuildKeeps, ValidateDagKeeps, ValidatedKeeps, PlanKeeps, ResolveLevelsKeeps,
   LevelsResolvedKeeps, CalculateCriticalPathKeeps, PlannerStutters DEF Pl!Next

\* The invariant holds always.
LEMMA PlannerInvariant ==
    ASSUME IsFiniteSet(Ids)
    PROVE  Pl!Spec => []PlannerInv
<1>1. Pl!Init => PlannerInv
  BY PlannerInit
<1>2. PlannerInv /\ [Pl!Next]_(Pl!vars) => PlannerInv'
  BY PlannerNext
<1>3. QED
  BY <1>1, <1>2, PTL DEF Pl!Spec

\* The finished path is a longest walk: it starts on level 0, where walks
\* without a parent start, ends on the last level, and no walk climbs higher.
LEMMA PathLongest ==
    ASSUME IsFiniteSet(Ids), PlannerInv
    PROVE  Pl!CriticalPathIsLongest
<1>1. SUFFICES ASSUME at = "planned", nodes # {}
               PROVE  path \in Pl!Walks /\ \A w \in Pl!Walks : Len(w) <= Len(path)
  BY DEF Pl!CriticalPathIsLongest
<1>2. /\ Pl!TypeOK /\ LevelInv(nodes) /\ Len(path) > 0 /\ Rising(path)
      /\ \A n \in nodes : levels[n] <= levels[path[Len(path)]]
      /\ \A p \in Ids : ~Pl!Edge(p, path[1])
  BY <1>1 DEF PlannerInv, Traced
<1>3. /\ nodes \subseteq Ids /\ levels \in [Ids -> Nat] /\ IsFiniteSet(nodes)
      /\ path \in Seq(nodes) /\ Len(path) \in Nat
  BY <1>2, FS_Subset DEF Pl!TypeOK
<1>4. 1 \in 1..Len(path) /\ Len(path) \in 1..Len(path) /\ path[1] \in nodes
  BY <1>2, <1>3
<1>5. levels[path[1]] = 0
  BY <1>2, <1>3, <1>4 DEF LevelInv
<1>6. levels[path[Len(path)]] = Len(path) - 1
  <2>1. levels[path[Len(path)]] = levels[path[1]] + Len(path) - 1
    BY <1>2, <1>3, <1>4, RisingLevels
  <2>2. QED
    BY <1>3, <1>5, <2>1
<1>7. path \in Pl!Walks
  <2>1. Stepwise(path) /\ Len(path) \in 1..Cardinality(nodes)
    BY <1>2, <1>3, RisingFits
  <2>2. QED
    BY <1>3, <2>1, WalksAre
<1>8. ASSUME NEW w \in Pl!Walks PROVE Len(w) <= Len(path)
  <2>1. w \in Seq(nodes) /\ Len(w) \in 1..Cardinality(nodes) /\ Stepwise(w)
    BY <1>3, WalksAre
  <2>2. Len(w) \in Nat /\ Len(w) \in 1..Len(w) /\ w[Len(w)] \in nodes
    BY <2>1
  <2>3. levels[w[Len(w)]] >= Len(w) - 1 /\ levels[w[Len(w)]] \in Nat
    BY <1>2, <2>1, <2>2, WalkClimbs
  <2>4. levels[w[Len(w)]] <= Len(path) - 1
    BY <1>2, <1>6, <2>2
  <2>5. QED
    BY <1>3, <2>2, <2>3, <2>4
<1>9. QED
  BY <1>7, <1>8

\* What the planner's module promises is what is promised of the graph.
LEMMA SamePromises ==
    /\ Pl!RejectsCycles <=> RejectsCycles
    /\ Pl!LevelsAreDistances <=> LevelsAreDistances
    /\ Pl!CriticalPathIsLongest <=> CriticalPathIsLongest
<1>1. \A u, v : Pl!Edge(u, v) <=> Edge(u, v)
  BY Zenon DEF Pl!Edge, Edge
<1>2. Pl!HasCycle <=> HasCycle
  BY <1>1 DEF Pl!HasCycle, HasCycle
<1>3. Pl!Walks = Walks
  <2>1. PICK U, c : U = UNION {[1..k -> nodes] : k \in 1..c} /\ c = Cardinality(nodes)
    OBVIOUS
  <2>2. Pl!Cardinality(nodes) = c
    BY <2>1, PlCardinality, Zenon
  <2>3. Pl!Walks = {w \in U : \A j \in 1..(Len(w) - 1) : Pl!Edge(w[j], w[j + 1])}
    BY <2>1, <2>2 DEF Pl!Walks
  <2>4. Walks = {w \in U : \A j \in 1..(Len(w) - 1) : Edge(w[j], w[j + 1])}
    BY <2>1 DEF Walks
  <2>5. QED
    BY <1>1, <2>3, <2>4
<1>4. \A S : Pl!Max(S) = Max(S)
  BY Zenon DEF Pl!Max, Max
<1>5. Pl!MaxLevel = MaxLevel /\ \A l : Pl!Phase(l) = Phase(l)
  BY <1>4, Zenon DEF Pl!MaxLevel, MaxLevel, Pl!Phase, Phase
<1>6. Pl!RejectsCycles <=> RejectsCycles
  BY <1>2 DEF Pl!RejectsCycles, RejectsCycles
<1>7. Pl!LevelsAreDistances <=> LevelsAreDistances
  BY <1>3, <1>4, <1>5, Zenon DEF Pl!LevelsAreDistances, LevelsAreDistances
<1>8. Pl!CriticalPathIsLongest <=> CriticalPathIsLongest
  BY <1>3, Zenon DEF Pl!CriticalPathIsLongest, CriticalPathIsLongest
<1>9. QED
  BY <1>6, <1>7, <1>8

\* Type correctness of the builder and the planner.
THEOREM PlannerTyping ==
    ASSUME IsFiniteSet(Ids)
    PROVE  Pl!Spec => []Pl!TypeOK
<1>1. PlannerInv => Pl!TypeOK
  BY DEF PlannerInv
<1>2. QED
  BY <1>1, PlannerInvariant, PTL

\* build() refuses exactly the graphs with a cycle (builder.py:_validate_dag),
\* however many nodes and edges there are and in whatever order they came.
THEOREM CyclesRejected ==
    ASSUME IsFiniteSet(Ids)
    PROVE  Pl!Spec => []RejectsCycles
<1>1. PlannerInv => RejectsCycles
  BY SamePromises DEF PlannerInv
<1>2. QED
  BY <1>1, PlannerInvariant, PTL

\* The levels plan() computes (planner.py:_resolve_levels) are the lengths of
\* the longest walks, and no phase up to the last is empty.
THEOREM LevelsMeasured ==
    ASSUME IsFiniteSet(Ids)
    PROVE  Pl!Spec => []LevelsAreDistances
<1>1. PlannerInv => Pl!LevelsAreDistances
  BY LevelsRight DEF PlannerInv, Pl!LevelsAreDistances
<1>2. PlannerInv => LevelsAreDistances
  BY <1>1, SamePromises
<1>3. QED
  BY <1>2, PlannerInvariant, PTL

\* The critical path traced back from the last phase
\* (planner.py:_calculate_critical_path) is a walk and no walk is longer.
THEOREM CriticalPathFound ==
    ASSUME IsFiniteSet(Ids)
    PROVE  Pl!Spec => []CriticalPathIsLongest
<1>1. PlannerInv => CriticalPathIsLongest
  BY PathLongest, SamePromises
<1>2. QED
  BY <1>1, PlannerInvariant, PTL

=============================================================================
