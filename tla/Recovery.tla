------------------------------ MODULE Recovery ------------------------------
(***************************************************************************)
(* The event log and what RecoveryManager.recover() makes of it.           *)
(*                                                                         *)
(* Every thread of the engine changes its own state first and appends the  *)
(* event about it afterwards, so the log lags behind the engine by up to   *)
(* one burst of events per thread, and the bursts of different threads     *)
(* interleave.  A crash may come between any two steps: recovery is good   *)
(* when, in every state, the log that is on disk replays to what the       *)
(* engine held.  Nothing in the program calls recover() after a crash, so  *)
(* a crash is no action: Recovered(policy) is what a restart would get     *)
(* in the current state.  recover() is a loop over the log; the model      *)
(* keeps its result rather than the log and applies each event to it when  *)
(* the event is appended.                                                  *)
(*                                                                         *)
(* An append may fail.  With EventStoreBusProxy between engine and store   *)
(* nobody is told: the event is lost and the thread goes on.  (Without it  *)
(* the append raises in the thread; what that does to the engine is in     *)
(* Scheduler.tla.)                                                         *)
(*                                                                         *)
(* Left out: the worker and timeout records of the recovered state, tasks  *)
(* with a timeout policy, and the fields replay copies (titles, metadata,  *)
(* error texts).                                                           *)
(***************************************************************************)
EXTENDS Naturals, FiniteSets, SequencesExt

CONSTANTS Tasks,          \* the ids of the tasks
          Submitted,      \* tasks that come through Runtime.submit_task
          Delayed,        \* tasks scheduled with delay_seconds > 0
          Retried,        \* tasks with a RetryPolicy, scheduled directly
          MaxRetries,     \* max_retries of these policies
          ZeroDelays,     \* the retries whose backoff is 0
          Workers,        \* the threads of the pool
          StreamLimit,    \* the limit of stream_from: 100 in the code
          MaxTies,        \* bound on the events that share one timestamp
          MaxSaves,       \* bound on the number of checkpoints
          MayCancel,      \* whether queued tasks are cancelled
          Losable,        \* bound: tasks an event about which may be lost, one of each
          None            \* no task, or no checkpoint

ASSUME ConstantsAssumption ==
  /\ Submitted \subseteq Tasks /\ Delayed \subseteq Tasks /\ Retried \subseteq Tasks
  /\ Losable \subseteq Tasks
  /\ Tasks \cap Workers = {} /\ None \notin Tasks
  /\ (Tasks \cup Workers) \cap {"loop", "tracker", "operator"} = {}
  /\ MaxRetries \in Nat /\ StreamLimit \in Nat

\* A RetryPolicy cannot be serialised: submit_task of a task that carries
\* one raises when it appends TaskSubmitted.
ASSUME PolicyNotSubmitted == Submitted \cap Retried = {}

\* initial_delay_seconds * backoff_factor ** (retry_count - 1) is 0 for
\* every retry, for all but the first, or for none.
ASSUME Backoff == ZeroDelays \in {1..MaxRetries, 2..MaxRetries, {}}

VARIABLES genesis,  \* what the whole log replays to
          recent,   \* the events in the log that are stamped with the present time
          saved,    \* when the runtime state was saved: "never", "now" or "before"
          latest,   \* what that state and the page stream_from returns give
          page,     \* the number of events on that page
          saves,    \* the number of checkpoints so far
          lost,     \* history: the tasks an event about which was lost
          owed,     \* events that a thread still has to append, in order
          stale,    \* the threads whose next event may carry an earlier time
          queue,    \* the task queue
          heap,     \* the heap of the delayed task tracker
          at,       \* where a task is
          status,   \* Task.status
          retries,  \* metadata["retry_count"]
          job,      \* the task a worker holds
          wpc       \* how far a worker is with it

table == <<genesis, recent, latest, page>>
disk == <<table, saved, saves, lost>>
emit == <<owed, stale>>
work == <<job, wpc>>
vars == <<disk, emit, queue, heap, at, status, retries, work>>

Threads == Tasks \cup Workers \cup {"loop", "tracker", "operator"}

Kinds == {"Submitted", "Queued", "Dequeued", "Started", "Completed", "Failed",
          "Cancelled", "TaskRetried", "RetryScheduled", "Released"}

Places == {"new", "schedule", "queue", "heap", "popped", "taken", "held",
           "over", "cancelled"}

-----------------------------------------------------------------------------
(* Replay. *)

Blank == [tasks |-> [t \in Tasks |-> "absent"], queue |-> <<>>, delayed |-> {}]

\* A task's record is written only if the task is known.
Mark(s, t, new) ==
  [s EXCEPT !.tasks[t] = IF @ = "absent" THEN @ ELSE new]

\* Mutant: the head of the queue record goes, whichever task it is.
MutUnqueued(s, t) == [s EXCEPT !.queue = IF @ = <<>> THEN @ ELSE Tail(@)]

Unqueued(s, t) == [s EXCEPT !.queue = RemoveFirst(@, t)]

Enqueued(s, t) == [s EXCEPT !.queue = IF Contains(@, t) THEN @ ELSE Append(@, t)]

\* The body of recover's loop.
Apply(s, e) ==
  LET t == e.task IN
  CASE e.kind = "Submitted"      -> [s EXCEPT !.tasks[t] = "Pending"]
    [] e.kind = "Queued"         -> Enqueued(Mark(s, t, "Pending"), t)
    [] e.kind = "Dequeued"       -> Unqueued(s, t)
    [] e.kind = "Started"        -> Mark(s, t, "Running")
    [] e.kind = "Completed"      -> Unqueued(Mark(s, t, "Completed"), t)
    [] e.kind \in {"Failed", "Cancelled"}
                                 -> Unqueued(Mark(s, t, "Failed"), t)
    [] e.kind = "TaskRetried"    -> Mark(s, t, "Pending")
    [] e.kind = "RetryScheduled" -> [s EXCEPT !.delayed = @ \cup {t}]
    [] e.kind = "Released"       -> [s EXCEPT !.delayed = @ \ {t}]

\* Mutant: only events that are newer than the checkpoint.
MutNotOlder(old) == saved = "before"

\* stream_from returns a first page of the events that are not older than
\* the checkpoint; "old" is an event stamped before the present time.
NotOlder(old) == saved = "before" \/ (saved = "now" /\ ~old)

OnPage(old) == NotOlder(old) /\ page < StreamLimit

Recovered(policy) == IF policy = "latest" /\ saved # "never" THEN latest ELSE genesis

-----------------------------------------------------------------------------
(* The engine, as far as it appends events. *)

Init ==
  /\ genesis = Blank /\ recent = <<>>
  /\ saved = "never" /\ latest = Blank /\ page = 0 /\ saves = 0
  /\ lost = {}
  /\ owed = [th \in Threads |-> <<>>]
  /\ stale = {}
  /\ queue = <<>> /\ heap = {}
  /\ at = [t \in Tasks |-> "new"]
  /\ status = [t \in Tasks |-> "PENDING"]
  /\ retries = [t \in Tasks |-> 0]
  /\ job = [w \in Workers |-> None]
  /\ wpc = [w \in Workers |-> "idle"]

Idle(th) == owed[th] = <<>>

\* The thread has changed its state and goes on to append these events.
Owe(th, t, kinds) ==
  /\ owed' = [owed EXCEPT ![th] = [i \in 1..Len(kinds) |-> [kind |-> kinds[i], task |-> t]]]
  /\ stale' = stale \ {th}

\* An event of the queue is appended before the queue's lock is released.
QueueKinds == {"Queued", "Dequeued", "Cancelled"}
LockHeld == \E th \in Threads : owed[th] # <<>> /\ Head(owed[th]).kind \in QueueKinds

\* The event was created, and stamped, at some time since the thread got
\* there; its place in the log is that of the append.
Emit(th) ==
  /\ owed[th] # <<>>
  /\ genesis' = Apply(genesis, Head(owed[th]))
  /\ \E old \in BOOLEAN :
        /\ IF old THEN th \in stale ELSE Len(recent) < MaxTies
        /\ recent' = IF old THEN recent ELSE Append(recent, Head(owed[th]))
        /\ latest' = IF OnPage(old) THEN Apply(latest, Head(owed[th])) ELSE latest
        /\ page' = IF OnPage(old) THEN page + 1 ELSE page
  /\ owed' = [owed EXCEPT ![th] = Tail(@)]
  /\ stale' = stale \ {th}
  /\ UNCHANGED <<saved, saves, lost, queue, heap, at, status, retries, work>>

\* RuntimeEventBus.publish swallows what the store raises.
EmitFails(th) ==
  /\ owed[th] # <<>> /\ Head(owed[th]).task \in Losable \ lost
  /\ lost' = lost \cup {Head(owed[th]).task}
  /\ owed' = [owed EXCEPT ![th] = Tail(@)]
  /\ stale' = stale \ {th}
  /\ UNCHANGED <<table, saved, saves, queue, heap, at, status, retries, work>>

Submit(t) ==
  /\ at[t] = "new" /\ t \in Submitted
  /\ at' = [at EXCEPT ![t] = "schedule"]
  /\ Owe(t, t, <<"Submitted">>)
  /\ UNCHANGED <<disk, queue, heap, status, retries, work>>

AtSchedule(t) == Idle(t) /\ (at[t] = "schedule" \/ (at[t] = "new" /\ t \notin Submitted))

ScheduleNow(t) ==
  /\ AtSchedule(t) /\ t \notin Delayed /\ ~LockHeld
  /\ queue' = Append(queue, t)
  /\ at' = [at EXCEPT ![t] = "queue"]
  /\ Owe(t, t, <<"Queued">>)
  /\ UNCHANGED <<disk, heap, status, retries, work>>

\* Mutant: no event is appended for a delayed task.
MutScheduleLater(t) ==
  /\ AtSchedule(t) /\ t \in Delayed
  /\ heap' = heap \cup {t}
  /\ at' = [at EXCEPT ![t] = "heap"]
  /\ UNCHANGED <<disk, emit, queue, status, retries, work>>

ScheduleLater(t) ==
  /\ AtSchedule(t) /\ t \in Delayed
  /\ heap' = heap \cup {t}
  /\ at' = [at EXCEPT ![t] = "heap"]
  /\ Owe(t, t, <<"RetryScheduled">>)
  /\ UNCHANGED <<disk, queue, status, retries, work>>

\* The tracker takes every task that is ripe out of the heap at once ...
TrackerPop ==
  /\ Idle("tracker") /\ \A t \in Tasks : at[t] # "popped"
  /\ \E ripe \in SUBSET heap \ {{}} :
        /\ heap' = heap \ ripe
        /\ at' = [t \in Tasks |-> IF t \in ripe THEN "popped" ELSE at[t]]
  /\ UNCHANGED <<disk, emit, queue, status, retries, work>>

\* ... and passes them to the scheduler's callback one by one.
TrackerReady(t) ==
  /\ Idle("tracker") /\ at[t] = "popped" /\ ~LockHeld
  /\ queue' = Append(queue, t)
  /\ at' = [at EXCEPT ![t] = "queue"]
  /\ Owe("tracker", t, <<"Queued", "Released">>)
  /\ UNCHANGED <<disk, heap, status, retries, work>>

LoopDequeue ==
  /\ Idle("loop") /\ ~LockHeld /\ queue # <<>>
  /\ \E w \in Workers : wpc[w] = "idle"
  /\ queue' = Tail(queue)
  /\ at' = [at EXCEPT ![Head(queue)] = "taken"]
  /\ Owe("loop", Head(queue), <<"Dequeued">>)
  /\ UNCHANGED <<disk, heap, status, retries, work>>

Cancel(t) ==
  /\ MayCancel /\ Idle("operator") /\ ~LockHeld /\ Contains(queue, t)
  /\ queue' = RemoveFirst(queue, t)
  /\ at' = [at EXCEPT ![t] = "cancelled"]
  /\ Owe("operator", t, <<"Cancelled">>)
  /\ UNCHANGED <<disk, heap, status, retries, work>>

\* The loop submits to the pool what dequeue returned.
WorkerTake(w, t) ==
  /\ wpc[w] = "idle" /\ at[t] = "taken" /\ Idle("loop")
  /\ job' = [job EXCEPT ![w] = t]
  /\ wpc' = [wpc EXCEPT ![w] = "begun"]
  /\ at' = [at EXCEPT ![t] = "held"]
  /\ Owe(w, t, <<"Started">>)
  /\ UNCHANGED <<disk, queue, heap, status, retries>>

WorkerRun(w) ==
  /\ wpc[w] = "begun" /\ Idle(w)
  /\ wpc' = [wpc EXCEPT ![w] = "running"]
  /\ status' = [status EXCEPT ![job[w]] = "RUNNING"]
  /\ UNCHANGED <<disk, emit, queue, heap, at, retries, job>>

WorkerComplete(w) ==
  /\ wpc[w] = "running"
  /\ wpc' = [wpc EXCEPT ![w] = "leaving"]
  /\ status' = [status EXCEPT ![job[w]] = "COMPLETED"]
  /\ at' = [at EXCEPT ![job[w]] = "over"]
  /\ Owe(w, job[w], <<"Completed">>)
  /\ UNCHANGED <<disk, queue, heap, retries, job>>

\* task.fail(); the callback that decides on a retry comes next.
WorkerFail(w) ==
  /\ wpc[w] = "running"
  /\ wpc' = [wpc EXCEPT ![w] = "failing"]
  /\ status' = [status EXCEPT ![job[w]] = "FAILED"]
  /\ UNCHANGED <<disk, emit, queue, heap, at, retries, job>>

MayRetry(t) == t \in Retried /\ retries[t] < MaxRetries

\* Mutant: the failure is final, but no event says so.
MutGiveUp(w) ==
  /\ wpc[w] = "failing" /\ ~MayRetry(job[w])
  /\ wpc' = [wpc EXCEPT ![w] = "leaving"]
  /\ at' = [at EXCEPT ![job[w]] = "over"]
  /\ UNCHANGED <<disk, emit, queue, heap, status, retries, job>>

GiveUp(w) ==
  /\ wpc[w] = "failing" /\ ~MayRetry(job[w])
  /\ wpc' = [wpc EXCEPT ![w] = "leaving"]
  /\ at' = [at EXCEPT ![job[w]] = "over"]
  /\ Owe(w, job[w], <<"Failed">>)
  /\ UNCHANGED <<disk, queue, heap, status, retries, job>>

\* prepare_retry and add_delayed_task; the task may be released, and even
\* run again, before the two events of the retry are in the log.
RetryLater(w) ==
  /\ wpc[w] = "failing" /\ MayRetry(job[w]) /\ retries[job[w]] + 1 \notin ZeroDelays
  /\ wpc' = [wpc EXCEPT ![w] = "leaving"]
  /\ status' = [status EXCEPT ![job[w]] = "PENDING"]
  /\ retries' = [retries EXCEPT ![job[w]] = @ + 1]
  /\ heap' = heap \cup {job[w]}
  /\ at' = [at EXCEPT ![job[w]] = "heap"]
  /\ Owe(w, job[w], <<"TaskRetried", "RetryScheduled">>)
  /\ UNCHANGED <<disk, queue, job>>

\* Without a delay the worker itself runs the tracker's callback first.
RetryNow(w) ==
  /\ wpc[w] = "failing" /\ MayRetry(job[w]) /\ retries[job[w]] + 1 \in ZeroDelays /\ ~LockHeld
  /\ wpc' = [wpc EXCEPT ![w] = "leaving"]
  /\ status' = [status EXCEPT ![job[w]] = "PENDING"]
  /\ retries' = [retries EXCEPT ![job[w]] = @ + 1]
  /\ queue' = Append(queue, job[w])
  /\ at' = [at EXCEPT ![job[w]] = "queue"]
  /\ Owe(w, job[w], <<"Queued", "Released", "TaskRetried", "RetryScheduled">>)
  /\ UNCHANGED <<disk, heap, job>>

WorkerLeave(w) ==
  /\ wpc[w] = "leaving" /\ Idle(w)
  /\ wpc' = [wpc EXCEPT ![w] = "idle"]
  /\ job' = [job EXCEPT ![w] = None]
  /\ UNCHANGED <<disk, emit, queue, heap, at, status, retries>>

-----------------------------------------------------------------------------
(* The operator saves what recover(policy) returns, stamped with the time  *)
(* of the call, while no thread is about to append.  The events of that    *)
(* very moment are in the saved state and on the page of a later recovery. *)

Checkpoint(policy) ==
  /\ saves < MaxSaves
  /\ \A th \in Threads : Idle(th)
  /\ saved' = "now"
  /\ page' = IF Len(recent) < StreamLimit THEN Len(recent) ELSE StreamLimit
  /\ latest' = FoldLeft(Apply, Recovered(policy), SubSeq(recent, 1, page'))
  /\ saves' = saves + 1
  /\ UNCHANGED <<genesis, recent, lost, emit, queue, heap, at, status, retries, work>>

\* datetime.now() moves on.
Tick ==
  /\ recent' = <<>>
  /\ stale' = {th \in Threads : ~Idle(th)}
  /\ saved' = IF saved = "now" THEN "before" ELSE saved
  /\ UNCHANGED <<genesis, latest, page, saves, lost, owed, queue, heap, at, status, retries, work>>

Next ==
  \/ \E th \in Threads : Emit(th) \/ EmitFails(th)
  \/ \E t \in Tasks : Submit(t) \/ ScheduleNow(t) \/ ScheduleLater(t)
                        \/ TrackerReady(t) \/ Cancel(t)
  \/ TrackerPop
  \/ LoopDequeue
  \/ \E w \in Workers :
       \/ \E t \in Tasks : WorkerTake(w, t)
       \/ WorkerRun(w) \/ WorkerComplete(w) \/ WorkerFail(w)
       \/ GiveUp(w) \/ RetryLater(w) \/ RetryNow(w) \/ WorkerLeave(w)
  \/ \E policy \in {"latest", "genesis"} : Checkpoint(policy)
  \/ Tick

Spec == Init /\ [][Next]_vars

-----------------------------------------------------------------------------
(* Properties. *)

\* The recovered state has the shape of RuntimeState, whichever policy.
TypeOK ==
  /\ status \in [Tasks -> {"PENDING", "RUNNING", "COMPLETED", "FAILED"}]
  /\ \A th \in Threads : \A i \in 1..Len(owed[th]) : owed[th][i].kind \in Kinds
  /\ at \in [Tasks -> Places] /\ job \in [Workers -> Tasks \cup {None}]
  /\ \A policy \in {"latest", "genesis"} : LET r == Recovered(policy) IN
       /\ r.tasks \in [Tasks -> {"absent", "Pending", "Running", "Completed", "Failed"}]
       /\ \A t \in Tasks \ Submitted : r.tasks[t] = "absent"
       /\ IsInjective(r.queue) /\ r.delayed \subseteq Tasks

Intact == Tasks \ lost

\* Task t is in q, and not after u.
NoLater(q, t, u) == \E i, j \in DOMAIN q : i <= j /\ q[i] = t /\ q[j] = u

SameOrder(q, r) == \A t, u \in Intact : NoLater(q, t, u) <=> NoLater(r, t, u)

\* Replaying the log from its beginning gives the queue's contents in their
\* order, but for the tasks an event about which was lost, which do not spoil
\* what is recovered of the others.  Inside a queue call, which appends its
\* event under the queue's lock, it does so once that event is there.
QueueSurvives ==
  IF LockHeld
    THEN \A th \in Threads : owed[th] # <<>> /\ Head(owed[th]).kind \in QueueKinds =>
           SameOrder(Apply(genesis, Head(owed[th])).queue, queue)
    ELSE SameOrder(genesis.queue, queue)

Owes(t) == \E th \in Threads : \E i \in 1..Len(owed[th]) : owed[th][i].task = t

\* What replay says of a submitted task is never more final than the truth,
\* and it is the truth unless an event about the task is still owed, or one was
\* lost.  (A cancelled task is replayed as Failed although its status stays
\* PENDING.)
StatusSurvives ==
  \A t \in Submitted : LET said == genesis.tasks[t] IN
    /\ said = "Completed" => status[t] = "COMPLETED"
    /\ said = "Failed" => status[t] = "FAILED" \/ at[t] = "cancelled"
    /\ t \in Intact /\ ~Owes(t) =>
                  said = CASE at[t] = "new" -> "absent"
                            [] at[t] = "cancelled" -> "Failed"
                            [] at[t] = "held" -> "Running"
                            [] at[t] = "over" /\ status[t] = "COMPLETED" -> "Completed"
                            [] at[t] = "over" /\ status[t] = "FAILED" -> "Failed"
                            [] OTHER -> "Pending"

\* A task that waits in the delay heap for the first time is among the
\* recovered delayed_task_ids, or its RetryScheduled is about to be, unless an
\* event about it was lost.  (The second time it may be missing: the tracker's
\* late DelayedTaskReleased of the first wait removes it.)
DelayedSurvives ==
  \A t \in heap \cap Intact :
    retries[t] = (IF t \in Delayed THEN 0 ELSE 1) =>
      \/ t \in genesis.delayed
      \/ \E th \in Threads : \E i \in 1..Len(owed[th]) :
           owed[th][i] = [kind |-> "RetryScheduled", task |-> t]

\* Recovery from the latest checkpoint, which replays the events stamped at
\* the checkpoint's own time a second time, agrees with recovery from
\* genesis on every task's status and on what is queued, whatever was lost, as
\* long as the events since the checkpoint fit on the one page that stream_from
\* reads.
\* (ADR 009 has recovery replay all of them; later ones are not seen.)
SnapshotAgrees ==
  LET r == Recovered("latest") IN
  page < StreamLimit => /\ r.tasks = genesis.tasks
                        /\ ToSet(r.queue) = ToSet(genesis.queue)

=============================================================================
