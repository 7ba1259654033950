----------------------------- MODULE StateStore -----------------------------
(***************************************************************************)
(* SQLiteStateStore, its transactions, its event store and repositories    *)
(* (persistence/adapters/sqlite) and the SnapshotManager over them: threads *)
(* share one connection and one lock.                                      *)
(*                                                                         *)
(* The database is two records of tables: committed, what the file holds,  *)
(* and working, what the connection sees; they differ while a transaction  *)
(* is open.  A row or a snapshot is the RuntimeState its content is from.  *)
(* Every call is a script of statements, run between taking the lock and   *)
(* the commit or rollback that precede its release; any statement may      *)
(* raise (metadata json cannot encode, a duplicate event_id, a full disk), *)
(* so may the commit, and the process may die.                             *)
(***************************************************************************)
EXTENDS Naturals, Sequences, FiniteSets, SequencesExt

CONSTANTS Threads,
          States,       \* runtime states that are saved
          TaskIds, WorkerIds,
          RowsOf(_),    \* the tasks and workers of a state
          Unencodable,  \* the states with task metadata that json.dumps rejects
          Names,        \* snapshot ids
          Batches,      \* the lists append_batch is called with; append's have one event
          None,
          MaxCalls,     \* bound: calls made
          MaxFaults     \* bound: statements and commits that raise, crashes

Rows == TaskIds \cup WorkerIds
Events == UNION {Range(b) : b \in Batches}

ASSUME ConstantsAssumption ==
    /\ \A s \in States : RowsOf(s) \subseteq Rows /\ IsFiniteSet(RowsOf(s))
    /\ Batches \subseteq Seq(Events)
    /\ None \notin Threads
    /\ MaxCalls \in Nat /\ MaxFaults \in Nat

VARIABLES
    committed,    \* the tables as the last commit left them
    working,      \* the tables as the connection sees them
    inTxn,        \* sqlite3: a transaction is open
    lock,         \* the thread that holds SQLiteStateStore._lock
    pc,           \* thread -> "idle", "wait" for the lock, "run"
    op,           \* thread -> the call it makes
    todo,         \* thread -> statements still to execute
    calls, faults,
    stranded      \* history: the open transaction is one whose commit raised

dbVars == <<committed, working, inTxn>>
vars == <<committed, working, inTxn, lock, pc, op, todo, calls, faults, stranded>>

Empty == [rows |-> [r \in Rows |-> None], queue |-> None, sched |-> None,
          snapshots |-> [n \in Names |-> None], events |-> << >>]

----------------------------------------------------------------------------
(* The calls.  "txn" calls run inside SQLiteStateStore.transaction(), "conn" *)
(* calls inside the connection's own context manager, "select" calls only   *)
(* under the lock.  load_runtime_state stands for the "txn" reads            *)
(* (load_snapshot, list_snapshots, health_check), stream for the event       *)
(* store's; save and delete are the repositories', in a caller's             *)
(* transaction().  save_snapshot encodes the state before it takes the lock. *)

StateCalls ==      [call : {"save_runtime_state"}, state : States]
              \cup [call : {"load_runtime_state"}]

\* SnapshotManager: create_snapshot (compressed or not, it stores the state's
\* plain JSON) and delete_snapshot.
SnapshotCalls ==
         [call : {"save_snapshot"}, name : Names, state : States \ Unencodable]
    \cup [call : {"delete_snapshot"}, name : Names]

RepositoryCalls ==      [call : {"save"}, row : Rows, state : States]
                   \cup [call : {"delete"}, row : TaskIds]

EventCalls ==      [call : {"append_batch"}, batch : Batches]
              \cup [call : {"truncate", "stream"}]

Calls == StateCalls \cup SnapshotCalls \cup RepositoryCalls \cup EventCalls

Mode(c) == CASE c.call \in {"append_batch", "truncate"} -> "conn"
             [] c.call = "stream"                       -> "select"
             [] OTHER                                   -> "txn"

Stmt(table, key, value) == [table |-> table, key |-> key, value |-> value]

\* save_runtime_state clears both tables, saves the state's rows one by one and
\* then its queue and scheduler sections.
SaveStatements(s) ==
    LET rows == SetToSeq(RowsOf(s))
    IN  << Stmt("tasks", None, None), Stmt("workers", None, None) >>
        \o [i \in 1..Len(rows) |-> Stmt("row", rows[i], s)]
        \o << Stmt("queue", None, s), Stmt("sched", None, s) >>

\* The statements of a call.
Statements(c) ==
    CASE c.call = "save_runtime_state" -> SaveStatements(c.state)
      [] c.call = "save_snapshot"      -> << Stmt("snapshot", c.name, c.state) >>
      [] c.call = "delete_snapshot"    -> << Stmt("snapshot", c.name, None) >>
      [] c.call = "save"               -> << Stmt("row", c.row, c.state) >>
      [] c.call = "delete"             -> << Stmt("row", c.row, None) >>
      [] c.call = "append_batch"       -> [i \in 1..Len(c.batch) |->
                                             Stmt("event", None, c.batch[i])]
      [] c.call = "truncate"           -> << Stmt("events", None, None) >>
      [] OTHER                         -> << Stmt("none", None, None) >>

Clear(db, ids) == [db EXCEPT !.rows = [r \in Rows |-> IF r \in ids THEN None ELSE @[r]]]

\* The tables after a statement.
Apply(db, s) ==
    CASE s.table = "tasks"    -> Clear(db, TaskIds)
      [] s.table = "workers"  -> Clear(db, WorkerIds)
      [] s.table = "row"      -> [db EXCEPT !.rows[s.key] = s.value]
      [] s.table = "queue"    -> [db EXCEPT !.queue = s.value]
      [] s.table = "sched"    -> [db EXCEPT !.sched = s.value]
      [] s.table = "snapshot" -> [db EXCEPT !.snapshots[s.key] = s.value]
      [] s.table = "event"    -> [db EXCEPT !.events = Append(@, s.value)]
      [] s.table = "events"   -> [db EXCEPT !.events = << >>]
      [] s.table = "none"     -> db

\* event_id is UNIQUE, and a task row holds its metadata as JSON.
Rejected(db, s) == \/ s.table = "event" /\ s.value \in Range(db.events)
                   \/ s.table = "row" /\ s.key \in TaskIds /\ s.value \in Unencodable

Init ==
    /\ committed = Empty /\ working = Empty /\ inTxn = FALSE
    /\ lock = None
    /\ pc = [t \in Threads |-> "idle"]
    /\ op = [t \in Threads |-> None]
    /\ todo = [t \in Threads |-> << >>]
    /\ calls = 0 /\ faults = 0 /\ stranded = FALSE

----------------------------------------------------------------------------
(* One call of a thread.                                                   *)

Call(t, c) ==
    /\ pc[t] = "idle" /\ calls < MaxCalls
    /\ pc' = [pc EXCEPT ![t] = "wait"]
    /\ op' = [op EXCEPT ![t] = c]
    /\ todo' = [todo EXCEPT ![t] = Statements(c)]
    /\ calls' = calls + 1
    /\ UNCHANGED <<dbVars, lock, faults, stranded>>

\* The call ends, one way or the other, and lets go of the lock.
Done(t) == /\ lock' = None
           /\ pc' = [pc EXCEPT ![t] = "idle"]
           /\ op' = [op EXCEPT ![t] = None]
           /\ todo' = [todo EXCEPT ![t] = << >>]
           /\ UNCHANGED calls

\* Mutant: the event store does not take the lock.
MutAcquire(t) ==
    /\ pc[t] = "wait" /\ (lock = None \/ Mode(op[t]) # "txn")
    /\ ~(Mode(op[t]) = "txn" /\ inTxn)
    /\ lock' = IF Mode(op[t]) = "txn" THEN t ELSE lock
    /\ pc' = [pc EXCEPT ![t] = "run"]
    /\ inTxn' = (inTxn \/ Mode(op[t]) = "txn")
    /\ UNCHANGED <<committed, working, op, todo, calls, faults, stranded>>

\* The lock is taken; transaction() begins a transaction of its own.
Acquire(t) ==
    /\ pc[t] = "wait" /\ lock = None
    /\ ~(Mode(op[t]) = "txn" /\ inTxn)
    /\ lock' = t
    /\ pc' = [pc EXCEPT ![t] = "run"]
    /\ inTxn' = (inTxn \/ Mode(op[t]) = "txn")
    /\ UNCHANGED <<committed, working, op, todo, calls, faults, stranded>>

\* Mutant: the lock stays held when BEGIN raises.
MutBeginRaises(t) ==
    /\ pc[t] = "wait" /\ lock = None
    /\ Mode(op[t]) = "txn" /\ inTxn
    /\ lock' = t
    /\ pc' = [pc EXCEPT ![t] = "idle"]
    /\ UNCHANGED <<dbVars, op, todo, calls, faults, stranded>>

\* BEGIN inside a transaction somebody left open raises; the lock is released.
BeginRaises(t) ==
    /\ pc[t] = "wait" /\ lock = None
    /\ Mode(op[t]) = "txn" /\ inTxn
    /\ Done(t)
    /\ UNCHANGED <<dbVars, faults, stranded>>

\* Mutant: an autocommit connection.
MutExecute(t) ==
    /\ pc[t] = "run" /\ todo[t] # << >>
    /\ ~Rejected(working, Head(todo[t]))
    /\ working' = Apply(working, Head(todo[t]))
    /\ committed' = working'
    /\ inTxn' = FALSE
    /\ todo' = [todo EXCEPT ![t] = Tail(@)]
    /\ UNCHANGED <<lock, pc, op, calls, faults, stranded>>

\* A data statement opens a transaction when none is; a SELECT does not.
Execute(t) ==
    /\ pc[t] = "run" /\ todo[t] # << >>
    /\ ~Rejected(working, Head(todo[t]))
    /\ working' = Apply(working, Head(todo[t]))
    /\ inTxn' = (inTxn \/ Head(todo[t]).table # "none")
    /\ todo' = [todo EXCEPT ![t] = Tail(@)]
    /\ UNCHANGED <<committed, lock, pc, op, calls, faults, stranded>>

Rollback == /\ working' = committed /\ inTxn' = FALSE /\ stranded' = FALSE
            /\ UNCHANGED committed

\* A statement raises: both context managers roll back, a read has neither.
StatementRaises(t) ==
    /\ pc[t] = "run" /\ todo[t] # << >>
    /\ \/ Rejected(working, Head(todo[t])) /\ UNCHANGED faults
       \/ faults < MaxFaults /\ faults' = faults + 1
    /\ IF Mode(op[t]) = "select" THEN UNCHANGED <<dbVars, stranded>> ELSE Rollback
    /\ Done(t)

\* conn.commit() writes whatever the open transaction holds.
Commit == /\ committed' = working /\ inTxn' = FALSE /\ stranded' = FALSE
          /\ UNCHANGED working

Return(t) ==
    /\ pc[t] = "run" /\ todo[t] = << >>
    /\ IF Mode(op[t]) = "select" THEN UNCHANGED <<dbVars, stranded>> ELSE Commit
    /\ Done(t)
    /\ UNCHANGED faults

\* The commit raises.  The connection's context manager rolls back, and SQLite
\* itself does after some errors; after others SQLiteTransaction leaves the
\* transaction open and only releases the lock.
CommitRaises(t) ==
    /\ pc[t] = "run" /\ todo[t] = << >> /\ Mode(op[t]) # "select"
    /\ faults < MaxFaults /\ faults' = faults + 1
    /\ \/ Rollback
       \/ Mode(op[t]) = "txn" /\ UNCHANGED dbVars /\ stranded' = TRUE
    /\ Done(t)

\* The process dies and another opens the same file.
Crash ==
    /\ faults < MaxFaults /\ faults' = faults + 1
    /\ \E t \in Threads : pc[t] # "idle"
    /\ Rollback
    /\ lock' = None
    /\ pc' = [t \in Threads |-> "idle"]
    /\ op' = [t \in Threads |-> None]
    /\ todo' = [t \in Threads |-> << >>]
    /\ UNCHANGED calls

Step(t) == \/ Acquire(t) \/ BeginRaises(t) \/ Execute(t) \/ StatementRaises(t)
           \/ Return(t) \/ CommitRaises(t)

Next == \/ \E t \in Threads : Step(t) \/ \E c \in Calls : Call(t, c)
        \/ Crash

Spec == Init /\ [][Next]_vars

\* A thread that can go on does.  threading.Lock is not fair; the calls are
\* finitely many, so a thread that waits gets it in the end.
Fairness == \A t \in Threads : WF_vars(Step(t))

FairSpec == Spec /\ Fairness

----------------------------------------------------------------------------
(* Properties.                                                             *)

Tables == [rows : [Rows -> States \cup {None}],
           queue : States \cup {None}, sched : States \cup {None},
           snapshots : [Names -> States \cup {None}],
           events : Seq(Events)]

TypeOK ==
    /\ committed \in Tables /\ working \in Tables /\ inTxn \in BOOLEAN
    /\ lock \in Threads \cup {None}
    /\ pc \in [Threads -> {"idle", "wait", "run"}]
    /\ op \in [Threads -> Calls \cup {None}]
    /\ calls \in 0..MaxCalls /\ faults \in 0..MaxFaults /\ stranded \in BOOLEAN

\* SQLiteTransaction and the `with self._conn` of the event store isolate calls
\* from each other: a thread that does not hold the lock finds nothing half
\* done, and a read under it (load_runtime_state, stream) sees committed data
\* only, except while a failed commit's transaction is still open.
Isolated ==
    ~stranded =>
      /\ lock = None => ~inTxn /\ working = committed
      /\ \A t \in Threads :
           pc[t] = "run" /\ op[t].call \in {"load_runtime_state", "stream"} => working = committed

Torn == CHOOSE x : x \notin States \cup {None}

Ports == INSTANCE AbstractStore
    WITH rows <- committed.rows,
         header <- IF committed.queue = committed.sched THEN committed.queue ELSE Torn,
         snapshots <- committed.snapshots,
         events <- committed.events

\* The contract of domain/ports.py: each call changes the file as a whole or not
\* at all, whatever runs, raises or crashes in between.  The exception is the
\* commit that carries a transaction whose own commit had raised: the next event
\* append writes it although its caller was told that it failed.  Even then
\* load_runtime_state never pairs the queue section of one saved state with the
\* scheduler section of another.
KeepsPorts ==
    Ports!Init /\ [][(stranded \/ Ports!Next) /\ committed'.queue = committed'.sched]_(Ports!vars)

\* No call waits for ever: the lock is released on every path, exceptions and
\* failed BEGINs included.
CallsReturn == \A t \in Threads : pc[t] # "idle" ~> pc[t] = "idle"
=============================================================================
