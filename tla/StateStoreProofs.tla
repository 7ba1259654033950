-------------------------- MODULE StateStoreProofs --------------------------
(***************************************************************************)
(* Proofs about StateStore, for any threads, runtime states, snapshot ids, *)
(* batches of events, numbers of calls and faults.                         *)
(***************************************************************************)
EXTENDS StateStore, FiniteSetTheorems, TLAPS

----------------------------------------------------------------------------
(* The inductive invariant.                                                *)

\* The statements a call may consist of.
Stmts ==
         [table : {"tasks", "workers", "events", "none"}, key : {None}, value : {None}]
    \cup [table : {"row"}, key : Rows, value : States \cup {None}]
    \cup [table : {"queue", "sched"}, key : {None}, value : States]
    \cup [table : {"snapshot"}, key : Names, value : States \cup {None}]
    \cup [table : {"event"}, key : {None}, value : Events]

\* The lock is held by the one thread that is running a call.
Locked == \A t \in Threads : pc[t] = "run" <=> lock = t

\* How many statements of its call a thread has executed.
Executed(t) == Len(Statements(op[t])) - Len(todo[t])

\* A thread's statements are those of its call, less the ones it has executed.
Follows(t) ==
    /\ pc[t] # "idle" => op[t] \in Calls
    /\ pc[t] = "wait" => todo[t] = Statements(op[t])
    /\ pc[t] = "run" =>
         /\ Executed(t) \in 0..Len(Statements(op[t]))
         /\ \A i \in 1..Len(todo[t]) : todo[t][i] = Statements(op[t])[Executed(t) + i]

Scripted == todo \in [Threads -> Seq(Stmts)] /\ \A t \in Threads : Follows(t)

\* The tables with another event log.
WithLog(db, log) == [db EXCEPT !.events = log]

\* Tables new are tables old after the first k statements that save state s.
PartlySaved(old, new, s, k) ==
    LET ids == SetToSeq(RowsOf(s))
    IN  /\ \A r \in Rows :
             new.rows[r] =
               IF \E j \in 1..Len(ids) : j + 2 <= k /\ ids[j] = r THEN s
               ELSE IF (k >= 1 /\ r \in TaskIds) \/ (k >= 2 /\ r \in WorkerIds) THEN None
               ELSE old.rows[r]
        /\ new.queue = IF k >= Len(ids) + 3 THEN s ELSE old.queue
        /\ new.sched = IF k >= Len(ids) + 4 THEN s ELSE old.sched
        /\ new.snapshots = old.snapshots /\ new.events = old.events

\* Tables new are tables old after the first k statements of call c.
Partly(old, new, c, k) ==
    /\ c.call = "save_runtime_state" => PartlySaved(old, new, c.state, k)
    /\ c.call = "append_batch" => new = WithLog(old, old.events \o SubSeq(c.batch, 1, k))
    /\ c.call \notin {"save_runtime_state", "append_batch"} =>
         new = IF k = 0 THEN old ELSE Apply(old, Statements(c)[1])

\* The queue and scheduler sections are of one state.
Whole(db) == db.queue = db.sched

\* What the open transaction holds: nothing, if nobody has the lock; what the
\* holder's call has done so far; or a whole call whose commit raised, in which
\* case no other transaction() can begin.
Tidy ==
    /\ Whole(committed)
    /\ stranded => /\ inTxn /\ Whole(working)
                   /\ \A t \in Threads : pc[t] = "run" => Mode(op[t]) # "txn"
    /\ ~stranded /\ lock = None => ~inTxn /\ working = committed
    /\ ~stranded => \A t \in Threads : pc[t] = "run" =>
                      /\ Partly(committed, working, op[t], Executed(t))
                      /\ Mode(op[t]) = "select" => ~inTxn
                      /\ Mode(op[t]) = "txn" => inTxn

IInv == TypeOK /\ Locked /\ Scripted /\ Tidy

----------------------------------------------------------------------------
(* The calls and their statements.                                         *)

\* The fields of a call, by its kind.
LEMMA CallFields ==
    ASSUME NEW c \in Calls
    PROVE  /\ c.call \in {"save_runtime_state", "load_runtime_state", "save_snapshot",
                          "delete_snapshot", "save", "delete", "append_batch",
                          "truncate", "stream"}
           /\ c.call = "save_runtime_state" => c.state \in States
           /\ c.call = "save_snapshot" => c.name \in Names /\ c.state \in States
           /\ c.call = "delete_snapshot" => c.name \in Names
           /\ c.call = "save" => c.row \in Rows /\ c.state \in States
           /\ c.call = "delete" => c.row \in Rows
           /\ c.call = "append_batch" => c.batch \in Batches
<1>1. CASE c \in StateCalls
  BY <1>1 DEF StateCalls
<1>2. CASE c \in SnapshotCalls
  BY <1>2 DEF SnapshotCalls
<1>3. CASE c \in RepositoryCalls
  BY <1>3 DEF RepositoryCalls, Rows
<1>4. CASE c \in EventCalls
  BY <1>4 DEF EventCalls
<1>5. QED
  BY <1>1, <1>2, <1>3, <1>4 DEF Calls

\* How a call is run, by its kind.
LEMMA ModeCases ==
    ASSUME NEW c
    PROVE  /\ c.call \in {"append_batch", "truncate"} => Mode(c) = "conn"
           /\ c.call = "stream" => Mode(c) = "select"
           /\ c.call \notin {"append_batch", "truncate", "stream"} => Mode(c) = "txn"
  BY Zenon DEF Mode

\* The statements of a call, by its kind.
LEMMA StatementsCases ==
    ASSUME NEW c
    PROVE  /\ c.call = "save_runtime_state" => Statements(c) = SaveStatements(c.state)
           /\ c.call = "save_snapshot" =>
                Statements(c) = << Stmt("snapshot", c.name, c.state) >>
           /\ c.call = "delete_snapshot" =>
                Statements(c) = << Stmt("snapshot", c.name, None) >>
           /\ c.call = "save" => Statements(c) = << Stmt("row", c.row, c.state) >>
           /\ c.call = "delete" => Statements(c) = << Stmt("row", c.row, None) >>
           /\ c.call = "append_batch" =>
                Statements(c) = [i \in 1..Len(c.batch) |-> Stmt("event", None, c.batch[i])]
           /\ c.call = "truncate" => Statements(c) = << Stmt("events", None, None) >>
           /\ c.call \in {"load_runtime_state", "stream"} =>
                Statements(c) = << Stmt("none", None, None) >>
  BY Zenon DEF Statements

\* What a statement does, by its table.
LEMMA ApplyCases ==
    ASSUME NEW db, NEW s
    PROVE  /\ s.table = "tasks" => Apply(db, s) = Clear(db, TaskIds)
           /\ s.table = "workers" => Apply(db, s) = Clear(db, WorkerIds)
           /\ s.table = "row" => Apply(db, s) = [db EXCEPT !.rows[s.key] = s.value]
           /\ s.table = "queue" => Apply(db, s) = [db EXCEPT !.queue = s.value]
           /\ s.table = "sched" => Apply(db, s) = [db EXCEPT !.sched = s.value]
           /\ s.table = "snapshot" => Apply(db, s) = [db EXCEPT !.snapshots[s.key] = s.value]
           /\ s.table = "none" => Apply(db, s) = db
  BY Zenon DEF Apply

\* What the statements on the event log do.
LEMMA ApplyLog ==
    ASSUME NEW db, NEW s
    PROVE  /\ s.table = "event" => Apply(db, s) = WithLog(db, Append(db.events, s.value))
           /\ s.table = "events" => Apply(db, s) = WithLog(db, << >>)
  BY Zenon DEF Apply, WithLog

\* Only the log is another one.
LEMMA WithLogFacts ==
    ASSUME NEW db \in Tables, NEW log \in Seq(Events)
    PROVE  /\ WithLog(db, log) \in Tables
           /\ WithLog(db, log).events = log
           /\ WithLog(db, log).rows = db.rows
           /\ WithLog(db, log).queue = db.queue
           /\ WithLog(db, log).sched = db.sched
           /\ WithLog(db, log).snapshots = db.snapshots
  BY DEF Tables, WithLog

\* A statement leaves tables, and those it does not name as they were.
LEMMA ApplyType ==
    ASSUME NEW db \in Tables, NEW s \in Stmts
    PROVE  /\ Apply(db, s) \in Tables
           /\ s.table \notin {"queue", "sched"} =>
                Apply(db, s).queue = db.queue /\ Apply(db, s).sched = db.sched
<1>1. CASE s \in [table : {"tasks", "workers", "events", "none"}, key : {None}, value : {None}]
  <2>1. CASE s.table = "tasks"
    BY <2>1, ApplyCases DEF Tables, Clear
  <2>2. CASE s.table = "workers"
    BY <2>2, ApplyCases DEF Tables, Clear
  <2>3. CASE s.table = "events"
    <3>1. Apply(db, s) = WithLog(db, << >>)
      BY <2>3, ApplyLog
    <3>2. << >> \in Seq(Events)
      OBVIOUS
    <3>3. /\ WithLog(db, << >>) \in Tables
          /\ WithLog(db, << >>).queue = db.queue /\ WithLog(db, << >>).sched = db.sched
      BY <3>2, WithLogFacts
    <3>4. QED
      BY <3>1, <3>3, Zenon
  <2>4. CASE s.table = "none"
    BY <2>4, ApplyCases
  <2>5. QED
    BY <1>1, <2>1, <2>2, <2>3, <2>4
<1>2. CASE s \in [table : {"row"}, key : Rows, value : States \cup {None}]
  BY <1>2, ApplyCases DEF Tables
<1>3. CASE s \in [table : {"queue", "sched"}, key : {None}, value : States]
  BY <1>3, ApplyCases DEF Tables
<1>4. CASE s \in [table : {"snapshot"}, key : Names, value : States \cup {None}]
  BY <1>4, ApplyCases DEF Tables
<1>5. CASE s \in [table : {"event"}, key : {None}, value : Events]
  <2>1. Apply(db, s) = WithLog(db, Append(db.events, s.value))
    BY <1>5, ApplyLog
  <2>2. Append(db.events, s.value) \in Seq(Events)
    BY <1>5 DEF Tables
  <2> DEFINE log == Append(db.events, s.value)
  <2>3. /\ WithLog(db, log) \in Tables
        /\ WithLog(db, log).queue = db.queue /\ WithLog(db, log).sched = db.sched
    BY <2>2, WithLogFacts
  <2>4. QED
    BY <2>1, <2>3, Zenon
<1>6. QED
  BY <1>1, <1>2, <1>3, <1>4, <1>5 DEF Stmts

\* The rows of a state are written in some order, each of them.
LEMMA RowOrder ==
    ASSUME NEW s \in States
    PROVE  /\ SetToSeq(RowsOf(s)) \in Seq(RowsOf(s))
           /\ \A r \in RowsOf(s) : \E j \in 1..Len(SetToSeq(RowsOf(s))) :
                SetToSeq(RowsOf(s))[j] = r
<1> DEFINE R == RowsOf(s)
           n == Cardinality(R)
<1>1. IsFiniteSet(R)
  BY ConstantsAssumption
<1>2. n \in Nat /\ ExistsBijection(1..n, R)
  BY <1>1, FS_CardinalityType
<1>3. \E f \in [1..n -> R] : IsInjective(f)
  BY <1>2 DEF ExistsBijection, Bijection, Injection, IsInjective
<1>4. SetToSeq(R) \in [1..n -> R] /\ IsInjective(SetToSeq(R))
  BY <1>3 DEF SetToSeq
<1>5. SetToSeq(R) \in Seq(R) /\ Len(SetToSeq(R)) = n
  BY <1>2, <1>4
<1>6. SetToSeq(R) \in Surjection(1..n, R)
  <2>1. SetToSeq(R) \in Injection(1..n, R)
    BY <1>4 DEF Injection
  <2>2. IsFiniteSet(1..n) /\ Cardinality(1..n) = n
    BY <1>2, FS_Interval
  <2>3. QED
    BY <2>1, <2>2, <1>1, FS_Injection
<1>7. QED
  BY <1>5, <1>6 DEF Surjection

\* A statement has the fields it was made with.
LEMMA StmtFields ==
    ASSUME NEW table, NEW key, NEW value
    PROVE  /\ Stmt(table, key, value).table = table
           /\ Stmt(table, key, value).key = key
           /\ Stmt(table, key, value).value = value
  BY DEF Stmt

\* The places of a concatenation.
LEMMA ConcatFacts ==
    ASSUME NEW S, NEW a \in Seq(S), NEW b \in Seq(S), NEW c, c = a \o b
    PROVE  /\ c \in Seq(S) /\ Len(c) = Len(a) + Len(b)
           /\ \A i \in 1..Len(a) : c[i] = a[i]
           /\ \A i \in 1..Len(b) : c[Len(a) + i] = b[i]
<1>1. /\ c \in Seq(S) /\ Len(c) = Len(a) + Len(b)
      /\ Len(a) \in Nat /\ Len(b) \in Nat
      /\ \A i \in 1..Len(a) : c[i] = a[i]
  OBVIOUS
<1>2. ASSUME NEW i \in 1..Len(b) PROVE c[Len(a) + i] = b[i]
  <2>1. Len(a) + i \in 1..(Len(a) + Len(b)) /\ Len(a) + i > Len(a)
        /\ (Len(a) + i) - Len(a) = i
    BY <1>1
  <2>2. QED
    BY <2>1, <1>1
<1>3. QED
  BY <1>1, <1>2

\* The statements of save_runtime_state, place by place.
LEMMA SaveScript ==
    ASSUME NEW s \in States, NEW ids, ids = SetToSeq(RowsOf(s))
    PROVE  /\ ids \in Seq(Rows) /\ Len(ids) \in Nat
           /\ SaveStatements(s) \in Seq(Stmts)
           /\ Len(SaveStatements(s)) = Len(ids) + 4
           /\ SaveStatements(s)[1] = Stmt("tasks", None, None)
           /\ SaveStatements(s)[2] = Stmt("workers", None, None)
           /\ \A j \in 1..Len(ids) : SaveStatements(s)[j + 2] = Stmt("row", ids[j], s)
           /\ SaveStatements(s)[Len(ids) + 3] = Stmt("queue", None, s)
           /\ SaveStatements(s)[Len(ids) + 4] = Stmt("sched", None, s)
<1>1. ids \in Seq(RowsOf(s)) /\ RowsOf(s) \subseteq Rows
  BY RowOrder, ConstantsAssumption
<1>2. ids \in Seq(Rows) /\ Len(ids) \in Nat /\ \A j \in 1..Len(ids) : ids[j] \in Rows
  BY <1>1
<1> DEFINE pre == << Stmt("tasks", None, None), Stmt("workers", None, None) >>
           mid == [i \in 1..Len(ids) |-> Stmt("row", ids[i], s)]
           post == << Stmt("queue", None, s), Stmt("sched", None, s) >>
<1>3. /\ Stmt("tasks", None, None) \in Stmts /\ Stmt("workers", None, None) \in Stmts
      /\ Stmt("queue", None, s) \in Stmts /\ Stmt("sched", None, s) \in Stmts
  BY DEF Stmt, Stmts
<1>4. \A j \in 1..Len(ids) : Stmt("row", ids[j], s) \in Stmts
  BY <1>2 DEF Stmt, Stmts
<1>5. pre \in Seq(Stmts) /\ Len(pre) = 2 /\ pre[1] = Stmt("tasks", None, None)
      /\ pre[2] = Stmt("workers", None, None)
  BY <1>3
<1>6. post \in Seq(Stmts) /\ Len(post) = 2 /\ post[1] = Stmt("queue", None, s)
      /\ post[2] = Stmt("sched", None, s)
  BY <1>3
<1>7. /\ mid \in Seq(Stmts) /\ Len(mid) = Len(ids)
      /\ \A j \in 1..Len(ids) : mid[j] = Stmt("row", ids[j], s)
  BY <1>2, <1>4
<1>8. SaveStatements(s) = pre \o mid \o post
  BY DEF SaveStatements
<1> HIDE DEF pre, mid, post
<1> DEFINE front == pre \o mid
<1>9. front = pre \o mid /\ SaveStatements(s) = front \o post
  BY <1>8
<1> HIDE DEF front
<1>10. /\ front \in Seq(Stmts) /\ Len(front) = Len(ids) + 2
       /\ front[1] = pre[1] /\ front[2] = pre[2]
       /\ \A j \in 1..Len(ids) : front[j + 2] = mid[j]
  <2>1. /\ front \in Seq(Stmts) /\ Len(front) = Len(pre) + Len(mid)
        /\ \A i \in 1..Len(pre) : front[i] = pre[i]
        /\ \A j \in 1..Len(mid) : front[Len(pre) + j] = mid[j]
    <3>1. pre \in Seq(Stmts) /\ mid \in Seq(Stmts) /\ front = pre \o mid
      BY <1>5, <1>7, <1>9
    <3>2. QED
      BY <3>1, ConcatFacts
  <2>2. \A j \in 1..Len(ids) : 2 + j = j + 2
    BY <1>2
  <2>3. 1 \in 1..2 /\ 2 \in 1..2 /\ 2 + Len(ids) = Len(ids) + 2
    BY <1>2
  <2>4. QED
    BY <2>1, <2>2, <2>3, <1>5, <1>7
<1>11. /\ SaveStatements(s) \in Seq(Stmts)
       /\ Len(SaveStatements(s)) = Len(front) + Len(post)
       /\ \A i \in 1..Len(front) : SaveStatements(s)[i] = front[i]
       /\ \A i \in 1..Len(post) : SaveStatements(s)[Len(front) + i] = post[i]
  <2>1. front \in Seq(Stmts) /\ post \in Seq(Stmts)
    BY <1>6, <1>10
  <2>2. PICK all : all = SaveStatements(s)
    OBVIOUS
  <2>3. all = front \o post
    BY <2>2, <1>9
  <2>4. /\ all \in Seq(Stmts) /\ Len(all) = Len(front) + Len(post)
        /\ \A i \in 1..Len(front) : all[i] = front[i]
        /\ \A i \in 1..Len(post) : all[Len(front) + i] = post[i]
    BY <2>1, <2>3, ConcatFacts
  <2>5. QED
    BY <2>2, <2>4
<1>12. /\ 1 \in 1..(Len(ids) + 2) /\ 2 \in 1..(Len(ids) + 2) /\ 1 \in 1..2 /\ 2 \in 1..2
       /\ \A j \in 1..Len(ids) : j + 2 \in 1..(Len(ids) + 2)
       /\ (Len(ids) + 2) + 1 = Len(ids) + 3 /\ (Len(ids) + 2) + 2 = Len(ids) + 4
  BY <1>2
<1>13. QED
  BY <1>2, <1>5, <1>6, <1>7, <1>10, <1>11, <1>12

\* A call's statements are statements; only a save of a whole state and a batch
\* of events have more than one.
LEMMA StatementsType ==
    ASSUME NEW c \in Calls
    PROVE  /\ Statements(c) \in Seq(Stmts) /\ Len(Statements(c)) \in Nat
           /\ c.call \notin {"save_runtime_state", "append_batch"} =>
                Len(Statements(c)) = 1
           /\ c.call = "append_batch" =>
                /\ c.batch \in Seq(Events) /\ Len(c.batch) \in Nat
                /\ Len(Statements(c)) = Len(c.batch)
                /\ \A i \in 1..Len(c.batch) :
                     Statements(c)[i] = Stmt("event", None, c.batch[i])
           /\ Mode(c) # "txn" => \A i \in 1..Len(Statements(c)) :
                                   Statements(c)[i].table \notin {"queue", "sched"}
<1>1. CASE c.call = "save_runtime_state"
  <2>1. c.state \in States /\ Statements(c) = SaveStatements(c.state) /\ Mode(c) = "txn"
    BY <1>1, CallFields, StatementsCases, ModeCases
  <2>2. QED
    BY <1>1, <2>1, SaveScript
<1>2. CASE c.call = "append_batch"
  <2>1. c.batch \in Seq(Events) /\ Len(c.batch) \in Nat
    BY <1>2, CallFields, ConstantsAssumption
  <2>2. \A i \in 1..Len(c.batch) : Stmt("event", None, c.batch[i]) \in Stmts
    BY <2>1 DEF Stmt, Stmts
  <2>3. Statements(c) = [i \in 1..Len(c.batch) |-> Stmt("event", None, c.batch[i])]
    BY <1>2, StatementsCases
  <2>4. /\ Statements(c) \in Seq(Stmts) /\ Len(Statements(c)) = Len(c.batch)
        /\ \A i \in 1..Len(c.batch) : Statements(c)[i] = Stmt("event", None, c.batch[i])
    BY <2>1, <2>2, <2>3
  <2>5. QED
    BY <1>2, <2>1, <2>4, StmtFields
<1>3. CASE c.call \notin {"save_runtime_state", "append_batch"}
  <2>1. \E st \in Stmts : /\ Statements(c) = << st >>
                          /\ Mode(c) # "txn" => st.table \notin {"queue", "sched"}
    <3>1. CASE c.call = "save_snapshot"
      <4>1. Stmt("snapshot", c.name, c.state) \in Stmts
        BY <3>1, CallFields DEF Stmt, Stmts
      <4>2. QED
        BY <3>1, <4>1, StatementsCases, StmtFields
    <3>2. CASE c.call = "delete_snapshot"
      <4>1. Stmt("snapshot", c.name, None) \in Stmts
        BY <3>2, CallFields DEF Stmt, Stmts
      <4>2. QED
        BY <3>2, <4>1, StatementsCases, StmtFields
    <3>3. CASE c.call = "save"
      <4>1. Stmt("row", c.row, c.state) \in Stmts
        BY <3>3, CallFields DEF Stmt, Stmts
      <4>2. QED
        BY <3>3, <4>1, StatementsCases, StmtFields
    <3>4. CASE c.call = "delete"
      <4>1. Stmt("row", c.row, None) \in Stmts
        BY <3>4, CallFields DEF Stmt, Stmts
      <4>2. QED
        BY <3>4, <4>1, StatementsCases, StmtFields
    <3>5. CASE c.call = "truncate"
      <4>1. Stmt("events", None, None) \in Stmts
        BY DEF Stmt, Stmts
      <4>2. QED
        BY <3>5, <4>1, StatementsCases, StmtFields
    <3>6. CASE c.call \in {"load_runtime_state", "stream"}
      <4>1. Stmt("none", None, None) \in Stmts
        BY DEF Stmt, Stmts
      <4>2. QED
        BY <3>6, <4>1, StatementsCases, StmtFields
    <3>7. QED
      BY <1>3, <3>1, <3>2, <3>3, <3>4, <3>5, <3>6, CallFields
  <2>2. PICK st \in Stmts : /\ Statements(c) = << st >>
                            /\ Mode(c) # "txn" => st.table \notin {"queue", "sched"}
    BY <2>1
  <2>3. Statements(c) \in Seq(Stmts) /\ Len(Statements(c)) = 1 /\ Statements(c)[1] = st
    BY <2>2
  <2>4. QED
    BY <1>3, <2>2, <2>3
<1>4. QED
  BY <1>1, <1>2, <1>3

----------------------------------------------------------------------------
(* Half-done calls.                                                        *)

\* A call that has executed nothing has changed nothing.
LEMMA PartlyNothing ==
    ASSUME NEW db \in Tables, NEW c \in Calls
    PROVE  Partly(db, db, c, 0)
<1>1. CASE c.call = "save_runtime_state"
  <2>1. c.state \in States
    BY <1>1, CallFields
  <2>2. PICK ids : ids = SetToSeq(RowsOf(c.state))
    OBVIOUS
  <2>3. Len(ids) \in Nat
    BY <2>1, <2>2, SaveScript
  <2>4. PartlySaved(db, db, c.state, 0)
    BY <2>2, <2>3 DEF PartlySaved
  <2>5. QED
    BY <1>1, <2>4 DEF Partly
<1>2. CASE c.call = "append_batch"
  <2>1. c.batch \in Seq(Events)
    BY <1>2, StatementsType
  <2>2. SubSeq(c.batch, 1, 0) = << >> /\ db.events \in Seq(Events)
    BY <2>1 DEF Tables
  <2>3. db.events \o SubSeq(c.batch, 1, 0) = db.events
    BY <2>2
  <2>4. WithLog(db, db.events) = db
    BY DEF WithLog, Tables
  <2>5. QED
    BY <1>2, <2>3, <2>4 DEF Partly
<1>3. CASE c.call \notin {"save_runtime_state", "append_batch"}
  BY <1>3 DEF Partly
<1>4. QED
  BY <1>1, <1>2, <1>3

\* The rows after a table was cleared.
LEMMA TableCleared ==
    ASSUME NEW db \in Tables, NEW ids, NEW new, new = Clear(db, ids)
    PROVE  /\ \A q \in Rows : new.rows[q] = IF q \in ids THEN None ELSE db.rows[q]
           /\ new.queue = db.queue /\ new.sched = db.sched
           /\ new.snapshots = db.snapshots /\ new.events = db.events
  BY DEF Tables, Clear

\* The next statement of save_runtime_state.
LEMMA PartlySavedStep ==
    ASSUME NEW old \in Tables, NEW db \in Tables, NEW s \in States, NEW k \in Nat,
           k < Len(SaveStatements(s)), PartlySaved(old, db, s, k),
           NEW new, new = Apply(db, SaveStatements(s)[k + 1])
    PROVE  PartlySaved(old, new, s, k + 1)
<1>1. PICK ids : ids = SetToSeq(RowsOf(s))
  OBVIOUS
<1>2. /\ ids \in Seq(Rows) /\ Len(ids) \in Nat
      /\ Len(SaveStatements(s)) = Len(ids) + 4
      /\ SaveStatements(s)[1] = Stmt("tasks", None, None)
      /\ SaveStatements(s)[2] = Stmt("workers", None, None)
      /\ \A j \in 1..Len(ids) : SaveStatements(s)[j + 2] = Stmt("row", ids[j], s)
      /\ SaveStatements(s)[Len(ids) + 3] = Stmt("queue", None, s)
      /\ SaveStatements(s)[Len(ids) + 4] = Stmt("sched", None, s)
  BY <1>1, SaveScript
<1>3. \A j \in 1..Len(ids) : ids[j] \in Rows
  BY <1>2
<1> DEFINE Row(n, r) == IF \E j \in 1..Len(ids) : j + 2 <= n /\ ids[j] = r THEN s
                        ELSE IF (n >= 1 /\ r \in TaskIds) \/ (n >= 2 /\ r \in WorkerIds)
                        THEN None ELSE old.rows[r]
<1>4. /\ \A r \in Rows : db.rows[r] = Row(k, r)
      /\ db.queue = IF k >= Len(ids) + 3 THEN s ELSE old.queue
      /\ db.sched = IF k >= Len(ids) + 4 THEN s ELSE old.sched
      /\ db.snapshots = old.snapshots /\ db.events = old.events
  BY <1>1 DEF PartlySaved
<1>5. SUFFICES /\ \A r \in Rows : new.rows[r] = Row(k + 1, r)
               /\ new.queue = IF k + 1 >= Len(ids) + 3 THEN s ELSE old.queue
               /\ new.sched = IF k + 1 >= Len(ids) + 4 THEN s ELSE old.sched
               /\ new.snapshots = old.snapshots /\ new.events = old.events
  BY <1>1 DEF PartlySaved
<1>6. CASE k = 0
  <2>1. new = Clear(db, TaskIds)
    BY <1>2, <1>6, ApplyCases, StmtFields
  <2>2. QED
    BY <2>1, <1>2, <1>4, <1>6, TableCleared DEF Rows
<1>7. CASE k = 1
  <2>1. new = Clear(db, WorkerIds)
    BY <1>2, <1>7, ApplyCases, StmtFields
  <2>2. QED
    BY <2>1, <1>2, <1>4, <1>7, TableCleared DEF Rows
<1>8. CASE k >= 2 /\ k < Len(ids) + 2
  <2>1. PICK i \in 1..Len(ids) : k + 1 = i + 2
    BY <1>2, <1>8
  <2>2. new = Apply(db, Stmt("row", ids[i], s))
    BY <2>1, <1>2
  <2>3. /\ \A q \in Rows : new.rows[q] = IF q = ids[i] THEN s ELSE db.rows[q]
        /\ new.queue = db.queue /\ new.sched = db.sched
        /\ new.snapshots = db.snapshots /\ new.events = db.events
    <3>1. PICK w \in Rows : w = ids[i]
      BY <1>3
    <3>2. new = [db EXCEPT !.rows[w] = s]
      BY <2>2, <3>1, ApplyCases, StmtFields
    <3>3. /\ \A q \in Rows : new.rows[q] = IF q = w THEN s ELSE db.rows[q]
          /\ new.queue = db.queue /\ new.sched = db.sched
          /\ new.snapshots = db.snapshots /\ new.events = db.events
      BY <3>2 DEF Tables
    <3>4. QED
      BY <3>1, <3>3
  <2>4. \A j \in 1..Len(ids) : j + 2 <= k + 1 <=> j + 2 <= k \/ j = i
    BY <2>1, <1>2
  <2>5. \A r \in Rows : new.rows[r] = Row(k + 1, r)
    BY <2>3, <2>4, <1>4, <1>8
  <2>6. QED
    BY <2>3, <2>5, <1>2, <1>4, <1>8
<1>9. CASE k = Len(ids) + 2
  <2>1. new = [db EXCEPT !.queue = s]
    <3>1. SaveStatements(s)[k + 1] = Stmt("queue", None, s)
      BY <1>2, <1>9
    <3>2. QED
      BY <3>1, ApplyCases, StmtFields
  <2>2. /\ new.queue = s /\ new.rows = db.rows /\ new.sched = db.sched
        /\ new.snapshots = db.snapshots /\ new.events = db.events
    BY <2>1 DEF Tables
  <2>3. \A j \in 1..Len(ids) : j + 2 <= k + 1 /\ j + 2 <= k
    BY <1>2, <1>9
  <2>4. \A r \in Rows : new.rows[r] = Row(k + 1, r)
    BY <2>2, <2>3, <1>2, <1>4, <1>9
  <2>5. QED
    BY <2>2, <2>4, <1>2, <1>4, <1>9
<1>10. CASE k = Len(ids) + 3
  <2>1. new = [db EXCEPT !.sched = s]
    <3>1. SaveStatements(s)[k + 1] = Stmt("sched", None, s)
      BY <1>2, <1>10
    <3>2. QED
      BY <3>1, ApplyCases, StmtFields
  <2>2. /\ new.sched = s /\ new.rows = db.rows /\ new.queue = db.queue
        /\ new.snapshots = db.snapshots /\ new.events = db.events
    BY <2>1 DEF Tables
  <2>3. \A j \in 1..Len(ids) : j + 2 <= k + 1 /\ j + 2 <= k
    BY <1>2, <1>10
  <2>4. \A r \in Rows : new.rows[r] = Row(k + 1, r)
    BY <2>2, <2>3, <1>2, <1>4, <1>10
  <2>5. QED
    BY <2>2, <2>4, <1>2, <1>4, <1>10
<1>11. QED
  BY <1>2, <1>6, <1>7, <1>8, <1>9, <1>10

\* Sequences with the same places are equal.
LEMMA SeqEqual ==
    ASSUME NEW S, NEW a \in Seq(S), NEW b \in Seq(S), Len(a) = Len(b),
           \A i \in 1..Len(a) : a[i] = b[i]
    PROVE  a = b
  OBVIOUS

\* The places of a sequence after an append.
LEMMA AppendPlaces ==
    ASSUME NEW S, NEW a \in Seq(S), NEW x \in S, NEW b, b = Append(a, x)
    PROVE  /\ b \in Seq(S) /\ Len(b) = Len(a) + 1
           /\ \A i \in 1..Len(a) : b[i] = a[i]
           /\ b[Len(a) + 1] = x
  OBVIOUS

\* The log after one more event of a batch.
LEMMA BatchStep ==
    ASSUME NEW E, NEW log \in Seq(E), NEW b \in Seq(E), NEW k \in Nat, k < Len(b)
    PROVE  /\ log \o SubSeq(b, 1, k) \in Seq(E)
           /\ Append(log \o SubSeq(b, 1, k), b[k + 1]) = log \o SubSeq(b, 1, k + 1)
<1>1. /\ Len(b) \in Nat /\ Len(log) \in Nat
      /\ SubSeq(b, 1, k) \in Seq(E) /\ SubSeq(b, 1, k + 1) \in Seq(E)
      /\ Len(SubSeq(b, 1, k)) = k /\ Len(SubSeq(b, 1, k + 1)) = k + 1
      /\ \A i \in 1..k : SubSeq(b, 1, k)[i] = b[i]
      /\ \A i \in 1..(k + 1) : SubSeq(b, 1, k + 1)[i] = b[i]
      /\ b[k + 1] \in E
  OBVIOUS
<1>2. PICK p : p = SubSeq(b, 1, k)
  OBVIOUS
<1>3. PICK q : q = SubSeq(b, 1, k + 1)
  OBVIOUS
<1>4. /\ p \in Seq(E) /\ Len(p) = k /\ \A i \in 1..k : p[i] = b[i]
      /\ q \in Seq(E) /\ Len(q) = k + 1 /\ \A i \in 1..(k + 1) : q[i] = b[i]
  BY <1>1, <1>2, <1>3
<1>5. PICK u : u = log \o p
  OBVIOUS
<1>6. PICK v : v = log \o q
  OBVIOUS
<1>7. /\ u \in Seq(E) /\ Len(u) = Len(log) + k
      /\ \A i \in 1..Len(log) : u[i] = log[i]
      /\ \A i \in 1..k : u[Len(log) + i] = p[i]
  <2>1. p \in Seq(E) /\ u = log \o p
    BY <1>4, <1>5
  <2>2. /\ u \in Seq(E) /\ Len(u) = Len(log) + Len(p)
        /\ \A i \in 1..Len(log) : u[i] = log[i]
        /\ \A i \in 1..Len(p) : u[Len(log) + i] = p[i]
    BY <2>1, ConcatFacts
  <2>3. QED
    BY <2>2, <1>4
<1>8. /\ v \in Seq(E) /\ Len(v) = Len(log) + (k + 1)
      /\ \A i \in 1..Len(log) : v[i] = log[i]
      /\ \A i \in 1..(k + 1) : v[Len(log) + i] = q[i]
  <2>1. q \in Seq(E) /\ v = log \o q
    BY <1>4, <1>6
  <2>2. /\ v \in Seq(E) /\ Len(v) = Len(log) + Len(q)
        /\ \A i \in 1..Len(log) : v[i] = log[i]
        /\ \A i \in 1..Len(q) : v[Len(log) + i] = q[i]
    BY <2>1, ConcatFacts
  <2>3. QED
    BY <2>2, <1>4
<1>9. PICK w : w = Append(u, b[k + 1])
  OBVIOUS
<1>10. /\ w \in Seq(E) /\ Len(w) = Len(u) + 1
       /\ \A i \in 1..Len(u) : w[i] = u[i]
       /\ w[Len(u) + 1] = b[k + 1]
  <2>1. PICK x \in E : x = b[k + 1]
    BY <1>1
  <2>2. u \in Seq(E) /\ w = Append(u, x)
    BY <2>1, <1>7, <1>9
  <2>3. /\ w \in Seq(E) /\ Len(w) = Len(u) + 1
        /\ \A i \in 1..Len(u) : w[i] = u[i]
        /\ w[Len(u) + 1] = x
    BY <2>2, AppendPlaces
  <2>4. QED
    BY <2>1, <2>3
<1>11. ASSUME NEW i \in 1..(Len(log) + (k + 1)) PROVE w[i] = v[i]
  <2>1. CASE i <= Len(log)
    <3>1. i \in 1..Len(log) /\ i \in 1..Len(u)
      BY <2>1, <1>1, <1>7
    <3>2. QED
      BY <3>1, <1>7, <1>8, <1>10
  <2>2. CASE i > Len(log) /\ i <= Len(log) + k
    <3>1. PICK j \in 1..k : i = Len(log) + j
      BY <2>2, <1>1
    <3>2. j \in 1..(k + 1) /\ i \in 1..Len(u)
      BY <3>1, <2>2, <1>1, <1>7
    <3>3. w[i] = b[j] /\ v[i] = b[j]
      BY <3>1, <3>2, <1>4, <1>7, <1>8, <1>10
    <3>4. QED
      BY <3>3
  <2>3. CASE i = Len(log) + (k + 1)
    <3>0. Len(u) = Len(log) + k /\ Len(log) \in Nat
      BY <1>1, <1>7
    <3>1. i = Len(u) + 1 /\ k + 1 \in 1..(k + 1)
      <4>1. i = Len(u) + 1
        BY <2>3, <3>0
      <4>2. k + 1 \in 1..(k + 1)
        OBVIOUS
      <4>3. QED
        BY <4>1, <4>2
    <3>2. w[i] = b[k + 1]
      BY <3>1, <1>10
    <3>3. v[i] = b[k + 1]
      BY <3>1, <2>3, <1>4, <1>8
    <3>4. QED
      BY <3>2, <3>3
  <2>4. QED
    BY <2>1, <2>2, <2>3, <1>1
<1>12. Len(w) = Len(v) /\ Len(v) = Len(log) + (k + 1)
  BY <1>1, <1>7, <1>8, <1>10
<1>13. w = v
  <2>1. /\ w \in Seq(E) /\ v \in Seq(E) /\ Len(w) = Len(v)
        /\ \A i \in 1..Len(w) : w[i] = v[i]
    BY <1>8, <1>10, <1>11, <1>12
  <2>2. QED
    BY <2>1, SeqEqual
<1>14. QED
  BY <1>2, <1>3, <1>5, <1>6, <1>7, <1>9, <1>13

\* One more statement of a call.
LEMMA PartlyStep ==
    ASSUME NEW old \in Tables, NEW db \in Tables, NEW c \in Calls, NEW k \in Nat,
           k < Len(Statements(c)), Partly(old, db, c, k),
           NEW new, new = Apply(db, Statements(c)[k + 1])
    PROVE  Partly(old, new, c, k + 1)
<1>1. CASE c.call = "save_runtime_state"
  <2>1. c.state \in States /\ Statements(c) = SaveStatements(c.state)
    BY <1>1, CallFields, StatementsCases
  <2>2. PartlySaved(old, db, c.state, k)
    BY <1>1 DEF Partly
  <2>3. PartlySaved(old, new, c.state, k + 1)
    BY <2>1, <2>2, PartlySavedStep
  <2>4. QED
    BY <1>1, <2>3 DEF Partly
<1>2. CASE c.call = "append_batch"
  <2>1. /\ c.batch \in Seq(Events) /\ Len(c.batch) \in Nat
        /\ Len(Statements(c)) = Len(c.batch)
        /\ \A i \in 1..Len(c.batch) : Statements(c)[i] = Stmt("event", None, c.batch[i])
    BY <1>2, StatementsType
  <2>2. k + 1 \in 1..Len(c.batch) /\ k < Len(c.batch)
    BY <2>1
  <2>3. Statements(c)[k + 1] = Stmt("event", None, c.batch[k + 1])
    BY <2>1, <2>2
  <2>4. new = WithLog(db, Append(db.events, c.batch[k + 1]))
    BY <2>3, ApplyLog, StmtFields
  <2>5. db = WithLog(old, old.events \o SubSeq(c.batch, 1, k))
    BY <1>2 DEF Partly
  <2>6. old.events \in Seq(Events)
    BY DEF Tables
  <2>7. PICK b : b = c.batch
    OBVIOUS
  <2>8. /\ old.events \o SubSeq(b, 1, k) \in Seq(Events)
        /\ Append(old.events \o SubSeq(b, 1, k), b[k + 1]) = old.events \o SubSeq(b, 1, k + 1)
    BY <2>1, <2>2, <2>6, <2>7, BatchStep
  <2>9. db.events = old.events \o SubSeq(b, 1, k)
    BY <2>5, <2>7, <2>8, WithLogFacts
  <2>10. new = WithLog(db, old.events \o SubSeq(b, 1, k + 1))
    BY <2>4, <2>7, <2>8, <2>9, Zenon
  <2>11. WithLog(WithLog(old, old.events \o SubSeq(b, 1, k)), old.events \o SubSeq(b, 1, k + 1))
           = WithLog(old, old.events \o SubSeq(b, 1, k + 1))
    BY DEF WithLog, Tables
  <2>12. new = WithLog(old, old.events \o SubSeq(c.batch, 1, k + 1))
    BY <2>5, <2>7, <2>10, <2>11, Zenon
  <2>13. QED
    BY <1>2, <2>12 DEF Partly
<1>3. CASE c.call \notin {"save_runtime_state", "append_batch"}
  <2>1. k = 0
    BY <1>3, StatementsType
  <2>2. db = old /\ new = Apply(old, Statements(c)[1])
    BY <2>1, <1>3 DEF Partly
  <2>3. QED
    BY <2>1, <2>2, <1>3 DEF Partly
<1>4. QED
  BY <1>1, <1>2, <1>3

\* A call that only reads changes nothing.
LEMMA PartlyRead ==
    ASSUME NEW old, NEW new, NEW c, NEW k, Partly(old, new, c, k),
           c.call \in {"load_runtime_state", "stream"}
    PROVE  new = old
<1>1. Statements(c)[1] = Stmt("none", None, None)
  BY StatementsCases
<1>2. Apply(old, Statements(c)[1]) = old
  BY <1>1, ApplyCases, StmtFields
<1>3. QED
  BY <1>2 DEF Partly

\* The call of a thread that is through leaves the sections of one state.
LEMMA PartlyWhole ==
    ASSUME NEW old \in Tables, NEW new, NEW c \in Calls, Whole(old),
           Partly(old, new, c, Len(Statements(c)))
    PROVE  Whole(new)
<1>1. CASE c.call = "save_runtime_state"
  <2>1. c.state \in States /\ Statements(c) = SaveStatements(c.state)
    BY <1>1, CallFields, StatementsCases
  <2>2. PICK ids : ids = SetToSeq(RowsOf(c.state))
    OBVIOUS
  <2>3. Len(ids) \in Nat /\ Len(Statements(c)) = Len(ids) + 4
    BY <2>1, <2>2, SaveScript
  <2>4. QED
    BY <1>1, <2>2, <2>3 DEF Partly, PartlySaved, Whole
<1>2. CASE c.call = "append_batch"
  <2>1. new = WithLog(old, old.events \o SubSeq(c.batch, 1, Len(Statements(c))))
    BY <1>2 DEF Partly
  <2>2. new.queue = old.queue /\ new.sched = old.sched
    BY <2>1 DEF WithLog, Tables
  <2>3. QED
    BY <2>2 DEF Whole
<1>3. CASE c.call \notin {"save_runtime_state", "append_batch"}
  <2>1. Len(Statements(c)) = 1 /\ Statements(c) \in Seq(Stmts)
    BY <1>3, StatementsType
  <2>2. Statements(c)[1] \in Stmts /\ new = Apply(old, Statements(c)[1])
    BY <2>1, <1>3 DEF Partly
  <2>3. Statements(c)[1].table \notin {"queue", "sched"}
    BY <1>3, CallFields, StatementsCases, StmtFields
  <2>4. QED
    BY <2>2, <2>3, ApplyType DEF Whole
<1>4. QED
  BY <1>1, <1>2, <1>3

----------------------------------------------------------------------------
(* The steps keep the invariant.                                           *)

\* A thread that does nothing stays where it is in its call.
LEMMA FollowsKept ==
    ASSUME NEW u \in Threads, pc'[u] = pc[u], op'[u] = op[u], todo'[u] = todo[u]
    PROVE  (Follows(u) => Follows(u)') /\ Executed(u)' = Executed(u)
<1>1. Executed(u)' = Executed(u)
  BY DEF Executed
<1>2. QED
  BY <1>1 DEF Follows

\* A call that ends leaves the lock free and nobody running.
LEMMA DoneStep ==
    ASSUME TypeOK, Locked, Scripted, NEW t \in Threads, lock \in {None, t}, Done(t)
    PROVE  /\ Locked' /\ Scripted'
           /\ lock' = None /\ \A u \in Threads : pc'[u] # "run"
           /\ pc' \in [Threads -> {"idle", "wait", "run"}]
           /\ op' \in [Threads -> Calls \cup {None}] /\ calls' = calls
<1>1. /\ pc \in [Threads -> {"idle", "wait", "run"}]
      /\ op \in [Threads -> Calls \cup {None}]
  BY DEF TypeOK
<1>2. None \notin Threads
  BY ConstantsAssumption
<1>3. /\ lock' = None /\ calls' = calls
      /\ pc' = [pc EXCEPT ![t] = "idle"] /\ op' = [op EXCEPT ![t] = None]
      /\ todo' = [todo EXCEPT ![t] = << >>]
  BY DEF Done
<1>4. \A u \in Threads : u # t => pc[u] # "run"
  BY <1>2 DEF Locked
<1>5. /\ pc' \in [Threads -> {"idle", "wait", "run"}]
      /\ op' \in [Threads -> Calls \cup {None}]
      /\ \A u \in Threads : pc'[u] # "run"
  BY <1>1, <1>3, <1>4
<1>6. Locked'
  BY <1>2, <1>3, <1>5 DEF Locked
<1>7. << >> \in Seq(Stmts)
  OBVIOUS
<1>8. todo' \in [Threads -> Seq(Stmts)]
  BY <1>3, <1>7 DEF Scripted
<1>9. Scripted'
  <2>1. ASSUME NEW u \in Threads, u # t PROVE Follows(u)'
    <3>1. todo'[u] = todo[u] /\ pc'[u] = pc[u] /\ op'[u] = op[u]
      BY <2>1, <1>1, <1>3 DEF Scripted
    <3>2. QED
      BY <3>1, FollowsKept DEF Scripted
  <2>2. Follows(t)'
    BY <1>1, <1>3 DEF Follows
  <2>3. QED
    BY <2>1, <2>2, <1>8 DEF Scripted
<1>10. QED
  BY <1>3, <1>5, <1>6, <1>9

\* A call begins to wait for the lock.
LEMMA CallStep ==
    ASSUME IInv, NEW t \in Threads, NEW c \in Calls, Call(t, c)
    PROVE  IInv'
<1>1. TypeOK /\ Locked /\ Scripted /\ Tidy
  BY DEF IInv
<1>2. /\ pc' = [pc EXCEPT ![t] = "wait"] /\ op' = [op EXCEPT ![t] = c]
      /\ todo' = [todo EXCEPT ![t] = Statements(c)] /\ calls' = calls + 1
      /\ committed' = committed /\ working' = working /\ inTxn' = inTxn
      /\ lock' = lock /\ faults' = faults /\ stranded' = stranded
      /\ pc[t] = "idle" /\ calls < MaxCalls
  BY DEF Call, dbVars
<1>3. Statements(c) \in Seq(Stmts)
  BY StatementsType
<1>4. /\ pc'[t] = "wait" /\ op'[t] = c /\ todo'[t] = Statements(c)
      /\ \A u \in Threads : u # t => pc'[u] = pc[u] /\ op'[u] = op[u] /\ todo'[u] = todo[u]
  BY <1>1, <1>2 DEF TypeOK, Scripted
<1>5. TypeOK'
  <2>1. calls' \in 0..MaxCalls
    BY <1>1, <1>2, ConstantsAssumption DEF TypeOK
  <2>2. QED
    BY <2>1, <1>1, <1>2 DEF TypeOK
<1>6. Locked'
  BY <1>1, <1>2, <1>4 DEF Locked
<1>7. Scripted'
  <2>1. todo' \in [Threads -> Seq(Stmts)]
    BY <1>1, <1>2, <1>3 DEF Scripted
  <2>2. Follows(t)'
    BY <1>4 DEF Follows
  <2>3. QED
    BY <2>1, <2>2, <1>1, <1>4, FollowsKept DEF Scripted
<1>8. Tidy'
  <2>1. ASSUME NEW u \in Threads, pc'[u] = "run"
        PROVE  /\ pc[u] = "run" /\ op'[u] = op[u] /\ Executed(u)' = Executed(u)
    BY <2>1, <1>4 DEF Executed
  <2>2. QED
    BY <2>1, <1>1, <1>2 DEF Tidy
<1>9. QED
  BY <1>5, <1>6, <1>7, <1>8 DEF IInv

\* The lock is taken.
LEMMA AcquireStep ==
    ASSUME IInv, NEW t \in Threads, Acquire(t)
    PROVE  IInv'
<1>1. TypeOK /\ Locked /\ Scripted /\ Tidy
  BY DEF IInv
<1>2. /\ pc[t] = "wait" /\ lock = None /\ ~(Mode(op[t]) = "txn" /\ inTxn)
      /\ lock' = t /\ pc' = [pc EXCEPT ![t] = "run"]
      /\ inTxn' = (inTxn \/ Mode(op[t]) = "txn")
      /\ committed' = committed /\ working' = working /\ op' = op /\ todo' = todo
      /\ calls' = calls /\ faults' = faults /\ stranded' = stranded
  BY DEF Acquire
<1>3. None \notin Threads
  BY ConstantsAssumption
<1>4. pc'[t] = "run" /\ \A u \in Threads : u # t => pc'[u] = pc[u] /\ pc'[u] # "run"
  BY <1>1, <1>2, <1>3 DEF TypeOK, Locked
<1>5. op[t] \in Calls /\ todo[t] = Statements(op[t])
  BY <1>1, <1>2 DEF Scripted, Follows
<1>6. TypeOK'
  BY <1>1, <1>2 DEF TypeOK
<1>7. Locked'
  BY <1>2, <1>4 DEF Locked
<1>8. Executed(t)' = 0 /\ Len(Statements(op[t])) \in Nat
  BY <1>2, <1>5, StatementsType DEF Executed
<1>9. Scripted'
  <2>1. Follows(t)'
    <3>1. \A i \in 1..Len(todo[t]) : 0 + i = i
      BY <1>5, <1>8
    <3>2. QED
      BY <3>1, <1>2, <1>4, <1>5, <1>8 DEF Follows
  <2>2. QED
    BY <2>1, <1>1, <1>2, <1>4, FollowsKept DEF Scripted
<1>10. Tidy'
  <2>1. CASE stranded
    <3>1. inTxn /\ Mode(op[t]) # "txn"
      BY <2>1, <1>1, <1>2 DEF Tidy
    <3>2. QED
      BY <2>1, <3>1, <1>1, <1>2, <1>3, <1>4 DEF Tidy
  <2>2. CASE ~stranded
    <3>1. ~inTxn /\ working = committed /\ committed \in Tables
      BY <2>2, <1>1, <1>2 DEF Tidy, TypeOK
    <3>2. Partly(committed, working, op[t], Executed(t)')
      BY <3>1, <1>5, <1>8, PartlyNothing
    <3>3. (Mode(op[t]) = "select" => ~inTxn') /\ (Mode(op[t]) = "txn" => inTxn')
      BY <3>1, <1>2
    <3>4. Whole(committed)'
      BY <1>1, <1>2 DEF Tidy
    <3>5. QED
      BY <2>2, <3>2, <3>3, <3>4, <1>2, <1>3, <1>4 DEF Tidy
  <2>3. QED
    BY <2>1, <2>2
<1>11. QED
  BY <1>6, <1>7, <1>9, <1>10 DEF IInv

\* BEGIN raises inside a transaction that was left open.
LEMMA BeginRaisesStep ==
    ASSUME IInv, NEW t \in Threads, BeginRaises(t)
    PROVE  IInv'
<1>1. TypeOK /\ Locked /\ Scripted /\ Tidy
  BY DEF IInv
<1>2. /\ lock = None /\ inTxn /\ Done(t)
      /\ committed' = committed /\ working' = working /\ inTxn' = inTxn
      /\ faults' = faults /\ stranded' = stranded
  BY DEF BeginRaises, dbVars
<1>3. /\ Locked' /\ Scripted'
      /\ lock' = None /\ \A u \in Threads : pc'[u] # "run"
      /\ pc' \in [Threads -> {"idle", "wait", "run"}]
      /\ op' \in [Threads -> Calls \cup {None}] /\ calls' = calls
  BY <1>1, <1>2, DoneStep
<1>4. TypeOK'
  BY <1>1, <1>2, <1>3 DEF TypeOK
<1>5. stranded
  BY <1>1, <1>2 DEF Tidy
<1>6. Tidy'
  BY <1>1, <1>2, <1>3, <1>5 DEF Tidy
<1>7. QED
  BY <1>3, <1>4, <1>6 DEF IInv

\* What a running thread is about to execute.
LEMMA NextStatement ==
    ASSUME IInv, NEW t \in Threads, pc[t] = "run", todo[t] # << >>
    PROVE  /\ op[t] \in Calls /\ Head(todo[t]) \in Stmts
           /\ Executed(t) \in Nat /\ Executed(t) < Len(Statements(op[t]))
           /\ Head(todo[t]) = Statements(op[t])[Executed(t) + 1]
           /\ Tail(todo[t]) \in Seq(Stmts)
           /\ Len(Tail(todo[t])) = Len(todo[t]) - 1
           /\ \A i \in 1..Len(Tail(todo[t])) : Tail(todo[t])[i] = todo[t][i + 1]
           /\ Executed(t) + 1 \in 1..Len(Statements(op[t]))
           /\ Len(Statements(op[t])) \in Nat /\ Len(todo[t]) \in Nat
<1>1. op[t] \in Calls /\ todo[t] \in Seq(Stmts)
      /\ Executed(t) \in 0..Len(Statements(op[t]))
      /\ \A i \in 1..Len(todo[t]) : todo[t][i] = Statements(op[t])[Executed(t) + i]
  BY DEF IInv, Scripted, Follows
<1>2. PICK s \in Seq(Stmts) : s = todo[t]
  BY <1>1
<1>3. /\ Len(s) \in Nat /\ Len(s) >= 1 /\ Head(s) = s[1] /\ Head(s) \in Stmts
      /\ Tail(s) \in Seq(Stmts) /\ Len(Tail(s)) = Len(s) - 1
      /\ \A i \in 1..Len(Tail(s)) : Tail(s)[i] = s[i + 1]
  BY <1>2
<1>4. Len(Statements(op[t])) \in Nat
  BY <1>1, StatementsType
<1>5. Executed(t) = Len(Statements(op[t])) - Len(s) /\ Executed(t) \in Nat
      /\ Executed(t) < Len(Statements(op[t]))
      /\ Executed(t) + 1 \in 1..Len(Statements(op[t]))
  <2>1. PICK m \in Nat : m = Len(Statements(op[t]))
    BY <1>4
  <2>2. PICK n \in Nat : n = Len(s)
    BY <1>3
  <2>3. Executed(t) = m - n /\ n >= 1 /\ Executed(t) \in 0..m
    BY <2>1, <2>2, <1>1, <1>2, <1>3 DEF Executed
  <2>4. QED
    BY <2>1, <2>2, <2>3
<1>6. 1 \in 1..Len(s)
  BY <1>3
<1>7. QED
  BY <1>1, <1>2, <1>3, <1>4, <1>5, <1>6

\* A statement is executed.
LEMMA ExecuteStep ==
    ASSUME IInv, NEW t \in Threads, Execute(t)
    PROVE  IInv'
<1>1. TypeOK /\ Locked /\ Scripted /\ Tidy
  BY DEF IInv
<1>2. /\ pc[t] = "run" /\ todo[t] # << >>
      /\ working' = Apply(working, Head(todo[t]))
      /\ inTxn' = (inTxn \/ Head(todo[t]).table # "none")
      /\ todo' = [todo EXCEPT ![t] = Tail(todo[t])]
      /\ committed' = committed /\ lock' = lock /\ pc' = pc /\ op' = op
      /\ calls' = calls /\ faults' = faults /\ stranded' = stranded
  BY DEF Execute
<1>3. /\ op[t] \in Calls /\ Head(todo[t]) \in Stmts
      /\ Executed(t) \in Nat /\ Executed(t) < Len(Statements(op[t]))
      /\ Head(todo[t]) = Statements(op[t])[Executed(t) + 1]
      /\ Tail(todo[t]) \in Seq(Stmts)
      /\ Len(Tail(todo[t])) = Len(todo[t]) - 1
      /\ \A i \in 1..Len(Tail(todo[t])) : Tail(todo[t])[i] = todo[t][i + 1]
      /\ Executed(t) + 1 \in 1..Len(Statements(op[t]))
      /\ Len(Statements(op[t])) \in Nat /\ Len(todo[t]) \in Nat
  BY <1>2, NextStatement
<1>4. lock = t /\ lock # None /\ \A u \in Threads : u # t => pc[u] # "run"
  BY <1>1, <1>2, ConstantsAssumption DEF Locked
<1>5. working' \in Tables
  BY <1>1, <1>2, <1>3, ApplyType DEF TypeOK
<1>6. TypeOK'
  BY <1>1, <1>2, <1>5 DEF TypeOK
<1>7. Locked'
  BY <1>1, <1>2 DEF Locked
<1>8. todo'[t] = Tail(todo[t]) /\ \A u \in Threads : u # t => todo'[u] = todo[u]
  BY <1>1, <1>2 DEF Scripted
<1>9. Executed(t)' = Executed(t) + 1
  <2>1. PICK m \in Nat : m = Len(Statements(op[t]))
    BY <1>3
  <2>2. PICK n \in Nat : n = Len(todo[t])
    BY <1>3
  <2>3. Executed(t) = m - n
    BY <2>1, <2>2 DEF Executed
  <2>4. Executed(t)' = m - (n - 1)
    BY <2>1, <2>2, <1>2, <1>3, <1>8 DEF Executed
  <2>5. QED
    BY <2>3, <2>4
<1>10. Scripted'
  <2>1. todo' \in [Threads -> Seq(Stmts)]
    BY <1>1, <1>2, <1>3 DEF Scripted
  <2>2. ASSUME NEW i \in 1..Len(todo'[t])
        PROVE  todo'[t][i] = Statements(op'[t])[Executed(t)' + i]
    <3>1. i + 1 \in 1..Len(todo[t]) /\ Executed(t) + (i + 1) = (Executed(t) + 1) + i
      BY <2>2, <1>3, <1>8
    <3>2. todo'[t][i] = todo[t][i + 1]
      BY <2>2, <1>3, <1>8
    <3>3. todo[t][i + 1] = Statements(op[t])[Executed(t) + (i + 1)]
      BY <3>1, <1>1, <1>2 DEF Scripted, Follows
    <3>4. QED
      BY <3>1, <3>2, <3>3, <1>2, <1>9
  <2>3. Follows(t)'
    BY <2>2, <1>2, <1>3, <1>9 DEF Follows
  <2>4. QED
    BY <2>1, <2>3, <1>1, <1>2, <1>8, FollowsKept DEF Scripted
<1>11. Tidy'
  <2>1. CASE stranded
    <3>1. inTxn /\ Whole(working) /\ Mode(op[t]) # "txn" /\ Whole(committed)
      BY <2>1, <1>1, <1>2 DEF Tidy
    <3>2. Head(todo[t]).table \notin {"queue", "sched"}
      BY <3>1, <1>3, StatementsType
    <3>3. Whole(working')
      BY <3>1, <3>2, <1>1, <1>2, <1>3, ApplyType DEF Whole, TypeOK
    <3>4. QED
      BY <2>1, <3>1, <3>3, <1>1, <1>2 DEF Tidy
  <2>2. CASE ~stranded
    <3>1. Partly(committed, working, op[t], Executed(t)) /\ Whole(committed)
          /\ (Mode(op[t]) = "select" => ~inTxn) /\ (Mode(op[t]) = "txn" => inTxn)
      BY <2>2, <1>1, <1>2 DEF Tidy
    <3>2. PICK new : new = Apply(working, Statements(op[t])[Executed(t) + 1])
      OBVIOUS
    <3>3. Partly(committed, new, op[t], Executed(t) + 1)
      BY <3>1, <3>2, <1>1, <1>3, PartlyStep DEF TypeOK
    <3>4. Partly(committed', working', op'[t], Executed(t)')
      BY <3>2, <3>3, <1>2, <1>3, <1>9
    <3>5. Mode(op[t]) = "select" => Head(todo[t]).table = "none"
      <4>1. ASSUME Mode(op[t]) = "select" PROVE op[t].call = "stream"
        BY <4>1, <1>3, CallFields, ModeCases
      <4>2. op[t].call = "stream" => Statements(op[t]) = << Stmt("none", None, None) >>
        BY StatementsCases
      <4>3. op[t].call = "stream" => Executed(t) = 0
        BY <1>3, StatementsType
      <4>4. QED
        BY <4>1, <4>2, <4>3, <1>3, StmtFields
    <3>6. QED
      BY <2>2, <3>1, <3>4, <3>5, <1>2, <1>4 DEF Tidy
  <2>3. QED
    BY <2>1, <2>2
<1>12. QED
  BY <1>6, <1>7, <1>10, <1>11 DEF IInv

\* The lock is given back with nothing left open.
LEMMA ReleaseStep ==
    ASSUME IInv, NEW t \in Threads, pc[t] = "run", Done(t),
           committed' \in Tables, Whole(committed'), working' = committed', inTxn' = FALSE,
           stranded' = FALSE, faults' \in 0..MaxFaults
    PROVE  IInv'
<1>1. TypeOK /\ Locked /\ Scripted /\ Tidy
  BY DEF IInv
<1>2. lock = t
  BY <1>1 DEF Locked
<1>3. /\ Locked' /\ Scripted'
      /\ lock' = None /\ \A u \in Threads : pc'[u] # "run"
      /\ pc' \in [Threads -> {"idle", "wait", "run"}]
      /\ op' \in [Threads -> Calls \cup {None}] /\ calls' = calls
  BY <1>1, <1>2, DoneStep
<1>4. TypeOK'
  BY <1>1, <1>3 DEF TypeOK
<1>5. Tidy'
  BY <1>3 DEF Tidy
<1>6. QED
  BY <1>3, <1>4, <1>5 DEF IInv

\* The lock is given back with the database as it was: a read ended, or a commit
\* raised and its transaction stays open.
LEMMA LeaveStep ==
    ASSUME IInv, NEW t \in Threads, pc[t] = "run", Done(t), UNCHANGED dbVars,
           faults' \in 0..MaxFaults, stranded' \in BOOLEAN,
           stranded' => inTxn /\ Whole(working),
           ~stranded' => ~inTxn /\ working = committed
    PROVE  IInv'
<1>1. TypeOK /\ Locked /\ Scripted /\ Tidy
  BY DEF IInv
<1>2. lock = t
  BY <1>1 DEF Locked
<1>3. /\ Locked' /\ Scripted'
      /\ lock' = None /\ \A u \in Threads : pc'[u] # "run"
      /\ pc' \in [Threads -> {"idle", "wait", "run"}]
      /\ op' \in [Threads -> Calls \cup {None}] /\ calls' = calls
  BY <1>1, <1>2, DoneStep
<1>4. committed' = committed /\ working' = working /\ inTxn' = inTxn
  BY DEF dbVars
<1>5. TypeOK'
  BY <1>1, <1>3, <1>4 DEF TypeOK
<1>6. Tidy'
  BY <1>1, <1>3, <1>4 DEF Tidy
<1>7. QED
  BY <1>3, <1>5, <1>6 DEF IInv

\* A read sees what is committed and holds no transaction of its own.
LEMMA ReadSees ==
    ASSUME IInv, NEW t \in Threads, pc[t] = "run", ~stranded
    PROVE  /\ op[t].call \in {"load_runtime_state", "stream"} => working = committed
           /\ Mode(op[t]) = "select" => ~inTxn /\ working = committed
<1>1. Partly(committed, working, op[t], Executed(t)) /\ (Mode(op[t]) = "select" => ~inTxn)
      /\ op[t] \in Calls
  BY DEF IInv, Tidy, Scripted, Follows
<1>2. op[t].call \in {"load_runtime_state", "stream"} => working = committed
  BY <1>1, PartlyRead
<1>3. Mode(op[t]) = "select" => op[t].call = "stream"
  BY <1>1, CallFields, ModeCases
<1>4. QED
  BY <1>1, <1>2, <1>3

\* What a thread leaves that has executed its last statement.
LEMMA ThroughWhole ==
    ASSUME IInv, NEW t \in Threads, pc[t] = "run", todo[t] = << >>
    PROVE  /\ op[t] \in Calls /\ Whole(working)
           /\ ~stranded => Partly(committed, working, op[t], Len(Statements(op[t])))
<1>1. op[t] \in Calls /\ committed \in Tables /\ Whole(committed)
  BY DEF IInv, Scripted, Follows, Tidy, TypeOK
<1>2. Len(Statements(op[t])) \in Nat /\ Len(todo[t]) = 0
  BY <1>1, StatementsType
<1>3. Executed(t) = Len(Statements(op[t]))
  BY <1>2 DEF Executed
<1>4. CASE stranded
  BY <1>1, <1>4 DEF IInv, Tidy
<1>5. CASE ~stranded
  <2>1. Partly(committed, working, op[t], Len(Statements(op[t])))
    BY <1>3, <1>5 DEF IInv, Tidy
  <2>2. QED
    BY <2>1, <1>1, PartlyWhole
<1>6. QED
  BY <1>4, <1>5

\* A statement raises.
LEMMA StatementRaisesStep ==
    ASSUME IInv, NEW t \in Threads, StatementRaises(t)
    PROVE  IInv'
<1>1. pc[t] = "run" /\ Done(t)
  BY DEF StatementRaises
<1>2. TypeOK /\ Tidy
  BY DEF IInv
<1>3. faults' \in 0..MaxFaults
  BY <1>2, ConstantsAssumption DEF StatementRaises, TypeOK
<1>4. CASE Mode(op[t]) = "select"
  <2>1. UNCHANGED dbVars /\ stranded' = stranded
    BY <1>4 DEF StatementRaises
  <2>2. /\ stranded \in BOOLEAN /\ (stranded => inTxn /\ Whole(working))
        /\ (~stranded => ~inTxn /\ working = committed)
    BY <1>1, <1>2, <1>4, ReadSees DEF Tidy, TypeOK
  <2>3. QED
    BY <2>1, <2>2, <1>1, <1>3, LeaveStep
<1>5. CASE Mode(op[t]) # "select"
  <2>1. Rollback
    BY <1>5 DEF StatementRaises
  <2>2. /\ committed' \in Tables /\ Whole(committed') /\ working' = committed'
        /\ inTxn' = FALSE /\ stranded' = FALSE
    BY <2>1, <1>2 DEF Rollback, TypeOK, Tidy
  <2>3. QED
    BY <2>2, <1>1, <1>3, ReleaseStep
<1>6. QED
  BY <1>4, <1>5

\* A call ends well.
LEMMA ReturnStep ==
    ASSUME IInv, NEW t \in Threads, Return(t)
    PROVE  IInv'
<1>1. pc[t] = "run" /\ todo[t] = << >> /\ Done(t) /\ faults' = faults
  BY DEF Return
<1>2. TypeOK /\ Tidy
  BY DEF IInv
<1>3. faults' \in 0..MaxFaults
  BY <1>1, <1>2 DEF TypeOK
<1>4. CASE Mode(op[t]) = "select"
  <2>1. UNCHANGED dbVars /\ stranded' = stranded
    BY <1>4 DEF Return
  <2>2. /\ stranded \in BOOLEAN /\ (stranded => inTxn /\ Whole(working))
        /\ (~stranded => ~inTxn /\ working = committed)
    BY <1>1, <1>2, <1>4, ReadSees DEF Tidy, TypeOK
  <2>3. QED
    BY <2>1, <2>2, <1>1, <1>3, LeaveStep
<1>5. CASE Mode(op[t]) # "select"
  <2>1. Commit
    BY <1>5 DEF Return
  <2>2. Whole(working)
    BY <1>1, ThroughWhole
  <2>3. /\ committed' \in Tables /\ Whole(committed') /\ working' = committed'
        /\ inTxn' = FALSE /\ stranded' = FALSE
    BY <2>1, <2>2, <1>2 DEF Commit, TypeOK
  <2>4. QED
    BY <2>3, <1>1, <1>3, ReleaseStep
<1>6. QED
  BY <1>4, <1>5

\* A commit raises.
LEMMA CommitRaisesStep ==
    ASSUME IInv, NEW t \in Threads, CommitRaises(t)
    PROVE  IInv'
<1>1. /\ pc[t] = "run" /\ todo[t] = << >> /\ Done(t)
      /\ faults < MaxFaults /\ faults' = faults + 1
  BY DEF CommitRaises
<1>2. TypeOK /\ Tidy
  BY DEF IInv
<1>3. faults' \in 0..MaxFaults
  BY <1>1, <1>2, ConstantsAssumption DEF TypeOK
<1>4. CASE Rollback
  <2>1. /\ committed' \in Tables /\ Whole(committed') /\ working' = committed'
        /\ inTxn' = FALSE /\ stranded' = FALSE
    BY <1>2, <1>4 DEF Rollback, TypeOK, Tidy
  <2>2. QED
    BY <2>1, <1>1, <1>3, ReleaseStep
<1>5. CASE Mode(op[t]) = "txn" /\ UNCHANGED dbVars /\ stranded' = TRUE
  <2>1. Whole(working)
    BY <1>1, ThroughWhole
  <2>2. inTxn
    BY <1>1, <1>2, <1>5 DEF Tidy, TypeOK
  <2>3. QED
    BY <2>1, <2>2, <1>1, <1>3, <1>5, LeaveStep
<1>6. QED
  BY <1>4, <1>5 DEF CommitRaises

\* The process dies: nothing that was not committed is left, and nobody runs.
LEMMA CrashStep ==
    ASSUME IInv, Crash
    PROVE  IInv'
<1>1. TypeOK /\ Tidy
  BY DEF IInv
<1>2. /\ faults < MaxFaults /\ faults' = faults + 1 /\ Rollback /\ lock' = None
      /\ pc' = [t \in Threads |-> "idle"] /\ op' = [t \in Threads |-> None]
      /\ todo' = [t \in Threads |-> << >>] /\ calls' = calls
  BY DEF Crash
<1>3. /\ committed' = committed /\ working' = committed
      /\ inTxn' = FALSE /\ stranded' = FALSE
  BY <1>2 DEF Rollback
<1>4. faults' \in 0..MaxFaults
  BY <1>1, <1>2, ConstantsAssumption DEF TypeOK
<1>5. /\ pc' \in [Threads -> {"idle", "wait", "run"}]
      /\ op' \in [Threads -> Calls \cup {None}]
      /\ \A t \in Threads : pc'[t] = "idle"
  BY <1>2
<1>6. TypeOK'
  BY <1>1, <1>2, <1>3, <1>4, <1>5 DEF TypeOK
<1>7. Locked'
  BY <1>2, <1>5, ConstantsAssumption DEF Locked
<1>8. Scripted'
  <2>1. << >> \in Seq(Stmts)
    OBVIOUS
  <2>2. todo' \in [Threads -> Seq(Stmts)]
    BY <2>1, <1>2
  <2>3. QED
    BY <2>2, <1>5 DEF Scripted, Follows
<1>9. Tidy'
  BY <1>1, <1>3, <1>5 DEF Tidy
<1>10. QED
  BY <1>6, <1>7, <1>8, <1>9 DEF IInv

----------------------------------------------------------------------------
(* The invariant is inductive.                                             *)

\* An empty database that nobody uses.
LEMMA InitIInv ==
    ASSUME Init
    PROVE  IInv
<1>1. Empty \in Tables /\ Whole(Empty)
  <2>1. << >> \in Seq(Events)
    OBVIOUS
  <2>2. QED
    BY <2>1 DEF Empty, Tables, Whole
<1>2. TypeOK
  <2>1. 0 \in 0..MaxCalls /\ 0 \in 0..MaxFaults
    BY ConstantsAssumption
  <2>2. /\ pc \in [Threads -> {"idle", "wait", "run"}]
        /\ op \in [Threads -> Calls \cup {None}]
    BY DEF Init
  <2>3. QED
    BY <1>1, <2>1, <2>2 DEF Init, TypeOK
<1>3. \A t \in Threads : pc[t] = "idle"
  BY DEF Init
<1>4. Locked
  BY <1>3, ConstantsAssumption DEF Locked, Init
<1>5. Scripted
  <2>1. << >> \in Seq(Stmts)
    OBVIOUS
  <2>2. todo \in [Threads -> Seq(Stmts)]
    BY <2>1 DEF Init
  <2>3. QED
    BY <2>2, <1>3 DEF Scripted, Follows
<1>6. Tidy
  BY <1>1, <1>3 DEF Tidy, Init
<1>7. QED
  BY <1>2, <1>4, <1>5, <1>6 DEF IInv

\* A stuttering step.
LEMMA StutterStep ==
    ASSUME IInv, UNCHANGED vars
    PROVE  IInv'
<1>1. TypeOK /\ Locked /\ Scripted /\ Tidy
  BY DEF IInv
<1>2. /\ committed' = committed /\ working' = working /\ inTxn' = inTxn /\ lock' = lock
      /\ pc' = pc /\ op' = op /\ todo' = todo /\ calls' = calls /\ faults' = faults
      /\ stranded' = stranded
  BY DEF vars
<1>3. TypeOK' /\ Locked'
  BY <1>1, <1>2 DEF TypeOK, Locked
<1>4. Scripted'
  BY <1>1, <1>2, FollowsKept DEF Scripted
<1>5. Tidy'
  BY <1>1, <1>2 DEF Tidy, Executed
<1>6. QED
  BY <1>1, <1>3, <1>4, <1>5 DEF IInv

\* Every step keeps the invariant.
LEMMA NextIInv ==
    ASSUME IInv, [Next]_vars
    PROVE  IInv'
<1>1. ASSUME NEW t \in Threads, Step(t) PROVE IInv'
  BY <1>1, AcquireStep, BeginRaisesStep, ExecuteStep, StatementRaisesStep, ReturnStep,
     CommitRaisesStep DEF Step
<1>2. ASSUME NEW t \in Threads, NEW c \in Calls, Call(t, c) PROVE IInv'
  BY <1>2, CallStep
<1>3. CASE Crash
  BY <1>3, CrashStep
<1>4. CASE UNCHANGED vars
  BY <1>4, StutterStep
<1>5. QED
  BY <1>1, <1>2, <1>3, <1>4 DEF Next

\* The invariant holds in every reachable state.
THEOREM Invariance == Spec => []IInv
<1>1. Init => IInv
  BY InitIInv
<1>2. IInv /\ [Next]_vars => IInv'
  BY NextIInv
<1>3. QED
  BY <1>1, <1>2, PTL DEF Spec

\* The tables, the lock and the threads' calls keep their types.
THEOREM Typing == Spec => []TypeOK
<1>1. IInv => TypeOK
  BY DEF IInv
<1>2. QED
  BY <1>1, Invariance, PTL

\* SQLiteTransaction and the event store's `with self._conn` isolate calls from
\* each other, however many threads share the connection and whatever raises or
\* crashes: nothing half done is left when the lock is free, and a read sees
\* committed data only.
THEOREM Isolation == Spec => []Isolated
<1>1. IInv => Isolated
  BY ReadSees DEF IInv, Tidy, Isolated
<1>2. QED
  BY <1>1, Invariance, PTL

----------------------------------------------------------------------------
(* The refinement.                                                         *)

\* What a whole save_runtime_state has done.
LEMMA StateSaved ==
    ASSUME NEW old \in Tables, NEW new \in Tables, NEW s \in States,
           PartlySaved(old, new, s, Len(SaveStatements(s)))
    PROVE  /\ new.rows = [r \in Rows |-> IF r \in RowsOf(s) THEN s ELSE None]
           /\ new.queue = s /\ new.snapshots = old.snapshots /\ new.events = old.events
<1>1. PICK ids : ids = SetToSeq(RowsOf(s))
  OBVIOUS
<1>2. /\ ids \in Seq(RowsOf(s)) /\ Len(ids) \in Nat
      /\ Len(SaveStatements(s)) = Len(ids) + 4
      /\ \A r \in RowsOf(s) : \E j \in 1..Len(ids) : ids[j] = r
  BY <1>1, SaveScript, RowOrder
<1>3. \A r \in Rows : (\E j \in 1..Len(ids) : j + 2 <= Len(ids) + 4 /\ ids[j] = r)
                        <=> r \in RowsOf(s)
  BY <1>2
<1>4. Len(ids) + 4 >= 1 /\ Len(ids) + 4 >= 2 /\ Len(ids) + 4 >= Len(ids) + 3
  BY <1>2
<1>5. /\ \A r \in Rows : new.rows[r] = IF r \in RowsOf(s) THEN s ELSE None
      /\ new.queue = s /\ new.snapshots = old.snapshots /\ new.events = old.events
  BY <1>1, <1>2, <1>3, <1>4 DEF PartlySaved, Rows
<1>6. new.rows \in [Rows -> States \cup {None}]
  BY DEF Tables
<1>7. QED
  BY <1>5, <1>6

\* A call that was executed to its last statement has done, as a whole, what the
\* port promises of it.
LEMMA WholeCall ==
    ASSUME NEW old \in Tables, NEW new \in Tables, NEW c \in Calls,
           Partly(old, new, c, Len(Statements(c)))
    PROVE  \/ new = old
           \/ \E s \in States :
                /\ new.rows = [r \in Rows |-> IF r \in RowsOf(s) THEN s ELSE None]
                /\ new.queue = s /\ new.snapshots = old.snapshots /\ new.events = old.events
           \/ \E r \in Rows, s \in States \cup {None} :
                /\ new.rows = [old.rows EXCEPT ![r] = s]
                /\ new.queue = old.queue /\ new.snapshots = old.snapshots
                /\ new.events = old.events
           \/ \E n \in Names, s \in States \cup {None} :
                /\ new.snapshots = [old.snapshots EXCEPT ![n] = s]
                /\ new.queue = old.queue /\ new.rows = old.rows /\ new.events = old.events
           \/ /\ \/ \E b \in Batches : new.events = old.events \o b
                 \/ new.events = << >>
              /\ new.queue = old.queue /\ new.rows = old.rows /\ new.snapshots = old.snapshots
<1>1. CASE c.call = "save_runtime_state"
  <2>1. c.state \in States /\ Statements(c) = SaveStatements(c.state)
    BY <1>1, CallFields, StatementsCases
  <2>2. PartlySaved(old, new, c.state, Len(SaveStatements(c.state)))
    BY <1>1, <2>1 DEF Partly
  <2>3. QED
    BY <2>1, <2>2, StateSaved
<1>2. CASE c.call = "append_batch"
  <2>1. /\ c.batch \in Seq(Events) /\ c.batch \in Batches
        /\ Len(Statements(c)) = Len(c.batch)
    BY <1>2, StatementsType, CallFields
  <2>2. PICK b \in Seq(Events) : b = c.batch
    BY <2>1
  <2>3. SubSeq(b, 1, Len(b)) = b /\ old.events \in Seq(Events)
    BY <2>2 DEF Tables
  <2>4. old.events \o b \in Seq(Events)
    BY <2>2, <2>3
  <2>5. new = WithLog(old, old.events \o b)
    BY <1>2, <2>1, <2>2, <2>3 DEF Partly
  <2>6. /\ new.events = old.events \o b /\ new.queue = old.queue /\ new.rows = old.rows
        /\ new.snapshots = old.snapshots
    BY <2>4, <2>5, WithLogFacts
  <2>7. QED
    BY <2>1, <2>2, <2>6
<1>3. CASE c.call \notin {"save_runtime_state", "append_batch"}
  <2>1. Len(Statements(c)) = 1
    BY <1>3, StatementsType
  <2>2. new = Apply(old, Statements(c)[1])
    BY <2>1, <1>3 DEF Partly
  <2>3. CASE c.call \in {"load_runtime_state", "stream"}
    BY <2>3, PartlyRead
  <2>4. CASE c.call \in {"save", "delete"}
    <3>1. PICK r \in Rows, s \in States \cup {None} : Statements(c)[1] = Stmt("row", r, s)
      BY <2>4, CallFields, StatementsCases
    <3>2. new = [old EXCEPT !.rows[r] = s]
      BY <3>1, <2>2, ApplyCases, StmtFields
    <3>3. /\ new.rows = [old.rows EXCEPT ![r] = s]
          /\ new.queue = old.queue /\ new.snapshots = old.snapshots
          /\ new.events = old.events
      BY <3>2 DEF Tables
    <3>4. QED
      BY <3>3
  <2>5. CASE c.call \in {"save_snapshot", "delete_snapshot"}
    <3>1. PICK n \in Names, s \in States \cup {None} : Statements(c)[1] = Stmt("snapshot", n, s)
      BY <2>5, CallFields, StatementsCases
    <3>2. new = [old EXCEPT !.snapshots[n] = s]
      BY <3>1, <2>2, ApplyCases, StmtFields
    <3>3. /\ new.snapshots = [old.snapshots EXCEPT ![n] = s]
          /\ new.queue = old.queue /\ new.rows = old.rows /\ new.events = old.events
      BY <3>2 DEF Tables
    <3>4. QED
      BY <3>3
  <2>6. CASE c.call = "truncate"
    <3>1. Statements(c)[1] = Stmt("events", None, None)
      BY <2>6, StatementsCases
    <3>2. new = WithLog(old, << >>)
      BY <3>1, <2>2, ApplyLog, StmtFields
    <3>3. << >> \in Seq(Events)
      OBVIOUS
    <3>4. QED
      BY <3>2, <3>3, WithLogFacts
  <2>7. QED
    BY <1>3, <2>3, <2>4, <2>5, <2>6, CallFields
<1>4. QED
  BY <1>1, <1>2, <1>3

\* A commit of a call that nothing was left open before is a step of the port, or
\* changes nothing.
LEMMA CommitIsPort ==
    ASSUME IInv, NEW t \in Threads, Return(t), Mode(op[t]) # "select", ~stranded
    PROVE  Ports!Next \/ UNCHANGED Ports!vars
<1>1. committed \in Tables /\ working \in Tables /\ Whole(committed)
  BY DEF IInv, TypeOK, Tidy
<1>2. committed' = working
  BY DEF Return, Commit
<1>3. /\ op[t] \in Calls /\ Whole(working)
      /\ Partly(committed, working, op[t], Len(Statements(op[t])))
  BY ThroughWhole DEF Return
<1>4. /\ committed.queue = committed.sched /\ committed'.queue = committed'.sched
  BY <1>1, <1>2, <1>3 DEF Whole
<1>5. CASE working = committed
  BY <1>2, <1>5 DEF Ports!vars
<1>6. CASE \E s \in States :
             /\ working.rows = [r \in Rows |-> IF r \in RowsOf(s) THEN s ELSE None]
             /\ working.queue = s /\ working.snapshots = committed.snapshots
             /\ working.events = committed.events
  BY <1>2, <1>4, <1>6 DEF Ports!Next, Ports!SaveRuntimeState
<1>7. CASE \E r \in Rows, s \in States \cup {None} :
             /\ working.rows = [committed.rows EXCEPT ![r] = s]
             /\ working.queue = committed.queue /\ working.snapshots = committed.snapshots
             /\ working.events = committed.events
  BY <1>2, <1>4, <1>7 DEF Ports!Next, Ports!SaveRow, Ports!DeleteRow
<1>8. CASE \E n \in Names, s \in States \cup {None} :
             /\ working.snapshots = [committed.snapshots EXCEPT ![n] = s]
             /\ working.queue = committed.queue /\ working.rows = committed.rows
             /\ working.events = committed.events
  BY <1>2, <1>4, <1>8 DEF Ports!Next, Ports!SaveSnapshot, Ports!DeleteSnapshot
<1>9. CASE /\ \/ \E b \in Batches : working.events = committed.events \o b
              \/ working.events = << >>
           /\ working.queue = committed.queue /\ working.rows = committed.rows
           /\ working.snapshots = committed.snapshots
  BY <1>2, <1>4, <1>9 DEF Ports!Next, Ports!AppendBatch, Ports!Truncate
<1>10. QED
  <2>1. PICK old : old = committed
    OBVIOUS
  <2>2. PICK new : new = working
    OBVIOUS
  <2>3. PICK c : c = op[t]
    OBVIOUS
  <2>4. old \in Tables /\ new \in Tables /\ c \in Calls
        /\ Partly(old, new, c, Len(Statements(c)))
    BY <2>1, <2>2, <2>3, <1>1, <1>3
  <2> HIDE <1>1, <1>2, <1>3, <1>4
  <2>5. QED
    BY <2>1, <2>2, <2>4, <1>5, <1>6, <1>7, <1>8, <1>9, WholeCall

\* Only a commit changes the file.
LEMMA FileStep ==
    ASSUME IInv, [Next]_vars
    PROVE  \/ committed' = committed
           \/ \E t \in Threads : Return(t) /\ Mode(op[t]) # "select"
<1>1. ASSUME NEW t \in Threads, Step(t), ~Return(t) PROVE committed' = committed
  BY <1>1 DEF Step, Acquire, BeginRaises, Execute, StatementRaises, CommitRaises,
     Rollback, dbVars
<1>2. ASSUME NEW t \in Threads, Return(t), Mode(op[t]) = "select"
      PROVE  committed' = committed
  BY <1>2 DEF Return, dbVars
<1>3. ASSUME NEW t \in Threads, NEW c \in Calls, Call(t, c) PROVE committed' = committed
  BY <1>3 DEF Call, dbVars
<1>4. CASE Crash
  BY <1>4 DEF Crash, Rollback
<1>5. CASE UNCHANGED vars
  BY <1>5 DEF vars
<1>6. QED
  BY <1>1, <1>2, <1>3, <1>4, <1>5 DEF Next

\* Every step is a step of the port, or changes nothing of the file, or commits
\* what a failed commit had left open; the sections stay those of one state.
LEMMA PortStep ==
    ASSUME IInv, IInv', [Next]_vars
    PROVE  [(stranded \/ Ports!Next) /\ committed'.queue = committed'.sched]_(Ports!vars)
<1>1. committed'.queue = committed'.sched
  BY DEF IInv, Tidy, Whole
<1>2. CASE committed' = committed
  BY <1>2 DEF Ports!vars
<1>3. ASSUME NEW t \in Threads, Return(t), Mode(op[t]) # "select"
      PROVE  stranded \/ Ports!Next \/ UNCHANGED Ports!vars
  BY <1>3, CommitIsPort
<1>4. QED
  BY <1>1, <1>2, <1>3, FileStep

\* SQLiteStateStore implements the ports: for any threads, states and batches,
\* each call changes the file as a whole or not at all, except that a commit may
\* carry a transaction whose own commit had raised, and the queue and scheduler
\* sections in the file are always those of one saved state.
THEOREM Refinement == Spec => KeepsPorts
<1>1. Init => Ports!Init
  BY DEF Init, Empty, Ports!Init
<1>2. IInv /\ IInv' /\ [Next]_vars
        => [(stranded \/ Ports!Next) /\ committed'.queue = committed'.sched]_(Ports!vars)
  BY PortStep
<1>3. QED
  BY <1>1, <1>2, Invariance, PTL DEF Spec, KeepsPorts

=============================================================================
