-------------------------- MODULE LifecycleProofs --------------------------
(***************************************************************************)
(* Proofs about Lifecycle, for any number of clients and calls: without a  *)
(* start that overlaps a stop there is one engine or none, and the health  *)
(* monitor knows which.                                                    *)
(***************************************************************************)
EXTENDS Lifecycle, FiniteSetTheorems, TLAPS

----------------------------------------------------------------------------
(* The invariants.                                                         *)

Labels == {"idle"} \cup Starting \cup Stopping

\* Where a client holds the scheduler's lock, and where it is the one that stops
\* the scheduler.
Hold == {"tracker.start", "monitor.start", "sched.run"}
Path == {"tracker.stop", "tracker.read", "tracker.join", "monitor.stop", "monitor.read",
         "monitor.join", "sched.read", "sched.join"}

\* Where one holds the pool's lock, and where it is the one that stops the pool.
PoolHold == {"crew"}
PoolPath == {"crew.tell", "crew.join", "supervisor.join"}

\* The types, without the bounds that follow from MaxCalls.
Shape ==
    /\ started \in [Loops \cup {"pool"} -> BOOLEAN] /\ stop \in [Loops -> BOOLEAN]
    /\ latest \in [Services -> Nat] /\ live \in [Services -> SUBSET Nat] /\ told \in SUBSET Nat
    /\ lock \in [{"sched", "pool"} -> Clients \cup {None}]
    /\ pc \in [Clients -> Labels] /\ target \in [Clients -> Nat]
    /\ running \in BOOLEAN /\ watched \in BOOLEAN
    /\ raised \in BOOLEAN /\ mixed \in BOOLEAN /\ calls \in Nat

\* A lock is held by the client that is inside.
LockInv == \A c \in Clients : /\ lock["sched"] = c <=> pc[c] \in Hold
                              /\ lock["pool"] = c <=> pc[c] \in PoolHold

\* A service that is started has not been told to stop.
FlagInv == \A s \in Loops : started[s] => ~stop[s]

\* Threads have numbers that were given.
NumberInv == /\ \A s \in Services : live[s] \subseteq 1..latest[s]
             /\ told \subseteq 1..latest["crew"]
             /\ started["pool"] => latest["crew"] > 0
             /\ \A c \in Clients : pc[c] = "crew.tell" => target[c] \in 1..latest["crew"]

Base == Shape /\ LockInv /\ NumberInv

\* Labels from which a client may still start a thread of service s.
ToSpawn(s) == {"start"}
              \cup (IF s = "crew" THEN {} ELSE {"crew"})
              \cup (IF s \in {"crew", "supervisor"} THEN {} ELSE {"sched.start", "tracker.start"})
              \cup (IF s \in {"monitor", "sched"} THEN {"monitor.start"} ELSE {})
              \cup (IF s = "sched" THEN {"sched.run"} ELSE {})

\* Each thread is one call's.
Pending(s) == {c \in Clients : pc[c] \in ToSpawn(s)}
CountInv == /\ calls <= MaxCalls
            /\ \A s \in Services : latest[s] + Cardinality(Pending(s)) <= calls
            /\ \A c \in Clients : target[c] <= MaxCalls

\* No start is under way together with a stop.
Unmixed == \A c, d \in Clients : ~(pc[c] \in Starting /\ pc[d] \in Stopping)

\* The scheduler and its loop while the client that starts or stops it is at
\* label k; any other label is for no such client.
SchedAt(k) ==
    /\ k \in Hold => started["sched"] /\ live["sched"] = {}
    /\ k \in Path => ~started["sched"] /\ live["sched"] \subseteq {latest["sched"]}
    /\ k \notin Hold \cup Path => /\ started["sched"] => live["sched"] = {latest["sched"]}
                                  /\ ~started["sched"] => live["sched"] = {}

\* The labels before the tracker or the monitor is started or stopped, and those
\* while it is waited for.
Before(s) == IF s = "tracker" THEN {"tracker.start"} ELSE {"tracker.start", "monitor.start"}
Ahead(s) == IF s = "tracker" THEN {"tracker.stop"}
            ELSE {"tracker.stop", "tracker.read", "tracker.join", "monitor.stop"}
Awaited(s) == IF s = "tracker" THEN {"tracker.read", "tracker.join"}
              ELSE {"monitor.read", "monitor.join"}

ServiceAt(s, k) ==
    /\ k \in Hold => (started[s] <=> k \notin Before(s))
    /\ k \in Path => (started[s] <=> k \in Ahead(s))
    /\ k \notin Hold \cup Path => (started[s] <=> started["sched"])
    /\ started[s] => live[s] = {latest[s]}
    /\ ~started[s] => live[s] \subseteq {latest[s]}
    /\ ~started[s] /\ k \notin Awaited(s) => live[s] = {}

LoopsAt(k) == SchedAt(k) /\ ServiceAt("tracker", k) /\ ServiceAt("monitor", k)

\* The client in Hold or Path is one, and where it is tells which loops run.
Quiet ==
    /\ Unmixed
    /\ \A c, d \in Clients : pc[c] \in Path /\ pc[d] \in Path => c = d
    /\ \A c \in Clients :
         /\ pc[c] \in Hold \cup Path => LoopsAt(pc[c])
         /\ pc[c] = "tracker.join" => target[c] = latest["tracker"]
         /\ pc[c] = "monitor.join" => target[c] = latest["monitor"]
         /\ pc[c] = "sched.join" => target[c] = latest["sched"]
    /\ (\A c \in Clients : pc[c] \notin Hold \cup Path) => LoopsAt("idle")

\* While no start overlaps a stop.
LoopInv == ~mixed => Quiet

\* The pool, its threads and what HealthMonitor has heard of them, while the
\* client that starts or stops it is at label k.
PoolAt(k) ==
    /\ k \in PoolHold => /\ started["pool"] /\ live["supervisor"] = {}
                         /\ live["crew"] = {latest["crew"]} /\ latest["crew"] \notin told
    /\ k \in PoolPath => /\ ~started["pool"]
                         /\ live["crew"] \subseteq {latest["crew"]}
                         /\ live["supervisor"] \subseteq {latest["supervisor"]}
                         /\ k = "supervisor.join" => live["crew"] = {} /\ ~watched
    /\ k \notin PoolHold \cup PoolPath =>
         /\ started["pool"] => /\ live["crew"] = {latest["crew"]} /\ latest["crew"] \notin told
                               /\ live["supervisor"] = {latest["supervisor"]} /\ watched
         /\ ~started["pool"] => live["crew"] = {} /\ live["supervisor"] = {} /\ ~watched

PoolQuiet ==
    /\ \A c, d \in Clients : pc[c] \in PoolPath /\ pc[d] \in PoolPath => c = d
    /\ \A c \in Clients :
         /\ pc[c] \in PoolHold \cup PoolPath => PoolAt(pc[c])
         /\ pc[c] \in {"crew.tell", "crew.join"} => target[c] = latest["crew"]
    /\ (\A c \in Clients : pc[c] \notin PoolHold \cup PoolPath) => PoolAt("idle")

\* The scheduler runs only on a pool that does, and a pool runs without it only
\* while a client is about to start the one or to stop the other.
Linking == {"crew", "sched.start", "pool.stop"} \cup Path

Linked ==
    /\ \A c \in Clients : /\ pc[c] = "sched.start" => started["pool"]
                          /\ pc[c] = "pool.stop" => ~started["sched"]
    /\ started["sched"] => started["pool"]
    /\ started["pool"] /\ ~started["sched"] => \E c \in Clients : pc[c] \in Linking

\* What HealthMonitor has heard of the scheduler.
HeardAt(k) ==
    /\ k \in Hold => ~running
    /\ k \in Path => running
    /\ k \notin Hold \cup Path => (running <=> started["sched"])

Heard == /\ \A c \in Clients : pc[c] \in Hold \cup Path => HeardAt(pc[c])
         /\ (\A c \in Clients : pc[c] \notin Hold \cup Path) => HeardAt("idle")

\* As long as no append raised.
Clean == PoolQuiet /\ Linked /\ Heard

CleanInv == ~mixed /\ ~raised => Clean

----------------------------------------------------------------------------
(* What the actions do.                                                    *)

\* Client c goes from label k to label l, the others stay where they were.
Moved(c, k, l) == pc[c] = k /\ pc'[c] = l /\ \A d \in Clients \ {c} : pc'[d] = pc[d]

\* Service s has a new thread, the others have theirs.
Same(s) == latest'[s] = latest[s] /\ live'[s] = live[s]
Spawned(s) == /\ latest'[s] = latest[s] + 1 /\ live'[s] = live[s] \cup {latest[s] + 1}
              /\ \A r \in Services \ {s} : Same(r)

\* The flag of s is b now.
Turned(s, b) == started'[s] = b /\ \A r \in (Loops \cup {"pool"}) \ {s} : started'[r] = started[r]

\* Lock l is taken by c or left.
Locked(l, c) == lock'[l] = c /\ \A m \in {"sched", "pool"} \ {l} : lock'[m] = lock[m]

\* What no step of a client but a call or a failing append changes.
Plain == calls' = calls /\ raised' = raised /\ mixed' = mixed

\* An append raised.
Failed == calls' = calls /\ raised' = TRUE /\ mixed' = mixed

\* The labels.
LEMMA LabelFacts ==
    /\ {"start", "crew", "sched.start", "tracker.start", "monitor.start", "sched.run"} \subseteq Labels
    /\ {"stop", "tracker.stop", "tracker.read", "tracker.join", "monitor.stop",
        "monitor.read", "monitor.join", "sched.read", "sched.join", "pool.stop",
        "crew.tell", "crew.join", "supervisor.join", "idle"} \subseteq Labels
    /\ {"sched", "tracker", "monitor"} = Loops
    /\ {"sched", "tracker", "monitor", "supervisor", "crew"} = Services
  BY DEF Labels, Starting, Stopping, Loops, Services

\* A client goes to a label.
LEMMA GoFacts ==
    ASSUME Shape, NEW c \in Clients, NEW k, pc[c] = k, NEW l \in Labels, Go(c, l)
    PROVE  Moved(c, k, l) /\ pc' \in [Clients -> Labels]
  BY DEF Shape, Go, Moved

\* A thread is started.
LEMMA SpawnFacts ==
    ASSUME Shape, NEW s \in Services, latest' = Number(latest, s), live' = Spawn(live, s)
    PROVE  /\ Spawned(s)
           /\ latest' \in [Services -> Nat] /\ live' \in [Services -> SUBSET Nat]
<1>1. latest \in [Services -> Nat] /\ live \in [Services -> SUBSET Nat]
  BY DEF Shape
<1>2. latest' \in [Services -> Nat] /\ latest'[s] = latest[s] + 1
      /\ \A r \in Services \ {s} : latest'[r] = latest[r]
  BY <1>1 DEF Number
<1>3. latest[s] + 1 \in Nat
  BY <1>1
<1>4. live' \in [Services -> SUBSET Nat] /\ live'[s] = live[s] \cup {latest[s] + 1}
      /\ \A r \in Services \ {s} : live'[r] = live[r]
  BY <1>1, <1>3 DEF Spawn
<1>5. QED
  BY <1>2, <1>4 DEF Spawned, Same

\* A flag is written.
LEMMA TurnFacts ==
    ASSUME Shape, NEW s \in Loops \cup {"pool"}, NEW b \in BOOLEAN,
           started' = [started EXCEPT ![s] = b]
    PROVE  Turned(s, b) /\ started' \in [Loops \cup {"pool"} -> BOOLEAN]
  BY DEF Shape, Turned

\* A lock is taken or released.
LEMMA LockFacts ==
    ASSUME Shape, NEW l \in {"sched", "pool"}, NEW c \in Clients \cup {None},
           lock' = [lock EXCEPT ![l] = c]
    PROVE  Locked(l, c) /\ lock' \in [{"sched", "pool"} -> Clients \cup {None}]
  BY DEF Shape, Locked

\* A call begins.
LEMMA CallFacts ==
    ASSUME Shape, NEW c \in Clients, NEW what \in Labels, NEW others, Call(c, what, others)
    PROVE  /\ Shape' /\ Moved(c, "idle", what)
           /\ calls < MaxCalls /\ calls' = calls + 1
           /\ mixed' = (mixed \/ \E d \in Clients : pc[d] \in others)
           /\ UNCHANGED <<started, stop, latest, live, told, lock, target, running, watched, raised>>
<1>1. Moved(c, "idle", what) /\ pc' \in [Clients -> Labels]
  BY GoFacts DEF Call
<1>2. mixed' \in BOOLEAN
  BY DEF Call
<1>3. QED
  BY <1>1, <1>2 DEF Call, Shape, flags, threads, health

\* WorkerPool.start
LEMMA PoolStartFacts ==
    ASSUME Shape, NEW c \in Clients, PoolStart(c)
    PROVE  /\ Shape' /\ Plain /\ lock["pool"] = None
           /\ UNCHANGED <<stop, told, target, running, watched>>
           /\ \/ /\ Moved(c, "start", "sched.start") /\ started["pool"]
                 /\ UNCHANGED <<started, latest, live, lock>>
              \/ /\ Moved(c, "start", "crew") /\ ~started["pool"]
                 /\ Turned("pool", TRUE) /\ Spawned("crew") /\ Locked("pool", c)
<1>1. CASE started["pool"]
  <2>1. Go(c, "sched.start") /\ pc[c] = "start"
    BY <1>1 DEF PoolStart, Steps
  <2>2. Moved(c, "start", "sched.start") /\ pc' \in [Clients -> Labels]
    BY <2>1, GoFacts, LabelFacts
  <2>3. QED
    BY <1>1, <2>2 DEF PoolStart, Steps, Plain, Shape, flags, threads, health
<1>2. CASE ~started["pool"]
  <2>1. Go(c, "crew") /\ pc[c] = "start"
    BY <1>2 DEF PoolStart, Steps
  <2>2. Moved(c, "start", "crew") /\ pc' \in [Clients -> Labels]
    BY <2>1, GoFacts, LabelFacts
  <2>3. /\ started' = [started EXCEPT !["pool"] = TRUE]
        /\ latest' = Number(latest, "crew") /\ live' = Spawn(live, "crew")
        /\ lock' = [lock EXCEPT !["pool"] = c]
        /\ stop' = stop /\ told' = told /\ target' = target /\ running' = running
        /\ watched' = watched /\ Plain /\ lock["pool"] = None
    BY <1>2 DEF PoolStart, Steps, Plain, health
  <2>4. Turned("pool", TRUE) /\ started' \in [Loops \cup {"pool"} -> BOOLEAN]
    BY <2>3, TurnFacts
  <2>5. /\ Spawned("crew")
        /\ latest' \in [Services -> Nat] /\ live' \in [Services -> SUBSET Nat]
    BY <2>3, SpawnFacts, LabelFacts
  <2>6. Locked("pool", c) /\ lock' \in [{"sched", "pool"} -> Clients \cup {None}]
    BY <2>3, LockFacts
  <2>7. Shape'
    BY <2>2, <2>3, <2>4, <2>5, <2>6 DEF Shape, Plain
  <2>8. QED
    BY <1>2, <2>2, <2>3, <2>4, <2>5, <2>6, <2>7
<1>3. QED
  BY <1>1, <1>2

\* The WorkerStarted events and the supervisor.
LEMMA PoolSuperviseFacts ==
    ASSUME Shape, NEW c \in Clients, PoolSupervise(c)
    PROVE  /\ Shape' /\ Locked("pool", None)
           /\ UNCHANGED <<started, stop, told, target, running>>
           /\ \/ Moved(c, "crew", "sched.start") /\ Plain /\ Spawned("supervisor") /\ watched' = TRUE
              \/ Moved(c, "crew", "idle") /\ Failed /\ latest' = latest /\ live' = live
<1>1. /\ pc[c] = "crew" /\ lock' = [lock EXCEPT !["pool"] = None]
      /\ UNCHANGED <<started, stop, told, target, running>> /\ calls' = calls /\ mixed' = mixed
  BY DEF PoolSupervise, Steps, Raises, flags, threads
<1>2. Locked("pool", None) /\ lock' \in [{"sched", "pool"} -> Clients \cup {None}]
  BY <1>1, LockFacts
<1>3. CASE latest' = Number(latest, "supervisor") /\ live' = Spawn(live, "supervisor")
           /\ watched' = TRUE /\ Steps(c, "sched.start")
  <2>1. Moved(c, "crew", "sched.start") /\ pc' \in [Clients -> Labels]
    BY <1>1, <1>3, GoFacts, LabelFacts DEF Steps
  <2>2. /\ Spawned("supervisor")
        /\ latest' \in [Services -> Nat] /\ live' \in [Services -> SUBSET Nat]
    BY <1>3, SpawnFacts, LabelFacts
  <2>3. QED
    BY <1>1, <1>2, <1>3, <2>1, <2>2 DEF Shape, Steps, Plain
<1>4. CASE Raises(c) /\ watched' \in {watched, TRUE} /\ UNCHANGED threads
  <2>1. Moved(c, "crew", "idle") /\ pc' \in [Clients -> Labels]
    BY <1>1, <1>4, GoFacts, LabelFacts DEF Raises
  <2>2. watched' \in BOOLEAN
    BY <1>4 DEF Shape
  <2>3. QED
    BY <1>1, <1>2, <1>4, <2>1, <2>2 DEF Shape, Raises, Failed, threads
<1>5. QED
  BY <1>3, <1>4 DEF PoolSupervise

\* IntelligentScheduler.start
LEMMA SchedStartFacts ==
    ASSUME Shape, NEW c \in Clients, SchedStart(c)
    PROVE  /\ Shape' /\ Plain /\ lock["sched"] = None
           /\ UNCHANGED <<latest, live, told, target, running, watched>>
           /\ \/ /\ Moved(c, "sched.start", "idle") /\ started["sched"]
                 /\ UNCHANGED <<started, stop, lock>>
              \/ /\ Moved(c, "sched.start", "tracker.start") /\ ~started["sched"]
                 /\ Turned("sched", TRUE) /\ Locked("sched", c)
<1>1. CASE started["sched"]
  <2>1. Moved(c, "sched.start", "idle") /\ pc' \in [Clients -> Labels]
    BY <1>1, GoFacts, LabelFacts DEF SchedStart, Steps
  <2>2. QED
    BY <1>1, <2>1 DEF SchedStart, Steps, Plain, Shape, flags, threads, health
<1>2. CASE ~started["sched"]
  <2>1. Moved(c, "sched.start", "tracker.start") /\ pc' \in [Clients -> Labels]
    BY <1>2, GoFacts, LabelFacts DEF SchedStart, Steps
  <2>2. /\ started' = [started EXCEPT !["sched"] = TRUE]
        /\ stop' = [stop EXCEPT !["sched"] = FALSE] /\ lock' = [lock EXCEPT !["sched"] = c]
        /\ UNCHANGED <<latest, live, told, target, running, watched>>
        /\ Plain /\ lock["sched"] = None
    BY <1>2 DEF SchedStart, Steps, Plain, threads, health
  <2>3. Turned("sched", TRUE) /\ started' \in [Loops \cup {"pool"} -> BOOLEAN]
    BY <2>2, TurnFacts, LabelFacts
  <2>4. Locked("sched", c) /\ lock' \in [{"sched", "pool"} -> Clients \cup {None}]
    BY <2>2, LockFacts
  <2>5. stop' \in [Loops -> BOOLEAN]
    BY <2>2 DEF Shape
  <2>6. Shape'
    BY <2>1, <2>2, <2>3, <2>4, <2>5 DEF Shape, Plain
  <2>7. QED
    BY <1>2, <2>1, <2>2, <2>3, <2>4, <2>6
<1>3. QED
  BY <1>1, <1>2

\* DelayedTaskTracker.start and TimeoutManager.start
LEMMA ServiceStartFacts ==
    ASSUME Shape, NEW c \in Clients, NEW s \in Loops, NEW k, NEW l \in Labels,
           ServiceStart(c, s, k, l)
    PROVE  /\ Shape' /\ Plain /\ Moved(c, k, l)
           /\ UNCHANGED <<told, lock, target, running, watched>>
           /\ \/ started[s] /\ UNCHANGED <<started, stop, latest, live>>
              \/ ~started[s] /\ Turned(s, TRUE) /\ Spawned(s)
<1>1. Moved(c, k, l) /\ pc' \in [Clients -> Labels]
  BY GoFacts DEF ServiceStart, Steps
<1>2. UNCHANGED <<told, lock, target, running, watched>> /\ Plain
  BY DEF ServiceStart, Steps, Plain, threads, health
<1>3. CASE started[s]
  BY <1>1, <1>2, <1>3 DEF ServiceStart, Shape, Plain, flags, threads
<1>4. CASE ~started[s]
  <2>1. /\ started' = [started EXCEPT ![s] = TRUE] /\ stop' = [stop EXCEPT ![s] = FALSE]
        /\ latest' = Number(latest, s) /\ live' = Spawn(live, s)
    BY <1>4 DEF ServiceStart
  <2>2. Turned(s, TRUE) /\ started' \in [Loops \cup {"pool"} -> BOOLEAN]
    BY <2>1, TurnFacts
  <2>3. Spawned(s) /\ latest' \in [Services -> Nat] /\ live' \in [Services -> SUBSET Nat]
    BY <2>1, SpawnFacts DEF Services
  <2>4. stop' \in [Loops -> BOOLEAN]
    BY <2>1 DEF Shape
  <2>5. Shape'
    BY <1>1, <1>2, <2>2, <2>3, <2>4 DEF Shape, Plain
  <2>6. QED
    BY <1>1, <1>2, <1>4, <2>2, <2>3, <2>5
<1>5. QED
  BY <1>3, <1>4

\* The scheduler's loop is started.
LEMMA SchedRunFacts ==
    ASSUME Shape, NEW c \in Clients, SchedRun(c)
    PROVE  /\ Shape' /\ Moved(c, "sched.run", "idle") /\ Spawned("sched") /\ Locked("sched", None)
           /\ UNCHANGED <<started, stop, told, target, watched>>
           /\ \/ Plain /\ running' = TRUE
              \/ Failed /\ running' = running
<1>1. /\ pc[c] = "sched.run" /\ Go(c, "idle") /\ lock' = [lock EXCEPT !["sched"] = None]
      /\ latest' = Number(latest, "sched") /\ live' = Spawn(live, "sched")
      /\ UNCHANGED <<started, stop, told, target, watched>>
      /\ (Plain /\ running' = TRUE) \/ (Failed /\ running' = running)
  BY DEF SchedRun, Steps, Raises, flags, Plain, Failed
<1>2. Moved(c, "sched.run", "idle") /\ pc' \in [Clients -> Labels]
  BY <1>1, GoFacts, LabelFacts
<1>3. Locked("sched", None) /\ lock' \in [{"sched", "pool"} -> Clients \cup {None}]
  BY <1>1, LockFacts
<1>4. Spawned("sched") /\ latest' \in [Services -> Nat] /\ live' \in [Services -> SUBSET Nat]
  BY <1>1, SpawnFacts, LabelFacts
<1>5. Shape'
  BY <1>1, <1>2, <1>3, <1>4 DEF Shape, Plain, Failed
<1>6. QED
  BY <1>1, <1>2, <1>3, <1>4, <1>5

\* The locked half of a stop.
LEMMA HaltFacts ==
    ASSUME Shape, NEW c \in Clients, NEW s \in Loops, NEW k, pc[c] = k, NEW l \in Labels,
           NEW m \in Labels, Halt(c, s, l, m), UNCHANGED <<threads, lock, health>>
    PROVE  /\ Shape' /\ Plain
           /\ UNCHANGED <<latest, live, told, lock, target, running, watched>>
           /\ \/ Moved(c, k, l) /\ started[s] /\ Turned(s, FALSE)
              \/ Moved(c, k, m) /\ ~started[s] /\ UNCHANGED <<started, stop>>
<1>1. UNCHANGED <<latest, live, told, lock, target, running, watched>> /\ Plain
  BY DEF Halt, Steps, Plain, threads, health
<1>2. CASE started[s]
  <2>1. Moved(c, k, l) /\ pc' \in [Clients -> Labels]
    BY <1>2, GoFacts DEF Halt, Steps
  <2>2. started' = [started EXCEPT ![s] = FALSE] /\ stop' = [stop EXCEPT ![s] = TRUE]
    BY <1>2 DEF Halt
  <2>3. Turned(s, FALSE) /\ started' \in [Loops \cup {"pool"} -> BOOLEAN]
    BY <2>2, TurnFacts
  <2>4. stop' \in [Loops -> BOOLEAN]
    BY <2>2 DEF Shape
  <2>5. Shape'
    BY <1>1, <2>1, <2>3, <2>4 DEF Shape, Plain
  <2>6. QED
    BY <1>1, <1>2, <2>1, <2>3, <2>5
<1>3. CASE ~started[s]
  <2>1. Moved(c, k, m) /\ pc' \in [Clients -> Labels]
    BY <1>3, GoFacts DEF Halt, Steps
  <2>2. QED
    BY <1>1, <1>3, <2>1 DEF Halt, flags, Shape, Plain
<1>4. QED
  BY <1>2, <1>3

\* The thread to join is read.
LEMMA ReadFacts ==
    ASSUME Shape, NEW c \in Clients, NEW s \in Services, NEW k, NEW l \in Labels,
           ReadThread(c, s, k, l)
    PROVE  /\ Shape' /\ Plain /\ Moved(c, k, l)
           /\ target'[c] = latest[s] /\ \A d \in Clients \ {c} : target'[d] = target[d]
           /\ UNCHANGED <<started, stop, latest, live, told, lock, running, watched>>
<1>1. Moved(c, k, l) /\ pc' \in [Clients -> Labels]
  BY GoFacts DEF ReadThread
<1>2. /\ target' \in [Clients -> Nat]
      /\ target'[c] = latest[s] /\ \A d \in Clients \ {c} : target'[d] = target[d]
  BY DEF ReadThread, Shape
<1>3. QED
  BY <1>1, <1>2 DEF ReadThread, Plain, Shape, flags, threads, health

\* It is joined.
LEMMA JoinFacts ==
    ASSUME Shape, NEW c \in Clients, NEW s \in Services, NEW k, NEW l \in Labels,
           Join(c, s, k, l)
    PROVE  /\ Shape' /\ Plain /\ Moved(c, k, l) /\ target[c] \notin live[s]
           /\ UNCHANGED <<started, stop, latest, live, told, lock, target, running, watched>>
<1>1. Moved(c, k, l) /\ pc' \in [Clients -> Labels]
  BY GoFacts DEF Join, Steps
<1>2. QED
  BY <1>1 DEF Join, Steps, Plain, Shape, flags, threads, health

\* The scheduler's loop is joined.
LEMMA SchedStoppedFacts ==
    ASSUME Shape, NEW c \in Clients, SchedStopped(c)
    PROVE  /\ Shape' /\ target[c] \notin live["sched"]
           /\ UNCHANGED <<started, stop, latest, live, told, lock, target, watched>>
           /\ \/ Moved(c, "sched.join", "pool.stop") /\ Plain /\ running' = FALSE
              \/ Moved(c, "sched.join", "idle") /\ Failed /\ running' = running
<1>1. /\ pc[c] = "sched.join" /\ target[c] \notin live["sched"]
      /\ UNCHANGED <<started, stop, latest, live, told, lock, target, watched>>
  BY DEF SchedStopped, Steps, Raises, flags, threads
<1>2. CASE running' = FALSE /\ Steps(c, "pool.stop")
  <2>1. Moved(c, "sched.join", "pool.stop") /\ pc' \in [Clients -> Labels]
    BY <1>1, <1>2, GoFacts, LabelFacts DEF Steps
  <2>2. QED
    BY <1>1, <1>2, <2>1 DEF Steps, Plain, Shape
<1>3. CASE Raises(c) /\ UNCHANGED running
  <2>1. Moved(c, "sched.join", "idle") /\ pc' \in [Clients -> Labels]
    BY <1>1, <1>3, GoFacts, LabelFacts DEF Raises
  <2>2. QED
    BY <1>1, <1>3, <2>1 DEF Raises, Failed, Shape
<1>4. QED
  BY <1>2, <1>3 DEF SchedStopped

\* WorkerPool.stop
LEMMA PoolStopFacts ==
    ASSUME Shape, NEW c \in Clients, PoolStop(c)
    PROVE  /\ Shape' /\ Plain /\ lock["pool"] = None
           /\ UNCHANGED <<stop, latest, live, told, lock, running, watched>>
           /\ \/ /\ Moved(c, "pool.stop", "crew.tell") /\ started["pool"] /\ Turned("pool", FALSE)
                 /\ target'[c] = latest["crew"] /\ \A d \in Clients \ {c} : target'[d] = target[d]
              \/ /\ Moved(c, "pool.stop", "idle") /\ ~started["pool"]
                 /\ UNCHANGED <<started, target>>
<1>1. UNCHANGED <<stop, latest, live, told, lock, running, watched>> /\ Plain
      /\ lock["pool"] = None /\ pc[c] = "pool.stop"
  BY DEF PoolStop, Steps, Plain, threads, health
<1>2. CASE started["pool"]
  <2>1. Moved(c, "pool.stop", "crew.tell") /\ pc' \in [Clients -> Labels]
    BY <1>1, <1>2, GoFacts, LabelFacts DEF PoolStop
  <2>2. started' = [started EXCEPT !["pool"] = FALSE]
        /\ target' = [target EXCEPT ![c] = latest["crew"]]
    BY <1>2 DEF PoolStop
  <2>3. Turned("pool", FALSE) /\ started' \in [Loops \cup {"pool"} -> BOOLEAN]
    BY <2>2, TurnFacts
  <2>4. /\ target' \in [Clients -> Nat]
        /\ target'[c] = latest["crew"] /\ \A d \in Clients \ {c} : target'[d] = target[d]
    BY <2>2, LabelFacts DEF Shape
  <2>5. Shape'
    BY <1>1, <2>1, <2>3, <2>4 DEF Shape, Plain
  <2>6. QED
    BY <1>1, <1>2, <2>1, <2>3, <2>4, <2>5
<1>3. CASE ~started["pool"]
  <2>1. Moved(c, "pool.stop", "idle") /\ pc' \in [Clients -> Labels]
    BY <1>1, <1>3, GoFacts, LabelFacts DEF PoolStop, Steps
  <2>2. QED
    BY <1>1, <1>3, <2>1 DEF PoolStop, Steps, Shape, Plain
<1>4. QED
  BY <1>2, <1>3

\* The workers are told to stop.
LEMMA TellCrewFacts ==
    ASSUME Shape, NEW c \in Clients, TellCrew(c)
    PROVE  /\ Shape' /\ Plain /\ Moved(c, "crew.tell", "crew.join")
           /\ told' = told \cup {target[c]}
           /\ UNCHANGED <<started, stop, latest, live, lock, target, running, watched>>
<1>1. Moved(c, "crew.tell", "crew.join") /\ pc' \in [Clients -> Labels]
  BY GoFacts, LabelFacts DEF TellCrew, Steps
<1>2. told' \in SUBSET Nat /\ told' = told \cup {target[c]}
  BY DEF TellCrew, Shape
<1>3. QED
  BY <1>1, <1>2 DEF TellCrew, Steps, Plain, Shape, flags, health

\* They are joined.
LEMMA JoinCrewFacts ==
    ASSUME Shape, NEW c \in Clients, JoinCrew(c)
    PROVE  /\ Shape'
           /\ UNCHANGED <<started, stop, latest, live, told, lock, target, running>>
           /\ \/ /\ Moved(c, "crew.join", "supervisor.join") /\ Plain
                 /\ target[c] \notin live["crew"] /\ watched' = FALSE
              \/ Moved(c, "crew.join", "idle") /\ Failed
<1>1. /\ pc[c] = "crew.join"
      /\ UNCHANGED <<started, stop, latest, live, told, lock, target, running>>
  BY DEF JoinCrew, Steps, Raises, flags, threads
<1>2. CASE target[c] \notin live["crew"] /\ watched' = FALSE /\ Steps(c, "supervisor.join")
  <2>1. Moved(c, "crew.join", "supervisor.join") /\ pc' \in [Clients -> Labels]
    BY <1>1, <1>2, GoFacts, LabelFacts DEF Steps
  <2>2. QED
    BY <1>1, <1>2, <2>1 DEF Steps, Plain, Shape
<1>3. CASE Raises(c) /\ watched' \in {watched, FALSE}
  <2>1. Moved(c, "crew.join", "idle") /\ pc' \in [Clients -> Labels]
    BY <1>1, <1>3, GoFacts, LabelFacts DEF Raises
  <2>2. watched' \in BOOLEAN
    BY <1>3 DEF Shape
  <2>3. QED
    BY <1>1, <1>3, <2>1, <2>2 DEF Raises, Failed, Shape
<1>4. QED
  BY <1>2, <1>3 DEF JoinCrew

\* The supervisor is joined.
LEMMA JoinSupervisorFacts ==
    ASSUME Shape, NEW c \in Clients, JoinSupervisor(c)
    PROVE  /\ Shape' /\ Plain /\ Moved(c, "supervisor.join", "idle")
           /\ latest["supervisor"] \notin live["supervisor"] \/ started["pool"]
           /\ UNCHANGED <<started, stop, latest, live, told, lock, target, running, watched>>
<1>1. Moved(c, "supervisor.join", "idle") /\ pc' \in [Clients -> Labels]
  BY GoFacts, LabelFacts DEF JoinSupervisor, Steps
<1>2. QED
  BY <1>1 DEF JoinSupervisor, Steps, Plain, Shape, flags, threads, health

\* A thread ends.
Ended(s, i) == live'[s] = live[s] \ {i} /\ \A r \in Services \ {s} : live'[r] = live[r]

\* What an exit changes.
LEMMA EndsFacts ==
    ASSUME Shape, NEW s \in Services, NEW i, Ends(s, i)
    PROVE  /\ Shape' /\ Plain /\ Ended(s, i)
           /\ UNCHANGED <<started, stop, latest, told, lock, pc, target, running, watched>>
<1>1. Ended(s, i) /\ live' \in [Services -> SUBSET Nat]
  BY DEF Ends, Ended, Shape
<1>2. QED
  BY <1>1 DEF Ends, Plain, Shape, flags, health

\* A worker takes a task.
LEMMA HeartbeatFacts ==
    ASSUME Shape, NEW i, Heartbeat(i)
    PROVE  /\ Shape' /\ Plain /\ i \in live["crew"] /\ watched' = TRUE
           /\ UNCHANGED <<started, stop, latest, live, told, lock, pc, target, running>>
  BY DEF Heartbeat, Plain, Shape, flags, threads

----------------------------------------------------------------------------
(* Locks and numbers.                                                      *)

\* A client moves on without taking or releasing a lock.
LEMMA LockKept ==
    ASSUME LockInv, NEW c \in Clients, NEW k, NEW l, Moved(c, k, l), lock' = lock,
           k \in Hold <=> l \in Hold, k \in PoolHold <=> l \in PoolHold
    PROVE  LockInv'
  BY DEF LockInv, Moved

\* One takes a lock.
LEMMA LockTaken ==
    ASSUME LockInv, NEW c \in Clients, NEW k, NEW l, Moved(c, k, l), k \notin Hold \cup PoolHold,
           \/ l \in Hold /\ l \notin PoolHold /\ lock["sched"] = None /\ Locked("sched", c)
           \/ l \in PoolHold /\ l \notin Hold /\ lock["pool"] = None /\ Locked("pool", c)
    PROVE  LockInv'
<1> USE ConstantsAssumption
<1>1. \/ /\ lock'["sched"] = c /\ lock'["pool"] = lock["pool"] /\ lock["sched"] = None
      \/ /\ lock'["pool"] = c /\ lock'["sched"] = lock["sched"] /\ lock["pool"] = None
  BY DEF Locked
<1>2. QED
  BY <1>1 DEF LockInv, Moved, Locked

\* A lock is released.
LEMMA LockLeft ==
    ASSUME LockInv, NEW c \in Clients, NEW k, NEW l, Moved(c, k, l), l \notin Hold \cup PoolHold,
           \/ k \in Hold /\ k \notin PoolHold /\ Locked("sched", None)
           \/ k \in PoolHold /\ k \notin Hold /\ Locked("pool", None)
    PROVE  LockInv'
  BY ConstantsAssumption DEF LockInv, Moved, Locked

\* No thread is started.
LEMMA NumberKept ==
    ASSUME Shape, NumberInv, latest' = latest, \A s \in Services : live'[s] \subseteq live[s],
           told' = told, started'["pool"] => started["pool"],
           \A c \in Clients : pc'[c] = "crew.tell" => pc[c] = "crew.tell" /\ target'[c] = target[c]
    PROVE  NumberInv'
  BY DEF NumberInv

\* A thread is started.
LEMMA NumberSpawn ==
    ASSUME Shape, NumberInv, NEW r \in Services, Spawned(r), told' = told,
           r # "crew" => started'["pool"] = started["pool"],
           \A c \in Clients : pc'[c] = "crew.tell" => pc[c] = "crew.tell" /\ target'[c] = target[c]
    PROVE  NumberInv'
<1>1. /\ latest \in [Services -> Nat] /\ "crew" \in Services
      /\ \A s \in Services : live[s] \subseteq 1..latest[s]
  BY LabelFacts DEF Shape, NumberInv
<1>2. ASSUME NEW s \in Services PROVE latest[s] \in Nat /\ latest'[s] \in Nat /\ latest[s] <= latest'[s]
  BY <1>1 DEF Spawned, Same
<1>3. ASSUME NEW s \in Services PROVE live'[s] \subseteq 1..latest'[s]
  <2>1. CASE s = r
    <3>1. live'[s] = live[s] \cup {latest[s] + 1} /\ latest'[s] = latest[s] + 1
      BY <2>1 DEF Spawned
    <3>2. latest[s] \in Nat /\ live[s] \subseteq 1..latest[s]
      BY <1>1
    <3>3. QED
      BY <3>1, <3>2
  <2>2. CASE s # r
    BY <1>1, <2>2 DEF Spawned, Same
  <2>3. QED
    BY <2>1, <2>2
<1>4. 1..latest["crew"] \subseteq 1..latest'["crew"]
  BY <1>1, <1>2
<1>5. started'["pool"] => latest'["crew"] > 0
  <2>1. CASE r = "crew"
    BY <1>1, <2>1 DEF Spawned
  <2>2. CASE r # "crew"
    BY <1>1, <2>2 DEF Spawned, Same, NumberInv
  <2>3. QED
    BY <2>1, <2>2
<1>6. QED
  BY <1>3, <1>4, <1>5 DEF NumberInv

\* Every step of Runtime.start keeps locks and numbers.
LEMMA StartBase == ASSUME Base, NEW c \in Clients, StartStep(c) PROVE Base'
<1> USE DEF Hold, PoolHold
<1>0. Shape /\ LockInv /\ NumberInv
  BY DEF Base
<1>1. CASE PoolStart(c)
  <2>1. Shape' /\ LockInv'
    BY <1>0, <1>1, PoolStartFacts, LockKept, LockTaken
  <2>2. NumberInv'
    <3>1. CASE Moved(c, "start", "sched.start") /\ UNCHANGED <<started, latest, live, lock>>
      BY <1>0, <1>1, <3>1, PoolStartFacts, NumberKept DEF Moved
    <3>2. CASE Moved(c, "start", "crew") /\ Spawned("crew")
      BY <1>0, <1>1, <3>2, PoolStartFacts, NumberSpawn, LabelFacts DEF Moved
    <3>3. QED
      BY <1>0, <1>1, <3>1, <3>2, PoolStartFacts
  <2>3. QED
    BY <2>1, <2>2 DEF Base
<1>2. CASE PoolSupervise(c)
  <2>1. Shape' /\ LockInv'
    BY <1>0, <1>2, PoolSuperviseFacts, LockLeft
  <2>2. NumberInv'
    <3>1. CASE Moved(c, "crew", "idle") /\ latest' = latest /\ live' = live
      BY <1>0, <1>2, <3>1, PoolSuperviseFacts, NumberKept DEF Moved
    <3>2. CASE Moved(c, "crew", "sched.start") /\ Spawned("supervisor")
      BY <1>0, <1>2, <3>2, PoolSuperviseFacts, NumberSpawn, LabelFacts DEF Moved
    <3>3. QED
      BY <1>0, <1>2, <3>1, <3>2, PoolSuperviseFacts
  <2>3. QED
    BY <2>1, <2>2 DEF Base
<1>3. CASE SchedStart(c)
  <2>1. Shape' /\ LockInv'
    BY <1>0, <1>3, SchedStartFacts, LockKept, LockTaken
  <2>2. started'["pool"] = started["pool"]
    BY <1>0, <1>3, SchedStartFacts DEF Turned
  <2>3. NumberInv'
    BY <1>0, <1>3, <2>2, SchedStartFacts, NumberKept DEF Moved
  <2>4. QED
    BY <2>1, <2>3 DEF Base
<1>4. ASSUME NEW s \in Loops, NEW k, NEW l \in Labels, ServiceStart(c, s, k, l),
             k \in Hold, l \in Hold
      PROVE  Base'
  <2>1. Shape' /\ LockInv'
    <3>1. Shape' /\ Moved(c, k, l) /\ lock' = lock
      BY <1>0, <1>4, ServiceStartFacts
    <3>2. k \notin PoolHold /\ l \notin PoolHold
      BY <1>4
    <3>3. QED
      BY <1>0, <1>4, <3>1, <3>2, LockKept
  <2>2. NumberInv'
    <3>1. CASE UNCHANGED <<started, stop, latest, live>>
      BY <1>0, <1>4, <3>1, ServiceStartFacts, NumberKept DEF Moved
    <3>2. CASE Turned(s, TRUE) /\ Spawned(s)
      <4>1. s \in Services /\ s # "crew" /\ s # "pool"
        BY DEF Loops, Services
      <4>2. started'["pool"] = started["pool"]
        BY <3>2, <4>1 DEF Turned
      <4>3. QED
        BY ZenonT(60), <1>0, <1>4, <3>2, <4>1, <4>2, ServiceStartFacts, NumberSpawn DEF Moved
    <3>3. QED
      BY <1>0, <1>4, <3>1, <3>2, ServiceStartFacts
  <2>3. QED
    BY <2>1, <2>2 DEF Base
<1>5. CASE SchedRun(c)
  <2>1. Shape' /\ LockInv'
    BY <1>0, <1>5, SchedRunFacts, LockLeft
  <2>2. NumberInv'
    BY <1>0, <1>5, SchedRunFacts, NumberSpawn, LabelFacts DEF Moved
  <2>3. QED
    BY <2>1, <2>2 DEF Base
<1>6. QED
  BY <1>1, <1>2, <1>3, <1>4, <1>5, LabelFacts DEF StartStep

\* So does every step of Runtime.stop.
LEMMA StopBase == ASSUME Base, NEW c \in Clients, StopStep(c) PROVE Base'
<1> USE DEF Hold, PoolHold
<1>0. Shape /\ LockInv /\ NumberInv
  BY DEF Base
<1>1. ASSUME NEW s \in Loops, NEW k \in Stopping, pc[c] = k, NEW l \in Stopping \ {"crew.tell"},
             NEW m \in Stopping \ {"crew.tell"},
             Halt(c, s, l, m), UNCHANGED <<threads, lock, health>>
      PROVE  Base'
  <2>1. /\ l \in Labels /\ m \in Labels /\ l # "crew.tell" /\ m # "crew.tell" /\ s # "pool"
        /\ {k, l, m} \cap (Hold \cup PoolHold) = {}
    BY DEF Labels, Stopping, Loops
  <2>2. /\ Shape' /\ Plain /\ UNCHANGED <<latest, live, told, lock, target, running, watched>>
        /\ \/ Moved(c, k, l) /\ started[s] /\ Turned(s, FALSE)
           \/ Moved(c, k, m) /\ ~started[s] /\ UNCHANGED <<started, stop>>
    BY <1>0, <1>1, <2>1, HaltFacts
  <2>3. LockInv'
    BY <1>0, <2>1, <2>2, LockKept
  <2>4. started'["pool"] = started["pool"]
    BY <2>1, <2>2 DEF Turned
  <2>5. NumberInv'
    BY <1>0, <2>1, <2>2, <2>4, NumberKept DEF Moved
  <2>6. QED
    BY <2>2, <2>3, <2>5 DEF Base
<1>2. ASSUME NEW s \in Loops, NEW k \in Stopping, NEW l \in Stopping \ {"crew.tell"},
             ReadThread(c, s, k, l)
      PROVE  Base'
  <2>1. /\ l \in Labels /\ l # "crew.tell" /\ s \in Services
        /\ {k, l} \cap (Hold \cup PoolHold) = {}
    BY DEF Labels, Stopping, Services
  <2>2. /\ Shape' /\ Moved(c, k, l) /\ \A d \in Clients \ {c} : target'[d] = target[d]
        /\ UNCHANGED <<started, stop, latest, live, told, lock, running, watched>>
    BY <1>0, <1>2, <2>1, ReadFacts
  <2>3. LockInv' /\ NumberInv'
    BY <1>0, <2>1, <2>2, LockKept, NumberKept DEF Moved
  <2>4. QED
    BY <2>2, <2>3 DEF Base
<1>3. ASSUME NEW s \in Loops, NEW k \in Stopping, NEW l \in Stopping \ {"crew.tell"},
             Join(c, s, k, l)
      PROVE  Base'
  <2>1. /\ l \in Labels /\ l # "crew.tell" /\ s \in Services
        /\ {k, l} \cap (Hold \cup PoolHold) = {}
    BY DEF Labels, Stopping, Services
  <2>2. QED
    BY <1>0, <1>3, <2>1, JoinFacts, LockKept, NumberKept DEF Base, Moved
<1>4. CASE SchedStopped(c)
  BY <1>0, <1>4, SchedStoppedFacts, LockKept, NumberKept DEF Base, Moved
<1>5. CASE PoolStop(c)
  <2>1. Shape' /\ LockInv'
    BY <1>0, <1>5, PoolStopFacts, LockKept
  <2>2. NumberInv'
    <3>1. CASE Moved(c, "pool.stop", "idle") /\ UNCHANGED <<started, target>>
      BY <1>0, <1>5, <3>1, PoolStopFacts, NumberKept DEF Moved
    <3>2. CASE Moved(c, "pool.stop", "crew.tell") /\ started["pool"] /\ Turned("pool", FALSE)
               /\ target'[c] = latest["crew"] /\ \A d \in Clients \ {c} : target'[d] = target[d]
      <4>1. latest' = latest /\ live' = live /\ told' = told /\ ~started'["pool"]
        BY <1>0, <1>5, <3>2, PoolStopFacts DEF Turned
      <4>2. latest["crew"] \in Nat /\ latest["crew"] > 0
        BY <1>0, <3>2, LabelFacts DEF Shape, NumberInv
      <4>3. target'[c] \in 1..latest'["crew"]
        BY <3>2, <4>1, <4>2
      <4>4. QED
        BY <1>0, <3>2, <4>1, <4>3 DEF NumberInv, Moved
    <3>3. QED
      BY <1>0, <1>5, <3>1, <3>2, PoolStopFacts
  <2>3. QED
    BY <2>1, <2>2 DEF Base
<1>6. CASE TellCrew(c)
  <2>1. Shape' /\ LockInv'
    BY <1>0, <1>6, TellCrewFacts, LockKept
  <2>2. /\ told' = told \cup {target[c]} /\ pc[c] = "crew.tell"
        /\ started' = started /\ latest' = latest /\ live' = live /\ target' = target
        /\ Moved(c, "crew.tell", "crew.join")
    BY <1>0, <1>6, TellCrewFacts DEF Moved
  <2>3. NumberInv'
    BY <1>0, <2>2 DEF NumberInv, Moved
  <2>4. QED
    BY <2>1, <2>3 DEF Base
<1>7. CASE JoinCrew(c)
  BY <1>0, <1>7, JoinCrewFacts, LockKept, NumberKept DEF Base, Moved
<1>8. CASE JoinSupervisor(c)
  BY <1>0, <1>8, JoinSupervisorFacts, LockKept, NumberKept DEF Base, Moved
<1>9. CASE SchedStop(c)
  <2>1. /\ "sched" \in Loops /\ "stop" \in Stopping
        /\ {"tracker.stop", "pool.stop"} \subseteq Stopping \ {"crew.tell"}
    BY LabelFacts DEF Stopping
  <2>2. QED
    BY <1>9, <1>1, <2>1 DEF SchedStop
<1>10. CASE \/ ServiceStop(c, "tracker", "tracker.stop", "tracker.read", "monitor.stop")
            \/ ServiceStop(c, "monitor", "monitor.stop", "monitor.read", "sched.read")
  <2>1. /\ {"tracker", "monitor"} \subseteq Loops /\ {"tracker.stop", "monitor.stop"} \subseteq Stopping
        /\ {"tracker.read", "monitor.stop", "monitor.read", "sched.read"} \subseteq Stopping \ {"crew.tell"}
    BY LabelFacts DEF Stopping
  <2>2. QED
    BY <1>10, <1>1, <2>1 DEF ServiceStop
<1>11. /\ {"tracker", "monitor", "sched"} \subseteq Loops
       /\ {"tracker.read", "monitor.read", "sched.read", "tracker.join", "monitor.join"} \subseteq Stopping
       /\ {"tracker.join", "monitor.join", "sched.join", "monitor.stop", "sched.read"}
            \subseteq Stopping \ {"crew.tell"}
  BY LabelFacts DEF Stopping
<1>12. QED
  BY <1>2, <1>3, <1>4, <1>5, <1>6, <1>7, <1>8, <1>9, <1>10, <1>11 DEF StopStep

\* So does every step.
LEMMA BaseStep == Base /\ [Next]_vars => Base'
<1> SUFFICES ASSUME Base, [Next]_vars PROVE Base'
  OBVIOUS
<1>0. Shape /\ LockInv /\ NumberInv
  BY DEF Base
<1>1. ASSUME NEW c \in Clients, NEW what \in {"start", "stop"}, NEW others, Call(c, what, others)
      PROVE  Base'
  <2>1. what \in Labels /\ what # "crew.tell"
        /\ {"idle", what} \cap (Hold \cup PoolHold) = {}
    BY LabelFacts DEF Hold, PoolHold
  <2>2. QED
    BY <1>0, <1>1, <2>1, CallFacts, LockKept, NumberKept DEF Base, Moved
<1>2. ASSUME NEW s \in Services, NEW i, Ends(s, i) PROVE Base'
  <2>1. /\ Shape' /\ UNCHANGED <<started, latest, told, lock, pc, target>> /\ Ended(s, i)
    BY <1>0, <1>2, EndsFacts
  <2>2. \A r \in Services : live'[r] \subseteq live[r]
    BY <2>1 DEF Ended
  <2>3. NumberInv'
    BY <1>0, <2>1, <2>2, NumberKept
  <2>4. LockInv'
    BY <1>0, <2>1 DEF LockInv
  <2>5. QED
    BY <2>1, <2>3, <2>4 DEF Base
<1>3. ASSUME NEW i, Heartbeat(i) PROVE Base'
  BY <1>0, <1>3, HeartbeatFacts, NumberKept DEF Base, LockInv
<1>4. CASE UNCHANGED vars
  BY <1>0, <1>4, NumberKept
     DEF Base, Shape, LockInv, vars, flags, threads, health
<1>5. CASE ThreadExit
  BY <1>2, <1>5, LabelFacts DEF ThreadExit, LoopExit, SupervisorExit, CrewExit
<1>6. ASSUME NEW c \in Clients, CallStart(c) \/ CallStop(c) PROVE Base'
  BY <1>1, <1>6 DEF CallStart, CallStop
<1>7. QED
  BY <1>3, <1>4, <1>5, <1>6, StartBase, StopBase DEF Next

----------------------------------------------------------------------------
(* Each thread is one call's.                                              *)

\* The labels from which each service may still get a thread.
LEMMA SpawnLabels ==
    /\ ToSpawn("crew") = {"start"}
    /\ ToSpawn("supervisor") = {"start", "crew"}
    /\ ToSpawn("tracker") = {"start", "crew", "sched.start", "tracker.start"}
    /\ ToSpawn("monitor") = {"start", "crew", "sched.start", "tracker.start", "monitor.start"}
    /\ ToSpawn("sched") = {"start", "crew", "sched.start", "tracker.start", "monitor.start",
                           "sched.run"}
  BY DEF ToSpawn

\* The number of clients that may still start a thread of s, when one moves.
LEMMA PendingFacts ==
    ASSUME NEW s, NEW c \in Clients, NEW k, NEW l, Moved(c, k, l)
    PROVE  /\ Cardinality(Pending(s)) \in Nat /\ Cardinality(Pending(s))' \in Nat
           /\ (l \in ToSpawn(s) => k \in ToSpawn(s))
                => Cardinality(Pending(s))' <= Cardinality(Pending(s))
           /\ k \in ToSpawn(s) /\ l \notin ToSpawn(s)
                => Cardinality(Pending(s))' + 1 <= Cardinality(Pending(s))
           /\ Cardinality(Pending(s))' <= Cardinality(Pending(s)) + 1
<1> DEFINE P == Pending(s)
           Q == Pending(s)'
<1>1. IsFiniteSet(P) /\ IsFiniteSet(Q)
  BY ConstantsAssumption, FS_Subset DEF Pending
<1>2. /\ k \in ToSpawn(s) <=> c \in P
      /\ l \in ToSpawn(s) <=> c \in Q
      /\ P \ {c} = Q \ {c}
  BY DEF Moved, Pending
<1> HIDE DEF P, Q
<1>3. Cardinality(P) \in Nat /\ Cardinality(Q) \in Nat
  BY <1>1, FS_CardinalityType
<1>4. /\ Cardinality(P \ {c}) = IF c \in P THEN Cardinality(P) - 1 ELSE Cardinality(P)
      /\ Cardinality(Q \ {c}) = IF c \in Q THEN Cardinality(Q) - 1 ELSE Cardinality(Q)
  BY <1>1, FS_RemoveElement
<1>5. /\ (l \in ToSpawn(s) => k \in ToSpawn(s)) => Cardinality(Q) <= Cardinality(P)
      /\ k \in ToSpawn(s) /\ l \notin ToSpawn(s) => Cardinality(Q) + 1 <= Cardinality(P)
      /\ Cardinality(Q) <= Cardinality(P) + 1
  BY <1>2, <1>3, <1>4
<1>6. QED
  BY <1>3, <1>5 DEF P, Q

\* A call begins.
LEMMA CountCall ==
    ASSUME Shape, CountInv, NEW c \in Clients, NEW k, NEW l, Moved(c, k, l),
           calls < MaxCalls, calls' = calls + 1, latest' = latest, target' = target
    PROVE  CountInv'
<1>1. calls \in Nat /\ MaxCalls \in Nat /\ \A s \in Services : latest[s] \in Nat
  BY ConstantsAssumption DEF Shape
<1>2. ASSUME NEW s \in Services PROVE latest'[s] + Cardinality(Pending(s))' <= calls'
  <2>1. latest[s] \in Nat /\ latest[s] + Cardinality(Pending(s)) <= calls
    BY <1>1 DEF CountInv
  <2>2. QED
    BY <1>1, <2>1, PendingFacts
<1>3. calls' <= MaxCalls
  BY <1>1
<1>4. QED
  BY <1>2, <1>3 DEF CountInv

\* A client moves on.
LEMMA CountKept ==
    ASSUME Shape, CountInv, NEW c \in Clients, NEW k, NEW l, Moved(c, k, l),
           \A s \in Services : l \in ToSpawn(s) => k \in ToSpawn(s),
           calls' = calls, latest' = latest,
           \A d \in Clients : target'[d] = target[d] \/ \E s \in Services : target'[d] = latest[s]
    PROVE  CountInv'
<1>1. calls \in Nat /\ MaxCalls \in Nat /\ \A s \in Services : latest[s] \in Nat
  BY ConstantsAssumption DEF Shape
<1>2. ASSUME NEW s \in Services PROVE latest'[s] + Cardinality(Pending(s))' <= calls'
  <2>1. latest[s] \in Nat /\ latest[s] + Cardinality(Pending(s)) <= calls
    BY <1>1 DEF CountInv
  <2>2. QED
    BY <1>1, <2>1, PendingFacts
<1>3. ASSUME NEW s \in Services PROVE latest[s] <= MaxCalls
  <2>1. latest[s] \in Nat /\ latest[s] + Cardinality(Pending(s)) <= calls /\ calls <= MaxCalls
    BY <1>1 DEF CountInv
  <2>2. QED
    BY <1>1, <2>1, PendingFacts
<1>4. \A d \in Clients : target'[d] <= MaxCalls
  BY <1>3 DEF CountInv
<1>5. QED
  BY <1>2, <1>4 DEF CountInv

\* One starts a thread.
LEMMA CountSpawn ==
    ASSUME Shape, CountInv, NEW c \in Clients, NEW k, NEW l, Moved(c, k, l),
           \A s \in Services : l \in ToSpawn(s) => k \in ToSpawn(s),
           NEW r \in Services, Spawned(r), k \in ToSpawn(r), l \notin ToSpawn(r),
           calls' = calls, target' = target
    PROVE  CountInv'
<1>1. calls \in Nat /\ \A s \in Services : latest[s] \in Nat
  BY DEF Shape
<1>2. ASSUME NEW s \in Services PROVE latest'[s] + Cardinality(Pending(s))' <= calls'
  <2>1. latest[s] \in Nat /\ latest[s] + Cardinality(Pending(s)) <= calls
    BY <1>1 DEF CountInv
  <2>2. latest'[s] = IF s = r THEN latest[s] + 1 ELSE latest[s]
    BY DEF Spawned, Same
  <2>3. QED
    BY <1>1, <2>1, <2>2, PendingFacts
<1>3. QED
  BY <1>2 DEF CountInv

\* Every step keeps the count.
LEMMA CountStep == Base /\ CountInv /\ [Next]_vars => CountInv'
<1> SUFFICES ASSUME Base, CountInv, [Next]_vars PROVE CountInv'
  OBVIOUS
<1>0. Shape
  BY DEF Base
<1>a. \A s \in Services : s \in {"sched", "tracker", "monitor", "supervisor", "crew"}
  BY LabelFacts
<1>1. ASSUME NEW c \in Clients, NEW what \in {"start", "stop"}, NEW others, Call(c, what, others)
      PROVE  CountInv'
  BY <1>0, <1>1, CallFacts, CountCall, LabelFacts
<1>2. ASSUME NEW c \in Clients, StartStep(c) PROVE CountInv'
  <2> DEFINE Later(k, l) == \A s \in Services : l \in ToSpawn(s) => k \in ToSpawn(s)
             Spends(k, l, r) == k \in ToSpawn(r) /\ l \notin ToSpawn(r)
  <2>1. /\ Later("start", "sched.start") /\ Later("start", "crew") /\ Later("crew", "sched.start")
        /\ Later("crew", "idle") /\ Later("sched.start", "idle")
        /\ Later("sched.start", "tracker.start") /\ Later("tracker.start", "monitor.start")
        /\ Later("monitor.start", "sched.run") /\ Later("sched.run", "idle")
    BY <1>a, SpawnLabels
  <2>2. /\ Spends("start", "crew", "crew") /\ Spends("crew", "sched.start", "supervisor")
        /\ Spends("tracker.start", "monitor.start", "tracker")
        /\ Spends("monitor.start", "sched.run", "monitor") /\ Spends("sched.run", "idle", "sched")
    BY SpawnLabels
  <2>3. ASSUME NEW k, NEW l, Moved(c, k, l), Later(k, l), calls' = calls, target' = target,
               latest' = latest
        PROVE  CountInv'
    BY <1>0, <2>3, CountKept
  <2>4. ASSUME NEW k, NEW l, Moved(c, k, l), Later(k, l), calls' = calls, target' = target,
               NEW r \in Services, Spawned(r), Spends(k, l, r)
        PROVE  CountInv'
    BY <1>0, <2>4, CountSpawn
  <2> HIDE DEF Later, Spends
  <2>5. CASE PoolStart(c)
    BY <1>0, <2>1, <2>2, <2>3, <2>4, <2>5, PoolStartFacts, LabelFacts DEF Plain
  <2>6. CASE PoolSupervise(c)
    BY <1>0, <2>1, <2>2, <2>3, <2>4, <2>6, PoolSuperviseFacts, LabelFacts DEF Plain, Failed
  <2>7. CASE SchedStart(c)
    BY <1>0, <2>1, <2>3, <2>7, SchedStartFacts DEF Plain
  <2>8. CASE ServiceStart(c, "tracker", "tracker.start", "monitor.start")
    BY <1>0, <2>1, <2>2, <2>3, <2>4, <2>8, ServiceStartFacts, LabelFacts DEF Plain
  <2>9. CASE ServiceStart(c, "monitor", "monitor.start", "sched.run")
    BY <1>0, <2>1, <2>2, <2>3, <2>4, <2>9, ServiceStartFacts, LabelFacts DEF Plain
  <2>10. CASE SchedRun(c)
    BY <1>0, <2>1, <2>2, <2>4, <2>10, SchedRunFacts, LabelFacts DEF Plain, Failed
  <2>11. QED
    BY <1>2, <2>5, <2>6, <2>7, <2>8, <2>9, <2>10 DEF StartStep
<1>3. ASSUME NEW c \in Clients, StopStep(c) PROVE CountInv'
  <2>1. ASSUME NEW k, NEW l \in Stopping \cup {"idle"}, Moved(c, k, l),
               calls' = calls, latest' = latest,
               \A d \in Clients : target'[d] = target[d] \/ \E s \in Services : target'[d] = latest[s]
        PROVE  CountInv'
    <3>1. \A s \in Services : l \notin ToSpawn(s)
      BY <1>a, SpawnLabels DEF Stopping
    <3>2. QED
      BY <1>0, <2>1, <3>1, CountKept
  <2>2. ASSUME NEW s \in Loops, NEW k, pc[c] = k, NEW l \in Stopping, NEW m \in Stopping,
               Halt(c, s, l, m), UNCHANGED <<threads, lock, health>>
        PROVE  CountInv'
    BY <1>0, <2>1, <2>2, HaltFacts DEF Plain, Labels
  <2>3. ASSUME NEW s \in Services, NEW k, NEW l \in Stopping, ReadThread(c, s, k, l)
        PROVE  CountInv'
    BY <1>0, <2>1, <2>3, ReadFacts DEF Plain, Labels
  <2>4. ASSUME NEW s \in Services, NEW k, NEW l \in Stopping, Join(c, s, k, l)
        PROVE  CountInv'
    BY <1>0, <2>1, <2>4, JoinFacts DEF Plain, Labels
  <2>5. {"tracker.stop", "tracker.read", "tracker.join", "monitor.stop", "monitor.read",
         "monitor.join", "sched.read", "sched.join", "pool.stop",
         "crew.tell", "crew.join", "supervisor.join"} \subseteq Stopping
    BY DEF Stopping
  <2>6. CASE SchedStopped(c)
    BY <1>0, <2>1, <2>5, <2>6, SchedStoppedFacts DEF Plain, Failed
  <2>7. CASE PoolStop(c)
    BY <1>0, <2>1, <2>5, <2>7, PoolStopFacts, LabelFacts DEF Plain
  <2>8. CASE TellCrew(c)
    BY <1>0, <2>1, <2>5, <2>8, TellCrewFacts DEF Plain
  <2>9. CASE JoinCrew(c)
    BY <1>0, <2>1, <2>5, <2>9, JoinCrewFacts DEF Plain, Failed
  <2>10. CASE JoinSupervisor(c)
    BY <1>0, <2>1, <2>10, JoinSupervisorFacts DEF Plain
  <2>11. CASE \/ SchedStop(c)
              \/ ServiceStop(c, "tracker", "tracker.stop", "tracker.read", "monitor.stop")
              \/ ServiceStop(c, "monitor", "monitor.stop", "monitor.read", "sched.read")
    BY <2>2, <2>5, <2>11, LabelFacts DEF SchedStop, ServiceStop
  <2>12. QED
    BY <1>3, <2>3, <2>4, <2>5, <2>6, <2>7, <2>8, <2>9, <2>10, <2>11, LabelFacts DEF StopStep
<1>4. ASSUME UNCHANGED <<calls, latest, target, pc>> PROVE CountInv'
  BY <1>4 DEF CountInv, Pending
<1>5. ASSUME NEW i, Heartbeat(i) PROVE CountInv'
  BY <1>0, <1>4, <1>5, HeartbeatFacts DEF Plain
<1>6. CASE ThreadExit
  BY <1>4, <1>6 DEF ThreadExit, LoopExit, SupervisorExit, CrewExit, Ends
<1>7. CASE UNCHANGED vars
  BY <1>4, <1>7 DEF vars, threads
<1>8. ASSUME NEW c \in Clients, CallStart(c) \/ CallStop(c) PROVE CountInv'
  BY <1>1, <1>8 DEF CallStart, CallStop
<1>9. QED
  BY <1>2, <1>3, <1>5, <1>6, <1>7, <1>8 DEF Next

----------------------------------------------------------------------------
(* The loops, while no start overlaps a stop.                              *)

Busy == Hold \cup Path

\* Hold is on the way to a start, Path on the way to a stop.
LEMMA BusyFacts ==
    /\ Hold \subseteq Starting /\ Path \subseteq Stopping
    /\ Starting \cap Stopping = {} /\ "idle" \notin Starting \cup Stopping
    /\ "pool.stop" \notin Busy /\ "idle" \notin Busy /\ "sched.start" \notin Busy /\ "stop" \notin Busy
  BY DEF Busy, Hold, Path, Starting, Stopping

\* A client goes on with its call or ends it.
Onwards(k, l) == (l \in Starting => k \in Starting) /\ (l \in Stopping => k \in Stopping)

\* Then no start meets a stop.
LEMMA UnmixedKept ==
    ASSUME Unmixed, NEW c \in Clients, NEW k, NEW l, Moved(c, k, l), Onwards(k, l)
    PROVE  Unmixed'
<1>1. \A d \in Clients : /\ pc'[d] \in Starting => pc[d] \in Starting
                         /\ pc'[d] \in Stopping => pc[d] \in Stopping
  BY DEF Moved, Onwards
<1>2. QED
  BY <1>1 DEF Unmixed

\* A client that starts or stops the loops is the only one.
LEMMA OnlyOne ==
    ASSUME Base, Quiet, NEW c \in Clients, NEW d \in Clients, pc[c] \in Busy, pc[d] \in Busy
    PROVE  c = d
<1>1. CASE pc[c] \in Hold /\ pc[d] \in Hold
  BY <1>1 DEF Base, LockInv
<1>2. CASE pc[c] \in Path /\ pc[d] \in Path
  BY <1>2 DEF Quiet
<1>3. CASE pc[c] \in Hold /\ pc[d] \in Path
  BY <1>3, BusyFacts DEF Quiet, Unmixed
<1>4. CASE pc[c] \in Path /\ pc[d] \in Hold
  BY <1>4, BusyFacts DEF Quiet, Unmixed
<1>5. QED
  BY <1>1, <1>2, <1>3, <1>4 DEF Busy

\* The loops and the flags of their services are as before.
LoopsKept == \A s \in Loops : Same(s) /\ started'[s] = started[s]

\* What is said of them then is what was.
LEMMA LoopsAtKept == ASSUME LoopsKept, NEW k PROVE LoopsAt(k)' <=> LoopsAt(k)
<1>1. /\ started'["sched"] = started["sched"] /\ started'["tracker"] = started["tracker"]
      /\ started'["monitor"] = started["monitor"]
      /\ Same("sched") /\ Same("tracker") /\ Same("monitor")
  BY LabelFacts DEF LoopsKept
<1>2. SchedAt(k)' <=> SchedAt(k)
  BY <1>1 DEF SchedAt, Same
<1>3. ServiceAt("tracker", k)' <=> ServiceAt("tracker", k)
  BY <1>1 DEF ServiceAt, Same
<1>4. ServiceAt("monitor", k)' <=> ServiceAt("monitor", k)
  BY <1>1 DEF ServiceAt, Same
<1>5. QED
  BY <1>2, <1>3, <1>4 DEF LoopsAt

\* Labels outside are all the same.
LEMMA LoopsAtIdle ==
    ASSUME NEW k, k \notin Busy
    PROVE  /\ LoopsAt(k) <=> LoopsAt("idle")
           /\ LoopsAt(k)' <=> LoopsAt("idle")'
<1>1. /\ k \notin Hold \cup Path /\ "idle" \notin Hold \cup Path
      /\ \A s : /\ k \notin Before(s) /\ k \notin Ahead(s) /\ k \notin Awaited(s)
                /\ "idle" \notin Before(s) /\ "idle" \notin Ahead(s) /\ "idle" \notin Awaited(s)
  BY DEF Busy, Hold, Path, Before, Ahead, Awaited
<1>2. QED
  BY <1>1 DEF LoopsAt, SchedAt, ServiceAt

\* A step elsewhere.
LEMMA QuietElsewhere ==
    ASSUME Quiet, Unmixed', NEW c \in Clients, NEW k, NEW l, Moved(c, k, l), k \notin Busy,
           l \notin Busy, LoopsKept, \A d \in Clients \ {c} : target'[d] = target[d]
    PROVE  Quiet'
<1>1. \A d \in Clients : /\ pc'[d] \in Busy => d # c /\ pc'[d] = pc[d] /\ target'[d] = target[d]
                         /\ pc[d] \in Busy => pc'[d] = pc[d]
  BY DEF Moved
<1>2. \A s \in Loops : latest'[s] = latest[s]
  BY DEF LoopsKept, Same
<1>3. \A j : LoopsAt(j)' <=> LoopsAt(j)
  BY LoopsAtKept
<1>4. \A d, e \in Clients : pc'[d] \in Path /\ pc'[e] \in Path => d = e
  BY <1>1 DEF Quiet, Busy
<1>5. ASSUME NEW d \in Clients
      PROVE  /\ pc'[d] \in Hold \cup Path => LoopsAt(pc[d])'
             /\ pc'[d] = "tracker.join" => target'[d] = latest'["tracker"]
             /\ pc'[d] = "monitor.join" => target'[d] = latest'["monitor"]
             /\ pc'[d] = "sched.join" => target'[d] = latest'["sched"]
  <2>1. CASE pc'[d] \notin Busy
    BY <2>1 DEF Busy, Path
  <2>2. CASE pc'[d] \in Busy
    <3>1. PICK j : j = pc[d]
      OBVIOUS
    <3>2. LoopsAt(j)
      BY <1>1, <2>2, <3>1 DEF Quiet, Busy
    <3>3. pc'[d] = j /\ LoopsAt(j)'
      BY <1>1, <1>3, <2>2, <3>1, <3>2
    <3>4. LoopsAt(pc[d])'
      BY <3>3
    <3>5. QED
      BY <1>1, <1>2, <2>2, <3>4, LabelFacts DEF Quiet
  <2>3. QED
    BY <2>1, <2>2
<1>6. (\A d \in Clients : pc'[d] \notin Hold \cup Path) => LoopsAt("idle")'
  <2>1. (\A d \in Clients : pc'[d] \notin Hold \cup Path)
          => \A d \in Clients : pc[d] \notin Hold \cup Path
    BY <1>1 DEF Busy
  <2>2. QED
    BY <1>3, <2>1 DEF Quiet
<1>7. QED
  BY <1>4, <1>5, <1>6 DEF Quiet

\* A step of the only client that starts or stops the loops.
LEMMA QuietHere ==
    ASSUME Unmixed', NEW c \in Clients, NEW k, NEW l, Moved(c, k, l),
           \A d \in Clients \ {c} : pc[d] \notin Busy,
           LoopsAt(l)',
           l = "tracker.join" => target'[c] = latest'["tracker"],
           l = "monitor.join" => target'[c] = latest'["monitor"],
           l = "sched.join" => target'[c] = latest'["sched"]
    PROVE  Quiet'
<1>1. pc'[c] = l /\ \A d \in Clients \ {c} : pc'[d] \notin Busy
  BY DEF Moved
<1>2. l \notin Busy => LoopsAt("idle")'
  BY LoopsAtIdle
<1>3. LoopsAt(pc[c])'
  BY <1>1
<1>4. ASSUME NEW d \in Clients
      PROVE  /\ pc'[d] \in Hold \cup Path => LoopsAt(pc[d])'
             /\ pc'[d] = "tracker.join" => target'[d] = latest'["tracker"]
             /\ pc'[d] = "monitor.join" => target'[d] = latest'["monitor"]
             /\ pc'[d] = "sched.join" => target'[d] = latest'["sched"]
  <2>1. CASE d = c
    BY <1>1, <1>3, <2>1
  <2>2. CASE d # c
    BY <1>1, <2>2 DEF Busy, Path
  <2>3. QED
    BY <2>1, <2>2
<1>5. QED
  BY <1>1, <1>2, <1>4 DEF Quiet, Busy

\* The labels of the loops' services.
LEMMA StageFacts ==
    /\ Before("tracker") = {"tracker.start"}
    /\ Before("monitor") = {"tracker.start", "monitor.start"}
    /\ Ahead("tracker") = {"tracker.stop"}
    /\ Ahead("monitor") = {"tracker.stop", "tracker.read", "tracker.join", "monitor.stop"}
    /\ Awaited("tracker") = {"tracker.read", "tracker.join"}
    /\ Awaited("monitor") = {"monitor.read", "monitor.join"}
  BY DEF Before, Ahead, Awaited

\* The flags and threads of the other services are as before.
Kept(r) == Same(r) /\ started'[r] = started[r]

\* Runtime.start keeps the loops in order.
LEMMA StartQuiet == ASSUME Base, Quiet, NEW c \in Clients, StartStep(c) PROVE Quiet'
<1>0. Shape /\ LockInv /\ Unmixed
  BY DEF Base, Quiet
<1>1. ASSUME NEW k, NEW l, Moved(c, k, l), Onwards(k, l), k \notin Busy, l \notin Busy, LoopsKept,
             target' = target
      PROVE  Quiet'
  BY <1>0, <1>1, UnmixedKept, QuietElsewhere
<1>2. ASSUME NEW k, NEW l, Moved(c, k, l), Onwards(k, l), l \notin Path, LoopsAt(l)',
             \A d \in Clients \ {c} : pc[d] \notin Busy
      PROVE  Quiet'
  <2>1. Unmixed' /\ l \notin {"tracker.join", "monitor.join", "sched.join"}
    BY <1>0, <1>2, UnmixedKept DEF Path
  <2>2. QED
    BY <1>2, <2>1, QuietHere
<1>3. ASSUME pc[c] \in Hold
      PROVE  LoopsAt(pc[c]) /\ \A d \in Clients \ {c} : pc[d] \notin Busy
  BY <1>3, OnlyOne DEF Quiet, Busy
<1>4. /\ Onwards("start", "sched.start") /\ Onwards("start", "crew") /\ Onwards("crew", "sched.start")
      /\ Onwards("crew", "idle") /\ Onwards("sched.start", "idle")
      /\ Onwards("sched.start", "tracker.start") /\ Onwards("tracker.start", "monitor.start")
      /\ Onwards("monitor.start", "sched.run") /\ Onwards("sched.run", "idle")
  BY DEF Onwards, Starting, Stopping
<1>5. /\ {"start", "crew", "sched.start", "idle"} \cap Busy = {}
      /\ {"tracker.start", "monitor.start", "sched.run"} \subseteq Hold
      /\ {"tracker.start", "monitor.start", "sched.run", "idle"} \cap Path = {}
  BY DEF Busy, Hold, Path
<1>6. CASE PoolStart(c)
  <2>1. LoopsKept
    BY <1>0, <1>6, PoolStartFacts, LabelFacts DEF LoopsKept, Same, Spawned, Turned
  <2>2. QED
    BY <1>0, <1>1, <1>4, <1>5, <1>6, <2>1, PoolStartFacts
<1>7. CASE PoolSupervise(c)
  <2>1. LoopsKept
    BY <1>0, <1>7, PoolSuperviseFacts, LabelFacts DEF LoopsKept, Same, Spawned
  <2>2. QED
    BY <1>0, <1>1, <1>4, <1>5, <1>7, <2>1, PoolSuperviseFacts
<1>8. CASE SchedStart(c)
  <2>1. CASE Moved(c, "sched.start", "idle") /\ started' = started
    <3>1. LoopsKept
      BY <1>0, <1>8, <2>1, SchedStartFacts DEF LoopsKept, Same
    <3>2. QED
      BY <1>0, <1>1, <1>4, <1>5, <1>8, <2>1, <3>1, SchedStartFacts
  <2>2. CASE Moved(c, "sched.start", "tracker.start") /\ Turned("sched", TRUE) /\ ~started["sched"]
    <3>1. \A d \in Clients : pc[d] \notin Busy
      <4>1. \A d \in Clients : pc[d] \notin Hold
        BY <1>0, <1>8, SchedStartFacts, ConstantsAssumption DEF LockInv
      <4>2. \A d \in Clients : pc[d] \notin Path
        BY <1>0, <2>2, BusyFacts DEF Unmixed, Moved, Starting
      <4>3. QED
        BY <4>1, <4>2 DEF Busy
    <3>2. LoopsAt("idle")
      BY <3>1 DEF Quiet, Busy
    <3>3. /\ started'["sched"] /\ started'["tracker"] = started["tracker"]
          /\ started'["monitor"] = started["monitor"] /\ live' = live /\ latest' = latest
      BY <1>0, <1>8, <2>2, SchedStartFacts, LabelFacts DEF Turned
    <3>4. LoopsAt("tracker.start")'
      BY <2>2, <3>2, <3>3, StageFacts DEF LoopsAt, SchedAt, ServiceAt, Hold, Path
    <3>5. QED
      BY <1>2, <1>4, <1>5, <2>2, <3>1, <3>4
  <2>3. QED
    BY <1>0, <1>8, <2>1, <2>2, SchedStartFacts
<1>9. CASE ServiceStart(c, "tracker", "tracker.start", "monitor.start")
  <2>1. /\ Moved(c, "tracker.start", "monitor.start")
        /\ \/ started["tracker"]
           \/ ~started["tracker"] /\ Turned("tracker", TRUE) /\ Spawned("tracker")
    BY <1>0, <1>9, ServiceStartFacts, LabelFacts
  <2>2. LoopsAt("tracker.start") /\ \A d \in Clients \ {c} : pc[d] \notin Busy
    BY <1>3, <1>5, <2>1 DEF Moved
  <2>3. ~started["tracker"] /\ ~started["monitor"] /\ live["tracker"] = {}
    BY <2>2, StageFacts DEF LoopsAt, ServiceAt, Hold
  <2>4. /\ started'["tracker"] /\ live'["tracker"] = {latest'["tracker"]}
        /\ Kept("sched") /\ Kept("monitor")
    BY <2>1, <2>3, LabelFacts DEF Turned, Spawned, Kept
  <2>5. LoopsAt("monitor.start")'
    BY <2>2, <2>3, <2>4, StageFacts DEF LoopsAt, SchedAt, ServiceAt, Hold, Path, Kept, Same
  <2>6. QED
    BY <1>2, <1>4, <1>5, <2>1, <2>2, <2>5
<1>10. CASE ServiceStart(c, "monitor", "monitor.start", "sched.run")
  <2>1. /\ Moved(c, "monitor.start", "sched.run")
        /\ \/ started["monitor"]
           \/ ~started["monitor"] /\ Turned("monitor", TRUE) /\ Spawned("monitor")
    BY <1>0, <1>10, ServiceStartFacts, LabelFacts
  <2>2. LoopsAt("monitor.start") /\ \A d \in Clients \ {c} : pc[d] \notin Busy
    BY <1>3, <1>5, <2>1 DEF Moved
  <2>3. started["tracker"] /\ ~started["monitor"] /\ live["monitor"] = {}
    BY <2>2, StageFacts DEF LoopsAt, ServiceAt, Hold
  <2>4. /\ started'["monitor"] /\ live'["monitor"] = {latest'["monitor"]}
        /\ Kept("sched") /\ Kept("tracker")
    BY <2>1, <2>3, LabelFacts DEF Turned, Spawned, Kept
  <2>5. LoopsAt("sched.run")'
    BY <2>2, <2>3, <2>4, StageFacts DEF LoopsAt, SchedAt, ServiceAt, Hold, Path, Kept, Same
  <2>6. QED
    BY <1>2, <1>4, <1>5, <2>1, <2>2, <2>5
<1>11. CASE SchedRun(c)
  <2>1. Moved(c, "sched.run", "idle") /\ Spawned("sched") /\ started' = started
    BY <1>0, <1>11, SchedRunFacts
  <2>2. LoopsAt("sched.run") /\ \A d \in Clients \ {c} : pc[d] \notin Busy
    BY <1>3, <1>5, <2>1 DEF Moved
  <2>3. started["sched"] /\ started["tracker"] /\ started["monitor"] /\ live["sched"] = {}
    BY <2>2, StageFacts DEF LoopsAt, SchedAt, ServiceAt, Hold
  <2>4. live'["sched"] = {latest'["sched"]} /\ Kept("tracker") /\ Kept("monitor")
    BY <2>1, <2>3, LabelFacts DEF Spawned, Kept
  <2>5. LoopsAt("idle")'
    BY <2>1, <2>2, <2>3, <2>4, StageFacts DEF LoopsAt, SchedAt, ServiceAt, Hold, Path, Kept, Same
  <2>6. QED
    BY <1>2, <1>4, <1>5, <2>1, <2>2, <2>5
<1>12. QED
  BY <1>6, <1>7, <1>8, <1>9, <1>10, <1>11 DEF StartStep

\* So does Runtime.stop.
LEMMA StopQuiet == ASSUME Base, Quiet, NEW c \in Clients, StopStep(c) PROVE Quiet'
<1>0. Shape /\ LockInv /\ Unmixed
  BY DEF Base, Quiet
<1>1. ASSUME NEW k, NEW l, Moved(c, k, l), Onwards(k, l), k \notin Busy, l \notin Busy, LoopsKept,
             \A d \in Clients \ {c} : target'[d] = target[d]
      PROVE  Quiet'
  BY <1>0, <1>1, UnmixedKept, QuietElsewhere
<1>2. ASSUME NEW k, NEW l, Moved(c, k, l), Onwards(k, l), LoopsAt(l)',
             \A d \in Clients \ {c} : pc[d] \notin Busy,
             l = "tracker.join" => target'[c] = latest'["tracker"],
             l = "monitor.join" => target'[c] = latest'["monitor"],
             l = "sched.join" => target'[c] = latest'["sched"]
      PROVE  Quiet'
  BY <1>0, <1>2, UnmixedKept, QuietHere
<1>3. ASSUME NEW k \in Path, pc[c] = k
      PROVE  LoopsAt(k) /\ \A d \in Clients \ {c} : pc[d] \notin Busy
  BY <1>3, OnlyOne DEF Quiet, Busy
<1>4. \A k, l : k \in Stopping /\ l \in Stopping \cup {"idle"} => Onwards(k, l)
  BY BusyFacts DEF Onwards
<1>5. /\ {"stop", "pool.stop", "crew.tell", "crew.join", "supervisor.join", "idle"} \cap Busy = {}
      /\ {"stop", "pool.stop", "crew.tell", "crew.join", "supervisor.join"} \subseteq Stopping
      /\ Path \subseteq Stopping
  BY DEF Busy, Hold, Path, Stopping
<1>6. CASE SchedStop(c)
  <2>1. /\ lock["sched"] = None /\ latest' = latest /\ live' = live /\ target' = target
        /\ \/ Moved(c, "stop", "tracker.stop") /\ started["sched"] /\ Turned("sched", FALSE)
           \/ Moved(c, "stop", "pool.stop") /\ started' = started
    BY <1>0, <1>6, HaltFacts, LabelFacts DEF SchedStop
  <2>2. CASE Moved(c, "stop", "pool.stop") /\ started' = started
    <3>1. LoopsKept
      BY <2>1, <2>2 DEF LoopsKept, Same
    <3>2. QED
      BY <1>1, <1>4, <1>5, <2>1, <2>2, <3>1
  <2>3. CASE Moved(c, "stop", "tracker.stop") /\ started["sched"] /\ Turned("sched", FALSE)
    <3>1. ASSUME NEW d \in Clients PROVE pc[d] \notin Busy
      <4>1. pc[d] \notin Hold
        BY <1>0, <2>1, ConstantsAssumption DEF LockInv
      <4>2. pc[d] \notin Path
        BY <2>3 DEF Quiet, LoopsAt, SchedAt
      <4>3. QED
        BY <4>1, <4>2 DEF Busy
    <3>2. LoopsAt("idle")
      BY <3>1 DEF Quiet, Busy
    <3>3. /\ ~started'["sched"] /\ started'["tracker"] = started["tracker"]
          /\ started'["monitor"] = started["monitor"]
      BY <2>3, LabelFacts DEF Turned
    <3>4. LoopsAt("tracker.stop")'
      BY <2>1, <2>3, <3>2, <3>3, StageFacts DEF LoopsAt, SchedAt, ServiceAt, Hold, Path
    <3>5. Onwards("stop", "tracker.stop")
      BY <1>4, <1>5 DEF Path
    <3>6. QED
      BY <1>2, <2>3, <3>1, <3>4, <3>5
  <2>4. QED
    BY <2>1, <2>2, <2>3
<1>7. CASE ServiceStop(c, "tracker", "tracker.stop", "tracker.read", "monitor.stop")
  <2>1. /\ latest' = latest /\ live' = live
        /\ \/ Moved(c, "tracker.stop", "tracker.read") /\ Turned("tracker", FALSE)
           \/ Moved(c, "tracker.stop", "monitor.stop") /\ ~started["tracker"]
    BY <1>0, <1>7, HaltFacts, LabelFacts DEF ServiceStop
  <2>2. LoopsAt("tracker.stop") /\ \A d \in Clients \ {c} : pc[d] \notin Busy
    BY <1>3, <2>1 DEF Moved, Path
  <2>3. started["tracker"]
    BY <2>2, StageFacts DEF LoopsAt, ServiceAt, Path
  <2>4. Moved(c, "tracker.stop", "tracker.read") /\ Turned("tracker", FALSE)
    BY <2>1, <2>3
  <2>5. ~started'["tracker"] /\ Kept("sched") /\ Kept("monitor")
    BY <2>1, <2>4, LabelFacts DEF Turned, Kept, Same
  <2>6. LoopsAt("tracker.read")'
    BY <2>1, <2>2, <2>3, <2>5, StageFacts DEF LoopsAt, SchedAt, ServiceAt, Hold, Path, Kept, Same
  <2>7. Onwards("tracker.stop", "tracker.read")
    BY <1>4, <1>5 DEF Path
  <2>8. QED
    BY <1>2, <2>2, <2>4, <2>6, <2>7
<1>8. CASE ServiceStop(c, "monitor", "monitor.stop", "monitor.read", "sched.read")
  <2>1. /\ latest' = latest /\ live' = live
        /\ \/ Moved(c, "monitor.stop", "monitor.read") /\ Turned("monitor", FALSE)
           \/ Moved(c, "monitor.stop", "sched.read") /\ ~started["monitor"]
    BY <1>0, <1>8, HaltFacts, LabelFacts DEF ServiceStop
  <2>2. LoopsAt("monitor.stop") /\ \A d \in Clients \ {c} : pc[d] \notin Busy
    BY <1>3, <2>1 DEF Moved, Path
  <2>3. started["monitor"]
    BY <2>2, StageFacts DEF LoopsAt, ServiceAt, Path
  <2>4. Moved(c, "monitor.stop", "monitor.read") /\ Turned("monitor", FALSE)
    BY <2>1, <2>3
  <2>5. ~started'["monitor"] /\ Kept("sched") /\ Kept("tracker")
    BY <2>1, <2>4, LabelFacts DEF Turned, Kept, Same
  <2>6. LoopsAt("monitor.read")'
    BY <2>1, <2>2, <2>3, <2>5, StageFacts DEF LoopsAt, SchedAt, ServiceAt, Hold, Path, Kept, Same
  <2>7. Onwards("monitor.stop", "monitor.read")
    BY <1>4, <1>5 DEF Path
  <2>8. QED
    BY <1>2, <2>2, <2>4, <2>6, <2>7
<1>9. ASSUME NEW s \in Loops, NEW k \in Path, NEW l \in Path, ReadThread(c, s, k, l),
             LoopsAt(k) => LoopsAt(l),
             <<s, l>> \in {<<"tracker", "tracker.join">>, <<"monitor", "monitor.join">>,
                           <<"sched", "sched.join">>}
      PROVE  Quiet'
  <2>1. /\ Moved(c, k, l) /\ target'[c] = latest[s] /\ latest' = latest /\ live' = live
        /\ started' = started
    BY <1>0, <1>9, <1>5, ReadFacts DEF Labels, Services
  <2>2. LoopsAt(k) /\ \A d \in Clients \ {c} : pc[d] \notin Busy
    BY <1>3, <2>1 DEF Moved
  <2>3. LoopsKept
    BY <2>1 DEF LoopsKept, Same
  <2>4. LoopsAt(l)'
    BY <1>9, <2>2, <2>3, LoopsAtKept
  <2>5. Onwards(k, l)
    BY <1>4, <1>5
  <2>6. QED
    BY <1>2, <1>9, <2>1, <2>2, <2>4, <2>5
<1>10. /\ LoopsAt("tracker.read") => LoopsAt("tracker.join")
       /\ LoopsAt("monitor.read") => LoopsAt("monitor.join")
       /\ LoopsAt("sched.read") => LoopsAt("sched.join")
  BY StageFacts DEF LoopsAt, SchedAt, ServiceAt, Hold, Path
<1>11. CASE \/ ReadThread(c, "tracker", "tracker.read", "tracker.join")
            \/ ReadThread(c, "monitor", "monitor.read", "monitor.join")
            \/ ReadThread(c, "sched", "sched.read", "sched.join")
  <2>1. {"tracker.read", "tracker.join", "monitor.read", "monitor.join", "sched.read",
         "sched.join"} \subseteq Path
    BY DEF Path
  <2>2. QED
    BY <1>9, <1>10, <1>11, <2>1, LabelFacts
<1>12. CASE Join(c, "tracker", "tracker.join", "monitor.stop")
  <2>1. /\ Moved(c, "tracker.join", "monitor.stop") /\ target[c] \notin live["tracker"]
        /\ latest' = latest /\ live' = live /\ started' = started
    BY <1>0, <1>12, JoinFacts, LabelFacts
  <2>2. LoopsAt("tracker.join") /\ \A d \in Clients \ {c} : pc[d] \notin Busy
    BY <1>3, <2>1 DEF Moved, Path
  <2>3. target[c] = latest["tracker"]
    BY <2>1 DEF Moved, Quiet
  <2>4. live["tracker"] \subseteq {latest["tracker"]}
    BY <2>2, StageFacts DEF LoopsAt, ServiceAt, Path
  <2>5. live["tracker"] = {}
    BY <2>1, <2>3, <2>4
  <2>6. LoopsAt("monitor.stop")'
    BY <2>1, <2>2, <2>5, StageFacts DEF LoopsAt, SchedAt, ServiceAt, Hold, Path
  <2>7. Onwards("tracker.join", "monitor.stop")
    BY <1>4, <1>5 DEF Path
  <2>8. QED
    BY <1>2, <2>1, <2>2, <2>6, <2>7
<1>13. CASE Join(c, "monitor", "monitor.join", "sched.read")
  <2>1. /\ Moved(c, "monitor.join", "sched.read") /\ target[c] \notin live["monitor"]
        /\ latest' = latest /\ live' = live /\ started' = started
    BY <1>0, <1>13, JoinFacts, LabelFacts
  <2>2. LoopsAt("monitor.join") /\ \A d \in Clients \ {c} : pc[d] \notin Busy
    BY <1>3, <2>1 DEF Moved, Path
  <2>3. target[c] = latest["monitor"]
    BY <2>1 DEF Moved, Quiet
  <2>4. live["monitor"] \subseteq {latest["monitor"]}
    BY <2>2, StageFacts DEF LoopsAt, ServiceAt, Path
  <2>5. live["monitor"] = {}
    BY <2>1, <2>3, <2>4
  <2>6. LoopsAt("sched.read")'
    BY <2>1, <2>2, <2>5, StageFacts DEF LoopsAt, SchedAt, ServiceAt, Hold, Path
  <2>7. Onwards("monitor.join", "sched.read")
    BY <1>4, <1>5 DEF Path
  <2>8. QED
    BY <1>2, <2>1, <2>2, <2>6, <2>7
<1>14. CASE SchedStopped(c)
  <2>1. /\ Moved(c, "sched.join", "pool.stop") \/ Moved(c, "sched.join", "idle")
        /\ target[c] \notin live["sched"] /\ latest' = latest /\ live' = live /\ started' = started
    BY <1>0, <1>14, SchedStoppedFacts
  <2>2. LoopsAt("sched.join") /\ \A d \in Clients \ {c} : pc[d] \notin Busy
    BY <1>3, <2>1 DEF Moved, Path
  <2>3. target[c] = latest["sched"]
    BY <2>1 DEF Moved, Quiet
  <2>4. live["sched"] \subseteq {latest["sched"]}
    BY <2>2 DEF LoopsAt, SchedAt, Path
  <2>5. live["sched"] = {}
    BY <2>1, <2>3, <2>4
  <2>6. LoopsAt("idle")'
    BY <2>1, <2>2, <2>5, StageFacts DEF LoopsAt, SchedAt, ServiceAt, Hold, Path
  <2>7. LoopsAt("pool.stop")'
    BY <2>6, LoopsAtIdle, BusyFacts
  <2>8. Onwards("sched.join", "pool.stop") /\ Onwards("sched.join", "idle")
    BY <1>4, <1>5 DEF Path
  <2>9. QED
    BY <1>2, <2>1, <2>2, <2>6, <2>7, <2>8
<1>15. CASE PoolStop(c)
  <2>1. LoopsKept
    BY <1>0, <1>15, PoolStopFacts, LabelFacts DEF LoopsKept, Same, Turned
  <2>2. QED
    BY <1>0, <1>1, <1>4, <1>5, <1>15, <2>1, PoolStopFacts
<1>16. CASE TellCrew(c)
  <2>1. LoopsKept
    BY <1>0, <1>16, TellCrewFacts DEF LoopsKept, Same
  <2>2. QED
    BY <1>0, <1>1, <1>4, <1>5, <1>16, <2>1, TellCrewFacts
<1>17. CASE JoinCrew(c)
  <2>1. LoopsKept
    BY <1>0, <1>17, JoinCrewFacts DEF LoopsKept, Same
  <2>2. QED
    BY <1>0, <1>1, <1>4, <1>5, <1>17, <2>1, JoinCrewFacts
<1>18. CASE JoinSupervisor(c)
  <2>1. LoopsKept
    BY <1>0, <1>18, JoinSupervisorFacts DEF LoopsKept, Same
  <2>2. QED
    BY <1>0, <1>1, <1>4, <1>5, <1>18, <2>1, JoinSupervisorFacts
<1>19. QED
  BY <1>6, <1>7, <1>8, <1>11, <1>12, <1>13, <1>14, <1>15, <1>16, <1>17, <1>18 DEF StopStep

\* The flag of a service and its _stop_event are written together.
LEMMA FlagStep == Base /\ FlagInv /\ [Next]_vars => FlagInv'
<1> SUFFICES ASSUME Base, FlagInv, [Next]_vars PROVE FlagInv'
  OBVIOUS
<1>0. started \in [Loops \cup {"pool"} -> BOOLEAN] /\ stop \in [Loops -> BOOLEAN] /\ "pool" \notin Loops
  BY DEF Base, Shape, Loops
<1>1. ASSUME UNCHANGED flags PROVE FlagInv'
  BY <1>1 DEF FlagInv, flags
<1>2. ASSUME NEW r \in Loops, started' = [started EXCEPT ![r] = TRUE],
             stop' = [stop EXCEPT ![r] = FALSE]
      PROVE  FlagInv'
  BY <1>0, <1>2 DEF FlagInv
<1>3. ASSUME NEW r \in Loops, started' = [started EXCEPT ![r] = FALSE],
             stop' = [stop EXCEPT ![r] = TRUE]
      PROVE  FlagInv'
  BY <1>0, <1>3 DEF FlagInv
<1>4. ASSUME NEW b, started' = [started EXCEPT !["pool"] = b], stop' = stop PROVE FlagInv'
  BY <1>0, <1>4 DEF FlagInv
<1>5. ASSUME NEW c \in Clients, StartStep(c) PROVE FlagInv'
  BY <1>1, <1>2, <1>4, <1>5, LabelFacts DEF StartStep, PoolStart, PoolSupervise, SchedStart,
     ServiceStart, SchedRun
<1>6. ASSUME NEW c \in Clients, NEW r \in Loops, NEW l, NEW m, Halt(c, r, l, m) PROVE FlagInv'
  BY <1>1, <1>3, <1>6 DEF Halt
<1>7. ASSUME NEW c \in Clients, StopStep(c) PROVE FlagInv'
  <2>1. CASE SchedStop(c)
    BY <1>6, <2>1, LabelFacts DEF SchedStop
  <2>2. CASE \/ ServiceStop(c, "tracker", "tracker.stop", "tracker.read", "monitor.stop")
             \/ ServiceStop(c, "monitor", "monitor.stop", "monitor.read", "sched.read")
    BY <1>6, <2>2, LabelFacts DEF ServiceStop
  <2>3. CASE PoolStop(c)
    BY <1>1, <1>4, <2>3 DEF PoolStop, flags
  <2>4. QED
    BY <1>1, <1>7, <2>1, <2>2, <2>3 DEF StopStep, ReadThread, Join, SchedStopped, TellCrew,
       JoinCrew, JoinSupervisor
<1>8. CASE ThreadExit \/ UNCHANGED vars
  BY <1>1, <1>8 DEF ThreadExit, LoopExit, SupervisorExit, CrewExit, Ends, vars
<1>9. ASSUME NEW c \in Clients, CallStart(c) \/ CallStop(c) PROVE FlagInv'
  BY <1>1, <1>9 DEF CallStart, CallStop, Call
<1>10. ASSUME NEW i, Heartbeat(i) PROVE FlagInv'
  BY <1>1, <1>10 DEF Heartbeat
<1>11. QED
  BY <1>5, <1>7, <1>8, <1>9, <1>10 DEF Next

\* No client moves.
LEMMA QuietStill ==
    ASSUME Quiet, pc' = pc, target' = target, latest' = latest,
           \A k : LoopsAt(k) => LoopsAt(k)'
    PROVE  Quiet'
<1>1. ASSUME NEW d \in Clients, pc[d] \in Hold \cup Path PROVE LoopsAt(pc[d])'
  <2>1. PICK j : j = pc[d]
    OBVIOUS
  <2>2. LoopsAt(j)' /\ pc'[d] = j
    BY <1>1, <2>1 DEF Quiet
  <2>3. QED
    BY <2>2
<1>2. QED
  BY <1>1 DEF Quiet, Unmixed

\* A loop that finds its _stop_event set ends.
LEMMA ExitQuiet ==
    ASSUME Base, FlagInv, Quiet, NEW s \in Loops, NEW i, LoopExit(s, i)
    PROVE  Quiet'
<1>1. /\ Ended(s, i) /\ UNCHANGED <<started, latest, pc, target>> /\ i \in live[s] /\ stop[s]
  BY EndsFacts DEF Base, LoopExit, Services
<1>2. ~started[s]
  BY <1>1 DEF FlagInv
<1>3. ASSUME NEW k, LoopsAt(k) PROVE LoopsAt(k)'
  <2>1. CASE s = "sched"
    <3>1. live'["sched"] = live["sched"] \ {i} /\ live'["tracker"] = live["tracker"]
          /\ live'["monitor"] = live["monitor"]
      BY <1>1, <2>1, LabelFacts DEF Ended
    <3>2. QED
      BY <1>1, <1>2, <1>3, <2>1, <3>1 DEF LoopsAt, SchedAt, ServiceAt
  <2>2. CASE s = "tracker"
    <3>1. live'["tracker"] = live["tracker"] \ {i} /\ live'["sched"] = live["sched"]
          /\ live'["monitor"] = live["monitor"]
      BY <1>1, <2>2, LabelFacts DEF Ended
    <3>2. QED
      BY <1>1, <1>2, <1>3, <2>2, <3>1 DEF LoopsAt, SchedAt, ServiceAt
  <2>3. CASE s = "monitor"
    <3>1. live'["monitor"] = live["monitor"] \ {i} /\ live'["sched"] = live["sched"]
          /\ live'["tracker"] = live["tracker"]
      BY <1>1, <2>3, LabelFacts DEF Ended
    <3>2. QED
      BY <1>1, <1>2, <1>3, <2>3, <3>1 DEF LoopsAt, SchedAt, ServiceAt
  <2>4. QED
    BY <2>1, <2>2, <2>3, LabelFacts
<1>4. QED
  BY <1>1, <1>3, QuietStill

\* A call begins; if it does not overlap one of the other kind, nothing is mixed.
LEMMA CallQuiet ==
    ASSUME Base, Quiet, NEW c \in Clients, CallStart(c) \/ CallStop(c), ~mixed'
    PROVE  Quiet'
<1>0. Shape /\ Unmixed
  BY DEF Base, Quiet
<1>1. ASSUME NEW what \in {"start", "stop"}, NEW others, Call(c, what, others), Unmixed'
      PROVE  Quiet'
  <2>1. /\ Moved(c, "idle", what) /\ target' = target /\ started' = started
        /\ latest' = latest /\ live' = live
    BY <1>0, <1>1, CallFacts, LabelFacts
  <2>2. LoopsKept
    BY <2>1 DEF LoopsKept, Same
  <2>3. what \notin Busy /\ "idle" \notin Busy
    BY DEF Busy, Hold, Path
  <2>4. QED
    BY <1>1, <2>1, <2>2, <2>3, QuietElsewhere
<1>2. CASE CallStart(c)
  <2>1. Moved(c, "idle", "start") /\ \A d \in Clients : pc[d] \notin Stopping
    BY <1>0, <1>2, CallFacts, LabelFacts DEF CallStart
  <2>2. \A d \in Clients : pc'[d] \notin Stopping
    BY <2>1 DEF Moved, Stopping
  <2>3. QED
    BY <1>1, <1>2, <2>2 DEF CallStart, Unmixed
<1>3. CASE CallStop(c)
  <2>1. Moved(c, "idle", "stop") /\ \A d \in Clients : pc[d] \notin Starting
    BY <1>0, <1>3, CallFacts, LabelFacts DEF CallStop
  <2>2. \A d \in Clients : pc'[d] \notin Starting
    BY <2>1 DEF Moved, Starting
  <2>3. QED
    BY <1>1, <1>3, <2>2 DEF CallStop, Unmixed
<1>4. QED
  BY <1>2, <1>3

\* Nothing is unmixed again.
LEMMA MixedStep == ASSUME Base, [Next]_vars PROVE mixed => mixed'
<1>0. Shape
  BY DEF Base
<1>1. \A c \in Clients : StartStep(c) => mixed' = mixed
  BY DEF StartStep, PoolStart, PoolSupervise, SchedStart, ServiceStart, SchedRun, Steps, Raises
<1>2. \A c \in Clients : StopStep(c) => mixed' = mixed
  BY DEF StopStep, SchedStop, ServiceStop, Halt, ReadThread, Join, SchedStopped, PoolStop, TellCrew,
     JoinCrew, JoinSupervisor, Steps, Raises
<1>3. QED
  BY <1>1, <1>2 DEF Next, CallStart, CallStop, Call, ThreadExit, LoopExit, SupervisorExit,
     CrewExit, Ends, Heartbeat, vars

\* Every step keeps the loops in order.
LEMMA LoopStep == Base /\ FlagInv /\ LoopInv /\ [Next]_vars => LoopInv'
<1> SUFFICES ASSUME Base, FlagInv, LoopInv, [Next]_vars, ~mixed' PROVE Quiet'
  BY DEF LoopInv
<1>1. Quiet /\ Shape
  BY MixedStep DEF LoopInv, Base
<1>2. ASSUME pc' = pc, target' = target, started' = started, LoopsKept, latest' = latest PROVE Quiet'
  BY <1>1, <1>2, LoopsAtKept, QuietStill
<1>3. ASSUME NEW s \in Services \ Loops, NEW i, Ends(s, i) PROVE Quiet'
  <2>1. Ended(s, i) /\ UNCHANGED <<started, latest, pc, target>>
    BY <1>1, <1>3, EndsFacts
  <2>2. LoopsKept
    BY <2>1 DEF LoopsKept, Same, Ended, Services
  <2>3. QED
    BY <1>2, <2>1, <2>2
<1>4. CASE ThreadExit
  BY <1>1, <1>3, <1>4, ExitQuiet, LabelFacts DEF ThreadExit, SupervisorExit, CrewExit
<1>5. ASSUME NEW i, Heartbeat(i) PROVE Quiet'
  <2>1. UNCHANGED <<started, latest, live, pc, target>>
    BY <1>1, <1>5, HeartbeatFacts
  <2>2. QED
    BY <1>2, <2>1 DEF LoopsKept, Same
<1>6. CASE UNCHANGED vars
  BY <1>2, <1>6 DEF LoopsKept, Same, vars, flags, threads
<1>7. QED
  BY <1>1, <1>4, <1>5, <1>6, StartQuiet, StopQuiet, CallQuiet DEF Next

----------------------------------------------------------------------------
(* The pool and the health monitor, while no append has raised.            *)

PoolBusy == PoolHold \cup PoolPath

\* The pool is as before.
PoolKept == /\ Same("crew") /\ Same("supervisor") /\ started'["pool"] = started["pool"]
            /\ told' = told /\ watched' = watched

\* So is what is said of it.
LEMMA PoolAtKept == ASSUME PoolKept, NEW k PROVE PoolAt(k)' <=> PoolAt(k)
  BY DEF PoolKept, Same, PoolAt

\* Labels outside are all the same.
LEMMA PoolAtIdle == ASSUME NEW k, k \notin PoolBusy PROVE PoolAt(k)' <=> PoolAt("idle")'
  BY DEF PoolBusy, PoolHold, PoolPath, PoolAt

\* A client that starts or stops the pool is the only one.
LEMMA OnlyOneAtPool ==
    ASSUME Base, Unmixed, PoolQuiet, NEW c \in Clients, NEW d \in Clients, pc[c] \in PoolBusy,
           pc[d] \in PoolBusy
    PROVE  c = d
<1>1. PoolHold \subseteq Starting /\ PoolPath \subseteq Stopping
  BY DEF PoolHold, PoolPath, Starting, Stopping
<1>2. CASE pc[c] \in PoolHold /\ pc[d] \in PoolHold
  BY <1>2 DEF Base, LockInv
<1>3. CASE pc[c] \in PoolPath /\ pc[d] \in PoolPath
  BY <1>3 DEF PoolQuiet
<1>4. CASE \/ pc[c] \in PoolHold /\ pc[d] \in PoolPath
           \/ pc[c] \in PoolPath /\ pc[d] \in PoolHold
  BY <1>1, <1>4 DEF Unmixed
<1>5. QED
  BY <1>2, <1>3, <1>4 DEF PoolBusy

\* A step elsewhere.
LEMMA PoolElsewhere ==
    ASSUME PoolQuiet, NEW c \in Clients, NEW k, NEW l, Moved(c, k, l), k \notin PoolBusy,
           l \notin PoolBusy, PoolKept, \A d \in Clients \ {c} : target'[d] = target[d]
    PROVE  PoolQuiet'
<1>1. \A d \in Clients : /\ pc'[d] \in PoolBusy => d # c /\ pc'[d] = pc[d] /\ target'[d] = target[d]
                         /\ pc[d] \in PoolBusy => pc'[d] = pc[d]
  BY DEF Moved
<1>2. latest'["crew"] = latest["crew"]
  BY DEF PoolKept, Same
<1>3. \A j : PoolAt(j)' <=> PoolAt(j)
  BY PoolAtKept
<1>4. \A d, e \in Clients : pc'[d] \in PoolPath /\ pc'[e] \in PoolPath => d = e
  BY <1>1 DEF PoolQuiet, PoolBusy
<1>5. ASSUME NEW d \in Clients
      PROVE  /\ pc'[d] \in PoolHold \cup PoolPath => PoolAt(pc[d])'
             /\ pc'[d] \in {"crew.tell", "crew.join"} => target'[d] = latest'["crew"]
  <2>1. CASE pc'[d] \notin PoolBusy
    BY <2>1 DEF PoolBusy, PoolPath
  <2>2. CASE pc'[d] \in PoolBusy
    <3>1. PICK j : j = pc[d]
      OBVIOUS
    <3>2. PoolAt(j)
      BY <1>1, <2>2, <3>1 DEF PoolQuiet, PoolBusy
    <3>3. pc'[d] = j /\ PoolAt(j)'
      BY <1>1, <1>3, <2>2, <3>1, <3>2
    <3>4. PoolAt(pc[d])'
      BY <3>3
    <3>5. QED
      BY <1>1, <1>2, <2>2, <3>4 DEF PoolQuiet
  <2>3. QED
    BY <2>1, <2>2
<1>6. (\A d \in Clients : pc'[d] \notin PoolHold \cup PoolPath) => PoolAt("idle")'
  <2>1. (\A d \in Clients : pc'[d] \notin PoolHold \cup PoolPath)
          => \A d \in Clients : pc[d] \notin PoolHold \cup PoolPath
    BY <1>1 DEF PoolBusy
  <2>2. QED
    BY <1>3, <2>1 DEF PoolQuiet
<1>7. QED
  BY <1>4, <1>5, <1>6 DEF PoolQuiet

\* A step of the only client that starts or stops the pool.
LEMMA PoolHere ==
    ASSUME NEW c \in Clients, NEW k, NEW l, Moved(c, k, l),
           \A d \in Clients \ {c} : pc[d] \notin PoolBusy, PoolAt(l)',
           l \in {"crew.tell", "crew.join"} => target'[c] = latest'["crew"]
    PROVE  PoolQuiet'
<1>1. pc'[c] = l /\ \A d \in Clients \ {c} : pc'[d] \notin PoolBusy
  BY DEF Moved
<1>2. l \notin PoolBusy => PoolAt("idle")'
  BY PoolAtIdle
<1>3. PoolAt(pc[c])'
  BY <1>1
<1>4. ASSUME NEW d \in Clients
      PROVE  /\ pc'[d] \in PoolHold \cup PoolPath => PoolAt(pc[d])'
             /\ pc'[d] \in {"crew.tell", "crew.join"} => target'[d] = latest'["crew"]
  <2>1. CASE d = c
    BY <1>1, <1>3, <2>1
  <2>2. CASE d # c
    BY <1>1, <2>2 DEF PoolBusy, PoolPath
  <2>3. QED
    BY <2>1, <2>2
<1>5. QED
  BY <1>1, <1>2, <1>4 DEF PoolQuiet, PoolBusy

\* The same for what HealthMonitor has heard of the scheduler.
LEMMA HeardElsewhere ==
    ASSUME Heard, NEW c \in Clients, NEW k, NEW l, Moved(c, k, l), k \notin Busy, l \notin Busy,
           running' = running, started'["sched"] = started["sched"]
    PROVE  Heard'
<1>1. \A d \in Clients : pc'[d] \in Busy \/ pc[d] \in Busy => pc'[d] = pc[d]
  BY DEF Moved
<1>2. QED
  BY <1>1 DEF Heard, HeardAt, Busy

\* A step of the client that starts or stops the scheduler.
LEMMA HeardHere ==
    ASSUME NEW c \in Clients, NEW k, NEW l, Moved(c, k, l),
           \A d \in Clients \ {c} : pc[d] \notin Busy, HeardAt(l)'
    PROVE  Heard'
<1>1. pc'[c] = l /\ \A d \in Clients \ {c} : pc'[d] \notin Busy
  BY DEF Moved
<1>2. QED
  BY <1>1 DEF Heard, HeardAt, Busy, Hold, Path

\* A client moves, and neither flag changes.
LEMMA LinkedKept ==
    ASSUME Linked, NEW c \in Clients, NEW k, NEW l, Moved(c, k, l),
           started'["sched"] = started["sched"], started'["pool"] = started["pool"],
           l = "sched.start" => started["pool"], l = "pool.stop" => ~started["sched"],
           \/ k \notin Linking \/ l \in Linking
           \/ started["sched"] \/ ~started["pool"]
    PROVE  Linked'
<1>1. \A d \in Clients : /\ pc'[d] = "sched.start" => started'["pool"]
                         /\ pc'[d] = "pool.stop" => ~started'["sched"]
  BY DEF Linked, Moved
<1>2. started'["sched"] => started'["pool"]
  BY DEF Linked
<1>3. ASSUME started'["pool"], ~started'["sched"] PROVE \E d \in Clients : pc'[d] \in Linking
  <2>1. PICK d \in Clients : pc[d] \in Linking
    BY <1>3 DEF Linked
  <2>2. CASE d = c
    BY <1>3, <2>1, <2>2 DEF Moved
  <2>3. CASE d # c
    BY <2>1, <2>3 DEF Moved
  <2>4. QED
    BY <2>2, <2>3
<1>4. QED
  BY <1>1, <1>2, <1>3 DEF Linked

\* Runtime.start keeps pool and health in order.
LEMMA StartClean ==
    ASSUME Base, Quiet, Clean, NEW c \in Clients, StartStep(c), ~raised'
    PROVE  Clean'
<1>0. Shape /\ LockInv /\ NumberInv /\ Unmixed /\ PoolQuiet /\ Linked /\ Heard
  BY DEF Base, Quiet, Clean
<1>1. /\ {"start", "sched.start", "tracker.start", "monitor.start", "sched.run", "idle"}
           \cap PoolBusy = {}
      /\ {"start", "crew", "sched.start", "idle"} \cap Busy = {}
      /\ "crew" \in PoolHold /\ "crew" \in PoolBusy
      /\ {"tracker.start", "monitor.start", "sched.run"} \subseteq Hold
      /\ {"tracker.start", "monitor.start", "sched.run"} \cap Path = {}
      /\ {"start", "tracker.start", "monitor.start", "sched.run", "idle"} \cap Linking = {}
      /\ {"crew", "sched.start"} \subseteq Linking
  BY DEF PoolBusy, PoolHold, PoolPath, Busy, Hold, Path, Linking
<1>2. ASSUME pc[c] \in Busy PROVE \A d \in Clients \ {c} : pc[d] \notin Busy
  BY <1>2, OnlyOne
<1>3. CASE PoolStart(c)
  <2>1. CASE Moved(c, "start", "sched.start") /\ started["pool"]
             /\ UNCHANGED <<started, latest, live, lock>>
    <3>1. PoolKept /\ running' = running /\ target' = target
      BY <1>0, <1>3, <2>1, PoolStartFacts DEF PoolKept, Same
    <3>2. PoolQuiet'
      BY <1>0, <1>1, <2>1, <3>1, PoolElsewhere
    <3>3. Heard'
      BY <1>0, <1>1, <2>1, <3>1, HeardElsewhere
    <3>4. Linked'
      BY <1>0, <1>1, <2>1, LinkedKept
    <3>5. QED
      BY <3>2, <3>3, <3>4 DEF Clean
  <2>2. CASE Moved(c, "start", "crew") /\ ~started["pool"] /\ Turned("pool", TRUE) /\ Spawned("crew")
    <3>1. /\ lock["pool"] = None /\ told' = told /\ running' = running /\ pc[c] \in Starting
      BY <1>0, <1>3, <2>2, PoolStartFacts DEF Moved, Starting
    <3>2. ASSUME NEW d \in Clients PROVE pc[d] \notin PoolBusy
      <4>1. pc[d] \notin PoolHold
        BY <1>0, <3>1, ConstantsAssumption DEF LockInv
      <4>2. pc[d] \notin PoolPath
        BY <1>0, <3>1 DEF Unmixed, PoolPath, Stopping
      <4>3. QED
        BY <4>1, <4>2 DEF PoolBusy
    <3>3. live["crew"] = {} /\ live["supervisor"] = {}
      BY <1>0, <1>1, <2>2, <3>2 DEF PoolQuiet, PoolAt, PoolBusy
    <3>4. latest'["crew"] = latest["crew"] + 1 /\ live'["crew"] = {latest'["crew"]}
          /\ live'["supervisor"] = {} /\ started'["pool"] /\ started'["sched"] = started["sched"]
      BY <2>2, <3>3, LabelFacts DEF Spawned, Same, Turned
    <3>5. latest'["crew"] \notin told'
      <4>1. latest["crew"] \in Nat /\ told \subseteq 1..latest["crew"]
        BY <1>0, LabelFacts DEF Shape, NumberInv
      <4>2. latest["crew"] + 1 \notin 1..latest["crew"]
        BY <4>1
      <4>3. QED
        BY <3>1, <3>4, <4>1, <4>2
    <3>6. PoolAt("crew")'
      BY <3>4, <3>5 DEF PoolAt, PoolHold, PoolPath
    <3>7. PoolQuiet'
      BY <2>2, <3>2, <3>6, PoolHere
    <3>8. Heard'
      BY <1>0, <1>1, <2>2, <3>1, <3>4, HeardElsewhere
    <3>9. Linked'
      <4>1. ~started["sched"]
        BY <1>0, <2>2 DEF Linked
      <4>2. pc'[c] \in Linking
        BY <1>1, <2>2 DEF Moved
      <4>3. QED
        BY <1>0, <2>2, <3>4, <4>1, <4>2 DEF Linked, Moved
    <3>10. QED
      BY <3>7, <3>8, <3>9 DEF Clean
  <2>3. QED
    BY <1>0, <1>3, <2>1, <2>2, PoolStartFacts
<1>4. CASE PoolSupervise(c)
  <2>1. /\ Moved(c, "crew", "sched.start") /\ Spawned("supervisor") /\ watched' = TRUE
        /\ UNCHANGED <<started, told, running>>
    BY <1>0, <1>4, PoolSuperviseFacts DEF Failed
  <2>2. \A d \in Clients \ {c} : pc[d] \notin PoolBusy
    BY <1>0, <1>1, <2>1, OnlyOneAtPool DEF Moved
  <2>3. PoolAt("crew")
    BY <1>0, <1>1, <2>1 DEF PoolQuiet, Moved
  <2>4. /\ started["pool"] /\ live["supervisor"] = {} /\ live["crew"] = {latest["crew"]}
        /\ latest["crew"] \notin told
    BY <1>1, <2>3 DEF PoolAt
  <2>5. live'["supervisor"] = {latest'["supervisor"]} /\ Same("crew")
    BY <2>1, <2>4, LabelFacts DEF Spawned
  <2>6. PoolAt("sched.start")'
    BY <2>1, <2>4, <2>5 DEF PoolAt, PoolHold, PoolPath, Same
  <2>7. PoolQuiet'
    BY <2>1, <2>2, <2>6, PoolHere
  <2>8. Heard'
    BY <1>0, <1>1, <2>1, HeardElsewhere
  <2>9. Linked'
    BY <1>0, <1>1, <2>1, <2>4, LinkedKept
  <2>10. QED
    BY <2>7, <2>8, <2>9 DEF Clean
<1>5. CASE SchedStart(c)
  <2>0. started'["pool"] = started["pool"] /\ target' = target /\ running' = running
    BY <1>0, <1>5, SchedStartFacts DEF Turned
  <2>1. PoolKept
    BY <1>0, <1>5, <2>0, SchedStartFacts DEF PoolKept, Same
  <2>2. PoolQuiet'
    BY <1>0, <1>1, <1>5, <2>0, <2>1, SchedStartFacts, PoolElsewhere
  <2>3. CASE Moved(c, "sched.start", "idle") /\ started["sched"] /\ started' = started
    <3>1. Heard'
      BY <1>0, <1>1, <2>0, <2>3, HeardElsewhere
    <3>2. Linked'
      BY <1>0, <1>1, <2>3, LinkedKept
    <3>3. QED
      BY <2>2, <3>1, <3>2 DEF Clean
  <2>4. CASE Moved(c, "sched.start", "tracker.start") /\ ~started["sched"] /\ Turned("sched", TRUE)
             /\ lock["sched"] = None
    <3>1. \A d \in Clients : pc[d] \notin Stopping
      BY <1>0, <2>4 DEF Unmixed, Moved, Starting
    <3>2. \A d \in Clients : pc[d] \notin Busy
      <4>1. \A d \in Clients : pc[d] \notin Hold
        BY <1>0, <2>4, ConstantsAssumption DEF LockInv
      <4>2. QED
        BY <3>1, <4>1, BusyFacts DEF Busy
    <3>3. HeardAt("idle")
      BY <1>0, <3>2 DEF Heard, Busy
    <3>4. ~running
      BY <2>4, <3>3 DEF HeardAt, Hold, Path
    <3>5. HeardAt("tracker.start")'
      BY <1>1, <2>0, <3>4 DEF HeardAt
    <3>6. Heard'
      BY <2>4, <3>2, <3>5, HeardHere
    <3>7. started'["sched"] /\ started["pool"]
      BY <1>0, <2>4 DEF Turned, Linked, Moved
    <3>8. \A d \in Clients : pc'[d] # "pool.stop"
      BY <2>4, <3>1 DEF Moved, Stopping
    <3>9. Linked'
      BY <1>0, <2>0, <2>4, <3>7, <3>8 DEF Linked
    <3>10. QED
      BY <2>2, <3>6, <3>9 DEF Clean
  <2>5. QED
    BY <1>0, <1>5, <2>3, <2>4, SchedStartFacts
<1>6. ASSUME NEW s \in {"tracker", "monitor"}, NEW k \in Hold, NEW l \in Hold,
             ServiceStart(c, s, k, l)
      PROVE  Clean'
  <2>1. Moved(c, k, l) /\ target' = target /\ running' = running
        /\ l \in {"tracker.start", "monitor.start", "sched.run"}
        /\ k \in {"tracker.start", "monitor.start", "sched.run"}
    BY <1>0, <1>6, ServiceStartFacts, LabelFacts DEF Hold
  <2>2. PoolKept /\ started'["sched"] = started["sched"]
    <3>1. /\ told' = told /\ watched' = watched
          /\ \/ UNCHANGED <<started, latest, live>>
             \/ Turned(s, TRUE) /\ Spawned(s)
      BY <1>0, <1>6, ServiceStartFacts, LabelFacts DEF Hold
    <3>2. CASE UNCHANGED <<started, latest, live>>
      BY <3>1, <3>2 DEF PoolKept, Same
    <3>3. CASE Turned(s, TRUE) /\ Spawned(s)
      BY <3>1, <3>3, LabelFacts DEF PoolKept, Turned, Spawned
    <3>4. QED
      BY <3>1, <3>2, <3>3
  <2>3. PoolQuiet'
    BY <1>0, <1>1, <2>1, <2>2, PoolElsewhere
  <2>4. HeardAt(k) /\ k \in Hold /\ pc[c] \in Busy /\ l \in Hold /\ l \notin Path
    BY <1>0, <1>1, <2>1 DEF Heard, Moved, Busy
  <2>5. HeardAt(l)'
    BY <2>1, <2>4 DEF HeardAt
  <2>6. Heard'
    BY <1>2, <2>1, <2>4, <2>5, HeardHere
  <2>7. Linked'
    BY <1>0, <1>1, <2>1, <2>2, LinkedKept DEF PoolKept
  <2>8. QED
    BY <2>3, <2>6, <2>7 DEF Clean
<1>7. CASE SchedRun(c)
  <2>1. /\ Moved(c, "sched.run", "idle") /\ Spawned("sched") /\ running' = TRUE
        /\ UNCHANGED <<started, told, target, watched>>
    BY <1>0, <1>7, SchedRunFacts DEF Failed
  <2>2. PoolKept
    BY <2>1, LabelFacts DEF PoolKept, Spawned
  <2>3. PoolQuiet'
    BY <1>0, <1>1, <2>1, <2>2, PoolElsewhere
  <2>4. started["sched"] /\ pc[c] \in Busy
    BY <1>1, <2>1 DEF Quiet, LoopsAt, SchedAt, Moved, Busy
  <2>5. HeardAt("idle")'
    BY <2>1, <2>4 DEF HeardAt, Hold, Path
  <2>6. Heard'
    BY <1>2, <2>1, <2>4, <2>5, HeardHere
  <2>7. Linked'
    BY <1>0, <1>1, <2>1, LinkedKept
  <2>8. QED
    BY <2>3, <2>6, <2>7 DEF Clean
<1>8. QED
  BY <1>3, <1>4, <1>5, <1>6, <1>7, <1>1 DEF StartStep

\* So does Runtime.stop.
LEMMA StopClean ==
    ASSUME Base, Quiet, Clean, NEW c \in Clients, StopStep(c), ~raised'
    PROVE  Clean'
<1>0. Shape /\ LockInv /\ Unmixed /\ PoolQuiet /\ Linked /\ Heard
  BY DEF Base, Quiet, Clean
<1>1. /\ (Path \cup {"stop", "pool.stop", "idle"}) \cap PoolBusy = {}
      /\ {"stop", "pool.stop", "crew.tell", "crew.join", "supervisor.join", "idle"} \cap Busy = {}
      /\ Path \cap Hold = {} /\ Path \subseteq Linking /\ Path \subseteq Busy
      /\ {"sched.start", "pool.stop"} \cap Path = {} /\ "pool.stop" \in Linking
      /\ {"crew.tell", "crew.join", "supervisor.join"} \cap Linking = {}
      /\ "stop" \notin Linking
      /\ {"crew.tell", "crew.join", "supervisor.join"} \subseteq PoolBusy \ PoolHold
  BY DEF PoolBusy, PoolHold, PoolPath, Busy, Hold, Path, Linking
<1>2. ASSUME pc[c] \in Busy PROVE \A d \in Clients \ {c} : pc[d] \notin Busy
  BY <1>2, OnlyOne
<1>3. ASSUME NEW k \in Path, NEW l \in Path, Moved(c, k, l), PoolKept,
             \A d \in Clients \ {c} : target'[d] = target[d],
             running' = running, started'["sched"] = started["sched"]
      PROVE  Clean'
  <2>1. PoolQuiet'
    BY <1>0, <1>1, <1>3, PoolElsewhere
  <2>2. pc[c] \in Busy /\ HeardAt(k)
    BY <1>0, <1>1, <1>3 DEF Heard, Moved
  <2>3. HeardAt(l)'
    BY <1>1, <1>3, <2>2 DEF HeardAt
  <2>4. Heard'
    BY <1>2, <1>3, <2>2, <2>3, HeardHere
  <2>5. Linked'
    BY <1>0, <1>1, <1>3, LinkedKept DEF PoolKept
  <2>6. QED
    BY <2>1, <2>4, <2>5 DEF Clean
<1>4. CASE SchedStop(c)
  <2>1. /\ latest' = latest /\ live' = live /\ target' = target /\ told' = told
        /\ running' = running /\ watched' = watched
        /\ \/ Moved(c, "stop", "tracker.stop") /\ started["sched"] /\ Turned("sched", FALSE)
           \/ Moved(c, "stop", "pool.stop") /\ ~started["sched"] /\ started' = started
    BY <1>0, <1>4, HaltFacts, LabelFacts DEF SchedStop
  <2>2. PoolKept
    BY <2>1 DEF PoolKept, Same, Turned
  <2>3. "tracker.stop" \in Path
    BY DEF Path
  <2>4. PoolQuiet'
    BY <1>0, <1>1, <2>1, <2>2, <2>3, PoolElsewhere
  <2>5. CASE Moved(c, "stop", "tracker.stop") /\ started["sched"] /\ Turned("sched", FALSE)
    <3>1. ASSUME NEW d \in Clients PROVE pc[d] \notin Busy
      <4>1. pc[d] \notin Hold
        BY <1>0, <1>4, ConstantsAssumption DEF LockInv, SchedStop
      <4>2. pc[d] \notin Path
        BY <2>5 DEF Quiet, LoopsAt, SchedAt
      <4>3. QED
        BY <4>1, <4>2 DEF Busy
    <3>2. HeardAt("idle")
      BY <1>0, <3>1 DEF Heard, Busy
    <3>3. running
      BY <1>1, <2>5, <3>2 DEF HeardAt, Busy
    <3>4. HeardAt("tracker.stop")'
      BY <1>1, <2>1, <2>3, <3>3 DEF HeardAt
    <3>5. Heard'
      BY <2>5, <3>1, <3>4, HeardHere
    <3>6. ~started'["sched"] /\ started'["pool"] = started["pool"]
      BY <2>5 DEF Turned
    <3>7. \A d \in Clients : pc'[d] = "sched.start" => pc[d] = "sched.start"
      BY <2>5 DEF Moved
    <3>8. pc'[c] \in Linking
      BY <1>1, <2>3, <2>5 DEF Moved
    <3>9. Linked'
      BY <1>0, <3>6, <3>7, <3>8 DEF Linked
    <3>10. QED
      BY <2>4, <3>5, <3>9 DEF Clean
  <2>6. CASE Moved(c, "stop", "pool.stop") /\ ~started["sched"] /\ started' = started
    <3>1. Heard'
      BY <1>0, <1>1, <2>1, <2>6, HeardElsewhere
    <3>2. Linked'
      BY <1>0, <1>1, <2>6, LinkedKept
    <3>3. QED
      BY <2>4, <3>1, <3>2 DEF Clean
  <2>7. QED
    BY <2>1, <2>5, <2>6
<1>5. ASSUME NEW s \in {"tracker", "monitor"}, NEW k \in Path, NEW l \in Path, NEW m \in Path,
             ServiceStop(c, s, k, l, m)
      PROVE  Clean'
  <2>1. s \in Loops /\ l \in Labels /\ m \in Labels
    BY LabelFacts, BusyFacts DEF Labels
  <2>2. /\ latest' = latest /\ live' = live /\ target' = target /\ told' = told
        /\ running' = running /\ watched' = watched
        /\ \/ Moved(c, k, l) /\ started[s] /\ Turned(s, FALSE)
           \/ Moved(c, k, m) /\ ~started[s] /\ started' = started
    BY <1>0, <1>5, <2>1, HaltFacts DEF ServiceStop
  <2>3. started'["pool"] = started["pool"] /\ started'["sched"] = started["sched"]
    BY <2>2, LabelFacts DEF Turned
  <2>4. PoolKept
    BY <2>2, <2>3 DEF PoolKept, Same
  <2>5. QED
    BY <1>3, <2>2, <2>3, <2>4
<1>6. ASSUME NEW s \in Loops, NEW k \in Path, NEW l \in Path, ReadThread(c, s, k, l) PROVE Clean'
  <2>1. /\ Moved(c, k, l) /\ \A d \in Clients \ {c} : target'[d] = target[d]
        /\ UNCHANGED <<started, latest, live, told, running, watched>>
    BY <1>0, <1>6, ReadFacts, BusyFacts DEF Labels, Services
  <2>2. PoolKept
    BY <2>1 DEF PoolKept, Same
  <2>3. QED
    BY <1>3, <2>1, <2>2
<1>7. ASSUME NEW s \in Loops, NEW k \in Path, NEW l \in Path, Join(c, s, k, l) PROVE Clean'
  <2>1. /\ Moved(c, k, l) /\ target' = target
        /\ UNCHANGED <<started, latest, live, told, running, watched>>
    BY <1>0, <1>7, JoinFacts, BusyFacts DEF Labels, Services
  <2>2. PoolKept
    BY <2>1 DEF PoolKept, Same
  <2>3. QED
    BY <1>3, <2>1, <2>2
<1>8. CASE SchedStopped(c)
  <2>1. /\ Moved(c, "sched.join", "pool.stop") /\ running' = FALSE
        /\ UNCHANGED <<started, latest, live, told, target, watched>>
    BY <1>0, <1>8, SchedStoppedFacts DEF Failed
  <2>2. PoolKept /\ "sched.join" \in Path
    BY <2>1 DEF PoolKept, Same, Path
  <2>3. PoolQuiet'
    BY <1>0, <1>1, <2>1, <2>2, PoolElsewhere
  <2>4. ~started["sched"] /\ pc[c] \in Busy
    BY <1>1, <2>1, <2>2 DEF Quiet, LoopsAt, SchedAt, Moved
  <2>5. HeardAt("pool.stop")'
    BY <2>1, <2>4 DEF HeardAt, Hold, Path
  <2>6. Heard'
    BY <1>2, <2>1, <2>4, <2>5, HeardHere
  <2>7. Linked'
    BY <1>0, <1>1, <2>1, <2>4, LinkedKept
  <2>8. QED
    BY <2>3, <2>6, <2>7 DEF Clean
<1>9. CASE PoolStop(c)
  <2>1. /\ UNCHANGED <<latest, live, told, running, watched>>
        /\ \/ /\ Moved(c, "pool.stop", "crew.tell") /\ started["pool"] /\ Turned("pool", FALSE)
              /\ target'[c] = latest["crew"]
           \/ /\ Moved(c, "pool.stop", "idle") /\ ~started["pool"] /\ UNCHANGED <<started, target>>
    BY <1>0, <1>9, PoolStopFacts
  <2>2. CASE Moved(c, "pool.stop", "idle") /\ ~started["pool"] /\ UNCHANGED <<started, target>>
    <3>1. PoolKept
      BY <2>1, <2>2 DEF PoolKept, Same
    <3>2. PoolQuiet'
      BY <1>0, <1>1, <2>2, <3>1, PoolElsewhere
    <3>3. Heard'
      BY <1>0, <1>1, <2>1, <2>2, HeardElsewhere
    <3>4. Linked'
      BY <1>0, <1>1, <2>2, LinkedKept
    <3>5. QED
      BY <3>2, <3>3, <3>4 DEF Clean
  <2>3. CASE Moved(c, "pool.stop", "crew.tell") /\ started["pool"] /\ Turned("pool", FALSE)
             /\ target'[c] = latest["crew"]
    <3>1. ASSUME NEW d \in Clients PROVE pc[d] \notin PoolBusy
      <4>1. pc[d] \notin PoolHold
        BY <1>0, <2>3 DEF Unmixed, Moved, PoolHold, Starting, Stopping
      <4>2. pc[d] \notin PoolPath
        BY <1>0, <2>3 DEF PoolQuiet, PoolAt
      <4>3. QED
        BY <4>1, <4>2 DEF PoolBusy
    <3>2. PoolAt("idle")
      BY <1>0, <3>1 DEF PoolQuiet, PoolBusy
    <3>3. live["crew"] = {latest["crew"]} /\ live["supervisor"] = {latest["supervisor"]}
      BY <1>1, <2>3, <3>2 DEF PoolAt, PoolBusy
    <3>4. ~started'["pool"] /\ started'["sched"] = started["sched"]
      BY <2>3, LabelFacts DEF Turned
    <3>5. PoolAt("crew.tell")'
      BY <2>1, <3>3, <3>4 DEF PoolAt, PoolHold, PoolPath
    <3>6. PoolQuiet'
      BY <2>1, <2>3, <3>1, <3>5, PoolHere
    <3>7. Heard'
      BY <1>0, <1>1, <2>1, <2>3, <3>4, HeardElsewhere
    <3>8. ~started["sched"] /\ \A d \in Clients : pc[d] # "sched.start"
      BY <1>0, <2>3 DEF Linked, Moved, Unmixed, Starting, Stopping
    <3>9. Linked'
      BY <2>3, <3>4, <3>8 DEF Linked, Moved
    <3>10. QED
      BY <3>6, <3>7, <3>9 DEF Clean
  <2>4. QED
    BY <2>1, <2>2, <2>3
<1>10. ASSUME NEW k \in PoolPath, NEW l \in PoolPath \cup {"idle"}, Moved(c, k, l), PoolAt(l)',
              l \in {"crew.tell", "crew.join"} => target'[c] = latest'["crew"],
              running' = running, started' = started, PoolAt(k)
       PROVE  Clean'
  <2>1. k \in PoolBusy /\ {k, l} \cap Busy = {} /\ l \notin {"sched.start", "pool.stop"}
        /\ k \notin Linking
    BY <1>1 DEF PoolBusy, PoolPath
  <2>2. \A d \in Clients \ {c} : pc[d] \notin PoolBusy
    BY <1>0, <1>10, <2>1, OnlyOneAtPool DEF Moved
  <2>3. PoolQuiet'
    BY <1>10, <2>2, PoolHere
  <2>4. Heard'
    BY <1>0, <1>10, <2>1, HeardElsewhere
  <2>5. Linked'
    BY <1>0, <1>10, <2>1, LinkedKept
  <2>6. QED
    BY <2>3, <2>4, <2>5 DEF Clean
<1>11. ASSUME NEW k \in PoolPath, pc[c] = k
       PROVE  /\ PoolAt(k) /\ ~started["pool"] /\ live["crew"] \subseteq {latest["crew"]}
              /\ live["supervisor"] \subseteq {latest["supervisor"]}
              /\ k \in {"crew.tell", "crew.join"} => target[c] = latest["crew"]
              /\ k = "supervisor.join" => live["crew"] = {} /\ ~watched
  BY <1>0, <1>11 DEF PoolQuiet, PoolAt
<1>12. {"crew.tell", "crew.join", "supervisor.join"} = PoolPath
  BY DEF PoolPath
<1>13. CASE TellCrew(c)
  <2>1. /\ Moved(c, "crew.tell", "crew.join")
        /\ UNCHANGED <<started, latest, live, target, running, watched>>
    BY <1>0, <1>13, TellCrewFacts
  <2>2. /\ PoolAt("crew.tell") /\ ~started["pool"] /\ live["crew"] \subseteq {latest["crew"]}
        /\ live["supervisor"] \subseteq {latest["supervisor"]} /\ target[c] = latest["crew"]
    BY <1>11, <1>12, <2>1 DEF Moved
  <2>3. PoolAt("crew.join")'
    BY <2>1, <2>2 DEF PoolAt, PoolHold, PoolPath
  <2>4. QED
    BY <1>10, <1>12, <2>1, <2>2, <2>3
<1>14. CASE JoinCrew(c)
  <2>1. /\ Moved(c, "crew.join", "supervisor.join") /\ target[c] \notin live["crew"]
        /\ watched' = FALSE /\ UNCHANGED <<started, latest, live, running>>
    BY <1>0, <1>14, JoinCrewFacts DEF Failed
  <2>2. /\ PoolAt("crew.join") /\ ~started["pool"] /\ live["crew"] \subseteq {latest["crew"]}
        /\ live["supervisor"] \subseteq {latest["supervisor"]} /\ target[c] = latest["crew"]
    BY <1>11, <1>12, <2>1 DEF Moved
  <2>3. live["crew"] = {}
    BY <2>1, <2>2
  <2>4. PoolAt("supervisor.join")'
    BY <2>1, <2>2, <2>3 DEF PoolAt, PoolHold, PoolPath
  <2>5. QED
    BY <1>10, <1>12, <2>1, <2>2, <2>4
<1>15. CASE JoinSupervisor(c)
  <2>1. /\ Moved(c, "supervisor.join", "idle")
        /\ latest["supervisor"] \notin live["supervisor"] \/ started["pool"]
        /\ UNCHANGED <<started, latest, live, running, watched>>
    BY <1>0, <1>15, JoinSupervisorFacts
  <2>2. /\ PoolAt("supervisor.join") /\ ~started["pool"] /\ live["crew"] = {} /\ ~watched
        /\ live["supervisor"] \subseteq {latest["supervisor"]}
    BY <1>11, <1>12, <2>1 DEF Moved
  <2>3. live["supervisor"] = {}
    BY <2>1, <2>2
  <2>4. PoolAt("idle")'
    BY <2>1, <2>2, <2>3 DEF PoolAt, PoolHold, PoolPath
  <2>5. QED
    BY <1>10, <1>12, <2>1, <2>2, <2>4
<1>16. {"tracker.stop", "tracker.read", "tracker.join", "monitor.stop", "monitor.read",
        "monitor.join", "sched.read", "sched.join"} = Path
  BY DEF Path
<1>17. QED
  BY <1>4, <1>5, <1>6, <1>7, <1>8, <1>9, <1>13, <1>14, <1>15, <1>16, LabelFacts DEF StopStep

\* No client moves.
LEMMA CleanStill ==
    ASSUME Clean, pc' = pc, target' = target, latest' = latest, started' = started,
           running' = running, \A k : PoolAt(k) => PoolAt(k)'
    PROVE  Clean'
<1>1. ASSUME NEW d \in Clients, pc[d] \in PoolHold \cup PoolPath PROVE PoolAt(pc[d])'
  <2>1. PICK j : j = pc[d]
    OBVIOUS
  <2>2. PoolAt(j)' /\ pc'[d] = j
    BY <1>1, <2>1 DEF Clean, PoolQuiet
  <2>3. QED
    BY <2>2
<1>2. PoolQuiet'
  BY <1>1 DEF Clean, PoolQuiet
<1>3. Linked' /\ Heard'
  BY DEF Clean, Linked, Heard, HeardAt
<1>4. QED
  BY <1>2, <1>3 DEF Clean

\* Threads of the pool end only when it stops, and a worker that takes a task
\* tells nothing new.
LEMMA ThreadClean ==
    ASSUME Base, Clean, ThreadExit \/ \E i \in ThreadNumbers : Heartbeat(i)
    PROVE  Clean'
<1>0. Shape
  BY DEF Base
<1>1. ASSUME NEW s \in Loops, NEW i, LoopExit(s, i) PROVE Clean'
  <2>1. /\ Ended(s, i) /\ UNCHANGED <<started, latest, told, pc, target, running, watched>>
    BY <1>0, <1>1, EndsFacts DEF LoopExit, Services
  <2>2. PoolKept
    BY <2>1, LabelFacts DEF PoolKept, Same, Ended, Loops
  <2>3. QED
    BY <2>1, <2>2, PoolAtKept, CleanStill
<1>2. ASSUME NEW i, SupervisorExit(i) PROVE Clean'
  <2>1. /\ Ended("supervisor", i) /\ UNCHANGED <<started, latest, told, pc, target, running, watched>>
        /\ ~started["pool"] /\ i \in live["supervisor"]
    BY <1>0, <1>2, EndsFacts, LabelFacts DEF SupervisorExit
  <2>2. live'["supervisor"] = live["supervisor"] \ {i} /\ live'["crew"] = live["crew"]
    BY <2>1, LabelFacts DEF Ended
  <2>3. ASSUME NEW k, PoolAt(k) PROVE PoolAt(k)'
    BY <2>1, <2>2, <2>3 DEF PoolAt
  <2>4. QED
    BY <2>1, <2>3, CleanStill
<1>3. ASSUME NEW i, CrewExit(i) PROVE Clean'
  <2>1. /\ Ended("crew", i) /\ UNCHANGED <<started, latest, told, pc, target, running, watched>>
        /\ i \in told /\ i \in live["crew"]
    BY <1>0, <1>3, EndsFacts, LabelFacts DEF CrewExit
  <2>2. live'["crew"] = live["crew"] \ {i} /\ live'["supervisor"] = live["supervisor"]
    BY <2>1, LabelFacts DEF Ended
  <2>3. ASSUME NEW k, PoolAt(k) PROVE PoolAt(k)'
    BY <2>1, <2>2, <2>3 DEF PoolAt
  <2>4. QED
    BY <2>1, <2>3, CleanStill
<1>4. ASSUME NEW i, Heartbeat(i) PROVE Clean'
  <2>1. /\ UNCHANGED <<started, latest, live, told, pc, target, running>>
        /\ i \in live["crew"] /\ watched' = TRUE
    BY <1>0, <1>4, HeartbeatFacts
  <2>2. ASSUME NEW k, PoolAt(k) PROVE PoolAt(k)'
    BY <2>1, <2>2 DEF PoolAt
  <2>3. QED
    BY <2>1, <2>2, CleanStill
<1>5. QED
  BY <1>1, <1>2, <1>3, <1>4 DEF ThreadExit

\* A call begins.
LEMMA CallClean ==
    ASSUME Base, Clean, NEW c \in Clients, CallStart(c) \/ CallStop(c)
    PROVE  Clean'
<1>0. Shape /\ PoolQuiet /\ Linked /\ Heard
  BY DEF Base, Clean
<1>1. ASSUME NEW what \in {"start", "stop"}, NEW others, Call(c, what, others) PROVE Clean'
  <2>1. /\ Moved(c, "idle", what)
        /\ UNCHANGED <<started, latest, live, told, target, running, watched>>
    BY <1>0, <1>1, CallFacts, LabelFacts
  <2>2. PoolKept
    BY <2>1 DEF PoolKept, Same
  <2>3. {"idle", what} \cap (PoolBusy \cup Busy \cup Linking) = {}
    BY DEF PoolBusy, PoolHold, PoolPath, Busy, Hold, Path, Linking
  <2>4. PoolQuiet' /\ Heard' /\ Linked'
    BY <1>0, <2>1, <2>2, <2>3, PoolElsewhere, HeardElsewhere, LinkedKept
  <2>5. QED
    BY <2>4 DEF Clean
<1>2. QED
  BY <1>1 DEF CallStart, CallStop

\* An exception is remembered.
LEMMA RaisedStep == ASSUME Base, [Next]_vars PROVE raised => raised'
<1>1. \A c \in Clients : StartStep(c) => (raised => raised')
  BY DEF StartStep, PoolStart, PoolSupervise, SchedStart, ServiceStart, SchedRun, Steps, Raises
<1>2. \A c \in Clients : StopStep(c) => (raised => raised')
  BY DEF StopStep, SchedStop, ServiceStop, Halt, ReadThread, Join, SchedStopped, PoolStop, TellCrew,
     JoinCrew, JoinSupervisor, Steps, Raises
<1>3. QED
  BY <1>1, <1>2 DEF Next, CallStart, CallStop, Call, ThreadExit, LoopExit, SupervisorExit,
     CrewExit, Ends, Heartbeat, vars

\* Every step keeps pool and health in order.
LEMMA CleanStep == Base /\ LoopInv /\ CleanInv /\ [Next]_vars => CleanInv'
<1> SUFFICES ASSUME Base, LoopInv, CleanInv, [Next]_vars, ~mixed', ~raised' PROVE Clean'
  BY DEF CleanInv
<1>1. Quiet /\ Clean
  BY MixedStep, RaisedStep DEF LoopInv, CleanInv
<1>2. CASE UNCHANGED vars
  <2>1. UNCHANGED <<started, latest, live, told, pc, target, running, watched>>
    BY <1>2 DEF vars, flags, threads, health
  <2>2. PoolKept
    BY <2>1 DEF PoolKept, Same
  <2>3. QED
    BY <1>1, <2>1, <2>2, PoolAtKept, CleanStill
<1>3. QED
  BY <1>1, <1>2, StartClean, StopClean, CallClean, ThreadClean DEF Next

----------------------------------------------------------------------------
(* The theorems.                                                           *)

\* The inductive invariant.
IInv == Base /\ FlagInv /\ CountInv /\ LoopInv /\ CleanInv

\* The invariant holds at first,
LEMMA IInvInit == Init => IInv
<1> SUFFICES ASSUME Init PROVE IInv
  OBVIOUS
<1>1. Shape
  BY ConstantsAssumption, LabelFacts DEF Init, Shape
<1>2. \A c \in Clients : pc[c] = "idle" /\ target[c] = 0
  BY DEF Init
<1>3. LockInv
  BY <1>2, ConstantsAssumption DEF Init, LockInv, Hold, PoolHold
<1>4. NumberInv /\ FlagInv
  BY <1>2, LabelFacts DEF Init, NumberInv, FlagInv
<1>5. CountInv
  <2>1. ASSUME NEW s \in Services PROVE latest[s] + Cardinality(Pending(s)) <= calls
    <3>1. Pending(s) = {}
      BY <1>2 DEF Pending, ToSpawn
    <3>2. Cardinality(Pending(s)) = 0
      BY <3>1, FS_EmptySet
    <3>3. QED
      BY <3>2 DEF Init
  <2>2. QED
    BY <1>2, <2>1, ConstantsAssumption DEF Init, CountInv
<1>6. /\ started["sched"] = FALSE /\ started["tracker"] = FALSE /\ started["monitor"] = FALSE
      /\ started["pool"] = FALSE /\ \A s \in Services : live[s] = {}
  BY LabelFacts DEF Init
<1>7. LoopsAt("idle") /\ Quiet
  <2>1. LoopsAt("idle")
    BY <1>6, LabelFacts DEF LoopsAt, SchedAt, ServiceAt, Hold, Path
  <2>2. QED
    BY <1>2, <2>1 DEF Quiet, Unmixed, Starting, Stopping, Hold, Path
<1>8. Clean
  <2>1. PoolAt("idle")
    BY <1>6, LabelFacts DEF Init, PoolAt, PoolHold, PoolPath
  <2>2. PoolQuiet
    BY <1>2, <2>1 DEF PoolQuiet, PoolHold, PoolPath
  <2>3. Linked /\ Heard
    BY <1>2, <1>6 DEF Init, Linked, Heard, HeardAt, Hold, Path
  <2>4. QED
    BY <2>2, <2>3 DEF Clean
<1>9. QED
  BY <1>1, <1>3, <1>4, <1>5, <1>7, <1>8 DEF IInv, Base, LoopInv, CleanInv

\* and always.
LEMMA Always == Spec => []IInv
<1>1. IInv /\ [Next]_vars => IInv'
  BY BaseStep, FlagStep, CountStep, LoopStep, CleanStep DEF IInv
<1>2. QED
  BY <1>1, IInvInit, PTL DEF Spec

\* The variables keep their types; in particular no thread has a number larger
\* than the number of calls, for each thread is started by a call of its own.
THEOREM Typing == Spec => []TypeOK
<1>1. IInv => TypeOK
  <2> SUFFICES ASSUME IInv PROVE TypeOK
    OBVIOUS
  <2>1. Shape /\ NumberInv /\ CountInv /\ MaxCalls \in Nat
    BY ConstantsAssumption DEF IInv, Base
  <2>2. ASSUME NEW s \in Services PROVE latest[s] \in 0..MaxCalls
    <3>1. latest[s] \in Nat /\ latest[s] + Cardinality(Pending(s)) <= calls /\ calls <= MaxCalls
          /\ calls \in Nat
      BY <2>1 DEF Shape, CountInv
    <3>2. IsFiniteSet(Pending(s))
      BY ConstantsAssumption, FS_Subset DEF Pending
    <3>3. Cardinality(Pending(s)) \in Nat
      BY <3>2, FS_CardinalityType
    <3>4. QED
      BY <2>1, <3>1, <3>3
  <2>3. ASSUME NEW s \in Services PROVE 1..latest[s] \subseteq ThreadNumbers
    BY <2>1, <2>2 DEF ThreadNumbers
  <2>4. latest \in [Services -> 0..MaxCalls]
    BY <2>1, <2>2 DEF Shape
  <2>5. \A s \in Services : live[s] \in SUBSET ThreadNumbers
    BY <2>1, <2>3 DEF NumberInv
  <2>6. live \in [Services -> SUBSET ThreadNumbers]
    BY <2>1, <2>5 DEF Shape
  <2>7. told \subseteq ThreadNumbers
    BY <2>1, <2>3, LabelFacts DEF NumberInv
  <2>8. target \in [Clients -> 0..MaxCalls]
    BY <2>1 DEF Shape, CountInv
  <2>9. calls \in 0..MaxCalls
    BY <2>1 DEF Shape, CountInv
  <2>10. QED
    BY <2>1, <2>4, <2>6, <2>7, <2>8, <2>9 DEF TypeOK, Shape, Labels
<1>2. QED
  BY <1>1, Always, PTL

\* As long as no start overlaps a stop there is never a second loop of the
\* scheduler, the tracker or the monitor, and between calls all run or none: for
\* any number of clients and calls, repeated, overlapping ones of the same kind,
\* and calls that raised.  So with the pool, unless an append raised.
THEOREM Engine == Spec => []OneEngine
<1>1. IInv => OneEngine
  <2> SUFFICES ASSUME IInv, ~mixed
               PROVE  /\ \A s \in Services : s \in Loops \/ ~raised => Cardinality(live[s]) <= 1
                      /\ Settled => /\ \A s \in Loops : /\ started[s] = started["sched"]
                                                        /\ Consistent(s, started[s])
                                    /\ ~raised => /\ started["pool"] = started["sched"]
                                                  /\ Consistent("crew", started["pool"])
                                                  /\ Consistent("supervisor", started["pool"])
    BY DEF OneEngine
  <2>1. Quiet /\ (~raised => Clean) /\ Shape
    BY DEF IInv, LoopInv, CleanInv, Base
  <2>2. ASSUME NEW S, NEW x, S \subseteq {x} PROVE Cardinality(S) <= 1
    <3>1. IsFiniteSet({x}) /\ Cardinality({x}) = 1
      BY FS_Singleton
    <3>2. QED
      BY <2>2, <3>1, FS_Subset
  <2>3. \E k : LoopsAt(k)
    BY <2>1 DEF Quiet
  <2>4. \A s \in Loops : live[s] \subseteq {latest[s]}
    BY <2>3, LabelFacts DEF LoopsAt, SchedAt, ServiceAt
  <2>5. ASSUME ~raised PROVE /\ live["crew"] \subseteq {latest["crew"]}
                             /\ live["supervisor"] \subseteq {latest["supervisor"]}
    <3>1. PICK k : PoolAt(k)
      BY <2>1, <2>5 DEF Clean, PoolQuiet
    <3>2. QED
      BY <3>1 DEF PoolAt
  <2>6. \A s \in Services : s \in Loops \/ ~raised => Cardinality(live[s]) <= 1
    BY <2>2, <2>4, <2>5 DEF Services
  <2>7. ASSUME Settled
        PROVE  /\ \A s \in Loops : started[s] = started["sched"] /\ Consistent(s, started[s])
               /\ ~raised => /\ started["pool"] = started["sched"]
                             /\ Consistent("crew", started["pool"])
                             /\ Consistent("supervisor", started["pool"])
    <3>1. /\ "idle" \notin Hold \cup Path /\ "idle" \notin PoolHold \cup PoolPath
          /\ "idle" \notin Linking /\ started \in [Loops \cup {"pool"} -> BOOLEAN]
      BY <2>1 DEF Hold, Path, PoolHold, PoolPath, Linking, Shape
    <3>2. LoopsAt("idle")
      BY <2>1, <2>7, <3>1 DEF Quiet, Settled
    <3>3. ASSUME NEW s \in Loops PROVE started[s] = started["sched"] /\ Consistent(s, started[s])
      <4>1. started[s] \in BOOLEAN /\ started["sched"] \in BOOLEAN
        BY <3>1, LabelFacts
      <4>2. started[s] <=> started["sched"]
        BY <3>1, <3>2, LabelFacts DEF LoopsAt, ServiceAt
      <4>3. /\ started[s] => live[s] = {latest[s]}
            /\ ~started[s] => live[s] = {}
        BY <3>1, <3>2, LabelFacts DEF LoopsAt, SchedAt, ServiceAt, Awaited
      <4>4. QED
        BY <4>1, <4>2, <4>3 DEF Consistent
    <3>4. ASSUME ~raised
          PROVE  /\ started["pool"] = started["sched"]
                 /\ Consistent("crew", started["pool"])
                 /\ Consistent("supervisor", started["pool"])
      <4>1. PoolAt("idle") /\ Linked
        BY <2>1, <2>7, <3>1, <3>4 DEF Clean, PoolQuiet, Settled
      <4>2. started["pool"] \in BOOLEAN /\ started["sched"] \in BOOLEAN
        BY <3>1, LabelFacts
      <4>3. started["pool"] <=> started["sched"]
        BY <2>7, <3>1, <4>1 DEF Linked, Settled
      <4>4. QED
        BY <3>1, <4>1, <4>2, <4>3 DEF PoolAt, Consistent
    <3>5. QED
      BY <3>3, <3>4
  <2>8. QED
    BY <2>6, <2>7
<1>2. QED
  BY <1>1, Always, PTL

\* What HealthMonitor concludes from the events is then what is: as long as no
\* start overlaps a stop and no append raises, for any number of clients.
THEOREM Health == Spec => []HealthAgrees
<1>1. IInv => HealthAgrees
  <2> SUFFICES ASSUME IInv, Settled, ~mixed, ~raised
               PROVE  running = started["sched"] /\ watched = started["pool"]
    BY DEF HealthAgrees
  <2>1. Clean /\ Shape
    BY DEF IInv, CleanInv, Base
  <2>2. "idle" \notin Hold \cup Path /\ "idle" \notin PoolHold \cup PoolPath
    BY DEF Hold, Path, PoolHold, PoolPath
  <2>3. HeardAt("idle") /\ PoolAt("idle")
    BY <2>1, <2>2 DEF Clean, Heard, PoolQuiet, Settled
  <2>4. /\ running \in BOOLEAN /\ watched \in BOOLEAN
        /\ started["sched"] \in BOOLEAN /\ started["pool"] \in BOOLEAN
    BY <2>1, LabelFacts DEF Shape
  <2>5. (running <=> started["sched"]) /\ (watched <=> started["pool"])
    BY <2>2, <2>3 DEF HeardAt, PoolAt
  <2>6. QED
    BY <2>4, <2>5
<1>2. QED
  BY <1>1, Always, PTL

=============================================================================
