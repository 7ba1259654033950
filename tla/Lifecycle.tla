----------------------------- MODULE Lifecycle -----------------------------
(***************************************************************************)
(* Starting and stopping the engine from several threads: Runtime.start and *)
(* stop, and under them those of WorkerPool, IntelligentScheduler,          *)
(* DelayedTaskTracker and TimeoutManager, each with a _started flag, a      *)
(* _stop_event that its loop reads and the _thread that the stop joins.     *)
(* HealthMonitor listens to the events they append.                         *)
(*                                                                         *)
(* Thread objects are numbered per service; a loop here only ends (what it *)
(* does meanwhile is in Scheduler.tla).  The workers of one start of the   *)
(* pool are one crew.                                                      *)
(***************************************************************************)
EXTENDS Naturals, FiniteSets

CONSTANTS Clients,      \* threads that call start and stop
          None,
          MaxCalls,     \* bound: calls made
          StoreFails    \* an append may raise (bound: once in a behaviour)

ASSUME ConstantsAssumption == /\ IsFiniteSet(Clients) /\ None \notin Clients
                              /\ MaxCalls \in Nat /\ StoreFails \in BOOLEAN

Loops == {"sched", "tracker", "monitor"}
Services == Loops \cup {"supervisor", "crew"}

VARIABLES
    started,    \* _started of the loops' services and of the pool
    stop,       \* service -> its _stop_event is set
    latest,     \* service -> number of its newest thread, 0 before the first
    live,       \* service -> threads that have not ended
    told,       \* crews told to stop
    lock,       \* scheduler's and pool's _lock -> the client that holds it
    pc,         \* client -> where its call is
    target,     \* client -> the thread or crew it is about to join
    running,    \* HealthMonitor._scheduler_running
    watched,    \* HealthMonitor._workers has its "default" entry
    calls,
    raised,     \* history: an append raised
    mixed       \* history: a start overlapped a stop

flags == <<started, stop>>
threads == <<latest, live, told>>
health == <<running, watched>>
vars == <<flags, threads, lock, pc, target, health, calls, raised, mixed>>

Init ==
    /\ started = [s \in Loops \cup {"pool"} |-> FALSE]
    /\ stop = [s \in Loops |-> FALSE]
    /\ latest = [s \in Services |-> 0] /\ live = [s \in Services |-> {}]
    /\ told = {}
    /\ lock = [l \in {"sched", "pool"} |-> None]
    /\ pc = [c \in Clients |-> "idle"] /\ target = [c \in Clients |-> 0]
    /\ running = FALSE /\ watched = FALSE
    /\ calls = 0 /\ raised = FALSE /\ mixed = FALSE

Starting == {"start", "crew", "sched.start", "tracker.start", "monitor.start", "sched.run"}
Stopping == {"stop", "tracker.stop", "tracker.read", "tracker.join", "monitor.stop",
             "monitor.read", "monitor.join", "sched.read", "sched.join", "pool.stop",
             "crew.tell", "crew.join", "supervisor.join"}

Go(c, label) == pc' = [pc EXCEPT ![c] = label]

\* A thread of service s is created and started.
Spawn(f, s) == [f EXCEPT ![s] = @ \cup {latest[s] + 1}]
Number(f, s) == [f EXCEPT ![s] = @ + 1]

\* An append raises in client c, whose call ends with the exception.
Raises(c) == /\ StoreFails /\ ~raised /\ raised' = TRUE
             /\ Go(c, "idle")
             /\ UNCHANGED <<target, calls, mixed>>

Steps(c, label) == /\ Go(c, label)
                   /\ UNCHANGED <<target, calls, raised, mixed>>

\* A client calls Runtime.start or Runtime.stop.
Call(c, what, others) ==
    /\ pc[c] = "idle" /\ calls < MaxCalls
    /\ calls' = calls + 1
    /\ Go(c, what)
    /\ mixed' = (mixed \/ \E d \in Clients : pc[d] \in others)
    /\ UNCHANGED <<flags, threads, lock, target, health, raised>>

CallStart(c) == Call(c, "start", Stopping)
CallStop(c) == Call(c, "stop", Starting)

----------------------------------------------------------------------------
(* Runtime.start                                                           *)

\* WorkerPool.start launches the workers and keeps the lock.
PoolStart(c) ==
    /\ pc[c] = "start" /\ lock["pool"] = None
    /\ \/ /\ started["pool"]
          /\ Steps(c, "sched.start")
          /\ UNCHANGED <<flags, threads, lock>>
       \/ /\ ~started["pool"]
          /\ started' = [started EXCEPT !["pool"] = TRUE]
          /\ latest' = Number(latest, "crew") /\ live' = Spawn(live, "crew")
          /\ lock' = [lock EXCEPT !["pool"] = c]
          /\ Steps(c, "crew")
          /\ UNCHANGED <<stop, told>>
    /\ UNCHANGED health

\* The WorkerStarted events, then the supervisor; none if an append raises.
PoolSupervise(c) ==
    /\ pc[c] = "crew"
    /\ lock' = [lock EXCEPT !["pool"] = None]
    /\ \/ /\ latest' = Number(latest, "supervisor") /\ live' = Spawn(live, "supervisor")
          /\ watched' = TRUE
          /\ Steps(c, "sched.start")
          /\ UNCHANGED told
       \/ Raises(c) /\ watched' \in {watched, TRUE} /\ UNCHANGED threads
    /\ UNCHANGED <<flags, running>>

\* IntelligentScheduler.start, under its lock.
SchedStart(c) ==
    /\ pc[c] = "sched.start" /\ lock["sched"] = None
    /\ \/ started["sched"] /\ Steps(c, "idle") /\ UNCHANGED <<flags, lock>>
       \/ /\ ~started["sched"]
          /\ started' = [started EXCEPT !["sched"] = TRUE]
          /\ stop' = [stop EXCEPT !["sched"] = FALSE]
          /\ lock' = [lock EXCEPT !["sched"] = c]
          /\ Steps(c, "tracker.start")
    /\ UNCHANGED <<threads, health>>

\* DelayedTaskTracker.start and TimeoutManager.start
ServiceStart(c, s, label, next) ==
    /\ pc[c] = label
    /\ \/ started[s] /\ UNCHANGED <<flags, threads>>
       \/ /\ ~started[s]
          /\ started' = [started EXCEPT ![s] = TRUE]
          /\ stop' = [stop EXCEPT ![s] = FALSE]
          /\ latest' = Number(latest, s) /\ live' = Spawn(live, s)
          /\ UNCHANGED told
    /\ Steps(c, next)
    /\ UNCHANGED <<lock, health>>

\* The scheduler's loop and the SchedulerStarted event; the RuntimeStarted event
\* that ends Runtime.start is no business of HealthMonitor.
SchedRun(c) ==
    /\ pc[c] = "sched.run"
    /\ latest' = Number(latest, "sched") /\ live' = Spawn(live, "sched")
    /\ lock' = [lock EXCEPT !["sched"] = None]
    /\ \/ running' = TRUE /\ Steps(c, "idle")
       \/ Raises(c) /\ UNCHANGED running
    /\ UNCHANGED <<flags, told, watched>>

StartStep(c) ==
    \/ PoolStart(c) \/ PoolSupervise(c)
    \/ SchedStart(c)
    \/ ServiceStart(c, "tracker", "tracker.start", "monitor.start")
    \/ ServiceStart(c, "monitor", "monitor.start", "sched.run")
    \/ SchedRun(c)

----------------------------------------------------------------------------
(* Runtime.stop                                                            *)

\* Mutant: the loop is not told.
MutHalt(c, s, next, otherwise) ==
    \/ started[s] /\ started' = [started EXCEPT ![s] = FALSE]
                  /\ UNCHANGED stop
                  /\ Steps(c, next)
    \/ ~started[s] /\ Steps(c, otherwise) /\ UNCHANGED flags

\* The locked half of a stop: the flag is cleared and the loop told.
Halt(c, s, next, otherwise) ==
    \/ started[s] /\ started' = [started EXCEPT ![s] = FALSE]
                  /\ stop' = [stop EXCEPT ![s] = TRUE]
                  /\ Steps(c, next)
    \/ ~started[s] /\ Steps(c, otherwise) /\ UNCHANGED flags

SchedStop(c) ==
    /\ pc[c] = "stop" /\ lock["sched"] = None
    /\ Halt(c, "sched", "tracker.stop", "pool.stop")
    /\ UNCHANGED <<threads, lock, health>>

\* DelayedTaskTracker.stop and TimeoutManager.stop
ServiceStop(c, s, label, next, otherwise) ==
    /\ pc[c] = label
    /\ Halt(c, s, next, otherwise)
    /\ UNCHANGED <<threads, lock, health>>

\* self._thread is read after the lock was released, ...
ReadThread(c, s, label, next) ==
    /\ pc[c] = label
    /\ target' = [target EXCEPT ![c] = latest[s]]
    /\ Go(c, next)
    /\ UNCHANGED <<flags, threads, lock, health, calls, raised, mixed>>

\* Mutant: nobody waits for the loop.
MutJoin(c, s, label, next) ==
    /\ pc[c] = label
    /\ Steps(c, next)
    /\ UNCHANGED <<flags, threads, lock, health>>

\* ... and joined without a timeout.
Join(c, s, label, next) ==
    /\ pc[c] = label /\ target[c] \notin live[s]
    /\ Steps(c, next)
    /\ UNCHANGED <<flags, threads, lock, health>>

\* Mutant: SchedulerStopped is not appended.
MutSchedStopped(c) ==
    /\ pc[c] = "sched.join" /\ target[c] \notin live["sched"]
    /\ Steps(c, "pool.stop")
    /\ UNCHANGED <<flags, threads, lock, health>>

\* The loop is joined; SchedulerStopped is appended.
SchedStopped(c) ==
    /\ pc[c] = "sched.join" /\ target[c] \notin live["sched"]
    /\ \/ running' = FALSE /\ Steps(c, "pool.stop")
       \/ Raises(c) /\ UNCHANGED running
    /\ UNCHANGED <<flags, threads, lock, watched>>

\* WorkerPool.stop
PoolStop(c) ==
    /\ pc[c] = "pool.stop" /\ lock["pool"] = None
    /\ \/ /\ started["pool"]
          /\ started' = [started EXCEPT !["pool"] = FALSE]
          /\ target' = [target EXCEPT ![c] = latest["crew"]]
          /\ Go(c, "crew.tell")
          /\ UNCHANGED <<calls, raised, mixed>>
       \/ ~started["pool"] /\ Steps(c, "idle") /\ UNCHANGED started
    /\ UNCHANGED <<stop, threads, lock, health>>

TellCrew(c) ==
    /\ pc[c] = "crew.tell"
    /\ told' = told \cup {target[c]}
    /\ Steps(c, "crew.join")
    /\ UNCHANGED <<flags, latest, live, lock, health>>

\* Every worker is joined and its WorkerStopped appended, which may raise before
\* the others are joined; HealthMonitor keeps them all under one key, so any of
\* the events removes it.
JoinCrew(c) ==
    /\ pc[c] = "crew.join"
    /\ \/ target[c] \notin live["crew"] /\ watched' = FALSE /\ Steps(c, "supervisor.join")
       \/ Raises(c) /\ watched' \in {watched, FALSE}
    /\ UNCHANGED <<flags, threads, lock, running>>

\* The supervisor looks at _started twice a second and the join waits for two:
\* it times out only if the pool was started again.
JoinSupervisor(c) ==
    /\ pc[c] = "supervisor.join"
    /\ latest["supervisor"] \notin live["supervisor"] \/ started["pool"]
    /\ Steps(c, "idle")
    /\ UNCHANGED <<flags, threads, lock, health>>

StopStep(c) ==
    \/ SchedStop(c)
    \/ ServiceStop(c, "tracker", "tracker.stop", "tracker.read", "monitor.stop")
    \/ ReadThread(c, "tracker", "tracker.read", "tracker.join")
    \/ Join(c, "tracker", "tracker.join", "monitor.stop")
    \/ ServiceStop(c, "monitor", "monitor.stop", "monitor.read", "sched.read")
    \/ ReadThread(c, "monitor", "monitor.read", "monitor.join")
    \/ Join(c, "monitor", "monitor.join", "sched.read")
    \/ ReadThread(c, "sched", "sched.read", "sched.join")
    \/ SchedStopped(c)
    \/ PoolStop(c) \/ TellCrew(c) \/ JoinCrew(c) \/ JoinSupervisor(c)

----------------------------------------------------------------------------
(* The threads.                                                            *)

Ends(s, i) == /\ live' = [live EXCEPT ![s] = @ \ {i}]
              /\ UNCHANGED <<flags, latest, told, lock, pc, target, health, calls,
                             raised, mixed>>

\* A loop that finds its _stop_event set ends; one that was busy while the event
\* was set and cleared again never noticed.
LoopExit(s, i) == i \in live[s] /\ stop[s] /\ Ends(s, i)

SupervisorExit(i) == /\ i \in live["supervisor"]
                     /\ ~started["pool"] /\ lock["pool"] = None
                     /\ Ends("supervisor", i)

CrewExit(i) == i \in live["crew"] /\ i \in told /\ Ends("crew", i)

\* A worker that takes a task appends a WorkerHeartbeat.
Heartbeat(i) == /\ i \in live["crew"] /\ ~watched
                /\ watched' = TRUE
                /\ UNCHANGED <<flags, threads, lock, pc, target, running, calls, raised, mixed>>

ThreadNumbers == 1..MaxCalls

ThreadExit == \E i \in ThreadNumbers : \/ \E s \in Loops : LoopExit(s, i)
                                       \/ SupervisorExit(i) \/ CrewExit(i)

Next == \/ \E c \in Clients : CallStart(c) \/ CallStop(c) \/ StartStep(c) \/ StopStep(c)
        \/ ThreadExit
        \/ \E i \in ThreadNumbers : Heartbeat(i)

Spec == Init /\ [][Next]_vars

\* Clients and loops go on when they can.
Fairness == /\ \A c \in Clients : WF_vars(StartStep(c) \/ StopStep(c))
            /\ \A i \in ThreadNumbers : /\ \A s \in Loops : WF_vars(LoopExit(s, i))
                                        /\ WF_vars(SupervisorExit(i))
                                        /\ WF_vars(CrewExit(i))

FairSpec == Spec /\ Fairness

----------------------------------------------------------------------------
(* Properties.                                                             *)

TypeOK ==
    /\ started \in [Loops \cup {"pool"} -> BOOLEAN] /\ stop \in [Loops -> BOOLEAN]
    /\ latest \in [Services -> 0..MaxCalls]
    /\ live \in [Services -> SUBSET ThreadNumbers] /\ told \subseteq ThreadNumbers
    /\ lock \in [{"sched", "pool"} -> Clients \cup {None}]
    /\ pc \in [Clients -> {"idle"} \cup Starting \cup Stopping]
    /\ target \in [Clients -> 0..MaxCalls]
    /\ running \in BOOLEAN /\ watched \in BOOLEAN
    /\ raised \in BOOLEAN /\ mixed \in BOOLEAN /\ calls \in 0..MaxCalls

Settled == \A c \in Clients : pc[c] = "idle"

\* The threads of service s are what its flag says.
Consistent(s, on) == live[s] = IF on THEN {latest[s]} ELSE {}

\* As long as no start overlaps a stop, scheduler, tracker and monitor never have
\* two loops, and when no call is under way they are all started with exactly
\* one live loop each or all stopped with none: also after calls that raised,
\* were repeated, or overlapped a call of the same kind.  So is the pool, unless
\* an append raised: then it may lack its supervisor or have two, and outlive
\* the scheduler.
OneEngine ==
    ~mixed =>
      /\ \A s \in Services : s \in Loops \/ ~raised => Cardinality(live[s]) <= 1
      /\ Settled => /\ \A s \in Loops : /\ started[s] = started["sched"]
                                        /\ Consistent(s, started[s])
                    /\ ~raised => /\ started["pool"] = started["sched"]
                                  /\ Consistent("crew", started["pool"])
                                  /\ Consistent("supervisor", started["pool"])

\* HealthMonitor, which only hears events, then agrees with the engine on
\* whether the scheduler runs and whether there are workers.
HealthAgrees ==
    Settled /\ ~mixed /\ ~raised => /\ running = started["sched"]
                                    /\ watched = started["pool"]

\* Every start and stop returns, unless one overlapped the other: then a stop can
\* join, without a timeout, the thread that the start created.
CallsReturn == \A c \in Clients : pc[c] # "idle" ~> pc[c] = "idle" \/ mixed
=============================================================================
