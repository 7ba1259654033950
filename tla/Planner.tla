------------------------------ MODULE Planner ------------------------------
(***************************************************************************)
(* WorkflowBuilder (runtime/workflow/builder.py) and WorkflowPlanner       *)
(* (runtime/workflow/planner.py): a graph is put together call by call,    *)
(* build() accepts it if Kahn's algorithm reaches every node, and plan()   *)
(* runs the same algorithm again for the nodes' levels, which become the   *)
(* phases, and traces a critical path back from a node of the last phase.  *)
(*                                                                         *)
(* The worklists are sets and a choice among equals is free: Python's      *)
(* order of insertion is one of the orders considered, and the properties  *)
(* say that the order does not matter.                                     *)
(***************************************************************************)
EXTENDS ExecutionGraph

CONSTANT MaxEdges     \* bound on the calls of connect

ASSUME MaxEdgesAssumption == MaxEdges \in Nat

Pairs == Ids \X Ids

VARIABLES inDegree,   \* in_degree
          queue,      \* queue
          topo        \* topo_order of _validate_dag

graph == <<nodes, arcs>>
vars == <<graph, at, inDegree, queue, topo, levels, path>>

Steps == {"build", "invalid", "validate", "cyclic", "built", "level", "trace", "planned"}

TypeOK ==
    /\ nodes \subseteq Ids
    /\ arcs \in [Pairs -> Nat]
    /\ at \in Steps
    /\ inDegree \in [Ids -> Nat] /\ levels \in [Ids -> Nat]
    /\ queue \subseteq nodes
    /\ topo \in Seq(nodes) /\ path \in Seq(nodes)

Init ==
    /\ nodes = {} /\ arcs = [e \in Pairs |-> 0]
    /\ at = "build"
    /\ inDegree = [n \in Ids |-> 0] /\ levels = [n \in Ids |-> 0]
    /\ queue = {} /\ topo = <<>> /\ path = <<>>

----------------------------------------------------------------------------
(* WorkflowBuilder.                                                        *)

\* A second node of the same id is refused.
AddNode(n) ==
    /\ at = "build" /\ n \notin nodes
    /\ nodes' = nodes \cup {n}
    /\ UNCHANGED <<arcs, at, inDegree, queue, topo, levels, path>>

\* The end points need not exist yet.
Connect(u, v) ==
    /\ at = "build" /\ MapThenSumSet(LAMBDA e : arcs[e], Pairs) < MaxEdges
    /\ arcs' = [arcs EXCEPT ![<<u, v>>] = @ + 1]
    /\ UNCHANGED <<nodes, at, inDegree, queue, topo, levels, path>>

Dangling == \E u, v \in Ids : Edge(u, v) /\ ~(u \in nodes /\ v \in nodes)

Degree(v) == MapThenSumSet(LAMBDA u : arcs[<<u, v>>], Ids)

\* The start of either run of Kahn's algorithm.
Kahn == /\ inDegree' = [v \in Ids |-> Degree(v)]
        /\ queue' = {v \in nodes : Degree(v) = 0}

Build ==
    /\ at = "build"
    /\ \/ /\ Dangling
          /\ at' = "invalid"
          /\ UNCHANGED <<inDegree, queue>>
       \/ /\ ~Dangling
          /\ at' = "validate"
          /\ Kahn
    /\ UNCHANGED <<graph, topo, levels, path>>

\* u leaves the queue; a child enters it when its last incoming edge is gone.
Pop(u) ==
    /\ u \in queue
    /\ inDegree' = [v \in Ids |-> inDegree[v] - arcs[<<u, v>>]]
    /\ queue' = (queue \ {u}) \cup {v \in Ids : Edge(u, v) /\ inDegree[v] = arcs[<<u, v>>]}

ValidateDag(u) ==
    /\ at = "validate" /\ Pop(u)
    /\ topo' = Append(topo, u)
    /\ UNCHANGED <<graph, at, levels, path>>

\* Mutant: the number of nodes visited is not checked.
MutValidated ==
    /\ at = "validate" /\ queue = {}
    /\ at' = "built"
    /\ UNCHANGED <<graph, inDegree, queue, topo, levels, path>>

Validated ==
    /\ at = "validate" /\ queue = {}
    /\ at' = IF Len(topo) = Cardinality(nodes) THEN "built" ELSE "cyclic"
    /\ UNCHANGED <<graph, inDegree, queue, topo, levels, path>>

----------------------------------------------------------------------------
(* WorkflowPlanner.                                                        *)

\* A graph without nodes has no phases and no critical path.
Plan ==
    /\ at = "built"
    /\ \/ nodes = {} /\ at' = "planned" /\ UNCHANGED <<inDegree, queue>>
       \/ nodes # {} /\ at' = "level" /\ Kahn
    /\ UNCHANGED <<graph, topo, levels, path>>

\* Mutant: the level of a child is that of its parent.
MutRaised(u, v) == levels[u]

Raised(u, v) == Max({levels[v], levels[u] + 1})

ResolveLevels(u) ==
    /\ at = "level" /\ Pop(u)
    /\ levels' = [v \in Ids |-> IF Edge(u, v) THEN Raised(u, v) ELSE levels[v]]
    /\ UNCHANGED <<graph, at, topo, path>>

\* The path is traced back from some node of the last phase.
LevelsResolved ==
    /\ at = "level" /\ queue = {}
    /\ at' = "trace"
    /\ \E n \in nodes : levels[n] = MaxLevel /\ path' = <<n>>
    /\ UNCHANGED <<graph, inDegree, queue, topo, levels>>

\* Mutant: any parent will do.
MutBestParent(p, v) == Edge(p, v)

BestParent(p, v) == Edge(p, v) /\ \A q \in Ids : Edge(q, v) => levels[q] <= levels[p]

CalculateCriticalPath ==
    /\ at = "trace"
    /\ \/ \E p \in Ids : /\ BestParent(p, Head(path))
                         /\ path' = <<p>> \o path
                         /\ UNCHANGED at
       \/ /\ \A p \in Ids : ~Edge(p, Head(path))
          /\ at' = "planned"
          /\ UNCHANGED path
    /\ UNCHANGED <<graph, inDegree, queue, topo, levels>>

Next ==
    \/ \E n \in Ids : AddNode(n)
    \/ \E u, v \in Ids : Connect(u, v)
    \/ Build
    \/ \E u \in Ids : ValidateDag(u)
    \/ Validated
    \/ Plan
    \/ \E u \in Ids : ResolveLevels(u)
    \/ LevelsResolved
    \/ CalculateCriticalPath

Spec == Init /\ [][Next]_vars
=============================================================================
