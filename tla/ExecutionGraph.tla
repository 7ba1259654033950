--------------------------- MODULE ExecutionGraph ---------------------------
(***************************************************************************)
(* The graph that WorkflowBuilder puts together, what WorkflowPlanner      *)
(* computes of it, and what is promised of both.  Planner has the steps.   *)
(*                                                                         *)
(* Edges are a list in the code and may be repeated: arcs is that list as  *)
(* a bag, arcs[<<u, v>>] is how often <<u, v>> was connected.              *)
(***************************************************************************)
EXTENDS Naturals, Sequences, FiniteSetsExt

CONSTANT Ids          \* node ids

VARIABLES nodes,      \* _nodes / graph.nodes
          arcs,       \* _edges / graph.edges
          at,         \* where the builder or the planner is
          levels,     \* levels of _resolve_levels
          path        \* critical_path, in its final order

Edge(u, v) == arcs[<<u, v>>] > 0

MaxLevel == Max({levels[n] : n \in nodes})

Phase(l) == {n \in nodes : levels[n] = l}

----------------------------------------------------------------------------
(* Properties.                                                             *)

\* A set of nodes that all have a parent in the set: there is a cycle.
HasCycle == \E S \in SUBSET nodes : S # {} /\ \A v \in S : \E u \in S : Edge(u, v)

\* build() refuses exactly the graphs with a cycle, self-loops and repeated
\* edges included.  Exactly: builder.py:137 has _validate_dag also validate that
\* the graph "is fully connected", which it does not look at; a graph that falls
\* into several parts is built like any other.
RejectsCycles ==
    /\ at = "cyclic" => HasCycle
    /\ at \in {"built", "level", "trace", "planned"} => ~HasCycle

\* The walks along edges, as sequences of nodes.
Walks == {w \in UNION {[1..k -> nodes] : k \in 1..Cardinality(nodes)} :
            \A j \in 1..(Len(w) - 1) : Edge(w[j], w[j + 1])}

\* planner.py:43: a level is "the maximum distance from any root node": the
\* length of the longest walk that ends in the node.  Each phase holds the
\* nodes of one level, so every edge leads to a later phase, and none of the
\* phases up to the last is empty.
LevelsAreDistances ==
    at \in {"trace", "planned"} /\ nodes # {} =>
        \A l \in 0..MaxLevel :
            /\ Phase(l) # {}
            /\ \A n \in Phase(l) : l = Max({Len(w) - 1 : w \in {x \in Walks : x[Len(x)] = n}})

\* The critical path is a walk and no walk is longer.
CriticalPathIsLongest ==
    at = "planned" /\ nodes # {} =>
        path \in Walks /\ \A w \in Walks : Len(w) <= Len(path)
=============================================================================
