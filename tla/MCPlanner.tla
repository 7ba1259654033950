----------------------------- MODULE MCPlanner -----------------------------
(***************************************************************************)
(* Planner on every graph of up to MaxEdges edges.                         *)
(***************************************************************************)
EXTENDS Planner, TLC

\* No action and no property tells one node id from another.
MCSymmetry == Permutations(Ids)
=============================================================================
