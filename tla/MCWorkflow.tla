----------------------------- MODULE MCWorkflow -----------------------------
(***************************************************************************)
(* Small instances of Workflow: graphs of three nodes.                     *)
(***************************************************************************)
EXTENDS Workflow

CONSTANTS a, b, c

\* Two nodes side by side before a third, and after it; a chain.
MCGraphs == {{<<a, c>>, <<b, c>>}, {<<a, b>>, <<a, c>>}, {<<a, b>>, <<b, c>>}}
=============================================================================
