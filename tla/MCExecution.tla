---------------------------- MODULE MCExecution ----------------------------
(***************************************************************************)
(* Execution through the adapter, as the workers do it, and through        *)
(* pipelines with the time limit outside (tests/test_executor_complete.py) *)
(* and inside the retries.                                                 *)
(***************************************************************************)
EXTENDS Execution

Adapted(x) == <<"adapter", x>>
TimeoutOutside(x) == <<"tracing", "logging", "metrics", "timeout", "retry", x>>
TimeoutInside(x)  == <<"retry", "metrics", "timeout", x>>

With(stacks, limits, retries) ==
    [stack : stacks, timeout : limits, maxRetries : retries]

\* A second retry is left to executors without a thread of their own: with
\* one, three overlapping attempts multiply the states and show nothing new.
MCRequests ==
    LET limits == {"none", "zero", "negative", "positive"}
    IN  With({Adapted(x) : x \in Executors}, limits, {0})
        \cup With({TimeoutOutside(x) : x \in Executors}, limits, {0, 1})
        \cup With({TimeoutInside(x) : x \in Executors}, limits, {0, 1})
        \cup With({TimeoutOutside(x) : x \in {"shell", "mock"}}, {"none", "positive"}, {2})
        \cup With({TimeoutInside("mock")}, {"positive"}, {2})
=============================================================================
