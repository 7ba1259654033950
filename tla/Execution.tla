----------------------------- MODULE Execution -----------------------------
(***************************************************************************)
(* One execution of a request: MiddlewarePipeline (executors/middleware),  *)
(* LegacyExecutorAdapter, the executors and LocalExecutionEnvironment.     *)
(*                                                                         *)
(* The layers of `stack' call one another, outermost first; the last one   *)
(* is the executor, which calls the user's code (a function, a process, a  *)
(* request).  Every call is a frame, named by its path: the number of the  *)
(* call each enclosing layer made, so <<1, 2>> is the first call's second  *)
(* call.  A layer with a time limit runs the next one in a daemon thread   *)
(* and answers TIMED_OUT without waiting for it: the frames below go on,   *)
(* next to whatever the caller does then.                                  *)
(***************************************************************************)
EXTENDS Naturals, Sequences, FiniteSets

CONSTANT Requests       \* the requests, each with the layers it is executed through

Executors == {"python", "shell", "function", "http", "mock"}
Layers    == {"logging", "tracing", "metrics", "timeout", "retry", "adapter"} \cup Executors

\* policy.timeout_seconds matters by its sign, policy.max_retries by its value.
ASSUME RequestsAssumption ==
    /\ Requests \subseteq [stack : Seq(Layers), maxRetries : Nat,
                           timeout : {"none", "zero", "negative", "positive"}]
    /\ \A req \in Requests :
          /\ req.stack # << >>
          /\ \A i \in DOMAIN req.stack :
                /\ req.stack[i] \in Executors <=> i = Len(req.stack)
                /\ req.stack[i] = "adapter" => i = 1

VARIABLES stack, timeout, maxRetries,  \* the layers and the request's policy
          frames,    \* path -> [calls: calls made to the next layer, ret: what it returned]
          log        \* the retry_count of the TaskRetried events appended

vars == <<stack, timeout, maxRetries, frames, log>>
request == <<stack, timeout, maxRetries>>

\* What user code does: it returns, raises an Exception, raises TimeoutError,
\* raises SystemExit; a server answers with an error whose body cannot be read;
\* a process is killed, and nobody or else a descendant of it holds its pipes.
Outcomes == {"value", "raises", "timeouterror", "exits", "unreadable", "killed", "orphaned"}
\* What a layer does: return a result with a status, raise an Exception, or
\* let SystemExit through.
Results  == {"SUCCEEDED", "FAILED", "TIMED_OUT", "raised", "exited"}
Open     == "open"       \* neither yet

Fresh == [calls |-> 0, ret |-> Open]
Root  == << >>

Executor   == stack[Len(stack)]
IsCode(p)  == Len(p) = Len(stack)
Layer(p)   == stack[Len(p) + 1]
LastCall(p) == Append(p, frames[p].calls)

TypeOK ==
    /\ [stack |-> stack, timeout |-> timeout, maxRetries |-> maxRetries] \in Requests
    /\ Root \in DOMAIN frames
    /\ \A p \in DOMAIN frames :
          /\ Len(p) <= Len(stack)
          /\ frames[p].calls \in 0 .. maxRetries + 1
          /\ frames[p].ret \in {Open} \cup (IF IsCode(p) THEN Outcomes ELSE Results)
          /\ p # Root => p[Len(p)] \in 1 .. frames[SubSeq(p, 1, Len(p) - 1)].calls
    /\ log \in Seq(Nat)

Init ==
    /\ \E req \in Requests :
          stack = req.stack /\ timeout = req.timeout /\ maxRetries = req.maxRetries
    /\ frames = [p \in {Root} |-> Fresh]
    /\ log = << >>

----------------------------------------------------------------------------
(* Calling and returning.                                                  *)

\* The compiled chain: frame p calls the layer after its own.
CallNext(p) ==
    LET called == [frames EXCEPT ![p].calls = @ + 1]
        new    == Append(p, called[p].calls)
    IN  frames' = [q \in DOMAIN frames \cup {new} |-> IF q = new THEN Fresh ELSE called[q]]

Return(p, r) == frames' = [frames EXCEPT ![p].ret = r]

Active(p)  == ~IsCode(p) /\ frames[p].ret = Open
Waiting(p) == Active(p) /\ frames[p].calls > 0 /\ frames[LastCall(p)].ret = Open
\* The next layer answered p with r.
Answered(p, r) == Active(p) /\ frames[p].calls > 0 /\ frames[LastCall(p)].ret = r /\ r # Open

Starting(p) == Active(p) /\ frames[p].calls = 0

\* A middleware or the adapter calls on.
Enter(p) ==
    /\ Starting(p) /\ Layer(p) \notin Executors
    /\ CallNext(p)
    /\ UNCHANGED <<request, log>>

----------------------------------------------------------------------------
(* Middlewares and adapter.                                                *)

\* The middlewares that log, record and trace pass everything on; no recorder
\* that fails gets in the way.
Transparent == {"logging", "metrics", "tracing"}

Through(p, r) ==
    /\ Layer(p) \in Transparent
    /\ Answered(p, r)
    /\ Return(p, r)
    /\ UNCHANGED <<request, log>>

\* Where a time limit is in force: TimeoutMiddleware wants it positive, the
\* environment tests a callable's for truth and hands a process's on as it is.
Timed(layer) ==
    \/ layer = "timeout" /\ timeout = "positive"
    \/ layer = "python" /\ timeout \in {"positive", "negative"}
    \/ layer = "shell" /\ timeout # "none"

\* An exception is raised again in the caller's thread; a thread that died of
\* SystemExit left neither result nor exception.
TimeoutReturn(p, r) ==
    /\ Layer(p) = "timeout"
    /\ Answered(p, r)
    /\ Return(p, IF Timed("timeout") /\ r = "exited" THEN "FAILED" ELSE r)
    /\ UNCHANGED <<request, log>>

\* Mutant: the thread is joined without a timeout.
MutTimeoutExpire(p) == FALSE /\ UNCHANGED vars

TimeoutExpire(p) ==
    /\ Layer(p) = "timeout" /\ Timed("timeout")
    /\ Waiting(p)
    /\ Return(p, "TIMED_OUT")
    /\ UNCHANGED <<request, log>>

Attempts(p) == frames[p].calls - 1

\* Mutant: the limit is off by one.
MutRetriesLeft(p) == Attempts(p) <= maxRetries

RetriesLeft(p) == Attempts(p) < maxRetries

RetryReturn(p, r) ==
    /\ Layer(p) = "retry"
    /\ Answered(p, r)
    /\ r \in {"SUCCEEDED", "raised", "exited"} \/ ~RetriesLeft(p)
    /\ Return(p, r)
    /\ UNCHANGED <<request, log>>

\* Any other result is tried again, whatever its is_transient; the event is
\* appended, unless the store is missing or raises, then comes the next call.
RetryAgain(p, r) ==
    /\ Layer(p) = "retry"
    /\ Answered(p, r)
    /\ r \in {"FAILED", "TIMED_OUT"} /\ RetriesLeft(p)
    /\ log' \in {log, Append(log, Attempts(p) + 1)}
    /\ CallNext(p)
    /\ UNCHANGED request

\* LegacyExecutorAdapter.execute: a result other than SUCCEEDED is raised; the
\* executors' hooks before_execute, after_execute and cleanup only log.
Adapter(p, r) ==
    /\ Layer(p) = "adapter"
    /\ Answered(p, r)
    /\ Return(p, IF r \in {"FAILED", "TIMED_OUT"} THEN "raised" ELSE r)
    /\ UNCHANGED <<request, log>>

----------------------------------------------------------------------------
(* Executors.  Each turns what its code did into a result.                 *)

\* run_in_env with a callable: a TimeoutError of its own counts as a time-out,
\* and a timed callable that exits leaves an empty container, taken for None.
PythonResult(o) ==
    CASE o = "value"        -> "SUCCEEDED"
      [] o = "raises"       -> "FAILED"
      [] o = "timeouterror" -> "TIMED_OUT"
      [] o = "exits"        -> IF Timed("python") THEN "SUCCEEDED" ELSE "exited"

\* run_in_env with a command: by its exit code.
ShellResult(o) == IF o = "value" THEN "SUCCEEDED" ELSE "FAILED"

FunctionResult(o) ==
    CASE o = "value"                     -> "SUCCEEDED"
      [] o \in {"raises", "timeouterror"} -> "FAILED"
      [] o = "exits"                     -> "exited"

\* An exception in the handler of HTTPError is not caught by those after it.
HTTPResult(o) ==
    CASE o = "value"      -> "SUCCEEDED"
      [] o = "raises"     -> "FAILED"
      [] o = "unreadable" -> "raised"

MockResult(o) == IF o = "value" THEN "SUCCEEDED" ELSE "FAILED"

\* Mutant: the environment reports a raised exception like a value.
MutExecutorResult(o) == IF o \in {"value", "raises"} THEN "SUCCEEDED" ELSE "FAILED"

ExecutorResult(o) ==
    CASE Executor = "python"   -> PythonResult(o)
      [] Executor = "shell"    -> ShellResult(o)
      [] Executor = "function" -> FunctionResult(o)
      [] Executor = "http"     -> HTTPResult(o)
      [] Executor = "mock"     -> MockResult(o)

\* An executor runs its code, or refuses the payload with an exception.
RunOrRefuse(p) ==
    /\ Starting(p)
    /\ CallNext(p) \/ Return(p, "raised")
    /\ UNCHANGED <<request, log>>

\* Refused: arguments that do not bind.
PythonRequest(p) == Layer(p) = "python" /\ RunOrRefuse(p)

\* Refused: no command.
ShellRequest(p) == Layer(p) = "shell" /\ RunOrRefuse(p)

\* Refused: no such function, or a parameter that cannot be injected.
FunctionRequest(p) == Layer(p) = "function" /\ RunOrRefuse(p)

\* Refused: no url, or none that can be parsed.
HTTPRequest(p) == Layer(p) = "http" /\ RunOrRefuse(p)

MockRequest(p) ==
    /\ Layer(p) = "mock" /\ Starting(p)
    /\ CallNext(p)
    /\ UNCHANGED <<request, log>>

Execute(p, o) ==
    /\ Layer(p) \in Executors
    /\ Answered(p, o) /\ o \notin {"killed", "orphaned"}
    /\ Return(p, ExecutorResult(o))
    /\ UNCHANGED <<request, log>>

\* A callable that is out of time is left running.
PythonExpire(p) ==
    /\ Layer(p) = "python" /\ Timed("python")
    /\ Waiting(p)
    /\ Return(p, "TIMED_OUT")
    /\ UNCHANGED <<request, log>>

\* Mutant: the process is not killed.
MutShellExpire(p) ==
    /\ Layer(p) = "shell" /\ Timed("shell")
    /\ Waiting(p)
    /\ Return(p, "TIMED_OUT")
    /\ UNCHANGED <<request, log>>

\* A process that is out of time is killed.
ShellExpire(p) ==
    /\ Layer(p) = "shell" /\ Timed("shell")
    /\ Waiting(p)
    /\ \E o \in {"killed", "orphaned"} : Return(LastCall(p), o)
    /\ UNCHANGED <<request, log>>

\* The second communicate() has no time limit: it returns when nobody holds the
\* pipes of the killed process any more, or raises when what it wrote is no text.
ShellDrained(p) ==
    /\ Layer(p) = "shell"
    /\ Answered(p, "killed")
    /\ \E r \in {"TIMED_OUT", "FAILED"} : Return(p, r)
    /\ UNCHANGED <<request, log>>

\* The code's own end, whatever became of its caller.
CodeEnds(p) ==
    /\ IsCode(p) /\ frames[p].ret = Open
    /\ \E o \in {"value", "raises"} \cup
                (IF Executor \in {"python", "function"} THEN {"timeouterror", "exits"}
                 ELSE IF Executor = "http" THEN {"unreadable"} ELSE {}) :
          Return(p, o)
    /\ UNCHANGED <<request, log>>

\* The descendants of a killed process let go of its pipes.
DescendantsEnd(p) ==
    /\ IsCode(p) /\ frames[p].ret = "orphaned"
    /\ Return(p, "killed")
    /\ UNCHANGED <<request, log>>

LayerStep(p) ==
    /\ ~IsCode(p)
    /\ \/ Enter(p) \/ PythonRequest(p) \/ ShellRequest(p) \/ FunctionRequest(p)
       \/ HTTPRequest(p) \/ MockRequest(p)
       \/ TimeoutExpire(p) \/ PythonExpire(p) \/ ShellExpire(p) \/ ShellDrained(p)
       \/ \E r \in Results : \/ Through(p, r) \/ TimeoutReturn(p, r)
                             \/ RetryReturn(p, r) \/ RetryAgain(p, r) \/ Adapter(p, r)
       \/ \E o \in Outcomes : Execute(p, o)

Next == \E p \in DOMAIN frames : LayerStep(p) \/ CodeEnds(p) \/ DescendantsEnd(p)

Spec == Init /\ [][Next]_vars

\* The threads are scheduled fairly, time passes, and a simulated delay ends;
\* a function, a process, its descendants or a response that trickles in may take
\* for ever.
FairSpec ==
    /\ Spec
    /\ WF_vars(\E p \in DOMAIN frames : LayerStep(p))
    /\ WF_vars(\E p \in DOMAIN frames : Executor = "mock" /\ CodeEnds(p))

----------------------------------------------------------------------------
(* Properties.                                                             *)

Running == {p \in DOMAIN frames : IsCode(p) /\ frames[p].ret = Open}

Above(p) == {SubSeq(p, 1, n) : n \in 0 .. Len(p) - 1}

\* The pipeline succeeds only on the latest attempt: SUCCEEDED comes, through
\* every layer, from code that returned (or exited under the environment's
\* time limit) and that no later attempt has superseded.  The late result of
\* an attempt given up as timed out is never the answer.
SuccessIsLatest ==
    frames[Root].ret = "SUCCEEDED" =>
        \E p \in DOMAIN frames :
            /\ IsCode(p)
            /\ frames[p].ret = "value" \/ (frames[p].ret = "exits" /\ Timed("python"))
            /\ \A q \in Above(p) : /\ frames[q].ret = "SUCCEEDED"
                                   /\ p[Len(q) + 1] = frames[q].calls

\* RetryMiddleware makes at most max_retries + 1 calls, each after a result
\* that was no success, never after an exception and never beside a call that
\* has not answered; its events number the attempts in order.
RetryDiscipline ==
    /\ \A p \in DOMAIN frames : ~IsCode(p) /\ Layer(p) = "retry" =>
          /\ frames[p].calls <= maxRetries + 1
          /\ \A n \in 1 .. frames[p].calls - 1 :
                frames[Append(p, n)].ret \in {"FAILED", "TIMED_OUT"}
    /\ Cardinality({i \in DOMAIN stack : stack[i] = "retry"}) = 1 =>
          \A i \in DOMAIN log : /\ log[i] <= maxRetries
                                /\ \A j \in 1 .. i - 1 : log[j] < log[i]

\* Code that outlives a call on its way was given up there as timed out, by
\* TimeoutMiddleware or by the environment's thread: a process (not what it has
\* started in turn) never outlives the run_in_env call that started it.
LeftoversTimedOut ==
    \A p \in Running : (\E q \in Above(p) : frames[q].ret # Open) =>
        \E q \in Above(p) : /\ Layer(q) \in {"timeout", "python"} /\ Timed(Layer(q))
                            /\ frames[q].ret = "TIMED_OUT"

\* run_in_env waits for the descendants of a process it has killed, and there is
\* no TimeoutMiddleware with a limit of its own.
PipeHeld ==
    /\ \A i \in DOMAIN stack : ~(stack[i] = "timeout" /\ Timed("timeout"))
    /\ \E p \in DOMAIN frames : frames[p].ret = "orphaned"

\* Where a time limit is in force, or the code always ends, the caller is
\* answered, however long the code runs and however often it is retried, unless
\* a descendant of a killed process holds its pipes and only the environment
\* keeps the limit.
CallerAnswered ==
    (\/ \E i \in DOMAIN stack : Timed(stack[i])
     \/ Executor = "mock") ~> (frames[Root].ret # Open \/ PipeHeld)
=============================================================================
