-------------------------- MODULE ExecutionProofs --------------------------
(***************************************************************************)
(* Proofs about Execution, for any layering of middlewares over any of the *)
(* executors, any time limit and any number of retries.                    *)
(***************************************************************************)
EXTENDS Execution, FiniteSetTheorems, SequenceTheorems, TLAPS

----------------------------------------------------------------------------
(* The invariants.                                                         *)

\* The first n calls of path p, and the path of p's k-th call.
Pre(p, n) == SubSeq(p, 1, n)
Child(p, k) == Append(p, k)

\* What the code of this executor may do.
Possible == {"value", "raises"}
            \cup (IF Executor \in {"python", "function"} THEN {"timeouterror", "exits"} ELSE {})
            \cup (IF Executor = "http" THEN {"unreadable"} ELSE {})
            \cup (IF Executor = "shell" THEN {"killed", "orphaned"} ELSE {})

Requested == [stack |-> stack, timeout |-> timeout, maxRetries |-> maxRetries] \in Requests

Frame == [calls : Nat, ret : {Open} \cup Outcomes \cup Results]

\* The frames are a tree: the calls on the way to a frame are frames, and so are
\* all the calls a frame has made.
Tree ==
    /\ frames \in [DOMAIN frames -> Frame]
    /\ Root \in DOMAIN frames
    /\ \A p \in DOMAIN frames :
         /\ p \in Seq(Nat) /\ Len(p) <= Len(stack)
         /\ \A n \in 0 .. Len(p) : Pre(p, n) \in DOMAIN frames
         /\ \A n \in 0 .. Len(p) - 1 : p[n + 1] \in 1 .. frames[Pre(p, n)].calls
         /\ \A k \in 1 .. frames[p].calls : Child(p, k) \in DOMAIN frames

\* What code and layers have done.
Returns ==
    \A p \in DOMAIN frames :
        /\ IsCode(p) => frames[p].calls = 0 /\ frames[p].ret \in {Open} \cup Possible
        /\ ~IsCode(p) => frames[p].ret \in {Open} \cup Results

\* Only a retry middleware calls again, after a result that was no success.
Calls ==
    \A p \in DOMAIN frames : ~IsCode(p) =>
        /\ Layer(p) = "retry" => frames[p].calls <= maxRetries + 1
        /\ Layer(p) # "retry" => frames[p].calls <= 1
        /\ \A k \in 1 .. frames[p].calls - 1 : frames[Child(p, k)].ret \in {"FAILED", "TIMED_OUT"}

Base == Requested /\ Tree /\ Returns /\ Calls /\ log \in Seq(Nat)

\* Code that did o did well; frame q has ended well.
Fine(o) == o = "value" \/ (o = "exits" /\ Timed("python"))
Good(q) == IF IsCode(q) THEN Fine(frames[q].ret) ELSE frames[q].ret = "SUCCEEDED"

\* Code p is what q succeeded on, by the latest calls of every layer between.
Source(p, q) ==
    /\ IsCode(p) /\ Good(p) /\ Len(q) <= Len(p) /\ Pre(p, Len(q)) = q
    /\ \A n \in Len(q) .. Len(p) - 1 : /\ frames[Pre(p, n)].ret = "SUCCEEDED"
                                       /\ p[n + 1] = frames[Pre(p, n)].calls

Chained == \A q \in DOMAIN frames : Good(q) => \E p \in DOMAIN frames : Source(p, q)

\* Frame q was given up by a layer that runs what it calls in a thread.
GivenUp(q) == /\ Layer(q) \in {"timeout", "python"} /\ Timed(Layer(q))
              /\ frames[q].ret = "TIMED_OUT"

\* An open frame below a closed one is below one that was given up.
Orphaned ==
    \A p \in DOMAIN frames : frames[p].ret = Open =>
        \A n \in 0 .. Len(p) - 1 :
            frames[Pre(p, n)].ret # Open => \E m \in 0 .. Len(p) - 1 : GivenUp(Pre(p, m))

\* There is one retry middleware; frame p is one of it.
OneRetry == \E i \in DOMAIN stack : \A j \in DOMAIN stack : stack[j] = "retry" <=> j = i
AtRetry(p) == ~IsCode(p) /\ Layer(p) = "retry"

\* The events of its retries are numbered in order and lag behind its calls.
Numbered ==
    OneRetry =>
      /\ \A i \in DOMAIN log : log[i] <= maxRetries /\ \A j \in 1 .. i - 1 : log[j] < log[i]
      /\ \A p \in DOMAIN frames : AtRetry(p) => \A i \in DOMAIN log : log[i] < frames[p].calls
      /\ (\A p \in DOMAIN frames : ~AtRetry(p)) => log = << >>

----------------------------------------------------------------------------
(* Paths.                                                                  *)

\* A prefix of a path.
LEMMA PreFacts ==
    ASSUME NEW p \in Seq(Nat), NEW n \in 0 .. Len(p)
    PROVE  /\ Pre(p, n) \in Seq(Nat) /\ Len(Pre(p, n)) = n
           /\ \A i \in 1 .. n : Pre(p, n)[i] = p[i]
  BY SubSeqProperties DEF Pre

\* Two paths of the same calls are the same.
LEMMA SamePath ==
    ASSUME NEW p \in Seq(Nat), NEW q \in Seq(Nat), Len(p) = Len(q),
           \A i \in 1 .. Len(p) : p[i] = q[i]
    PROVE  p = q
  BY SeqEqual

\* A prefix of a prefix.
LEMMA PrePre ==
    ASSUME NEW p \in Seq(Nat), NEW n \in 0 .. Len(p), NEW m \in 0 .. n
    PROVE  Pre(Pre(p, n), m) = Pre(p, m)
<1>1. Pre(p, n) \in Seq(Nat) /\ Len(Pre(p, n)) = n /\ \A i \in 1 .. n : Pre(p, n)[i] = p[i]
  BY PreFacts
<1>2. m \in 0 .. Len(Pre(p, n)) /\ m \in 0 .. Len(p)
  BY <1>1, LenProperties
<1>3. /\ Pre(Pre(p, n), m) \in Seq(Nat) /\ Len(Pre(Pre(p, n), m)) = m
      /\ \A i \in 1 .. m : Pre(Pre(p, n), m)[i] = Pre(p, n)[i]
  BY <1>1, <1>2, PreFacts
<1>4. Pre(p, m) \in Seq(Nat) /\ Len(Pre(p, m)) = m /\ \A i \in 1 .. m : Pre(p, m)[i] = p[i]
  BY <1>2, PreFacts
<1>5. QED
  BY SMTT(30), <1>1, <1>3, <1>4, SamePath

\* The whole path and the empty one.
LEMMA PreEnds ==
    ASSUME NEW p \in Seq(Nat)
    PROVE  Pre(p, Len(p)) = p /\ Pre(p, 0) = Root
<1>1. Len(p) \in Nat
  BY LenProperties
<1>2. Pre(p, Len(p)) = p
  BY <1>1, PreFacts, SamePath
<1>3. Pre(p, 0) = Root
  BY <1>1, PreFacts, EmptySeq DEF Root
<1>4. QED
  BY <1>2, <1>3

\* The path of a call.
LEMMA ChildFacts ==
    ASSUME NEW p \in Seq(Nat), NEW k \in Nat
    PROVE  /\ Child(p, k) \in Seq(Nat) /\ Len(Child(p, k)) = Len(p) + 1
           /\ Child(p, k)[Len(p) + 1] = k
           /\ \A i \in 1 .. Len(p) : Child(p, k)[i] = p[i]
           /\ Child(p, k) # p
  BY AppendProperties, LenProperties DEF Child

\* The calls on its way are those on the way to the caller, and the caller.
LEMMA ChildPre ==
    ASSUME NEW p \in Seq(Nat), NEW k \in Nat, NEW n \in 0 .. Len(p)
    PROVE  Pre(Child(p, k), n) = Pre(p, n) /\ Pre(Child(p, k), Len(p)) = p
<1> DEFINE c == Child(p, k)
<1>1. /\ c \in Seq(Nat) /\ Len(c) = Len(p) + 1 /\ Len(p) \in Nat
      /\ \A i \in 1 .. Len(p) : c[i] = p[i]
  BY ChildFacts, LenProperties
<1> HIDE DEF c
<1>2. ASSUME NEW m \in 0 .. Len(p) PROVE Pre(c, m) = Pre(p, m)
  <2> m \in 0 .. Len(c) /\ m \in Nat /\ m <= Len(p)
    BY <1>1
  <2>1. Pre(c, m) \in Seq(Nat) /\ Len(Pre(c, m)) = m /\ \A i \in 1 .. m : Pre(c, m)[i] = c[i]
    BY <1>1, PreFacts
  <2>2. Pre(p, m) \in Seq(Nat) /\ Len(Pre(p, m)) = m /\ \A i \in 1 .. m : Pre(p, m)[i] = p[i]
    BY PreFacts
  <2>3. ASSUME NEW i \in 1 .. m PROVE Pre(c, m)[i] = Pre(p, m)[i]
    <3>1. i \in 1 .. Len(p)
      BY <1>1
    <3>2. QED
      BY <1>1, <2>1, <2>2, <3>1
  <2>4. QED
    BY <2>1, <2>2, <2>3, SamePath
<1>3. Len(p) \in 0 .. Len(p)
  BY LenProperties
<1>4. QED
  BY <1>2, <1>3, PreEnds DEF c

\* A prefix that goes one call further.
LEMMA PreNext ==
    ASSUME NEW p \in Seq(Nat), NEW n \in 0 .. Len(p) - 1
    PROVE  /\ Pre(p, n + 1) = Child(Pre(p, n), p[n + 1])
           /\ p[n + 1] \in Nat /\ n \in 0 .. Len(p) /\ n + 1 \in 0 .. Len(p)
<1>1. Len(p) \in Nat
  BY LenProperties
<1>2. p[n + 1] \in Nat /\ n \in 0 .. Len(p) /\ n + 1 \in 0 .. Len(p)
  BY <1>1, ElementOfSeq
<1>3. /\ Pre(p, n) \in Seq(Nat) /\ Len(Pre(p, n)) = n
      /\ \A i \in 1 .. n : Pre(p, n)[i] = p[i]
  BY <1>2, PreFacts
<1>4. /\ Pre(p, n + 1) \in Seq(Nat) /\ Len(Pre(p, n + 1)) = n + 1
      /\ \A i \in 1 .. n + 1 : Pre(p, n + 1)[i] = p[i]
  BY <1>2, PreFacts
<1> DEFINE c == Child(Pre(p, n), p[n + 1])
<1>5. /\ c \in Seq(Nat) /\ Len(c) = Len(Pre(p, n)) + 1 /\ c[Len(Pre(p, n)) + 1] = p[n + 1]
      /\ \A i \in 1 .. Len(Pre(p, n)) : c[i] = Pre(p, n)[i]
  BY <1>2, <1>3, ChildFacts
<1> HIDE DEF c
<1>6. ASSUME NEW i \in 1 .. n + 1 PROVE Pre(p, n + 1)[i] = c[i]
  <2>1. i = n + 1 \/ i \in 1 .. n
    BY <1>1
  <2>2. QED
    BY <1>3, <1>4, <1>5, <2>1
<1>7. Len(c) = n + 1
  BY <1>3, <1>5
<1>8. QED
  BY <1>2, <1>4, <1>5, <1>6, <1>7, SamePath DEF c

----------------------------------------------------------------------------
(* The request and the results.                                            *)

\* The executor is the last layer and the only executor.
LEMMA RequestFacts ==
    ASSUME Requested
    PROVE  /\ Len(stack) \in Nat /\ Len(stack) > 0 /\ maxRetries \in Nat
           /\ DOMAIN stack = 1 .. Len(stack) /\ Executor \in Executors
           /\ \A i \in 1 .. Len(stack) : stack[i] \in Executors <=> i = Len(stack)
<1> DEFINE req == [stack |-> stack, timeout |-> timeout, maxRetries |-> maxRetries]
<1>1. req \in Requests /\ req.stack = stack /\ req.maxRetries = maxRetries
  BY DEF Requested
<1>2. /\ stack \in Seq(Layers) /\ stack # << >> /\ maxRetries \in Nat
      /\ \A i \in DOMAIN stack : stack[i] \in Executors <=> i = Len(stack)
  BY <1>1, RequestsAssumption
<1>3. Len(stack) \in Nat /\ DOMAIN stack = 1 .. Len(stack) /\ Len(stack) # 0
  BY <1>2, LenProperties, EmptySeq
<1>4. Len(stack) > 0 /\ Len(stack) \in 1 .. Len(stack)
  BY <1>3
<1>5. Executor \in Executors
  BY <1>2, <1>3, <1>4 DEF Executor
<1>6. QED
  BY <1>2, <1>3, <1>4, <1>5

\* The layer of a frame, and of the frames it calls.
LEMMA LayerFacts ==
    ASSUME Base, NEW p \in DOMAIN frames, ~IsCode(p)
    PROVE  /\ p \in Seq(Nat) /\ Len(p) \in Nat /\ Len(p) < Len(stack) /\ Len(stack) \in Nat
           /\ Layer(p) \in Executors <=> Len(p) + 1 = Len(stack)
           /\ Layer(p) \in Executors => Layer(p) = Executor
           /\ \A k \in Nat : IsCode(Child(p, k)) <=> Layer(p) \in Executors
<1>1. p \in Seq(Nat) /\ Len(p) <= Len(stack) /\ Len(p) \in Nat
  BY LenProperties DEF Base, Tree
<1> Len(stack) \in Nat /\ Len(p) # Len(stack)
  BY RequestFacts DEF Base, IsCode
<1>2. Len(stack) \in Nat /\ Len(p) < Len(stack)
  BY <1>1
<1>3. Len(p) + 1 \in 1 .. Len(stack)
  BY <1>1, <1>2
<1>4. Layer(p) \in Executors <=> Len(p) + 1 = Len(stack)
  BY <1>3, RequestFacts DEF Base, Layer
<1>5. Layer(p) \in Executors => Layer(p) = Executor
  BY <1>4 DEF Layer, Executor
<1>6. \A k \in Nat : IsCode(Child(p, k)) <=> Layer(p) \in Executors
  BY <1>1, <1>4, ChildFacts DEF IsCode
<1>7. QED
  BY <1>1, <1>2, <1>4, <1>5, <1>6

\* An executor reports success for code that did.
Honest(r, o) == r \in Results /\ (r = "SUCCEEDED" => Fine(o))

\* run_in_env with a callable.
LEMMA PythonHonest ==
    ASSUME NEW o \in {"value", "raises", "timeouterror", "exits"} PROVE Honest(PythonResult(o), o)
<1>1. CASE o = "value"
  BY <1>1, Zenon DEF PythonResult, Honest, Fine, Results
<1>2. CASE o = "raises"
  BY <1>2, Zenon DEF PythonResult, Honest, Fine, Results
<1>3. CASE o = "timeouterror"
  BY <1>3, Zenon DEF PythonResult, Honest, Fine, Results
<1>4. CASE o = "exits"
  BY <1>4, Zenon DEF PythonResult, Honest, Fine, Results
<1>5. QED
  BY <1>1, <1>2, <1>3, <1>4

\* FunctionExecutor.
LEMMA FunctionHonest ==
    ASSUME NEW o \in {"value", "raises", "timeouterror", "exits"} PROVE Honest(FunctionResult(o), o)
<1>1. CASE o = "value"
  BY <1>1, Zenon DEF FunctionResult, Honest, Fine, Results
<1>2. CASE o = "raises"
  BY <1>2, Zenon DEF FunctionResult, Honest, Fine, Results
<1>3. CASE o = "timeouterror"
  BY <1>3, Zenon DEF FunctionResult, Honest, Fine, Results
<1>4. CASE o = "exits"
  BY <1>4, Zenon DEF FunctionResult, Honest, Fine, Results
<1>5. QED
  BY <1>1, <1>2, <1>3, <1>4

\* HTTPExecutor.
LEMMA HTTPHonest ==
    ASSUME NEW o \in {"value", "raises", "unreadable"} PROVE Honest(HTTPResult(o), o)
<1>1. CASE o = "value"
  BY <1>1, Zenon DEF HTTPResult, Honest, Fine, Results
<1>2. CASE o = "raises"
  BY <1>2, Zenon DEF HTTPResult, Honest, Fine, Results
<1>3. CASE o = "unreadable"
  BY <1>3, Zenon DEF HTTPResult, Honest, Fine, Results
<1>4. QED
  BY <1>1, <1>2, <1>3

\* ShellExecutor and MockExecutor.
LEMMA PlainHonest ==
    ASSUME NEW o
    PROVE  Honest(ShellResult(o), o) /\ Honest(MockResult(o), o)
  BY DEF ShellResult, MockResult, Honest, Fine, Results

\* Whichever the request has.
LEMMA ResultHonest ==
    ASSUME Requested, NEW o \in Possible PROVE Honest(ExecutorResult(o), o)
<1>1. Executor \in Executors
  BY RequestFacts
<1>2. CASE Executor = "python"
  <2>1. o \in {"value", "raises", "timeouterror", "exits"}
    BY <1>2 DEF Possible
  <2>2. ExecutorResult(o) = PythonResult(o)
    BY <1>2, Zenon DEF ExecutorResult
  <2>3. QED
    BY <2>1, <2>2, PythonHonest
<1>3. CASE Executor = "function"
  <2>1. o \in {"value", "raises", "timeouterror", "exits"}
    BY <1>3 DEF Possible
  <2>2. ExecutorResult(o) = FunctionResult(o)
    BY <1>3, Zenon DEF ExecutorResult
  <2>3. QED
    BY <2>1, <2>2, FunctionHonest
<1>4. CASE Executor = "shell"
  <2>1. ExecutorResult(o) = ShellResult(o)
    BY <1>4, Zenon DEF ExecutorResult
  <2>2. QED
    BY <2>1, PlainHonest
<1>5. CASE Executor = "http"
  <2>1. o \in {"value", "raises", "unreadable"}
    BY <1>5 DEF Possible
  <2>2. ExecutorResult(o) = HTTPResult(o)
    BY <1>5, Zenon DEF ExecutorResult
  <2>3. QED
    BY <2>1, <2>2, HTTPHonest
<1>6. CASE Executor = "mock"
  <2>1. ExecutorResult(o) = MockResult(o)
    BY <1>6, Zenon DEF ExecutorResult
  <2>2. QED
    BY <2>1, PlainHonest
<1>7. QED
  BY <1>1, <1>2, <1>3, <1>4, <1>5, <1>6 DEF Executors

----------------------------------------------------------------------------
(* What a step does to the frames.                                         *)

\* No frame but those in D changes.
Others(D) == \A q \in DOMAIN frames \ D : frames'[q] = frames[q]

\* Frame p makes its next call.
Grown(p) ==
    LET c == Child(p, frames[p].calls + 1) IN
    /\ c \in Seq(Nat) /\ c \notin DOMAIN frames /\ DOMAIN frames' = DOMAIN frames \cup {c}
    /\ frames'[p].calls = frames[p].calls + 1 /\ frames'[p].ret = frames[p].ret
    /\ frames'[c].calls = 0 /\ frames'[c].ret = Open
    /\ Others({p})

\* Frame p ends with r.
Closed(p, r) == DOMAIN frames' = DOMAIN frames /\ frames'[p].ret = r /\ frames'[p].calls = frames[p].calls

\* When a layer may call on, and when and how it may end.
Again(p) == /\ Layer(p) = "retry" /\ frames[p].calls > 0 /\ RetriesLeft(p)
            /\ frames[LastCall(p)].ret \in {"FAILED", "TIMED_OUT"}

CallStep(p) ==
    /\ Active(p) /\ Grown(p)
    /\ \/ frames[p].calls = 0 /\ log' = log
       \/ Again(p) /\ log' \in {log, Append(log, frames[p].calls)}

Refused(p, r) == frames[p].calls = 0 /\ r = "raised"
Relayed(p, r) == /\ frames[p].calls > 0 /\ frames[LastCall(p)].ret # Open
                 /\ r = "SUCCEEDED" => Good(LastCall(p))
Expired(p, r) == Layer(p) \in {"timeout", "python"} /\ Timed(Layer(p)) /\ r = "TIMED_OUT"

EndStep(p, r) ==
    /\ Active(p) /\ r \in Results /\ Closed(p, r) /\ Others({p}) /\ log' = log
    /\ Refused(p, r) \/ Relayed(p, r) \/ Expired(p, r)

\* Code ends, or what holds the pipes of a killed process does.
CodeStep(p, o) ==
    /\ IsCode(p) /\ o \in Possible
    /\ frames[p].ret = Open \/ (frames[p].ret = "orphaned" /\ o = "killed")
    /\ Closed(p, o) /\ Others({p}) /\ log' = log

FrameStep(p) == \/ CallStep(p)
                \/ \E r \in Results : EndStep(p, r)
                \/ \E o \in Possible : CodeStep(p, o)

\* The compiled chain's call.
LEMMA CallFacts ==
    ASSUME Base, NEW p \in DOMAIN frames, CallNext(p)
    PROVE  Grown(p) /\ frames' \in [DOMAIN frames' -> Frame]
<1>1. p \in Seq(Nat) /\ frames \in [DOMAIN frames -> Frame]
  BY DEF Base, Tree
<1>2. frames[p] \in Frame /\ frames[p].calls \in Nat
  BY <1>1 DEF Frame
<1>3. PICK k \in Nat : k = frames[p].calls + 1
  BY <1>2
<1>4. PICK c : c = Child(p, k)
  OBVIOUS
<1>5. c \in Seq(Nat) /\ Len(c) = Len(p) + 1 /\ c[Len(p) + 1] = k /\ Len(p) \in 0 .. Len(c) - 1
  BY SMTT(30), <1>1, <1>4, ChildFacts, LenProperties
<1>6. c \notin DOMAIN frames
  <2>1. SUFFICES ASSUME c \in DOMAIN frames PROVE FALSE
    OBVIOUS
  <2>2. c[Len(p) + 1] \in 1 .. frames[Pre(c, Len(p))].calls
    BY <1>5, <2>1 DEF Base, Tree
  <2>3. Pre(c, Len(p)) = p
    BY <1>1, <1>4, ChildPre, LenProperties
  <2>4. QED
    BY <1>2, <1>3, <1>5, <2>2, <2>3
<1>7. PICK g : g = [frames EXCEPT ![p].calls = @ + 1]
  OBVIOUS
<1>8. /\ g \in [DOMAIN frames -> Frame]
      /\ g[p].calls = k /\ g[p].ret = frames[p].ret
      /\ \A q \in DOMAIN frames \ {p} : g[q] = frames[q]
  BY <1>1, <1>2, <1>3, <1>7 DEF Frame
<1>9. frames' = [q \in DOMAIN frames \cup {c} |-> IF q = c THEN Fresh ELSE g[q]]
  BY <1>3, <1>4, <1>7, <1>8 DEF CallNext, Child
<1>10. /\ DOMAIN frames' = DOMAIN frames \cup {c} /\ frames'[c] = Fresh
       /\ \A q \in DOMAIN frames : frames'[q] = g[q]
       /\ frames' = [q \in DOMAIN frames' |-> frames'[q]]
  BY <1>6, <1>8, <1>9
<1>11. Fresh \in Frame /\ Fresh.calls = 0 /\ Fresh.ret = Open
  BY DEF Fresh, Frame
<1>12. frames' \in [DOMAIN frames' -> Frame]
  BY <1>8, <1>10, <1>11
<1>13. QED
  BY <1>3, <1>4, <1>5, <1>6, <1>8, <1>10, <1>11, <1>12 DEF Grown, Others

\* A frame ends.
LEMMA ReturnFacts ==
    ASSUME Base, NEW p \in DOMAIN frames, NEW r \in Outcomes \cup Results, Return(p, r)
    PROVE  Closed(p, r) /\ Others({p}) /\ frames' \in [DOMAIN frames' -> Frame]
<1>1. frames \in [DOMAIN frames -> Frame]
  BY DEF Base, Tree
<1>2. QED
  BY <1>1 DEF Return, Closed, Others, Frame

\* Every call that was made is a frame.
LEMMA LastFacts ==
    ASSUME Base, NEW p \in DOMAIN frames, frames[p].calls > 0
    PROVE  /\ LastCall(p) = Child(p, frames[p].calls) /\ LastCall(p) \in DOMAIN frames
           /\ LastCall(p) # p /\ frames[p].calls \in Nat
<1>1. frames[p].calls \in Nat /\ p \in Seq(Nat)
  BY DEF Base, Tree, Frame
<1>2. frames[p].calls \in 1 .. frames[p].calls
  BY <1>1
<1>3. Child(p, frames[p].calls) \in DOMAIN frames
  BY <1>2 DEF Base, Tree
<1>4. QED
  BY <1>1, <1>3, ChildFacts DEF LastCall, Child

\* Shape of what a step leaves.
Shaped == frames' \in [DOMAIN frames' -> Frame] /\ UNCHANGED request

\* A layer ends with what the next one answered or made of it.
LEMMA Relays ==
    ASSUME Base, NEW p \in DOMAIN frames, NEW a, Answered(p, a),
           NEW r \in Results, Return(p, r), r = "SUCCEEDED" => Good(LastCall(p)),
           UNCHANGED <<request, log>>
    PROVE  EndStep(p, r) /\ Shaped
<1>1. Closed(p, r) /\ Others({p}) /\ frames' \in [DOMAIN frames' -> Frame]
  BY ReturnFacts
<1>2. QED
  BY <1>1 DEF EndStep, Shaped, Relayed, Answered

\* A middleware's or the adapter's callee is a layer.
LEMMA BelowLayer ==
    ASSUME Base, NEW p \in DOMAIN frames, NEW a, Answered(p, a), Layer(p) \notin Executors
    PROVE  ~IsCode(LastCall(p)) /\ (a = "SUCCEEDED" => Good(LastCall(p)))
<1>1. LastCall(p) = Child(p, frames[p].calls) /\ frames[p].calls \in Nat /\ ~IsCode(p)
  BY LastFacts DEF Answered, Active
<1>2. ~IsCode(LastCall(p))
  BY <1>1, LayerFacts
<1>3. QED
  BY <1>2 DEF Good, Answered

\* A layer calls on for the first time.
LEMMA Starts ==
    ASSUME Base, NEW p \in DOMAIN frames, Starting(p), CallNext(p), UNCHANGED <<request, log>>
    PROVE  CallStep(p) /\ Shaped
  BY CallFacts DEF CallStep, Shaped, Starting

\* An executor runs its code or refuses to.
LEMMA RequestStep ==
    ASSUME Base, NEW p \in DOMAIN frames, RunOrRefuse(p)
    PROVE  Shaped /\ FrameStep(p)
<1>1. CASE CallNext(p)
  BY <1>1, Starts DEF RunOrRefuse, FrameStep
<1>2. CASE Return(p, "raised")
  <2>1. "raised" \in Results
    BY DEF Results
  <2>2. Closed(p, "raised") /\ Others({p}) /\ frames' \in [DOMAIN frames' -> Frame]
    BY <1>2, <2>1, ReturnFacts
  <2>3. EndStep(p, "raised")
    BY <2>1, <2>2 DEF RunOrRefuse, Starting, EndStep, Refused
  <2>4. QED
    BY <2>1, <2>2, <2>3 DEF FrameStep, Shaped, RunOrRefuse
<1>3. QED
  BY <1>1, <1>2 DEF RunOrRefuse

\* A time limit passes.
LEMMA ExpireStep ==
    ASSUME Base, NEW p \in DOMAIN frames, TimeoutExpire(p) \/ PythonExpire(p)
    PROVE  Shaped /\ FrameStep(p)
<1>1. /\ Layer(p) \in {"timeout", "python"} /\ Timed(Layer(p)) /\ Active(p)
      /\ Return(p, "TIMED_OUT") /\ UNCHANGED <<request, log>>
  BY DEF TimeoutExpire, PythonExpire, Waiting
<1>2. "TIMED_OUT" \in Results
  BY DEF Results
<1>3. Closed(p, "TIMED_OUT") /\ Others({p}) /\ frames' \in [DOMAIN frames' -> Frame]
  BY <1>1, <1>2, ReturnFacts
<1>4. EndStep(p, "TIMED_OUT")
  BY <1>1, <1>2, <1>3 DEF EndStep, Expired
<1>5. QED
  BY <1>1, <1>2, <1>3, <1>4 DEF FrameStep, Shaped

\* ... and the process is killed.
LEMMA KillFacts ==
    ASSUME Base, NEW p \in DOMAIN frames, ShellExpire(p)
    PROVE  Shaped /\ \E c \in DOMAIN frames : FrameStep(c)
<1>1. /\ Layer(p) = "shell" /\ ~IsCode(p) /\ frames[p].calls > 0
      /\ frames[LastCall(p)].ret = Open /\ UNCHANGED <<request, log>>
  BY DEF ShellExpire, Waiting, Active
<1>2. PICK c \in DOMAIN frames : c = LastCall(p) /\ c = Child(p, frames[p].calls) /\ frames[p].calls \in Nat
  BY <1>1, LastFacts
<1>3. Layer(p) \in Executors
  BY <1>1 DEF Executors
<1>4. IsCode(c) /\ Executor = "shell"
  BY <1>1, <1>2, <1>3, LayerFacts
<1>5. PICK o \in {"killed", "orphaned"} : Return(c, o)
  BY <1>2 DEF ShellExpire
<1>6. o \in Possible /\ o \in Outcomes
  BY <1>4 DEF Possible, Outcomes
<1>7. Closed(c, o) /\ Others({c}) /\ frames' \in [DOMAIN frames' -> Frame]
  BY <1>5, <1>6, ReturnFacts
<1>8. CodeStep(c, o)
  BY <1>1, <1>2, <1>4, <1>6, <1>7 DEF CodeStep
<1>9. QED
  BY <1>1, <1>6, <1>7, <1>8 DEF FrameStep, Shaped

\* run_in_env is done with it.
LEMMA DrainedStep ==
    ASSUME Base, NEW p \in DOMAIN frames, ShellDrained(p)
    PROVE  Shaped /\ FrameStep(p)
<1>1. PICK r \in {"TIMED_OUT", "FAILED"} : Return(p, r)
  BY DEF ShellDrained
<1>2. r \in Results /\ r # "SUCCEEDED" /\ Answered(p, "killed") /\ UNCHANGED <<request, log>>
  BY DEF Results, ShellDrained
<1>3. QED
  BY <1>1, <1>2, Relays DEF FrameStep

\* A middleware or the adapter ends.
LEMMA MiddlewareReturns ==
    ASSUME Base, NEW p \in DOMAIN frames, NEW a \in Results,
           Through(p, a) \/ TimeoutReturn(p, a) \/ RetryReturn(p, a) \/ Adapter(p, a)
    PROVE  Shaped /\ FrameStep(p)
<1>1. Layer(p) \notin Executors /\ Answered(p, a) /\ UNCHANGED <<request, log>>
  BY DEF Through, TimeoutReturn, RetryReturn, Adapter, Executors, Transparent
<1>2. PICK r \in Results : Return(p, r) /\ (r = "SUCCEEDED" => a = "SUCCEEDED")
  BY DEF Through, TimeoutReturn, RetryReturn, Adapter, Results
<1>3. r = "SUCCEEDED" => Good(LastCall(p))
  BY <1>1, <1>2, BelowLayer
<1>4. QED
  BY <1>1, <1>2, <1>3, Relays DEF FrameStep

\* RetryMiddleware tries again.
LEMMA RetrySteps ==
    ASSUME Base, NEW p \in DOMAIN frames, NEW a \in Results, RetryAgain(p, a)
    PROVE  Shaped /\ FrameStep(p)
<1>1. Grown(p) /\ frames' \in [DOMAIN frames' -> Frame]
  BY CallFacts DEF RetryAgain
<1>2. Active(p) /\ Again(p)
  BY DEF RetryAgain, Answered, Again
<1>3. frames[p].calls \in Nat
  BY <1>2, LastFacts DEF Again
<1>4. Attempts(p) + 1 = frames[p].calls
  BY <1>3 DEF Attempts
<1>5. log' \in {log, Append(log, frames[p].calls)}
  BY <1>4 DEF RetryAgain
<1>6. QED
  BY <1>1, <1>2, <1>5 DEF RetryAgain, CallStep, FrameStep, Shaped

\* An executor ends.
LEMMA ExecuteSteps ==
    ASSUME Base, NEW p \in DOMAIN frames, NEW o \in Outcomes, Execute(p, o)
    PROVE  Shaped /\ FrameStep(p)
<1>1. PICK c \in DOMAIN frames : c = LastCall(p) /\ c = Child(p, frames[p].calls)
  BY LastFacts DEF Execute, Answered
<1>2. IsCode(c) /\ frames[c].ret = o
  <2>1. frames[p].calls \in Nat
    BY LastFacts DEF Execute, Answered
  <2>2. QED
    BY <1>1, <2>1, LayerFacts DEF Execute, Answered, Active
<1>3. o \in Possible
  BY <1>1, <1>2 DEF Base, Returns, Execute, Answered
<1>4. Honest(ExecutorResult(o), o)
  BY <1>3, ResultHonest DEF Base
<1>5. PICK r \in Results : r = ExecutorResult(o) /\ (r = "SUCCEEDED" => Fine(o))
  BY <1>4 DEF Honest
<1>6. r = "SUCCEEDED" => Good(LastCall(p))
  BY <1>1, <1>2, <1>5 DEF Good
<1>7. QED
  BY <1>5, <1>6, Relays DEF Execute, FrameStep

\* Code ends.
LEMMA CodeSteps ==
    ASSUME Base, NEW p \in DOMAIN frames, CodeEnds(p)
    PROVE  Shaped /\ FrameStep(p)
<1>1. PICK o \in Possible : Return(p, o)
  BY DEF CodeEnds, Possible
<1>2. o \in Outcomes
  BY DEF Possible, Outcomes
<1>3. Closed(p, o) /\ Others({p}) /\ frames' \in [DOMAIN frames' -> Frame]
  BY <1>1, <1>2, ReturnFacts
<1>4. CodeStep(p, o)
  BY <1>3 DEF CodeEnds, CodeStep
<1>5. QED
  BY <1>3, <1>4 DEF FrameStep, Shaped, CodeEnds

\* Its descendants let go of its pipes.
LEMMA DescendantsSteps ==
    ASSUME Base, NEW p \in DOMAIN frames, DescendantsEnd(p)
    PROVE  Shaped /\ FrameStep(p)
<1>1. IsCode(p) /\ frames[p].ret = "orphaned" /\ Return(p, "killed") /\ UNCHANGED <<request, log>>
  BY DEF DescendantsEnd
<1>2. "killed" \in Possible /\ "killed" \in Outcomes
  <2>1. "orphaned" \in Possible
    BY <1>1 DEF Base, Returns, Open
  <2>2. Executor = "shell"
    BY <2>1 DEF Possible
  <2>3. QED
    BY <2>2 DEF Possible, Outcomes
<1>3. Closed(p, "killed") /\ Others({p}) /\ frames' \in [DOMAIN frames' -> Frame]
  BY <1>1, <1>2, ReturnFacts
<1>4. CodeStep(p, "killed")
  BY <1>1, <1>2, <1>3 DEF CodeStep
<1>5. QED
  BY <1>1, <1>2, <1>3, <1>4 DEF FrameStep, Shaped

\* Every step is a call, an end or an end of code.
LEMMA Steps ==
    ASSUME Base, Next
    PROVE  Shaped /\ \E p \in DOMAIN frames : FrameStep(p)
<1>1. PICK p \in DOMAIN frames : LayerStep(p) \/ CodeEnds(p) \/ DescendantsEnd(p)
  BY DEF Next
<1>2. CASE CodeEnds(p) \/ DescendantsEnd(p)
  BY <1>2, CodeSteps, DescendantsSteps
<1>3. CASE LayerStep(p)
  <2>1. CASE Enter(p) \/ MockRequest(p)
    BY <2>1, Starts DEF Enter, MockRequest, FrameStep
  <2>2. CASE PythonRequest(p) \/ ShellRequest(p) \/ FunctionRequest(p) \/ HTTPRequest(p)
    BY <2>2, RequestStep DEF PythonRequest, ShellRequest, FunctionRequest, HTTPRequest
  <2>3. CASE TimeoutExpire(p) \/ PythonExpire(p)
    BY <2>3, ExpireStep
  <2>4. CASE ShellExpire(p)
    BY <2>4, KillFacts
  <2>5. CASE \E a \in Results : Through(p, a) \/ TimeoutReturn(p, a) \/ RetryReturn(p, a) \/ Adapter(p, a)
    BY <2>5, MiddlewareReturns
  <2>6. CASE \E a \in Results : RetryAgain(p, a)
    BY <2>6, RetrySteps
  <2>7. CASE \E o \in Outcomes : Execute(p, o)
    BY <2>7, ExecuteSteps
  <2>8. CASE ShellDrained(p)
    BY <2>8, DrainedStep
  <2>9. QED
    BY <1>3, <2>1, <2>2, <2>3, <2>4, <2>5, <2>6, <2>7, <2>8 DEF LayerStep
<1>4. QED
  BY <1>1, <1>2, <1>3

----------------------------------------------------------------------------
(* Steps preserve the invariants.                                          *)

\* The request does not change.
LEMMA SameRequest ==
    ASSUME UNCHANGED request
    PROVE  /\ Requested <=> Requested'
           /\ Len(stack)' = Len(stack) /\ maxRetries' = maxRetries /\ Possible' = Possible
           /\ \A q : (IsCode(q)' <=> IsCode(q)) /\ Layer(q)' = Layer(q)
           /\ \A l : Timed(l)' <=> Timed(l)
           /\ \A o : Fine(o)' <=> Fine(o)
           /\ OneRetry' <=> OneRetry
           /\ \A q : AtRetry(q)' <=> AtRetry(q)
<1>1. stack' = stack /\ timeout' = timeout /\ maxRetries' = maxRetries
  BY DEF request
<1>2. /\ Len(stack)' = Len(stack) /\ Possible' = Possible /\ (Requested <=> Requested')
      /\ (OneRetry' <=> OneRetry)
  BY <1>1 DEF Possible, Executor, Requested, OneRetry
<1>3. \A q : (IsCode(q)' <=> IsCode(q)) /\ Layer(q)' = Layer(q) /\ (AtRetry(q)' <=> AtRetry(q))
  BY <1>1 DEF IsCode, Layer, AtRetry
<1>4. (\A l : Timed(l)' <=> Timed(l)) /\ (\A o : Fine(o)' <=> Fine(o))
  BY <1>1 DEF Timed, Fine
<1>5. QED
  BY <1>1, <1>2, <1>3, <1>4

\* What ended stays as it is, but for the descendants of a killed process.
Kept ==
    \A q \in DOMAIN frames :
        /\ q \in DOMAIN frames'
        /\ frames[q].ret \notin {Open, "orphaned"} => frames'[q] = frames[q]
        /\ frames[q].ret = "orphaned" => frames'[q].ret \in {"orphaned", "killed"}

\* No step changes a frame that ended.
LEMMA ClosedKept ==
    ASSUME Base, NEW p \in DOMAIN frames, FrameStep(p), Shaped
    PROVE  Kept
<1>1. CASE CallStep(p)
  BY <1>1 DEF CallStep, Grown, Others, Active, Kept, Open
<1>2. CASE \E r \in Results : EndStep(p, r)
  BY <1>2 DEF EndStep, Closed, Others, Active, Kept, Open
<1>3. CASE \E o \in Possible : CodeStep(p, o)
  BY <1>3 DEF CodeStep, Closed, Others, Kept, Open
<1>4. QED
  BY <1>1, <1>2, <1>3 DEF FrameStep

\* Unless a call is made the tree is the same.
Settled ==
    /\ DOMAIN frames' = DOMAIN frames /\ log' = log
    /\ \A q \in DOMAIN frames : frames'[q].calls = frames[q].calls

\* An end and an end of code leave it so.
LEMMA SettledFacts ==
    ASSUME Base, NEW p \in DOMAIN frames, FrameStep(p), ~CallStep(p)
    PROVE  Settled
<1>1. CASE \E r \in Results : EndStep(p, r)
  BY <1>1 DEF EndStep, Closed, Others, Settled
<1>2. CASE \E o \in Possible : CodeStep(p, o)
  BY <1>2 DEF CodeStep, Closed, Others, Settled
<1>3. QED
  BY <1>1, <1>2 DEF FrameStep

\* The frames stay a tree.
LEMMA TreeKept ==
    ASSUME Base, NEW p \in DOMAIN frames, FrameStep(p), Shaped
    PROVE  Tree'
<1>1. CASE ~CallStep(p)
  <2>1. Settled
    BY <1>1, SettledFacts
  <2>2. Len(stack)' = Len(stack)
    BY SameRequest DEF Shaped
  <2>3. ASSUME NEW q \in DOMAIN frames
        PROVE  /\ q \in Seq(Nat) /\ Len(q) <= Len(stack)'
               /\ \A n \in 0 .. Len(q) : Pre(q, n) \in DOMAIN frames'
               /\ \A n \in 0 .. Len(q) - 1 : q[n + 1] \in 1 .. frames'[Pre(q, n)].calls
               /\ \A j \in 1 .. frames'[q].calls : Child(q, j) \in DOMAIN frames'
    <3>1. /\ q \in Seq(Nat) /\ Len(q) <= Len(stack) /\ Len(q) \in Nat
          /\ \A n \in 0 .. Len(q) : Pre(q, n) \in DOMAIN frames
          /\ \A n \in 0 .. Len(q) - 1 : q[n + 1] \in 1 .. frames[Pre(q, n)].calls
          /\ \A j \in 1 .. frames[q].calls : Child(q, j) \in DOMAIN frames
      BY LenProperties DEF Base, Tree
    <3>2. ASSUME NEW n \in 0 .. Len(q) - 1 PROVE q[n + 1] \in 1 .. frames'[Pre(q, n)].calls
      <4>1. Pre(q, n) \in DOMAIN frames /\ q[n + 1] \in 1 .. frames[Pre(q, n)].calls
        BY <3>1
      <4>2. QED
        BY <2>1, <4>1 DEF Settled
    <3>3. QED
      BY <2>1, <2>2, <3>1, <3>2 DEF Settled
  <2>4. QED
    BY <2>1, <2>3 DEF Settled, Base, Tree, Shaped
<1>2. CASE CallStep(p)
  <2> frames[p].calls \in Nat
    BY DEF Base, Tree, Frame
  <2>1. PICK k \in Nat : k = frames[p].calls + 1 /\ frames[p].calls \in Nat
    OBVIOUS
  <2>2. PICK c : c = Child(p, k)
    OBVIOUS
  <2>3. /\ c \notin DOMAIN frames /\ DOMAIN frames' = DOMAIN frames \cup {c}
        /\ frames'[p].calls = k /\ frames'[c].calls = 0 /\ Others({p})
    BY <1>2, <2>1, <2>2 DEF CallStep, Grown
  <2>4. ~IsCode(p)
    BY <1>2 DEF CallStep, Active
  <2>5. p \in Seq(Nat) /\ Len(p) \in Nat /\ Len(p) < Len(stack) /\ Len(stack) \in Nat
    BY <2>4, LayerFacts
  <2>6. /\ c \in Seq(Nat) /\ Len(c) = Len(p) + 1 /\ c[Len(p) + 1] = k
        /\ \A i \in 1 .. Len(p) : c[i] = p[i]
    BY <2>2, <2>5, ChildFacts
  <2>7. \A q \in DOMAIN frames : frames[q].calls \in Nat /\ frames'[q].calls \in Nat
                                 /\ frames[q].calls <= frames'[q].calls
    <3>1. \A q \in DOMAIN frames : frames[q].calls \in Nat
      BY DEF Base, Tree, Frame
    <3>2. QED
      BY <2>1, <2>3, <3>1 DEF Others
  <2>8. ASSUME NEW q \in DOMAIN frames
        PROVE  /\ q \in Seq(Nat) /\ Len(q) <= Len(stack)'
               /\ \A n \in 0 .. Len(q) : Pre(q, n) \in DOMAIN frames'
               /\ \A n \in 0 .. Len(q) - 1 : q[n + 1] \in 1 .. frames'[Pre(q, n)].calls
               /\ \A j \in 1 .. frames'[q].calls : Child(q, j) \in DOMAIN frames'
    <3>1. q \in Seq(Nat) /\ Len(q) <= Len(stack)' /\ Len(q) \in Nat
      BY SameRequest, LenProperties DEF Base, Tree, Shaped
    <3>2. \A n \in 0 .. Len(q) : Pre(q, n) \in DOMAIN frames
      BY DEF Base, Tree
    <3>3. ASSUME NEW n \in 0 .. Len(q) - 1 PROVE q[n + 1] \in 1 .. frames'[Pre(q, n)].calls
      <4>1. q[n + 1] \in 1 .. frames[Pre(q, n)].calls
        BY DEF Base, Tree
      <4>2. Pre(q, n) \in DOMAIN frames
        BY <3>1, <3>2
      <4>3. QED
        BY <2>7, <4>1, <4>2
    <3>4. ASSUME NEW j \in 1 .. frames'[q].calls PROVE Child(q, j) \in DOMAIN frames'
      <4>1. CASE j \in 1 .. frames[q].calls
        BY <2>3, <4>1 DEF Base, Tree
      <4>2. CASE j \notin 1 .. frames[q].calls
        <5>1. q = p
          BY <2>3, <4>2 DEF Others
        <5>2. j = k
          BY <2>1, <2>3, <4>2, <5>1
        <5>3. QED
          BY <2>2, <2>3, <5>1, <5>2
      <4>3. QED
        BY <4>1, <4>2
    <3>5. QED
      BY <2>3, <3>1, <3>2, <3>3, <3>4
  <2>9. /\ Len(c) <= Len(stack)'
        /\ \A n \in 0 .. Len(c) : Pre(c, n) \in DOMAIN frames'
        /\ \A n \in 0 .. Len(c) - 1 : c[n + 1] \in 1 .. frames'[Pre(c, n)].calls
        /\ \A j \in 1 .. frames'[c].calls : Child(c, j) \in DOMAIN frames'
    <3>1. Len(c) <= Len(stack)'
      BY <2>5, <2>6, SameRequest DEF Shaped
    <3>2. ASSUME NEW n \in 0 .. Len(p)
          PROVE  Pre(c, n) = Pre(p, n) /\ Pre(c, n) \in DOMAIN frames
      <4>1. Pre(c, n) = Pre(p, n)
        BY <2>2, <2>5, ChildPre
      <4>2. Pre(p, n) \in DOMAIN frames
        BY DEF Base, Tree
      <4>3. QED
        BY <4>1, <4>2
    <3>3. ASSUME NEW n \in 0 .. Len(c) PROVE Pre(c, n) \in DOMAIN frames'
      <4>1. n \in 0 .. Len(p) \/ n = Len(c)
        BY <2>5, <2>6
      <4>2. Pre(c, Len(c)) = c
        BY <2>6, PreEnds
      <4>3. QED
        BY <2>3, <3>2, <4>1, <4>2
    <3>4. ASSUME NEW n \in 0 .. Len(c) - 1 PROVE c[n + 1] \in 1 .. frames'[Pre(c, n)].calls
      <4>1. CASE n = Len(p)
        <5>1. Pre(c, n) = p
          BY <2>5, <3>2, <4>1, PreEnds
        <5>2. QED
          BY <2>1, <2>3, <2>6, <4>1, <5>1
      <4>2. CASE n # Len(p)
        <5>1. n \in 0 .. Len(p) - 1 /\ n \in 0 .. Len(p) /\ n + 1 \in 1 .. Len(p)
          BY <2>5, <2>6, <4>2
        <5>2. c[n + 1] = p[n + 1] /\ Pre(c, n) = Pre(p, n) /\ Pre(p, n) \in DOMAIN frames
          BY <2>6, <3>2, <5>1
        <5>3. p[n + 1] \in 1 .. frames'[Pre(p, n)].calls
          BY <2>8, <5>1
        <5>4. QED
          BY <5>2, <5>3
      <4>3. QED
        BY <4>1, <4>2
    <3>5. QED
      BY <2>3, <3>1, <3>3, <3>4
  <2>10. Root \in DOMAIN frames'
    BY <2>3 DEF Base, Tree
  <2>11. QED
    BY <2>3, <2>6, <2>8, <2>9, <2>10 DEF Tree, Shaped
<1>3. QED
  BY <1>1, <1>2

\* Code calls nothing and does what code can do; layers end with results.
LEMMA ReturnsKept ==
    ASSUME Base, NEW p \in DOMAIN frames, FrameStep(p), Shaped
    PROVE  Returns'
<1>1. /\ Possible' = Possible /\ \A q : IsCode(q)' <=> IsCode(q)
  BY SameRequest DEF Shaped
<1>2. SUFFICES ASSUME NEW q \in DOMAIN frames'
               PROVE  /\ IsCode(q) => frames'[q].calls = 0 /\ frames'[q].ret \in {Open} \cup Possible
                      /\ ~IsCode(q) => frames'[q].ret \in {Open} \cup Results
  BY <1>1 DEF Returns
<1>3. CASE q \in DOMAIN frames /\ frames'[q] = frames[q]
  BY <1>3 DEF Base, Returns
<1>4. CASE CallStep(p) /\ ~(q \in DOMAIN frames /\ frames'[q] = frames[q])
  <2>1. q = p \/ (frames'[q].calls = 0 /\ frames'[q].ret = Open)
    BY <1>4 DEF CallStep, Grown, Others
  <2>2. ~IsCode(p) /\ frames'[p].ret = Open
    BY <1>4 DEF CallStep, Grown, Active
  <2>3. QED
    BY <2>1, <2>2
<1>5. CASE (\E r \in Results : EndStep(p, r)) /\ ~(q \in DOMAIN frames /\ frames'[q] = frames[q])
  BY <1>5 DEF EndStep, Closed, Others, Active
<1>6. CASE (\E o \in Possible : CodeStep(p, o)) /\ ~(q \in DOMAIN frames /\ frames'[q] = frames[q])
  <2>1. frames[p].calls = 0
    BY <1>6 DEF CodeStep, Base, Returns
  <2>2. QED
    BY <1>6, <2>1 DEF CodeStep, Closed, Others
<1>7. QED
  BY <1>3, <1>4, <1>5, <1>6 DEF FrameStep

\* Only a retry middleware calls again, on a result.
LEMMA CallsKept ==
    ASSUME Base, NEW p \in DOMAIN frames, FrameStep(p), Shaped
    PROVE  Calls'
<1>1. /\ maxRetries' = maxRetries /\ maxRetries \in Nat
      /\ \A q : (IsCode(q)' <=> IsCode(q)) /\ Layer(q)' = Layer(q)
  BY SameRequest, RequestFacts DEF Shaped, Base
<1>2. SUFFICES ASSUME NEW q \in DOMAIN frames', ~IsCode(q)
               PROVE  /\ Layer(q) = "retry" => frames'[q].calls <= maxRetries + 1
                      /\ Layer(q) # "retry" => frames'[q].calls <= 1
                      /\ \A k \in 1 .. frames'[q].calls - 1 :
                            frames'[Child(q, k)].ret \in {"FAILED", "TIMED_OUT"}
  BY <1>1 DEF Calls
<1>3. Kept
  BY ClosedKept
<1>4. ASSUME NEW x \in DOMAIN frames, ~IsCode(x)
      PROVE  /\ frames[x].calls \in Nat
             /\ Layer(x) = "retry" => frames[x].calls <= maxRetries + 1
             /\ Layer(x) # "retry" => frames[x].calls <= 1
             /\ \A k \in 1 .. frames[x].calls - 1 :
                   frames'[Child(x, k)].ret \in {"FAILED", "TIMED_OUT"}
  <2>1. /\ frames[x].calls \in Nat
    BY DEF Base, Tree, Frame
  <2>2. ASSUME NEW k \in 1 .. frames[x].calls - 1
        PROVE  frames'[Child(x, k)].ret \in {"FAILED", "TIMED_OUT"}
    <3>1. frames[Child(x, k)].ret \in {"FAILED", "TIMED_OUT"}
      BY <1>4 DEF Base, Calls
    <3>2. k \in 1 .. frames[x].calls
      BY <2>1
    <3>3. Child(x, k) \in DOMAIN frames
      BY <3>2 DEF Base, Tree
    <3>4. QED
      BY <1>3, <3>1, <3>3 DEF Kept, Open
  <2>3. QED
    BY <1>4, <2>1, <2>2 DEF Base, Calls
<1>5. CASE q \in DOMAIN frames /\ frames'[q].calls = frames[q].calls
  BY <1>2, <1>4, <1>5
<1>6. CASE ~(q \in DOMAIN frames /\ frames'[q].calls = frames[q].calls)
  <2>1. CallStep(p)
    BY <1>6, SettledFacts DEF Settled
  <2>2. q = p \/ frames'[q].calls = 0
    BY <1>6, <2>1 DEF CallStep, Grown, Others
  <2>3. CASE frames'[q].calls = 0
    BY <1>1, <2>3
  <2>4. CASE q = p
    <3>1. frames[p].calls \in Nat /\ frames'[p].calls = frames[p].calls + 1
      BY <1>4, <1>2, <2>1, <2>4 DEF CallStep, Grown
    <3>2. CASE frames[p].calls = 0
      BY <1>1, <2>4, <3>1, <3>2
    <3>3. CASE Again(p)
      <4>1. Layer(p) = "retry" /\ frames[p].calls > 0 /\ frames[p].calls - 1 < maxRetries
        BY <3>3 DEF Again, RetriesLeft, Attempts
      <4>2. /\ LastCall(p) = Child(p, frames[p].calls) /\ LastCall(p) \in DOMAIN frames
        BY <4>1, LastFacts
      <4>3. frames[LastCall(p)].ret \in {"FAILED", "TIMED_OUT"}
        BY <3>3 DEF Again
      <4>4. frames'[LastCall(p)].ret \in {"FAILED", "TIMED_OUT"}
        BY <1>3, <4>2, <4>3 DEF Kept, Open
      <4>5. ASSUME NEW k \in 1 .. frames'[p].calls - 1
            PROVE  frames'[Child(p, k)].ret \in {"FAILED", "TIMED_OUT"}
        <5>1. k = frames[p].calls \/ k \in 1 .. frames[p].calls - 1
          BY <3>1
        <5>2. QED
          BY <1>2, <1>4, <2>4, <4>2, <4>4, <5>1
      <4>6. frames'[p].calls <= maxRetries + 1
        BY <1>1, <3>1, <4>1
      <4>7. QED
        BY <2>4, <4>1, <4>5, <4>6
    <3>4. QED
      BY <2>1, <3>2, <3>3 DEF CallStep
  <2>5. QED
    BY <2>2, <2>3, <2>4
<1>7. QED
  BY <1>5, <1>6

\* The tree and what is in it.
LEMMA BaseKept ==
    ASSUME Base, NEW p \in DOMAIN frames, FrameStep(p), Shaped
    PROVE  Base'
<1>1. Requested'
  BY SameRequest DEF Base, Shaped
<1>2. log' \in Seq(Nat)
  <2>1. frames[p].calls \in Nat /\ log \in Seq(Nat)
    BY DEF Base, Tree, Frame
  <2>2. Append(log, frames[p].calls) \in Seq(Nat)
    BY <2>1, AppendProperties
  <2>3. QED
    BY <2>1, <2>2 DEF FrameStep, CallStep, EndStep, CodeStep
<1>3. QED
  BY <1>1, <1>2, TreeKept, ReturnsKept, CallsKept DEF Base

\* What q succeeded on does not change.
LEMMA SourceKept ==
    ASSUME Base, Kept, UNCHANGED request, NEW s \in DOMAIN frames, NEW q, Len(q) \in Nat, Source(s, q)
    PROVE  Source(s, q)' /\ s \in DOMAIN frames'
<1>1. /\ IsCode(s)' <=> IsCode(s)
      /\ \A o : Fine(o)' <=> Fine(o)
  BY SameRequest
<1>2. IsCode(s) /\ Fine(frames[s].ret) /\ frames[s].ret \notin {Open, "orphaned"}
  BY DEF Source, Good, Fine, Open
<1>3. frames'[s] = frames[s] /\ s \in DOMAIN frames'
  BY <1>2 DEF Kept
<1>4. Good(s)'
  BY <1>1, <1>2, <1>3 DEF Good
<1>5. ASSUME NEW n \in Len(q) .. Len(s) - 1
      PROVE  frames'[Pre(s, n)].ret = "SUCCEEDED" /\ s[n + 1] = frames'[Pre(s, n)].calls
  <2>1. Len(s) \in Nat
    BY LenProperties DEF Base, Tree
  <2>2. n \in 0 .. Len(s)
    BY <2>1
  <2>3. Pre(s, n) \in DOMAIN frames
    BY <2>2 DEF Base, Tree
  <2>4. frames[Pre(s, n)].ret = "SUCCEEDED" /\ s[n + 1] = frames[Pre(s, n)].calls
    BY DEF Source
  <2>5. QED
    BY <2>3, <2>4 DEF Kept, Open
<1>6. Len(q) <= Len(s) /\ Pre(s, Len(q)) = q
  BY DEF Source
<1>7. QED
  BY <1>1, <1>2, <1>3, <1>4, <1>5, <1>6 DEF Source

\* A layer that succeeds does so on what its last call succeeded on.
LEMMA SourceRelayed ==
    ASSUME Base, Base', Kept, UNCHANGED request, NEW p \in DOMAIN frames, Active(p),
           frames[p].calls > 0, Closed(p, "SUCCEEDED"),
           NEW s \in DOMAIN frames, Source(s, LastCall(p))
    PROVE  Source(s, p)' /\ s \in DOMAIN frames'
<1>1. PICK k \in Nat : k = frames[p].calls /\ LastCall(p) = Child(p, k)
  BY LastFacts
<1>2. PICK c : c = LastCall(p)
  OBVIOUS
<1>3. p \in Seq(Nat) /\ Len(p) \in Nat /\ s \in Seq(Nat) /\ Len(s) \in Nat
  BY LenProperties DEF Base, Tree
<1> Len(p) \in 0 .. Len(p)
  BY <1>3
<1>4. /\ c \in Seq(Nat) /\ Len(c) = Len(p) + 1 /\ c[Len(p) + 1] = k
      /\ Pre(c, Len(p)) = p
  <2>1. c = Child(p, k)
    BY <1>1, <1>2
  <2>2. Pre(c, Len(p)) = p
    BY <1>3, <2>1, ChildPre
  <2>3. QED
    BY <1>3, <2>1, <2>2, ChildFacts
<1>5. Source(s, c)' /\ s \in DOMAIN frames'
  BY <1>2, <1>3, <1>4, SourceKept
<1>6. Len(c) <= Len(s) /\ Pre(s, Len(c)) = c
  BY <1>2 DEF Source
<1>7. Len(c) \in 0 .. Len(s) /\ Len(p) \in 0 .. Len(c) /\ Len(p) + 1 \in 1 .. Len(c)
  BY <1>3, <1>4, <1>6
<1>8. Pre(s, Len(p)) = p
  BY <1>3, <1>4, <1>6, <1>7, PrePre
<1>9. s[Len(p) + 1] = k
  BY <1>3, <1>4, <1>6, <1>7, PreFacts
<1>10. frames'[p].ret = "SUCCEEDED" /\ frames'[p].calls = k
  BY <1>1 DEF Closed
<1>11. ASSUME NEW n \in Len(p) .. Len(s) - 1
       PROVE  frames'[Pre(s, n)].ret = "SUCCEEDED" /\ s[n + 1] = frames'[Pre(s, n)].calls
  <2>1. CASE n = Len(p)
    BY <1>8, <1>9, <1>10, <2>1
  <2>2. CASE n # Len(p)
    <3>1. n \in Len(c) .. Len(s) - 1
      BY <1>3, <1>4, <2>2
    <3>2. QED
      BY <1>5, <3>1 DEF Source
  <2>3. QED
    BY <2>1, <2>2
<1>12. IsCode(s)' /\ Good(s)'
  BY <1>5 DEF Source
<1>13. Len(p) <= Len(s)
  BY <1>3, <1>7
<1>14. QED
  BY <1>5, <1>8, <1>11, <1>12, <1>13 DEF Source

\* Success comes from the latest calls.
LEMMA ChainedKept ==
    ASSUME Base, Chained, NEW p \in DOMAIN frames, FrameStep(p), Shaped
    PROVE  Chained'
<1>1. Base' /\ Kept /\ UNCHANGED request
  BY BaseKept, ClosedKept DEF Shaped
<1>2. /\ \A q : IsCode(q)' <=> IsCode(q)
      /\ \A o : Fine(o)' <=> Fine(o)
  BY <1>1, SameRequest
<1>3. SUFFICES ASSUME NEW q \in DOMAIN frames', Good(q)'
               PROVE  \E s \in DOMAIN frames' : Source(s, q)'
  BY DEF Chained
<1>4. Len(q) \in Nat /\ q \in Seq(Nat)
  BY <1>1, LenProperties DEF Base, Tree
<1>5. frames'[q].ret # Open
  BY <1>3 DEF Good, Fine, Open
<1>6. CASE q \in DOMAIN frames /\ frames[q].ret \notin {Open, "orphaned"}
  <2>1. frames'[q] = frames[q]
    BY <1>1, <1>6 DEF Kept
  <2>2. Good(q)
    BY <1>2, <1>3, <2>1 DEF Good
  <2>3. PICK s \in DOMAIN frames : Source(s, q)
    BY <1>6, <2>2 DEF Chained
  <2>4. QED
    BY <1>1, <1>4, <2>3, SourceKept
<1>7. CASE q \in DOMAIN frames /\ frames[q].ret = "orphaned"
  <2>1. IsCode(q)
    BY <1>7 DEF Base, Returns, Results, Open
  <2>2. frames'[q].ret \in {"orphaned", "killed"}
    BY <1>1, <1>7 DEF Kept
  <2>3. ~Good(q)'
    BY <1>2, <2>1, <2>2 DEF Good, Fine
  <2>4. QED
    BY <1>3, <2>3
<1>8. CASE ~(q \in DOMAIN frames /\ frames[q].ret # Open)
  <2>1. CASE CallStep(p)
    <3>1. frames'[q].ret = Open
      BY <1>8, <2>1 DEF CallStep, Grown, Others, Active
    <3>2. QED
      BY <1>5, <3>1
  <2>2. CASE \E r \in Results : EndStep(p, r)
    <3>1. PICK r \in Results : EndStep(p, r)
      BY <2>2
    <3>2. q = p
      BY <1>5, <1>8, <3>1 DEF EndStep, Closed, Others
    <3>3. ~IsCode(p) /\ frames'[p].ret = r /\ Active(p) /\ Closed(p, r)
      BY <3>1 DEF EndStep, Active, Closed
    <3>4. r = "SUCCEEDED"
      BY <1>2, <1>3, <3>2, <3>3 DEF Good
    <3>5. Good(LastCall(p)) /\ frames[p].calls > 0
      BY <3>1, <3>4 DEF EndStep, Refused, Relayed, Expired
    <3>6. PICK s \in DOMAIN frames : Source(s, LastCall(p))
      BY <3>5, LastFacts DEF Chained
    <3>7. Source(s, p)' /\ s \in DOMAIN frames'
      BY <1>1, <3>3, <3>4, <3>5, <3>6, SourceRelayed
    <3>8. QED
      BY <3>2, <3>7
  <2>3. CASE \E o \in Possible : CodeStep(p, o)
    <3>1. q = p /\ IsCode(p)
      BY <1>5, <1>8, <2>3 DEF CodeStep, Closed, Others
    <3>2. IsCode(q)' /\ Pre(q, Len(q)) = q /\ Len(q) <= Len(q)
      BY <1>2, <1>4, <3>1, PreEnds
    <3>3. Len(q) .. Len(q) - 1 = {}
      BY <1>4
    <3>4. Source(q, q)'
      BY <1>3, <3>2, <3>3 DEF Source
    <3>5. QED
      BY <1>3, <3>4
  <2>4. QED
    BY <2>1, <2>2, <2>3 DEF FrameStep
<1>9. QED
  BY <1>6, <1>7, <1>8

\* A frame that was given up stays so.
LEMMA GivenUpKept ==
    ASSUME Kept, UNCHANGED request, NEW q \in DOMAIN frames, GivenUp(q)
    PROVE  GivenUp(q)'
<1>1. Layer(q)' = Layer(q) /\ \A l : Timed(l)' <=> Timed(l)
  BY SameRequest
<1>2. frames'[q].ret = "TIMED_OUT"
  BY DEF Kept, GivenUp, Open
<1>3. Timed(Layer(q))' <=> Timed(Layer(q))
  BY SameRequest DEF Timed, request, Layer
<1>4. QED
  BY <1>1, <1>2, <1>3 DEF GivenUp

\* All calls of a layer that is answered have ended.
LEMMA AllAnswered ==
    ASSUME Base, NEW p \in DOMAIN frames, ~IsCode(p), frames[LastCall(p)].ret # Open,
           NEW k \in 1 .. frames[p].calls
    PROVE  frames[Child(p, k)].ret # Open
<1>1. frames[p].calls \in Nat
  BY DEF Base, Tree, Frame
<1>2. CASE k = frames[p].calls
  BY <1>2 DEF LastCall, Child
<1>3. CASE k # frames[p].calls
  <2>1. k \in 1 .. frames[p].calls - 1
    BY <1>1, <1>3
  <2>2. QED
    BY <2>1 DEF Base, Calls, Open
<1>4. QED
  BY <1>2, <1>3

\* The open frames below a frame when it ends.
LEMMA OpenBelow ==
    ASSUME Base, Orphaned, Kept, UNCHANGED request, NEW x \in DOMAIN frames, NEW r \in Results,
           EndStep(x, r), NEW q \in DOMAIN frames, frames[q].ret = Open,
           NEW n \in 0 .. Len(q) - 1, Pre(q, n) = x
    PROVE  \E m \in 0 .. Len(q) - 1 : GivenUp(Pre(q, m))'
<1>1. q \in Seq(Nat) /\ Len(q) \in Nat
  BY LenProperties DEF Base, Tree
<1>2. q[n + 1] \in 1 .. frames[x].calls
  BY DEF Base, Tree
<1>3. ~Refused(x, r)
  BY <1>2 DEF Refused
<1>4. CASE Expired(x, r)
  <2>1. Layer(x)' = Layer(x) /\ (Timed(Layer(x))' <=> Timed(Layer(x)))
    BY SameRequest DEF Timed, request, Layer
  <2>2. GivenUp(x)'
    BY <1>4, <2>1 DEF GivenUp, Expired, EndStep, Closed
  <2>3. QED
    BY <2>2
<1>5. CASE Relayed(x, r)
  <2>1. PICK k \in 1 .. frames[x].calls : k = q[n + 1]
    BY <1>2
  <2>2. Pre(q, n + 1) = Child(x, k)
    BY <1>1, <2>1, PreNext
  <2>3. frames[Pre(q, n + 1)].ret # Open
    BY <1>5, <2>2, AllAnswered DEF Relayed, EndStep, Active
  <2>4. Pre(q, n + 1) # q
    BY <2>3
  <2>5. n + 1 # Len(q)
    BY <1>1, <2>4, PreEnds
  <2>6. n + 1 \in 0 .. Len(q) - 1
    BY <1>1, <2>5
  <2>7. PICK m \in 0 .. Len(q) - 1 : GivenUp(Pre(q, m))
    BY <2>3, <2>6 DEF Orphaned
  <2>8. m \in 0 .. Len(q)
    BY <1>1
  <2>9. Pre(q, m) \in DOMAIN frames
    BY <2>8 DEF Base, Tree
  <2>10. GivenUp(Pre(q, m))'
    <3>1. PICK y \in DOMAIN frames : y = Pre(q, m)
      BY <2>9
    <3>2. GivenUp(y)'
      BY <2>7, <3>1, GivenUpKept
    <3>3. QED
      BY <3>1, <3>2
  <2>11. QED
    BY <2>10
<1>6. QED
  BY <1>3, <1>4, <1>5 DEF EndStep

\* What runs on below a frame that ended was given up.
LEMMA OrphanedKept ==
    ASSUME Base, Orphaned, NEW p \in DOMAIN frames, FrameStep(p), Shaped
    PROVE  Orphaned'
<1>1. Kept /\ UNCHANGED request
  BY ClosedKept DEF Shaped
<1>2. SUFFICES ASSUME NEW q \in DOMAIN frames', frames'[q].ret = Open,
                      NEW n \in 0 .. Len(q) - 1, frames'[Pre(q, n)].ret # Open
               PROVE  \E m \in 0 .. Len(q) - 1 : GivenUp(Pre(q, m))'
  BY DEF Orphaned
<1>3. ASSUME NEW y \in DOMAIN frames, frames[y].ret = Open, NEW i \in 0 .. Len(y) - 1,
             frames[Pre(y, i)].ret # Open
      PROVE  \E m \in 0 .. Len(y) - 1 : GivenUp(Pre(y, m))'
  <2>1. PICK m \in 0 .. Len(y) - 1 : GivenUp(Pre(y, m))
    BY <1>3 DEF Orphaned
  <2>2. m \in 0 .. Len(y)
    BY LenProperties DEF Base, Tree
  <2>3. PICK z \in DOMAIN frames : z = Pre(y, m)
    BY <2>2 DEF Base, Tree
  <2>4. GivenUp(z)'
    BY <1>1, <2>1, <2>3, GivenUpKept
  <2>5. QED
    BY <2>3, <2>4
<1>4. CASE q \notin DOMAIN frames
  <2>1. CallStep(p)
    BY <1>4, SettledFacts DEF Settled
  <2>2. PICK k \in Nat : k = frames[p].calls + 1
    BY DEF Base, Tree, Frame
  <2>3. q = Child(p, k)
    BY <1>4, <2>1, <2>2 DEF CallStep, Grown
  <2>4. p \in Seq(Nat) /\ Len(p) \in Nat
    BY LenProperties DEF Base, Tree
  <2>5. Len(q) = Len(p) + 1
    BY <2>2, <2>3, <2>4, ChildFacts
  <2>6. ASSUME NEW i \in 0 .. Len(p)
        PROVE  Pre(q, i) = Pre(p, i)
    BY <2>2, <2>3, <2>4, ChildPre
  <2>7. n \in 0 .. Len(p)
    BY <2>4, <2>5
  <2>8. PICK y \in DOMAIN frames : y = Pre(p, n) /\ y = Pre(q, n)
    BY <2>6, <2>7 DEF Base, Tree
  <2>9. frames[p].ret = Open /\ frames[y].ret # Open
    BY <1>2, <2>1, <2>8 DEF CallStep, Grown, Others, Active
  <2>10. n \in 0 .. Len(p) - 1
    <3>1. Pre(p, Len(p)) = p
      BY <2>4, PreEnds
    <3>2. n # Len(p)
      BY <2>8, <2>9, <3>1
    <3>3. QED
      BY <2>4, <2>7, <3>2
  <2>11. PICK m \in 0 .. Len(p) - 1 : GivenUp(Pre(p, m))'
    BY <1>3, <2>8, <2>9, <2>10
  <2>12. m \in 0 .. Len(q) - 1 /\ m \in 0 .. Len(p)
    BY <2>4, <2>5
  <2>13. Pre(q, m) = Pre(p, m)
    BY <2>6, <2>12
  <2>14. QED
    BY <2>11, <2>12, <2>13
<1>5. CASE q \in DOMAIN frames
  <2>1. frames[q].ret = Open
    BY <1>1, <1>2, <1>5 DEF Kept, Open
  <2>2. q \in Seq(Nat) /\ Len(q) \in Nat /\ Len(q) <= Len(stack) /\ Len(stack) \in Nat
    BY <1>5, LenProperties, RequestFacts DEF Base, Tree
  <2>3. PICK x \in DOMAIN frames : x = Pre(q, n)
    <3>1. n \in 0 .. Len(q)
      BY <2>2
    <3>2. QED
      BY <1>5, <3>1 DEF Base, Tree
  <2>4. CASE frames[x].ret # Open
    BY <1>3, <1>5, <2>1, <2>3, <2>4
  <2>5. CASE frames[x].ret = Open
    <3>1. Len(x) = n /\ ~IsCode(x)
      <4>1. n \in 0 .. Len(q) /\ n < Len(stack)
        BY <2>2
      <4>2. Len(x) = n
        BY <2>2, <2>3, <4>1, PreFacts
      <4>3. QED
        BY <2>2, <4>1, <4>2 DEF IsCode
    <3>2. frames'[x].ret # Open
      BY <1>2, <2>3
    <3>3. ~CallStep(p)
      BY <2>5, <3>2 DEF CallStep, Grown, Others
    <3>4. ~\E o \in Possible : CodeStep(p, o)
      BY <2>5, <3>1, <3>2 DEF CodeStep, Others
    <3>5. CASE \E r \in Results : EndStep(p, r)
      <4>1. PICK r \in Results : EndStep(p, r)
        BY <3>5
      <4>2. x = p
        BY <2>5, <3>2, <4>1 DEF EndStep, Others
      <4>3. QED
        BY <1>1, <1>5, <2>1, <2>3, <4>1, <4>2, OpenBelow
    <3>6. QED
      BY <3>3, <3>4, <3>5 DEF FrameStep
  <2>6. QED
    BY <2>4, <2>5
<1>6. QED
  BY <1>4, <1>5

\* There is one frame of the only retry middleware: the layers before it call once.
LEMMA OneFrame ==
    ASSUME NEW S, NEW F, Len(S) \in Nat, NEW i \in 1 .. Len(S),
           \A j \in 1 .. Len(S) : S[j] = "retry" <=> j = i,
           \A x \in DOMAIN F : /\ x \in Seq(Nat) /\ Len(x) <= Len(S)
                               /\ \A n \in 0 .. Len(x) : Pre(x, n) \in DOMAIN F
                               /\ \A n \in 0 .. Len(x) - 1 : x[n + 1] \in 1 .. F[Pre(x, n)].calls,
           \A x \in DOMAIN F : Len(x) # Len(S) /\ S[Len(x) + 1] # "retry" =>
                                  F[x].calls \in Nat /\ F[x].calls <= 1,
           NEW p \in DOMAIN F, NEW q \in DOMAIN F,
           Len(p) # Len(S), S[Len(p) + 1] = "retry", Len(q) # Len(S), S[Len(q) + 1] = "retry"
    PROVE  p = q
<1>1. ASSUME NEW x \in DOMAIN F, Len(x) # Len(S), S[Len(x) + 1] = "retry"
      PROVE  /\ x \in Seq(Nat) /\ Len(x) \in Nat /\ Len(x) + 1 = i
             /\ \A n \in 1 .. Len(x) : x[n] = 1
  <2>1. x \in Seq(Nat) /\ Len(x) \in Nat /\ Len(x) <= Len(S)
    BY LenProperties
  <2>2. Len(x) + 1 \in 1 .. Len(S)
    BY <1>1, <2>1
  <2>3. Len(x) + 1 = i
    BY <1>1, <2>2
  <2>4. ASSUME NEW n \in 1 .. Len(x) PROVE x[n] = 1
    <3>0. n - 1 \in 0 .. Len(x) - 1 /\ n = (n - 1) + 1
      BY <2>1
    <3>1. PICK m \in 0 .. Len(x) - 1 : n = m + 1
      BY <3>0
    <3>2. m \in 0 .. Len(x)
      BY <2>1
    <3>3. PICK y \in DOMAIN F : y = Pre(x, m)
      BY <3>2
    <3>4. Len(y) = m
      BY <2>1, <3>2, <3>3, PreFacts
    <3>5. Len(y) # Len(S) /\ Len(y) + 1 \in 1 .. Len(S) /\ Len(y) + 1 # i
      BY SMTT(30), <2>1, <2>2, <2>3, <3>4
    <3>6. S[Len(y) + 1] # "retry"
      BY <3>5
    <3>7. PICK k \in Nat : k = F[y].calls /\ k <= 1
      BY <3>5, <3>6
    <3>8. x[n] \in 1 .. k
      BY <3>1, <3>3, <3>7
    <3>9. PICK e \in Nat : e = x[n] /\ 1 <= e /\ e <= k
      BY SMTT(30), <3>8
    <3>10. QED
      BY ONLY <3>7, <3>9
  <2>5. QED
    BY <2>1, <2>3, <2>4
<1>2. p \in Seq(Nat) /\ Len(p) \in Nat /\ Len(p) + 1 = i /\ \A n \in 1 .. Len(p) : p[n] = 1
  BY <1>1
<1>3. q \in Seq(Nat) /\ Len(q) \in Nat /\ Len(q) + 1 = i /\ \A n \in 1 .. Len(q) : q[n] = 1
  BY <1>1
<1>4. Len(p) = Len(q)
  BY <1>2, <1>3
<1>5. QED
  BY <1>2, <1>3, <1>4, SamePath

\* So it is after a step.
LEMMA OneFramePrime ==
    ASSUME Base', OneRetry', NEW p \in DOMAIN frames', NEW q \in DOMAIN frames',
           AtRetry(p)', AtRetry(q)'
    PROVE  p = q
<1>1. Len(stack)' \in Nat /\ DOMAIN stack' = 1 .. Len(stack)'
  <2>1. stack' \in Seq(Layers)
    BY RequestsAssumption DEF Base, Requested
  <2>2. QED
    BY <2>1, LenProperties
<1>2. PICK i \in 1 .. Len(stack)' : \A j \in 1 .. Len(stack)' : stack'[j] = "retry" <=> j = i
  BY <1>1 DEF OneRetry
<1>3. \A x \in DOMAIN frames' :
         /\ x \in Seq(Nat) /\ Len(x) <= Len(stack)'
         /\ \A n \in 0 .. Len(x) : Pre(x, n) \in DOMAIN frames'
         /\ \A n \in 0 .. Len(x) - 1 : x[n + 1] \in 1 .. frames'[Pre(x, n)].calls
  BY DEF Base, Tree
<1>4. \A x \in DOMAIN frames' : Len(x) # Len(stack)' /\ stack'[Len(x) + 1] # "retry" =>
                                  frames'[x].calls \in Nat /\ frames'[x].calls <= 1
  BY DEF Base, Tree, Calls, Frame, IsCode, Layer
<1>5. /\ Len(p) # Len(stack)' /\ stack'[Len(p) + 1] = "retry"
      /\ Len(q) # Len(stack)' /\ stack'[Len(q) + 1] = "retry"
  BY DEF AtRetry, IsCode, Layer
<1>6. QED
  BY <1>1, <1>2, <1>3, <1>4, <1>5, OneFrame

\* An event with the next number.
LEMMA EventAppended ==
    ASSUME log \in Seq(Nat), NEW a \in Nat, a <= maxRetries, log' = Append(log, a),
           \A i \in DOMAIN log : /\ log[i] <= maxRetries /\ log[i] < a
                                 /\ \A j \in 1 .. i - 1 : log[j] < log[i]
    PROVE  \A i \in DOMAIN log' : /\ log'[i] <= maxRetries /\ log'[i] < a + 1
                                  /\ \A j \in 1 .. i - 1 : log'[j] < log'[i]
<1>1. Len(log) \in Nat /\ DOMAIN log = 1 .. Len(log) /\ \A i \in 1 .. Len(log) : log[i] \in Nat
  BY LenProperties, ElementOfSeq
<1>2. /\ log' \in Seq(Nat) /\ DOMAIN log' = 1 .. Len(log) + 1 /\ log'[Len(log) + 1] = a
      /\ \A i \in 1 .. Len(log) : log'[i] = log[i]
  BY <1>1, AppendProperties, LenProperties
<1>3. SUFFICES ASSUME NEW i \in 1 .. Len(log) + 1
               PROVE  /\ log'[i] <= maxRetries /\ log'[i] < a + 1
                      /\ \A j \in 1 .. i - 1 : log'[j] < log'[i]
  BY <1>2
<1>4. CASE i = Len(log) + 1
  <2>1. log'[i] = a /\ a < a + 1
    BY <1>2, <1>4
  <2>2. ASSUME NEW j \in 1 .. i - 1 PROVE log'[j] < log'[i]
    <3>1. j \in 1 .. Len(log)
      BY <1>1, <1>4
    <3>2. QED
      BY <1>1, <1>2, <2>1, <3>1
  <2>3. QED
    BY <2>1, <2>2
<1>5. CASE i # Len(log) + 1
  <2>1. i \in 1 .. Len(log) /\ i \in DOMAIN log
    BY <1>1, <1>5
  <2>2. log'[i] = log[i] /\ log[i] \in Nat /\ \A j \in 1 .. i - 1 : log'[j] = log[j]
    BY <1>1, <1>2, <2>1
  <2>3. QED
    BY <2>1, <2>2
<1>6. QED
  BY <1>4, <1>5

\* The events of the retries are in order.
LEMMA NumberedKept ==
    ASSUME Base, Numbered, NEW p \in DOMAIN frames, FrameStep(p), Shaped
    PROVE  Numbered'
<1>1. Base' /\ UNCHANGED request
  BY BaseKept DEF Shaped
<1>2. /\ maxRetries' = maxRetries /\ stack' = stack /\ (OneRetry' <=> OneRetry)
      /\ \A q : AtRetry(q)' <=> AtRetry(q)
  BY <1>1, SameRequest DEF request
<1>3. SUFFICES ASSUME OneRetry, OneRetry'
               PROVE  /\ \A i \in DOMAIN log' : /\ log'[i] <= maxRetries'
                                                /\ \A j \in 1 .. i - 1 : log'[j] < log'[i]
                      /\ \A q \in DOMAIN frames' : AtRetry(q)' =>
                            \A i \in DOMAIN log' : log'[i] < frames'[q].calls
                      /\ (\A q \in DOMAIN frames' : ~AtRetry(q)') => log' = << >>
  BY <1>2, Zenon DEF Numbered
<1>4. /\ \A i \in DOMAIN log : log[i] <= maxRetries /\ \A j \in 1 .. i - 1 : log[j] < log[i]
      /\ \A q \in DOMAIN frames : AtRetry(q) => \A i \in DOMAIN log : log[i] < frames[q].calls
      /\ (\A q \in DOMAIN frames : ~AtRetry(q)) => log = << >>
  BY <1>3 DEF Numbered
<1>5. /\ log \in Seq(Nat) /\ \A q \in DOMAIN frames : frames[q].calls \in Nat
      /\ \A i \in DOMAIN log : log[i] \in Nat
  <2>1. log \in Seq(Nat) /\ \A q \in DOMAIN frames : frames[q].calls \in Nat
    BY DEF Base, Tree, Frame
  <2>2. QED
    BY <2>1, ElementOfSeq, LenProperties
<1>6. CASE ~CallStep(p)
  <2>1. Settled
    BY <1>6, SettledFacts
  <2>2. QED
    BY <1>2, <1>4, <2>1 DEF Settled, AtRetry, IsCode, Layer
<1>7. CASE CallStep(p) /\ log' = log
  <2>1. PICK c : c = Child(p, frames[p].calls + 1)
    OBVIOUS
  <2>2. /\ c \notin DOMAIN frames /\ DOMAIN frames' = DOMAIN frames \cup {c}
        /\ frames'[p].calls = frames[p].calls + 1 /\ Others({p})
    BY <1>7, <2>1 DEF CallStep, Grown
  <2>3. ASSUME NEW q \in DOMAIN frames', AtRetry(q), NEW i \in DOMAIN log
        PROVE  log[i] < frames'[q].calls
    <3>1. CASE q \in DOMAIN frames
      <4>1. log[i] < frames[q].calls
        BY <1>4, <2>3, <3>1
      <4>2. frames'[q].calls = frames[q].calls \/ frames'[q].calls = frames[q].calls + 1
        BY <2>2, <3>1 DEF Others
      <4>3. QED
        BY <1>5, <3>1, <4>1, <4>2
    <3>2. CASE q = c
      <4>1. ASSUME NEW y \in DOMAIN frames, AtRetry(y) PROVE FALSE
        <5>1. y \in DOMAIN frames' /\ AtRetry(y)' /\ AtRetry(q)'
          BY <1>2, <2>2, <2>3, <4>1
        <5>2. y = q
          BY <1>1, <1>3, <5>1, OneFramePrime
        <5>3. QED
          BY <2>2, <3>2, <5>2
      <4>2. log = << >>
        BY <1>4, <4>1
      <4>3. QED
        BY <4>2
    <3>3. QED
      BY <2>2, <3>1, <3>2
  <2>4. QED
    BY <1>2, <1>4, <1>7, <2>2, <2>3 DEF AtRetry, IsCode, Layer
<1>8. CASE CallStep(p) /\ log' # log
  <2>1. Again(p) /\ Active(p) /\ log' = Append(log, frames[p].calls)
    BY <1>8 DEF CallStep
  <2>2. AtRetry(p)
    BY <2>1 DEF Again, Active, AtRetry
  <2>3. PICK a \in Nat : a = frames[p].calls
    BY <1>5
  <2>4. a <= maxRetries /\ maxRetries \in Nat
    <3>1. a - 1 < maxRetries
      BY <2>1, <2>3 DEF Again, RetriesLeft, Attempts
    <3>2. maxRetries \in Nat
      BY RequestFacts DEF Base
    <3>3. QED
      BY <3>1, <3>2
  <2>5. \A i \in DOMAIN log' : /\ log'[i] <= maxRetries /\ log'[i] < a + 1
                               /\ \A j \in 1 .. i - 1 : log'[j] < log'[i]
    BY <1>4, <1>5, <2>1, <2>2, <2>3, <2>4, EventAppended
  <2>6. p \in DOMAIN frames' /\ frames'[p].calls = a + 1
    BY <1>8, <2>3 DEF CallStep, Grown
  <2>7. ASSUME NEW q \in DOMAIN frames', AtRetry(q) PROVE q = p
    <3>1. AtRetry(q)' /\ AtRetry(p)'
      BY <1>2, <2>2, <2>7
    <3>2. QED
      BY <1>1, <1>3, <2>6, <3>1, OneFramePrime
  <2>8. QED
    BY <1>2, <2>2, <2>5, <2>6, <2>7 DEF AtRetry, IsCode, Layer
<1>9. QED
  BY <1>6, <1>7, <1>8

----------------------------------------------------------------------------
(* Theorems.                                                               *)

IInv == Base /\ Chained /\ Orphaned /\ Numbered

\* At the call of the outermost layer.
LEMMA InitInv ==
    ASSUME Init PROVE IInv
<1>1. frames = [p \in {Root} |-> Fresh] /\ log = << >>
  BY DEF Init
<1>2. Requested
  <2>1. PICK req \in Requests : stack = req.stack /\ timeout = req.timeout /\ maxRetries = req.maxRetries
    BY DEF Init
  <2>2. [stack |-> req.stack, timeout |-> req.timeout, maxRetries |-> req.maxRetries] = req
    BY RequestsAssumption
  <2>3. QED
    BY <2>1, <2>2 DEF Requested
<1>3. /\ DOMAIN frames = {Root} /\ frames[Root].calls = 0 /\ frames[Root].ret = Open
      /\ frames \in [{Root} -> Frame]
  BY <1>1 DEF Fresh, Frame
<1>4. Root \in Seq(Nat) /\ Len(Root) = 0
  BY EmptySeq, LenProperties DEF Root
<1>5. Len(stack) \in Nat /\ Len(stack) > 0 /\ maxRetries \in Nat
  BY <1>2, RequestFacts
<1>6. Pre(Root, 0) = Root
  BY <1>4, PreEnds
<1>7. ~IsCode(Root)
  BY <1>4, <1>5 DEF IsCode
<1>8. Tree
  BY <1>3, <1>4, <1>5, <1>6 DEF Tree
<1>9. Returns /\ Calls
  BY <1>3, <1>5, <1>7 DEF Returns, Calls
<1>10. log \in Seq(Nat)
  BY <1>1, EmptySeq
<1>11. Chained
  BY <1>3, <1>7 DEF Chained, Good, Open
<1>12. Orphaned
  BY <1>3, <1>4 DEF Orphaned
<1>13. Numbered
  BY <1>1 DEF Numbered
<1>14. QED
  BY <1>2, <1>8, <1>9, <1>10, <1>11, <1>12, <1>13 DEF IInv, Base

\* Every step keeps the invariants.
LEMMA NextInv ==
    ASSUME IInv, [Next]_vars PROVE IInv'
<1>1. CASE Next
  <2>1. PICK p \in DOMAIN frames : Shaped /\ FrameStep(p)
    BY <1>1, Steps DEF IInv
  <2>2. QED
    BY <2>1, BaseKept, ChainedKept, OrphanedKept, NumberedKept DEF IInv
<1>2. CASE UNCHANGED vars
  <2>1. stack' = stack /\ timeout' = timeout /\ maxRetries' = maxRetries /\ frames' = frames /\ log' = log
    BY <1>2 DEF vars
  <2>2. Base'
    BY <2>1 DEF IInv, Base, Requested, Tree, Returns, Calls, IsCode, Layer, Possible, Executor
  <2>3. Chained'
    BY <2>1 DEF IInv, Chained, Source, Good, Fine, IsCode, Timed
  <2>4. Orphaned'
    BY <2>1 DEF IInv, Orphaned, GivenUp, Layer, Timed
  <2>5. Numbered'
    BY <2>1 DEF IInv, Numbered, OneRetry, AtRetry, IsCode, Layer
  <2>6. QED
    BY <2>2, <2>3, <2>4, <2>5 DEF IInv
<1>3. QED
  BY <1>1, <1>2

\* The frames of an execution are a tree of calls in which only retries repeat,
\* success comes from the latest calls and what outlives its caller was given up.
THEOREM Invariance == Spec => []IInv
<1>1. Init => IInv
  BY InitInv
<1>2. IInv /\ [Next]_vars => IInv'
  BY NextInv
<1>3. QED
  BY <1>1, <1>2, PTL DEF Spec

\* The frames are those of the request, with calls and results in their ranges.
THEOREM Typing == Spec => []TypeOK
<1>1. ASSUME IInv PROVE TypeOK
  <2>1. Base /\ maxRetries \in Nat
    BY <1>1, RequestFacts DEF IInv, Base
  <2>2. ASSUME NEW p \in DOMAIN frames
        PROVE  /\ Len(p) <= Len(stack)
               /\ frames[p].calls \in 0 .. maxRetries + 1
               /\ frames[p].ret \in {Open} \cup (IF IsCode(p) THEN Outcomes ELSE Results)
               /\ p # Root => p[Len(p)] \in 1 .. frames[SubSeq(p, 1, Len(p) - 1)].calls
    <3>1. Len(p) <= Len(stack) /\ p \in Seq(Nat) /\ Len(p) \in Nat /\ frames[p].calls \in Nat
      BY <2>1, LenProperties DEF Base, Tree, Frame
    <3>2. frames[p].calls <= maxRetries + 1
      BY <2>1, <3>1 DEF Base, Returns, Calls
    <3>3. frames[p].ret \in {Open} \cup (IF IsCode(p) THEN Outcomes ELSE Results)
      BY <2>1 DEF Base, Returns, Possible, Outcomes
    <3>4. ASSUME p # Root PROVE p[Len(p)] \in 1 .. frames[SubSeq(p, 1, Len(p) - 1)].calls
      <4>1. Len(p) # 0
        BY <3>1, <3>4, EmptySeq DEF Root
      <4>2. PICK n \in 0 .. Len(p) - 1 : n = Len(p) - 1 /\ n + 1 = Len(p)
        BY <3>1, <4>1
      <4>3. p[n + 1] \in 1 .. frames[Pre(p, n)].calls
        BY <2>1 DEF Base, Tree
      <4>4. QED
        BY <4>2, <4>3 DEF Pre
    <3>5. QED
      BY <2>1, <3>1, <3>2, <3>3, <3>4
  <2>3. QED
    BY <2>1, <2>2 DEF TypeOK, Base, Requested, Tree
<1>2. QED
  BY <1>1, Invariance, PTL

\* The calls on the way to a frame.
LEMMA AboveFacts ==
    ASSUME Base, NEW p \in DOMAIN frames, NEW q \in Above(p)
    PROVE  \E n \in 0 .. Len(p) - 1 : q = Pre(p, n) /\ Len(q) = n /\ q \in DOMAIN frames
<1>1. PICK n \in 0 .. Len(p) - 1 : q = Pre(p, n)
  BY DEF Above, Pre
<1>2. p \in Seq(Nat) /\ Len(p) \in Nat
  BY LenProperties DEF Base, Tree
<1>3. n \in 0 .. Len(p)
  BY <1>2
<1>4. Len(q) = n /\ q \in DOMAIN frames
  BY <1>1, <1>2, <1>3, PreFacts DEF Base, Tree
<1>5. QED
  BY <1>1, <1>4

\* A pipeline reports success only for code that did succeed, on the latest attempt
\* of every layer: MiddlewarePipeline never answers with the late result of an
\* attempt it gave up.
THEOREM Latest == Spec => []SuccessIsLatest
<1>1. ASSUME IInv PROVE SuccessIsLatest
  <2>1. SUFFICES ASSUME frames[Root].ret = "SUCCEEDED"
                 PROVE  \E p \in DOMAIN frames :
                          /\ IsCode(p)
                          /\ frames[p].ret = "value" \/ (frames[p].ret = "exits" /\ Timed("python"))
                          /\ \A q \in Above(p) : /\ frames[q].ret = "SUCCEEDED"
                                                 /\ p[Len(q) + 1] = frames[q].calls
    BY DEF SuccessIsLatest
  <2>2. Len(Root) = 0 /\ Root \in Seq(Nat)
    BY EmptySeq, LenProperties DEF Root
  <2>3. ~IsCode(Root) /\ Root \in DOMAIN frames
    BY <1>1, <2>2, RequestFacts DEF IInv, Base, Tree, IsCode
  <2>4. PICK p \in DOMAIN frames : Source(p, Root)
    BY <1>1, <2>1, <2>3 DEF IInv, Chained, Good
  <2>5. ASSUME NEW q \in Above(p)
        PROVE  frames[q].ret = "SUCCEEDED" /\ p[Len(q) + 1] = frames[q].calls
    <3>1. PICK n \in 0 .. Len(p) - 1 : q = Pre(p, n) /\ Len(q) = n
      BY <1>1, AboveFacts DEF IInv
    <3>2. QED
      BY <2>2, <2>4, <3>1 DEF Source
  <2>6. IsCode(p) /\ Fine(frames[p].ret)
    BY <2>4 DEF Source, Good
  <2>7. QED
    BY <2>5, <2>6 DEF Fine
<1>2. QED
  BY <1>1, Invariance, PTL

\* RetryMiddleware stays within its budget, retries results only and one at a time,
\* and numbers its events in order.
THEOREM Discipline == Spec => []RetryDiscipline
<1>1. ASSUME IInv PROVE RetryDiscipline
  <2>1. \A p \in DOMAIN frames : ~IsCode(p) /\ Layer(p) = "retry" =>
          /\ frames[p].calls <= maxRetries + 1
          /\ \A n \in 1 .. frames[p].calls - 1 :
                frames[Append(p, n)].ret \in {"FAILED", "TIMED_OUT"}
    BY <1>1 DEF IInv, Base, Calls, Child
  <2>2. ASSUME Cardinality({i \in DOMAIN stack : stack[i] = "retry"}) = 1
        PROVE  \A i \in DOMAIN log : log[i] <= maxRetries /\ \A j \in 1 .. i - 1 : log[j] < log[i]
    <3>1. PICK S : S = {i \in DOMAIN stack : stack[i] = "retry"}
      OBVIOUS
    <3>2. Len(stack) \in Nat /\ DOMAIN stack = 1 .. Len(stack)
      BY <1>1, RequestFacts DEF IInv, Base
    <3>3. IsFiniteSet(1 .. Len(stack)) /\ S \in SUBSET (1 .. Len(stack))
      BY <3>1, <3>2, FS_Interval
    <3>4. IsFiniteSet(S)
      BY <3>3, FS_Subset
    <3>5. PICK i : S = {i}
      BY <2>2, <3>1, <3>4, FS_Singleton
    <3>6. OneRetry
      BY <3>1, <3>5 DEF OneRetry
    <3>7. QED
      BY <1>1, <3>6 DEF IInv, Numbered
  <2>3. QED
    BY <2>1, <2>2 DEF RetryDiscipline
<1>2. QED
  BY <1>1, Invariance, PTL

\* Code runs on after a call on its way has returned only if TimeoutMiddleware or
\* the environment's thread gave it up: no process outlives its run_in_env.
THEOREM Leftovers == Spec => []LeftoversTimedOut
<1>1. ASSUME IInv PROVE LeftoversTimedOut
  <2>1. SUFFICES ASSUME NEW p \in Running, NEW q \in Above(p), frames[q].ret # Open
                 PROVE  \E x \in Above(p) : /\ Layer(x) \in {"timeout", "python"} /\ Timed(Layer(x))
                                            /\ frames[x].ret = "TIMED_OUT"
    BY DEF LeftoversTimedOut
  <2>2. p \in DOMAIN frames /\ frames[p].ret = Open
    BY DEF Running
  <2>3. PICK n \in 0 .. Len(p) - 1 : q = Pre(p, n)
    BY <1>1, <2>2, AboveFacts DEF IInv
  <2>4. PICK m \in 0 .. Len(p) - 1 : GivenUp(Pre(p, m))
    BY <1>1, <2>1, <2>2, <2>3 DEF IInv, Orphaned
  <2>5. Pre(p, m) \in Above(p)
    BY DEF Above, Pre
  <2>6. QED
    BY <2>4, <2>5 DEF GivenUp
<1>2. QED
  BY <1>1, Invariance, PTL

=============================================================================
