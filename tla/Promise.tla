------------------------------ MODULE Promise -------------------------------
(***************************************************************************)
(* Promises (cre/promise.go): NewBasicPromise runs its function at the     *)
(* first Await and keeps the outcome (sync.OnceValues); Then and           *)
(* ThenPromise await a source promise first.  Goroutines await promises in *)
(* any order, and a function may itself await a promise it captured or,    *)
(* in ThenPromise, return one that is then awaited.                        *)
(*                                                                         *)
(* A value is the promises whose functions made it, one from the other.    *)
(***************************************************************************)
EXTENDS Integers, Sequences

CONSTANTS
  Threads,     \* the goroutines
  MaxPromises  \* bound: how many promises there are

ASSUME PromisesAssumption == MaxPromises \in Nat

Promises == 1 .. MaxPromises
Nothing == 0

Value(s) == [is |-> "value", of |-> s]
Error(p) == [is |-> "error", of |-> <<p>>]
Panic(p) == [is |-> "panic", of |-> <<p>>]
Pending == [is |-> "pending", of |-> <<>>]

VARIABLES
  source,   \* the promise that Then or ThenPromise awaits first, if any
  captured, \* the promise the function awaits or returns, if any
  does,     \* what the function does in the end
  ready,    \* the promises made by PromiseFromResult
  once,     \* sync.OnceValues of every promise
  outcome,  \* what it holds
  ran,      \* how often the function has been called
  stack     \* the Awaits every goroutine is in: [promise, at]

graph == <<source, captured, does, ready>>
vars == <<graph, once, outcome, ran, stack>>

\* Graphs without cycles.  A source was made before the promise that awaits it;
\* a captured promise need not be, and one that awaits itself never ends
\* (sync.Once blocks for ever): promises are numbered so that it comes first.
Graphs ==
  /\ source \in [Promises -> Promises \cup {Nothing}]
  /\ captured \in [Promises -> Promises \cup {Nothing}]
  /\ does \in [Promises -> {"value", "error", "panic", "captured"}]
  /\ ready \in SUBSET Promises
  /\ \A p \in Promises :
       /\ source[p] < p
       /\ captured[p] < p
       /\ does[p] = "captured" => captured[p] # Nothing
       /\ p \in ready => source[p] = Nothing /\ captured[p] = Nothing
                         /\ does[p] \in {"value", "error"}

Init ==
  /\ Graphs
  /\ once = [p \in Promises |-> IF p \in ready THEN "done" ELSE "idle"]
  /\ outcome = [p \in Promises |->
       IF p \notin ready THEN Pending
       ELSE IF does[p] = "value" THEN Value(<<p>>) ELSE Error(p)]
  /\ ran = [p \in Promises |-> 0]
  /\ stack = [t \in Threads |-> <<>>]

-----------------------------------------------------------------------------
Frame(p, at) == [promise |-> p, at |-> at]
Top(t) == stack[t][Len(stack[t])]
TopIs(t, at) == stack[t] # <<>> /\ Top(t).at = at
Push(t, p) == stack' = [stack EXCEPT ![t] = Append(@, Frame(p, "await"))]
GoTo(t, at) == stack' = [stack EXCEPT ![t][Len(stack[t])].at = at]

Await(t, p) ==
  /\ stack[t] = <<>>
  /\ Push(t, p)
  /\ UNCHANGED <<graph, once, outcome, ran>>

Return(t) ==
  /\ TopIs(t, "await")
  /\ once[Top(t).promise] = "done"
  /\ stack' = [stack EXCEPT ![t] = SubSeq(@, 1, Len(@) - 1)]
  /\ UNCHANGED <<graph, once, outcome, ran>>

\* sync.OnceValues: the first to come runs the function, the others wait.
MayEnterAgain(p) == once[p] # "running"
MayEnterAlone(p) == \A q \in Promises : once[q] # "running"
MayEnter(p) == once[p] = "idle"

Enter(t) ==
  /\ TopIs(t, "await")
  /\ MayEnter(Top(t).promise)
  /\ once' = [once EXCEPT ![Top(t).promise] = "running"]
  /\ GoTo(t, "source")
  /\ UNCHANGED <<graph, outcome, ran>>

\* What Then and ThenPromise pass on without calling the function.
PassedOnOnPanic(o) == o.is = "panic"
PassedOn(o) == o.is \in {"error", "panic"}

Finish(t, p, o) ==
  /\ once' = [once EXCEPT ![p] = "done"]
  /\ outcome' = [outcome EXCEPT ![p] = o]
  /\ GoTo(t, "await")
  /\ UNCHANGED <<graph, ran>>

AwaitSource(t) ==
  LET p == Top(t).promise  s == source[p] IN
  /\ TopIs(t, "source")
  /\ s # Nothing
  /\ \/ /\ once[s] # "done"
        /\ Push(t, s)
        /\ UNCHANGED <<graph, once, outcome, ran>>
     \/ /\ once[s] = "done"
        /\ PassedOn(outcome[s])
        /\ Finish(t, p, outcome[s])

CallFunction(t) ==
  LET p == Top(t).promise  s == source[p] IN
  /\ TopIs(t, "source")
  /\ s # Nothing => once[s] = "done" /\ ~PassedOn(outcome[s])
  /\ ran' = [ran EXCEPT ![p] = @ + 1]
  /\ GoTo(t, "function")
  /\ UNCHANGED <<graph, once, outcome>>

\* What the function of p makes of its argument and of what it awaited.
Made(p, argument, awaited) ==
  IF captured[p] # Nothing /\ (awaited.is = "panic" \/ does[p] = "captured")
  THEN awaited
  ELSE CASE does[p] = "error" -> Error(p)
         [] does[p] = "panic" -> Panic(p)
         [] OTHER -> Value(Append(argument, p))

Argument(s, o) == IF s = Nothing THEN <<>> ELSE o[s].of

RunFunction(t) ==
  LET p == Top(t).promise  c == captured[p] IN
  /\ TopIs(t, "function")
  /\ \/ /\ c # Nothing
        /\ once[c] # "done"
        /\ Push(t, c)
        /\ UNCHANGED <<graph, once, outcome, ran>>
     \/ /\ c # Nothing => once[c] = "done"
        /\ Finish(t, p, Made(p, Argument(source[p], outcome),
                             IF c = Nothing THEN Pending ELSE outcome[c]))

Step(t) ==
  Return(t) \/ Enter(t) \/ AwaitSource(t) \/ CallFunction(t) \/ RunFunction(t)

Next == \E t \in Threads : Step(t) \/ \E p \in Promises : Await(t, p)

Spec == Init /\ [][Next]_vars

\* Every goroutine is scheduled again and again; functions return.
FairSpec == Spec /\ \A t \in Threads : WF_vars(Step(t))

-----------------------------------------------------------------------------
TypeOK ==
  /\ Graphs
  /\ once \in [Promises -> {"idle", "running", "done"}]
  /\ \A p \in Promises :
       /\ outcome[p].is \in {"pending", "value", "error", "panic"}
       /\ outcome[p].is = "pending" <=> once[p] # "done"
  /\ ran \in [Promises -> Nat]
  /\ \A t \in Threads : \A k \in DOMAIN stack[t] :
       /\ stack[t][k].promise \in Promises
       /\ stack[t][k].at \in {"await", "source", "function"}
       /\ k < Len(stack[t]) => stack[t][k].at # "await"

\* What the promises of a graph without cycles are worth, told from the
\* functions alone.
Meaning ==
  LET worth[p \in Promises] ==
        LET s == source[p]  c == captured[p] IN
        IF s # Nothing /\ worth[s].is # "value" THEN worth[s]
        ELSE Made(p, Argument(s, worth), IF c = Nothing THEN Pending ELSE worth[c])
  IN  worth

\* A promise holds what its functions mean, whoever awaited what in which order.
OutcomeIsMeaning ==
  \A p \in Promises : once[p] = "done" => outcome[p] = Meaning[p]

\* A function is called at most once, however many goroutines await.
CalledAtMostOnce == \A p \in Promises : ran[p] <= 1

\* The promises whose functions an Await of r needs.
Needs ==
  LET needs[p \in Promises] ==
        LET s == source[p]  c == captured[p] IN
        {p} \cup (IF s = Nothing THEN {} ELSE needs[s])
            \cup (IF c = Nothing \/ (s # Nothing /\ Meaning[s].is # "value") THEN {}
                  ELSE needs[c])
  IN  needs

\* promise.go:36: a function is called only for an Await that needs it; and a
\* promise that fails is the end of its chain, so that what the functions behind
\* it captured is not awaited for them.
CalledWhenNeeded ==
  [][\A p \in Promises : ran'[p] # ran[p] =>
       \E t \in Threads : stack[t] # <<>> /\ p \in Needs[stack[t][1].promise]]_vars

\* An Await comes back, whatever promises the goroutines share and however they
\* wait for each other.
AwaitReturns == \A t \in Threads : stack[t] # <<>> ~> stack[t] = <<>>
=============================================================================
