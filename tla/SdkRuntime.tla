----------------------------- MODULE SdkRuntime -----------------------------
(***************************************************************************)
(* The runtime handed to a workflow (internal/sdkimpl/runtime.go): one DON *)
(* Runtime, the NodeRuntimes that RunInNodeMode creates from it, and the   *)
(* host they call.  The guest is single threaded, so an operation is one   *)
(* step, except the two that give control away: RunInNodeMode, which runs  *)
(* a workflow function between its two halves, and Await, which blocks in  *)
(* the host.  The workflow is any program: it may keep a runtime, a        *)
(* generator or a promise and use it at any later time.                    *)
(*                                                                         *)
(* calls[i] is the i-th request the host accepted, and promise i the one   *)
(* the runtime returned for it.  A request that is refused by the mode     *)
(* check or by the host gives a promise that is already an error           *)
(* (PromiseFromResult) and appears only through the id it uses up.         *)
(***************************************************************************)
EXTENDS Integers, Sequences

CONSTANTS
  MaxCalls,     \* bound: no runtime counts its call ids beyond this many
  MaxIssued,    \* bound: the host accepts at most this many requests
  MaxDraws,     \* bound: how many random numbers are drawn
  MaxNodeRuns,  \* bound: how often RunInNodeMode is called
  Nesting,      \* may the function given to RunInNodeMode call it again?
  Recovers      \* may the workflow recover a panic of that function?

MaxInt32 == 2147483647

\* The call ids are int32: the bound keeps them from wrapping around.
ASSUME MaxCallsAssumption == MaxCalls \in 1 .. MaxInt32
ASSUME BoundsAssumption == {MaxIssued, MaxDraws, MaxNodeRuns} \subseteq Nat
ASSUME WorkflowAssumption == Nesting \in BOOLEAN /\ Recovers \in BOOLEAN

DON == 0
\* Every method of a TeeRuntime is that of the DON runtime it holds.
TeeRuntime == DON
NodeRuntimes == 1 .. MaxNodeRuns
Runtimes == {DON} \cup NodeRuntimes

Modes == {"DON", "NODE"}
ModeOf(r) == IF r = DON THEN "DON" ELSE "NODE"

ModeErrors == {"none", "DonModeCallInNodeMode", "NodeModeCallInDonMode"}
Apis == {"capability", "secrets"}

VARIABLES
  modeErr,         \* r.modeErr of every runtime
  nextCallId,      \* r.nextCallId of every runtime
  source,          \* r.source: "nil" or the mode of the stream it draws from
  nextNodeCallId,  \* d.nextNodeCallId of the DON runtime
  created,         \* how many NodeRuntimes exist
  frames,          \* the NodeRuntimes of the RunInNodeMode calls on the stack
  hostMode,        \* what the host was last told by SwitchModes
  calls,           \* the requests the host accepted, in order
  answered,        \* the calls the host has finished
  taken,           \* the calls whose response the host has handed out
  awaiting,        \* the promise the guest is blocked on, or 0
  results,         \* <<i, j>>: promise i was decided by the response to call j
  draws,           \* history: who drew from which stream, in which mode of the host
  returned         \* history: the NodeRuntimes whose function has returned

guestVars == <<modeErr, nextCallId, source, nextNodeCallId, created, frames, returned>>
hostVars == <<hostMode, calls, answered, taken>>
vars == <<guestVars, hostVars, awaiting, results, draws>>

CallIds == -MaxCalls .. MaxCalls

Call == [id : CallIds, by : Runtimes, mode : Modes, api : Apis]
DrawnNumber == [by : Runtimes, stream : Modes, mode : Modes]

TypeOK ==
  /\ modeErr \in [Runtimes -> ModeErrors]
  /\ nextCallId \in [Runtimes -> CallIds]
  /\ nextCallId[DON] >= 0 /\ \A n \in NodeRuntimes : nextCallId[n] <= 0
  /\ source \in [Runtimes -> {"nil"} \cup Modes]
  /\ nextNodeCallId \in CallIds /\ nextNodeCallId <= 0
  /\ created \in 0 .. MaxNodeRuns
  /\ frames \in Seq(NodeRuntimes)
  /\ hostMode \in Modes
  /\ calls \in Seq(Call)
  /\ answered \subseteq DOMAIN calls /\ taken \subseteq answered
  /\ awaiting \in {0} \cup DOMAIN calls
  /\ results \subseteq (DOMAIN calls) \X ({0} \cup DOMAIN calls)
  /\ draws \in Seq(DrawnNumber)
  /\ returned \subseteq NodeRuntimes

\* newRunner switches the host to DON mode and makes the one DON runtime.
Init ==
  /\ modeErr = [r \in Runtimes |-> "none"]
  /\ nextCallId = [r \in Runtimes |-> 0]
  /\ source = [r \in Runtimes |-> "nil"]
  /\ nextNodeCallId = 0
  /\ created = 0
  /\ frames = <<>>
  /\ hostMode = "DON"
  /\ calls = <<>>
  /\ answered = {}
  /\ taken = {}
  /\ awaiting = 0
  /\ results = {}
  /\ draws = <<>>
  /\ returned = {}

-----------------------------------------------------------------------------
\* The runtimes the workflow holds: the DON runtime, bare or in a TeeRuntime, and
\* every NodeRuntime it was ever given, whether or not the function it was given
\* to has returned.
Held == {DON, TeeRuntime} \cup 1 .. created

UsableUnchecked(r) == TRUE
Usable(r) == modeErr[r] = "none"

NextIdUpInBothModes(r) == nextCallId[r] + 1

\* Ids count up in DON mode and down in node mode, to keep the two apart.
NextId(r) == IF ModeOf(r) = "DON" THEN nextCallId[r] + 1 ELSE nextCallId[r] - 1

InBound(r) == NextId(r) \in CallIds

Pending(i) == \A d \in results : d[1] # i

\* The host takes a request and the runtime returns its promise.
Accept(id, r, mode, api) ==
  /\ Len(calls) < MaxIssued
  /\ calls' = Append(calls, [id |-> id, by |-> r, mode |-> mode, api |-> api])

AcceptSecrets(id) == Accept(id, DON, hostMode, "secrets")

\* RuntimeBase.CallCapability: the id is used up before the mode is checked.
CallCapability(r) ==
  /\ awaiting = 0
  /\ r \in Held
  /\ InBound(r)
  /\ nextCallId' = [nextCallId EXCEPT ![r] = NextId(r)]
  /\ \/ UNCHANGED calls             \* modeErr is set, or Call returned an error
     \/ /\ Usable(r)
        /\ Accept(NextId(r), r, hostMode, "capability")
  /\ UNCHANGED <<modeErr, source, nextNodeCallId, created, frames, returned,
                 hostMode, answered, taken, awaiting, results, draws>>

\* Runtime.GetSecrets: the mode is checked first, and a DON id is used.
GetSecrets ==
  /\ awaiting = 0
  /\ Usable(DON)
  /\ InBound(DON)
  /\ nextCallId' = [nextCallId EXCEPT ![DON] = NextId(DON)]
  /\ \/ UNCHANGED calls             \* the host refused the request
     \/ AcceptSecrets(NextId(DON))
  /\ UNCHANGED <<modeErr, source, nextNodeCallId, created, frames, returned,
                 hostMode, answered, taken, awaiting, results, draws>>

\* RuntimeBase.Rand: an error outside the runtime's mode (no step), otherwise
\* a generator over the stream of the runtime's mode, fetched on first use.
Rand(r) ==
  /\ awaiting = 0
  /\ r \in Held
  /\ Usable(r)
  /\ source[r] = "nil"
  /\ source' = [source EXCEPT ![r] = ModeOf(r)]
  /\ UNCHANGED <<modeErr, nextCallId, nextNodeCallId, created, frames, returned,
                 hostVars, awaiting, results, draws>>

NumberFrom(r) == [by |-> r, stream |-> source[r], mode |-> hostMode]

DrawUnchecked(r) ==
  /\ awaiting = 0
  /\ r \in Held
  /\ source[r] # "nil"
  /\ Len(draws) < MaxDraws
  /\ draws' = Append(draws, NumberFrom(r))
  /\ UNCHANGED <<guestVars, hostVars, awaiting, results>>

\* Int63, Uint64 and Seed of a generator that Rand returned: they panic when
\* modeErr is set (Recover and the end of the execution stand for that).
Draw(r) ==
  /\ awaiting = 0
  /\ r \in Held
  /\ source[r] # "nil"
  /\ Usable(r)
  /\ Len(draws) < MaxDraws
  /\ draws' = Append(draws, NumberFrom(r))
  /\ UNCHANGED <<guestVars, hostVars, awaiting, results>>

-----------------------------------------------------------------------------
\* The copy of the DON RuntimeBase that becomes NodeRuntime n draws nothing yet.
CopiedSourceKept(n) == [source EXCEPT ![n] = source[DON]]
CopiedSource(n) == [source EXCEPT ![n] = "nil"]

\* RunInNodeMode up to the call of fn: the NodeRuntime is a copy of the DON
\* RuntimeBase (its modeErr included) with a fresh source and the node id
\* counter of the previous run.
RunInNodeMode ==
  LET n == created + 1 IN
  /\ awaiting = 0
  /\ Nesting \/ frames = <<>>
  /\ created < MaxNodeRuns
  /\ created' = n
  /\ modeErr' = [modeErr EXCEPT ![n] = modeErr[DON],
                                ![DON] = "DonModeCallInNodeMode"]
  /\ nextCallId' = [nextCallId EXCEPT ![n] = nextNodeCallId]
  /\ source' = CopiedSource(n)
  /\ frames' = Append(frames, n)
  /\ hostMode' = "NODE"
  /\ UNCHANGED <<nextNodeCallId, returned, calls, answered, taken, awaiting, results, draws>>

\* The mode errors and the node id counter that NodeRuntime n leaves behind.
LeftErrorsOfDon(n) == [modeErr EXCEPT ![DON] = "none"]
LeftErrors(n) ==
  [modeErr EXCEPT ![n] = "NodeModeCallInDonMode", ![DON] = "none"]

LeftNodeCallIdUnsaved(n) == nextNodeCallId
LeftNodeCallId(n) == nextCallId[n]

\* RunInNodeMode from the return of fn: switch back, swap the mode errors,
\* save the node counter, and issue the consensus call through the DON
\* runtime, which may fail to marshal, be refused by the host or be accepted.
ReturnFromNodeMode ==
  LET n == frames[Len(frames)] IN
  /\ awaiting = 0
  /\ frames # <<>>
  /\ frames' = SubSeq(frames, 1, Len(frames) - 1)
  /\ hostMode' = "DON"
  /\ modeErr' = LeftErrors(n)
  /\ nextNodeCallId' = LeftNodeCallId(n)
  /\ returned' = returned \cup {n}
  /\ \/ UNCHANGED <<nextCallId, calls>>
     \/ /\ InBound(DON)
        /\ nextCallId' = [nextCallId EXCEPT ![DON] = NextId(DON)]
        /\ \/ UNCHANGED calls
           \/ Accept(NextId(DON), DON, "DON", "capability")
  /\ UNCHANGED <<source, created, answered, taken, awaiting, results, draws>>

\* A panic leaves the mode errors as they are.
PanicErrorsCleared == [modeErr EXCEPT ![DON] = "none"]
PanicErrors == modeErr

\* fn panics (a draw out of mode, a failed now(), the workflow's own code) and
\* code below the frame recovers: nothing in RunInNodeMode is deferred.
Recover ==
  /\ Recovers
  /\ awaiting = 0
  /\ frames # <<>>
  /\ \E k \in 0 .. Len(frames) - 1 : frames' = SubSeq(frames, 1, k)
  /\ modeErr' = PanicErrors
  /\ UNCHANGED <<nextCallId, source, nextNodeCallId, created, returned,
                 hostVars, awaiting, results, draws>>

-----------------------------------------------------------------------------
AwaitWithoutOnce(i) ==
  /\ awaiting = 0
  /\ awaiting' = i
  /\ UNCHANGED <<guestVars, hostVars, results, draws>>

\* Await of promise i.  sync.OnceValues lets only the first Await reach the
\* host; a later one returns the stored result, which is no step.  The mode is
\* not checked.
Await(i) ==
  /\ awaiting = 0
  /\ Pending(i)
  /\ awaiting' = i
  /\ UNCHANGED <<guestVars, hostVars, results, draws>>

\* The await request never reaches the host (it does not marshal, or the
\* response buffer is empty): an error that stands for no response.
AwaitFails ==
  /\ awaiting # 0
  /\ results' = results \cup {<<awaiting, 0>>}
  /\ awaiting' = 0
  /\ UNCHANGED <<guestVars, hostVars, draws>>

\* The host finishes a request, in any order and at any time (external).
HostAnswers(i) ==
  /\ i \notin answered
  /\ answered' = answered \cup {i}
  /\ UNCHANGED <<guestVars, hostMode, calls, taken, awaiting, results, draws>>

\* The host has a response under the awaited id and hands it out, once.  What
\* the response makes of the promise (a value, or an error when the host
\* reports one, when it is larger than the buffer and so lost, does not
\* unmarshal, or does not hold the id) depends on the response alone.
AwaitReturns ==
  /\ awaiting # 0
  /\ \E j \in answered \ taken :
       /\ calls[j].id = calls[awaiting].id
       /\ calls[j].api = calls[awaiting].api
       /\ taken' = taken \cup {j}
       /\ results' = results \cup {<<awaiting, j>>}
  /\ awaiting' = 0
  /\ UNCHANGED <<guestVars, hostMode, calls, answered, draws>>

\* The handler may return whenever nothing is left on its stack.
Idle ==
  /\ awaiting = 0
  /\ frames = <<>>
  /\ UNCHANGED vars

Next ==
  \/ \E r \in Runtimes : CallCapability(r) \/ Rand(r) \/ Draw(r)
  \/ GetSecrets
  \/ RunInNodeMode
  \/ ReturnFromNodeMode
  \/ Recover
  \/ \E i \in DOMAIN calls : Await(i) \/ HostAnswers(i)
  \/ AwaitFails
  \/ AwaitReturns
  \/ Idle

Spec == Init /\ [][Next]_vars

\* The host works on every request it accepted and an await for which it has
\* the response returns; nothing obliges the workflow to do anything.
Fairness ==
  /\ WF_vars(\E i \in DOMAIN calls : HostAnswers(i))
  /\ WF_vars(AwaitReturns)

FairSpec == Spec /\ Fairness

-----------------------------------------------------------------------------
(* Properties of a workflow that neither nests RunInNodeMode nor recovers   *)
(* a panic of the function it gives to it (Nesting = Recovers = FALSE).     *)

\* No two requests of an execution carry the same callback id, whichever
\* runtimes issued them and whichever API they used: the host files responses
\* by id, so a repeated id would hand one call's answer to another.
UniqueIds ==
  \A i, j \in DOMAIN calls : i # j => calls[i].id # calls[j].id

\* The host receives every request while it is in the mode of the runtime that
\* issued it: no DON request is made in node mode, nor the reverse.
CallsMatchMode ==
  \A i \in DOMAIN calls : calls[i].mode = ModeOf(calls[i].by)

\* The runtime whose code is running: fn's innermost one, or the DON runtime.
Active == IF frames = <<>> THEN DON ELSE frames[Len(frames)]

\* Of all the runtimes the workflow ever held, exactly one is usable: the one
\* of the innermost running function, and the host is in its mode.  modeErr of
\* every runtime and the mode of the host are four assignments apart in
\* RunInNodeMode, on two objects.
SoleUsableRuntime ==
  /\ {r \in Held : Usable(r)} = {Active}
  /\ hostMode = ModeOf(Active)

\* The random streams do not mix: the DON stream, which every node must read
\* identically, is drawn from in DON mode only, and the node stream in node
\* mode only, whatever generators the workflow kept.
DrawsStayInMode ==
  \A i \in DOMAIN draws : draws[i].stream = draws[i].mode

\* A promise that got a response from the host got the one to its own call,
\* in whatever order calls are answered and promises awaited.
AnswersOwnCall ==
  \A d \in results : d[2] \in {0, d[1]}

\* The runtime implements the ledger of its host's view.
Ledger == INSTANCE CallLedger WITH
  CallIds <- CallIds,
  mode <- hostMode,
  issued <- {[id |-> calls[i].id, mode |-> calls[i].mode] : i \in DOMAIN calls},
  count <- Len(calls),
  settled <- {calls[d[1]].id : d \in results}

LedgerSpec == Ledger!Spec

\* An Await that blocks in the host comes back, because no second Await of the
\* same call can have taken the response (the host hands it out once).
AwaitEnds ==
  (awaiting # 0) ~> (awaiting = 0)

-----------------------------------------------------------------------------
(* Properties of every workflow.                                            *)

\* An id the DON runtime issued is never issued again, by any runtime.
DonIdsUnique ==
  \A i, j \in DOMAIN calls :
    i # j /\ calls[i].by = DON => calls[i].id # calls[j].id

NewCalls == {calls'[i] : i \in DOMAIN calls' \ DOMAIN calls}
NewDraws == {draws'[i] : i \in DOMAIN draws' \ DOMAIN draws}

\* A runtime makes requests, fetches its source and draws from it in its time
\* only: a NodeRuntime until its function returns, and never again, not even
\* inside a later RunInNodeMode; the DON runtime while the host is in DON mode.
\* A panic that is recovered restores nothing, and so opens nothing.
UsedInTime ==
  [][/\ \A r \in returned :
          /\ source'[r] = source[r]
          /\ \A use \in NewCalls \cup NewDraws : use.by # r
     /\ \A use \in NewCalls \cup NewDraws : use.by = DON => use.mode = "DON"
     /\ hostMode = "NODE" => source'[DON] = source[DON]]_vars

\* The first Await decides a promise: its result and the response it came from
\* never change, and no later Await blocks in the host for it again.
PromiseFinal ==
  [][\A d \in results :
       /\ awaiting' # d[1]
       /\ \A e \in results' : e[1] = d[1] => e = d]_vars

-----------------------------------------------------------------------------
(* What the documentation says of every workflow, and the code does not do. *)

\* cre/runtime.go:199: the DON Runtime cannot be used inside RunInNodeMode.
DonRuntimeOutsideNodeMode ==
  frames # <<>> => ~Usable(DON)

=============================================================================
