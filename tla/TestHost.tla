------------------------------ MODULE TestHost ------------------------------
(***************************************************************************)
(* The test host (cre/testutils): goroutines of Go tests that build mocks  *)
(* and test runtimes, call capabilities through the generated clients and  *)
(* await the answers; the process-wide map of registries behind            *)
(* registryLock; the goroutine of each call, which hands its answer over   *)
(* through a channel of one; and the Cleanup that drops a test's registry. *)
(*                                                                         *)
(* A goroutine is <<test, number>>; number 1 runs the test function, and   *)
(* the others may outlive it.  Each runs a script of operations.           *)
(***************************************************************************)
EXTENDS GeneratedMocks, FiniteSets, SequencesExt

CONSTANTS
  Tests,                 \* the tests of the process
  Goroutines,            \* bound: the goroutines of a test
  Scripts,               \* the choices of [Threads -> sequence of operations]
  None                   \* no registry, mock, capability or holder

ASSUME GoroutinesAssumption == Goroutines \in Nat \ {0}

Threads == Tests \X (1 .. Goroutines)
TestOf(th) == th[1]
Main(t) == <<t, 1>>

\* A goroutine builds at most one mock of its own and one runtime.
Handles == Threads \X {"own", "default"}
Own(th) == <<th, "own">>
Default(th) == <<th, "default">>
ASSUME NoneAssumption == None \notin Threads \cup Handles \cup Nat

\* An operation of the kind before the i-th.
Before(ops, i, kind) == \E j \in 1 .. i - 1 : ops[j].op = kind

\* A goroutine does to its mock what it can only do once it has it.
ASSUME OperationsAssumption ==
  \A s \in Scripts : \A th \in Threads :
    /\ Len(s[th]) \in Nat /\ DOMAIN s[th] = 1 .. Len(s[th])
    /\ \A i \in 1 .. Len(s[th]) :
         /\ s[th][i].op \in {"mock", "runtime"} => ~Before(s[th], i, s[th][i].op)
         /\ s[th][i].op \in {"force", "stub", "contract"} => Before(s[th], i, "mock")

\* What a function of a mock may do: return a value or an error, wait, or panic.
\* Every text has at least one piece.
PossibleError(e) ==
  /\ e.kind = "capability" => e = NewError(e.text, e.visibility, e.origin, e.code)
  /\ e.kind # "capability" => e = PlainError(e.text)
  /\ e.text \in Seq(STRING) /\ e.text # <<>>
PossibleAnswer(answer) ==
  \/ answer \in {NoAnswer, Blocks, Hangs, Panics}
  \/ answer.kind = "value" /\ answer = Got(answer.value)
  \/ /\ answer.kind = "error"
     /\ answer = Failed(answer.error) /\ PossibleError(answer.error)

\* A contract's functions are under selectors, which are not too short, and one
\* that is nil is as good as none.
PossibleLayer(layer) ==
  /\ PossibleAnswer(layer.writeReport)
  /\ TooShort \notin DOMAIN layer.callContract
  /\ \A data \in DOMAIN layer.callContract :
       PossibleAnswer(layer.callContract[data]) /\ layer.callContract[data] # NoAnswer
ASSUME FunctionsAssumption ==
  \A s \in Scripts : \A th \in Threads : \A i \in DOMAIN s[th] :
    /\ s[th][i].op = "stub" => PossibleAnswer(s[th][i].base)
    /\ s[th][i].op = "contract" => PossibleLayer(s[th][i].layer)

\* Clients and mocks are generated from one description: a method of one id and
\* input has one output.
SameOutput(mock, client) ==
  /\ mock.id = client.id /\ client.method \in DOMAIN mock.methods
  /\ mock.methods[client.method].input = client.input
  => mock.methods[client.method].output = client.output
ASSUME OutputsAssumption ==
  \A s \in Scripts : \A th \in Threads : \A i \in DOMAIN s[th] :
    s[th][i].op = "call" =>
      /\ SameOutput(ConsensusMock, s[th][i].client)
      /\ \A u \in Threads : \A j \in DOMAIN s[u] :
           s[u][j].op = "mock" => SameOutput(s[u][j].mock, s[th][i].client)

\* The limiter of a client's method, with some number of calls, and the mocks:
\* what the generator writes for one capability, on every chain there is.
Selectors == {c[2] : c \in EvmChains \cup SolanaChains}
LimitedChainMethods(s, n) ==
  {<<EvmCallContract(s), LimitEvmCallContract(s, n)>>,
   <<EvmFilterLogs(s), LimitEvmFilterLogs(s, n)>>,
   <<EvmBalanceAt(s), LimitEvmBalanceAt(s, n)>>,
   <<EvmEstimateGas(s), LimitEvmEstimateGas(s, n)>>,
   <<EvmGetTransactionByHash(s), LimitEvmGetTransactionByHash(s, n)>>,
   <<EvmGetTransactionReceipt(s), LimitEvmGetTransactionReceipt(s, n)>>,
   <<EvmHeaderByNumber(s), LimitEvmHeaderByNumber(s, n)>>,
   <<EvmWriteReport(s), LimitEvmWriteReport(s, n)>>,
   <<SolanaWriteReport(s), LimitSolanaWriteReport(s, n)>>}
LimitedMethods(n) ==
  {<<HttpSendRequest, LimitHttpSendRequest(n)>>,
   <<ConfidentialSendRequest, LimitConfidentialSendRequest(n)>>,
   <<ConsensusSimple, LimitConsensusSimple(n)>>,
   <<ConsensusReport, LimitConsensusReport(n)>>,
   <<BasicPerformAction, LimitBasicPerformAction(n)>>,
   <<NodePerformAction, LimitNodePerformAction(n)>>,
   <<ClashPerformAction, LimitClashPerformAction(n)>>,
   <<TriggerAction, LimitTriggerAction(n)>>}
Restricts(limit, client) ==
  \/ \E s \in Selectors : <<client, limit>> \in LimitedChainMethods(s, limit.maxCalls)
  \/ <<client, limit>> \in LimitedMethods(limit.maxCalls)

AllMocks ==
  {EvmMock(s) : s \in Selectors} \cup {SolanaMock(s) : s \in Selectors} \cup
  {HttpMock, ConfidentialMock, ConsensusMock, BasicActionMock, NodeActionMock, ClashMock,
   TriggerActionMock}

\* A test has no mocks but the generated ones, and limits a client with the
\* limiter of the method it calls.  Secrets have no limiter.
ASSUME GeneratedAssumption ==
  \A s \in Scripts : \A th \in Threads : \A i \in DOMAIN s[th] :
    LET op == s[th][i]
    IN  /\ op.op = "mock" => op.mock \in AllMocks
        /\ op.op = "secrets" => op.limit = None
        /\ op.op = "call" /\ op.limit # None => Restricts(op.limit, op.client)

\* No two mocks have one id.  The ids are the texts that the generator writes.
ASSUME MockIdsAssumption == \A m, n \in AllMocks : m.id = n.id => m = n

VARIABLES
  script,         \* what every goroutine does
  next,           \* the operation it is at
  phase,          \* where it is in that operation
  testRegistries, \* the registry of every test, a number
  lock,           \* who holds registryLock
  capabilities,   \* by registry: the handles of the registered mocks
  got,            \* the registry GetRegistry last returned to a goroutine
  mocks,          \* the mock of every handle
  stubs,          \* its stubs, by method
  secrets,        \* by goroutine: the Secrets map of its runtime
  calls,          \* the calls and requests for secrets of its runtime
  ended,          \* has the test function returned (its context is done)?
  cleaned,        \* has its Cleanup run?
  crashed         \* has the process died?

registryVars == <<testRegistries, lock, capabilities, got>>
mockVars == <<mocks, stubs, secrets>>
testVars == <<ended, cleaned, crashed>>
vars == <<script, next, phase, registryVars, mockVars, calls, testVars>>

NotSettled == [kind |-> "unsettled"]

TypeOK ==
  /\ \A th \in Threads :
       /\ next[th] \in 1 .. Len(script[th]) + 1
       /\ phase[th] \in {"run", "lookup", "insert", "registry", "defaults"}
       /\ got[th] \in {None} \cup DOMAIN capabilities
       /\ Len(calls[th]) <= Len(script[th])
       /\ \A k \in DOMAIN calls[th] :
            /\ calls[th][k].phase \in {"started", "answered", "sent", "refused"}
            /\ Len(calls[th][k].channel) <= 1
            /\ calls[th][k].served \in Handles \cup {None}
  /\ testRegistries \in [Tests -> {None} \cup DOMAIN capabilities]
  /\ lock \in Threads \cup {None}
  /\ \A r \in DOMAIN capabilities : capabilities[r] \subseteq Handles
  /\ DOMAIN mocks = Handles /\ DOMAIN stubs = Handles
  /\ {ended, cleaned} \subseteq [Tests -> BOOLEAN]
  /\ crashed \in BOOLEAN

Init ==
  /\ script \in Scripts
  /\ next = [th \in Threads |-> 1]
  /\ phase = [th \in Threads |-> "run"]
  /\ testRegistries = [t \in Tests |-> None]
  /\ lock = None
  /\ capabilities = <<>>
  /\ got = [th \in Threads |-> None]
  /\ mocks = [h \in Handles |-> None]
  /\ stubs = [h \in Handles |-> None]
  /\ secrets = [th \in Threads |-> <<>>]
  /\ calls = [th \in Threads |-> <<>>]
  /\ ended = [t \in Tests |-> FALSE]
  /\ cleaned = [t \in Tests |-> FALSE]
  /\ crashed = FALSE

Finished(th) == next[th] > Len(script[th])
Op(th) == script[th][next[th]]
Doing(th, op) == ~crashed /\ ~Finished(th) /\ Op(th).op = op
Done(th) ==
  /\ next' = [next EXCEPT ![th] = @ + 1]
  /\ phase' = [phase EXCEPT ![th] = "run"]
  /\ UNCHANGED script

-----------------------------------------------------------------------------
(* GetRegistry: mocks, runtimes and calls all begin with it.               *)

NeedsRegistry(th) ==
  \/ Op(th).op \in {"mock", "runtime", "force"}
  \/ Op(th).op = "call" /\ Op(th).prepared

Goto(th, p) == phase' = [phase EXCEPT ![th] = p] /\ UNCHANGED <<script, next>>

\* A mutant: without the lock.
LockNothing(th) ==
  /\ ~crashed /\ ~Finished(th) /\ phase[th] = "run"
  /\ NeedsRegistry(th)
  /\ lock' = th
  /\ Goto(th, "lookup")
  /\ UNCHANGED <<testRegistries, capabilities, got, mockVars, calls, testVars>>

\* registryLock.Lock()
LockRegistries(th) ==
  /\ ~crashed /\ ~Finished(th) /\ phase[th] = "run"
  /\ NeedsRegistry(th)
  /\ lock = None
  /\ lock' = th
  /\ Goto(th, "lookup")
  /\ UNCHANGED <<testRegistries, capabilities, got, mockVars, calls, testVars>>

\* The registry of the test is there, and the lock is released.
FindRegistry(th) ==
  /\ ~crashed /\ phase[th] = "lookup"
  /\ testRegistries[TestOf(th)] # None
  /\ got' = [got EXCEPT ![th] = testRegistries[TestOf(th)]]
  /\ lock' = None
  /\ Goto(th, "registry")
  /\ UNCHANGED <<testRegistries, capabilities, mockVars, calls, testVars>>

MissRegistry(th) ==
  /\ ~crashed /\ phase[th] = "lookup"
  /\ testRegistries[TestOf(th)] = None
  /\ Goto(th, "insert")
  /\ UNCHANGED <<registryVars, mockVars, calls, testVars>>

\* A mutant: the map is given a registry that was never made.
AddRegistryAhead(th) ==
  /\ ~crashed /\ phase[th] = "insert"
  /\ capabilities' = Append(capabilities, {})
  /\ testRegistries' = [testRegistries EXCEPT ![TestOf(th)] = Len(capabilities) + 2]
  /\ got' = [got EXCEPT ![th] = Len(capabilities) + 1]
  /\ lock' = None
  /\ Goto(th, "registry")
  /\ UNCHANGED <<mockVars, calls, testVars>>

AddRegistry(th) ==
  /\ ~crashed /\ phase[th] = "insert"
  /\ capabilities' = Append(capabilities, {})
  /\ testRegistries' = [testRegistries EXCEPT ![TestOf(th)] = Len(capabilities) + 1]
  /\ got' = [got EXCEPT ![th] = Len(capabilities) + 1]
  /\ lock' = None
  /\ Goto(th, "registry")
  /\ UNCHANGED <<mockVars, calls, testVars>>

\* The Cleanup of a test deletes its entry without registryLock: beside a
\* goroutine that is at the map, the Go runtime may kill the process.
Cleanup(t) ==
  /\ ~crashed /\ ended[t] /\ ~cleaned[t]
  /\ testRegistries[t] # None
  /\ testRegistries' = [testRegistries EXCEPT ![t] = None]
  /\ cleaned' = [cleaned EXCEPT ![t] = TRUE]
  /\ crashed' \in (IF \E th \in Threads : phase[th] \in {"lookup", "insert"}
                     THEN BOOLEAN ELSE {FALSE})
  /\ UNCHANGED <<script, next, phase, lock, capabilities, got, mockVars, calls, ended>>

-----------------------------------------------------------------------------
(* A Registry: its own lock makes each operation one step.                 *)

\* The handles registered in a registry under an id: none or one.
RegisteredAs(r, id) == {h \in capabilities[r] : mocks[h].id = id}

\* A mutant: the last mock takes the place of the first.
RegisterLast(r, h, id) ==
  capabilities' = [capabilities EXCEPT ![r] = (@ \ RegisteredAs(r, id)) \cup {h}]

RegisterCapability(r, h, id) ==
  capabilities' =
    IF RegisteredAs(r, id) # {} THEN capabilities
    ELSE [capabilities EXCEPT ![r] = @ \cup {h}]

ForceRegisterCapability(r, h, id) ==
  capabilities' = [capabilities EXCEPT ![r] = (@ \ RegisteredAs(r, id)) \cup {h}]

Build(h, mock) ==
  /\ UNCHANGED secrets
  /\ mocks' = [mocks EXCEPT ![h] = mock]
  /\ stubs' = [stubs EXCEPT ![h] = [m \in DOMAIN mock.methods |-> Unset]]

\* New...Capability(t): the mock is returned even when it is not registered.
NewMock(th) ==
  /\ Doing(th, "mock") /\ phase[th] = "registry"
  /\ Build(Own(th), Op(th).mock)
  /\ RegisterCapability(got[th], Own(th), Op(th).mock.id)
  /\ Done(th)
  /\ UNCHANGED <<testRegistries, lock, got, calls, testVars>>

\* A test that replaces what is registered by its own mock.
ForceMock(th) ==
  /\ Doing(th, "force") /\ phase[th] = "registry"
  /\ mocks[Own(th)] # None
  /\ ForceRegisterCapability(got[th], Own(th), mocks[Own(th)].id)
  /\ Done(th)
  /\ UNCHANGED <<testRegistries, lock, got, mockVars, calls, testVars>>

\* A test assigns a field of its mock.
SetStub(th) ==
  /\ Doing(th, "stub")
  /\ stubs' = [stubs EXCEPT ![Own(th)][Op(th).method] = Function(Op(th).base)]
  /\ Done(th)
  /\ UNCHANGED <<registryVars, mocks, secrets, calls, testVars>>

\* AddContractMock wraps both functions of an evm mock.
AddContractMock(th) ==
  /\ Doing(th, "contract")
  /\ stubs' = [stubs EXCEPT ![Own(th)].CallContract = AddLayer(@, Op(th).layer),
                            ![Own(th)].WriteReport = AddLayer(@, Op(th).layer)]
  /\ Done(th)
  /\ UNCHANGED <<registryVars, mocks, secrets, calls, testVars>>

-----------------------------------------------------------------------------
(* The runtime of a goroutine.                                             *)

Defaults == [kind |-> "defaults"]  \* defaultSimpleConsensus and defaultReport

defaultSimpleConsensus(input) ==
  CASE input.observation = "value" -> Got("observed")
    [] input.observation = "error" /\ input.default -> Got("default")
    [] input.observation = "error" /\ ~input.default ->
         Failed(PlainError(<<"no consensus">>))
    [] OTHER -> Failed(PlainError(<<"unknown observation type">>))

\* The metadata header before the payload, and two signatures.
defaultReport == Got("report")

\* What a call of a mock's function returns.
Answer(method, stub, input) ==
  IF stub.base # Defaults THEN StubAnswer(method, stub, input)
  ELSE IF method = "Simple" THEN defaultSimpleConsensus(input)
  ELSE defaultReport

\* NewRuntime registers a consensus mock unless the test has its own, ...
NewRuntime(th) ==
  /\ Doing(th, "runtime") /\ phase[th] = "registry"
  /\ Build(Default(th), ConsensusMock)
  /\ RegisterCapability(got[th], Default(th), ConsensusMock.id)
  /\ IF RegisteredAs(got[th], ConsensusMock.id) = {} THEN Goto(th, "defaults")
     ELSE Done(th)
  /\ UNCHANGED <<testRegistries, lock, got, calls, testVars>>

\* ... and only then gives the registered mock its functions.
SetDefaults(th) ==
  /\ Doing(th, "runtime") /\ phase[th] = "defaults"
  /\ stubs' = [stubs EXCEPT ![Default(th)] =
                 [Simple |-> Function(Defaults), Report |-> Function(Defaults)]]
  /\ Done(th)
  /\ UNCHANGED <<registryVars, mocks, secrets, calls, testVars>>

\* A call of a runtime: the mock it reached, how far its goroutine is, the
\* answer in its channel and the outcome of its promise.  The function the
\* mock had when it was invoked is kept for the properties.
NewCall(op, served, state, outcome) ==
  [client |-> op.client, limit |-> op.limit, input |-> op.input, served |-> served,
   phase |-> state, stub |-> None, reply |-> None, channel |-> <<>>, outcome |-> outcome]
AddCall(th, call) == calls' = [calls EXCEPT ![th] = Append(@, call)]

\* An input that cannot be marshalled, or is not made from the report, settles the promise without a call.
RefuseInput(th) ==
  /\ Doing(th, "call") /\ ~Op(th).prepared
  /\ AddCall(th, NewCall(Op(th), None, "refused", Failed(PlainError(<<"marshal">>))))
  /\ Done(th)
  /\ UNCHANGED <<registryVars, mockVars, testVars>>

\* Call: the promise fails at once when the id is not registered, else a
\* goroutine is started that invokes the mock.
CapabilityNotFound(id) == Failed(PlainError(<<"capability not found", " " \o id>>))
CallCapability(th) ==
  /\ Doing(th, "call") /\ phase[th] = "registry"
  /\ LET served == RegisteredAs(got[th], Op(th).client.id)
     IN  AddCall(th, IF served = {}
                       THEN NewCall(Op(th), None, "refused",
                                    CapabilityNotFound(Op(th).client.id))
                     ELSE NewCall(Op(th), CHOOSE h \in served : TRUE, "started",
                                  NotSettled))
  /\ Done(th)
  /\ UNCHANGED <<registryVars, mockVars, testVars>>

\* The test writes a secret in the map that it gave to the runtime.
KeepSecret(th) ==
  /\ Doing(th, "keep")
  /\ secrets' = [secrets EXCEPT ![th] =
       [name \in DOMAIN @ \cup {Op(th).name} |->
          IF name = Op(th).name THEN Op(th).value ELSE @[name]]]
  /\ Done(th)
  /\ UNCHANGED <<registryVars, mocks, stubs, calls, testVars>>

\* normalizeSecretRequests: a secret is a namespace, "main" if unset, and an id.
Normalized(name) == IF name[1] = "" THEN <<"main", name[2]>> ELSE name

\* The answers of the test host are those of the map when it is asked.
SecretResponse(th, name) ==
  IF Normalized(name) \in DOMAIN secrets[th] THEN Got(secrets[th][Normalized(name)])
  ELSE Failed(PlainError(<<name[2]>>))
SecretsResponse(th, names) ==
  [kind |-> "secrets", responses |-> [k \in DOMAIN names |-> SecretResponse(th, names[k])]]

\* GetSecrets: the response is kept for the await; no secrets need none.
GetSecrets(th) ==
  /\ Doing(th, "secrets")
  /\ AddCall(th,
       IF Op(th).names = <<>> THEN NewCall(Op(th), None, "refused", Got(<<>>))
       ELSE [NewCall(Op(th), None, "sent", NotSettled) EXCEPT
               !.channel = <<SecretsResponse(th, Op(th).names)>>])
  /\ Done(th)
  /\ UNCHANGED <<registryVars, mockVars, testVars>>

\* All the secrets in their order, or an error that names the missing ones.
SecretsOutcome(responses) ==
  LET missing == SelectSeq(responses, LAMBDA r : r.kind = "error")
  IN  IF missing = <<>> THEN Got([k \in DOMAIN responses |-> responses[k].value])
      ELSE Failed(PlainError(<<"error(s) getting secrets">> \o
                               [k \in DOMAIN missing |-> missing[k].error.text[1]]))

MockOf(call) == mocks[call.served]
Reaches(call) ==
  /\ call.client.method \in DOMAIN MockOf(call).methods
  /\ call.client.input = MockOf(call).methods[call.client.method].input

\* The function the mock's field holds now, if Invoke gets as far as that.
StubOf(call) ==
  IF Reaches(call) THEN stubs[call.served][call.client.method] ELSE Unset

\* The goroutine of a call runs Invoke.
InvokeMock(th, k) ==
  /\ calls[th][k].phase = "started"
  /\ LET call == calls[th][k]
         stub == StubOf(call)
     IN  \E answer \in {Answer(call.client.method, stub, call.input)} :
           /\ answer \notin {Blocks, Hangs, Panics}
           /\ calls' = [calls EXCEPT ![th][k] =
                [call EXCEPT !.phase = "answered", !.stub = stub,
                             !.reply = Invoke(MockOf(call), call.client, answer)]]
  /\ UNCHANGED <<script, next, phase, registryVars, mockVars, testVars>>

ContextDone == PlainError(<<"context canceled">>)

\* A function that waits for the context of the test returns its error.
ReleaseMock(th, k) ==
  /\ calls[th][k].phase = "started" /\ ended[TestOf(th)]
  /\ LET call == calls[th][k]
     IN  /\ Answer(call.client.method, StubOf(call), call.input) = Blocks
         /\ calls' = [calls EXCEPT ![th][k] =
              [call EXCEPT !.phase = "answered", !.stub = StubOf(call),
                           !.reply = Invoke(MockOf(call), call.client,
                                            Failed(ContextDone))]]
  /\ UNCHANGED <<script, next, phase, registryVars, mockVars, testVars>>

\* One that panics takes the process with it.
MockPanics(th, k) ==
  /\ calls[th][k].phase = "started"
  /\ LET call == calls[th][k]
     IN  Answer(call.client.method, StubOf(call), call.input) = Panics
  /\ crashed' = TRUE
  /\ UNCHANGED <<script, next, phase, registryVars, mockVars, calls, ended, cleaned>>

\* Is the goroutine in Await for its call k?
Awaiting(th, k) ==
  /\ ~Finished(th) /\ Op(th).op = "await" /\ Op(th).call = k
  /\ calls[th][k].outcome = NotSettled

\* A mutant: an unbuffered channel.
NoBuffer == 0

\* The response goes to a channel that holds one.
ChannelSize == 1
SendResponse(th, k) ==
  /\ calls[th][k].phase = "answered"
  /\ Len(calls[th][k].channel) < ChannelSize \/ Awaiting(th, k)
  /\ calls' = [calls EXCEPT ![th][k].channel = Append(@, calls[th][k].reply),
                            ![th][k].phase = "sent"]
  /\ UNCHANGED <<script, next, phase, registryVars, mockVars, testVars>>

\* Await settles the promise, once.
Settle(th, k, outcome, channel) ==
  /\ calls' = [calls EXCEPT ![th][k].outcome = outcome, ![th][k].channel = channel]
  /\ Done(th)
  /\ UNCHANGED <<registryVars, mockVars, testVars>>

\* A value larger than the runtime's MaxResponseSize.
Huge == "huge"
ResponseBufferTooSmall == PlainError(<<"response buffer too small">>)

\* What the promise becomes: the size check of Await, then the client's Thens.
OutcomeOf(client, response) ==
  IF response.kind = "payload" /\ response.value = Huge THEN Failed(ResponseBufferTooSmall)
  ELSE IF client = ConsensusReport THEN WrapReport(Unwrap(client, response))
  ELSE Unwrap(client, response)

AwaitResponse(th) ==
  /\ Doing(th, "await") /\ Awaiting(th, Op(th).call)
  /\ LET call == calls[th][Op(th).call]
     IN  /\ call.served # None /\ call.channel # <<>>
         /\ Settle(th, Op(th).call, OutcomeOf(call.client, Head(call.channel)),
                   Tail(call.channel))

\* The await of secrets finds the response at once.
AwaitSecrets(th) ==
  /\ Doing(th, "await") /\ Awaiting(th, Op(th).call)
  /\ LET call == calls[th][Op(th).call]
     IN  /\ call.served = None
         /\ Settle(th, Op(th).call, SecretsOutcome(Head(call.channel).responses), <<>>)

\* A mutant: Await looks at the context only when the response is there.
AwaitContextLate(th) ==
  /\ Doing(th, "await") /\ Awaiting(th, Op(th).call)
  /\ ended[TestOf(th)]
  /\ calls[th][Op(th).call].channel # <<>>
  /\ Settle(th, Op(th).call, Failed(ContextDone), calls[th][Op(th).call].channel)

\* The select may take the context even when the response is there.
AwaitContext(th) ==
  /\ Doing(th, "await") /\ Awaiting(th, Op(th).call)
  /\ calls[th][Op(th).call].served # None
  /\ ended[TestOf(th)]
  /\ Settle(th, Op(th).call, Failed(ContextDone), calls[th][Op(th).call].channel)

\* A settled promise returns at once, whatever became of its channel.
AwaitSettled(th) ==
  /\ Doing(th, "await") /\ ~Awaiting(th, Op(th).call)
  /\ Done(th)
  /\ UNCHANGED <<registryVars, mockVars, calls, testVars>>

\* The test function returns: the context of the test is done.
EndTest(t) ==
  /\ ~crashed /\ Finished(Main(t)) /\ ~ended[t]
  /\ ended' = [ended EXCEPT ![t] = TRUE]
  /\ UNCHANGED <<script, next, phase, registryVars, mockVars, calls, cleaned, crashed>>

-----------------------------------------------------------------------------
Step(th) ==
  \/ LockRegistries(th) \/ FindRegistry(th) \/ MissRegistry(th) \/ AddRegistry(th)
  \/ NewMock(th) \/ ForceMock(th) \/ SetStub(th) \/ AddContractMock(th)
  \/ NewRuntime(th) \/ SetDefaults(th)
  \/ RefuseInput(th) \/ CallCapability(th) \/ KeepSecret(th) \/ GetSecrets(th)
  \/ AwaitResponse(th) \/ AwaitSecrets(th) \/ AwaitContext(th) \/ AwaitSettled(th)

Answering(th) ==
  /\ ~crashed
  /\ \E k \in DOMAIN calls[th] :
       InvokeMock(th, k) \/ ReleaseMock(th, k) \/ MockPanics(th, k)
         \/ SendResponse(th, k)

Finishing(t) == EndTest(t) \/ Cleanup(t)

Next ==
  \/ \E th \in Threads : Step(th) \/ Answering(th)
  \/ \E t \in Tests : Finishing(t)

Spec == Init /\ [][Next]_vars

\* Go runs every goroutine that can run, and the Cleanup of a test that is over.
Fairness ==
  /\ \A th \in Threads : WF_vars(Step(th)) /\ WF_vars(Answering(th))
  /\ \A t \in Tests : WF_vars(Finishing(t))
FairSpec == Spec /\ Fairness

-----------------------------------------------------------------------------
AllCalls == UNION {{th} \X DOMAIN calls[th] : th \in Threads}

\* All that a test's goroutines build and call goes to one registry, which no
\* other test shares, until the test's Cleanup.  GetRegistry
\* (registry.go:15-28) looks the test up and adds it under registryLock; two
\* registries would make mocks invisible to the runtime that calls them.
OneRegistryPerTest ==
  \A m, n \in Threads :
    got[m] # None /\ got[n] # None =>
      /\ TestOf(m) # TestOf(n) => got[m] # got[n]
      /\ TestOf(m) = TestOf(n) /\ ~cleaned[TestOf(m)] => got[m] = got[n]

\* A mock that is registered stays, unless a test forces its own in its
\* place: NewRuntime's consensus never takes the place of one the test built
\* (testutils/runtime.go:32), in whatever order its goroutines do it.
FirstMockStays ==
  [][\A r \in DOMAIN capabilities : \A h \in capabilities[r] :
       \/ h \in capabilities'[r]
       \/ \E th \in Threads : Doing(th, "force") /\ got[th] = r]_vars

\* What a text becomes on its way through Invoke and DeserializeErrorFromString:
\* itself, or, when it has three colons, a capability error that keeps what
\* follows the third and, where they are ones, the visibility, the origin and
\* the code before it.
TextArrives(text, err) ==
  IF Len(text) <= 3 THEN err = PlainError(text)
  ELSE /\ err.kind = "capability"
       /\ text = SubSeq(text, 1, 3) \o err.text
       /\ IF err.visibility = -1 THEN text[1] \notin {"Public", "Private"}
          ELSE VisibilityString(err.visibility) = text[1]
       /\ IF err.origin = -1 THEN text[2] \notin {"System", "User"}
          ELSE OriginString(err.origin) = text[2]
       /\ err.code # UnrecognisedErrorCode => CodeString(err.code) = text[3]
       /\ err.code = UnrecognisedErrorCode => text[3] \notin Range(errorCodeToString)

Arrives(answer, client, outcome) ==
  CASE answer.kind = "none" -> outcome.kind = "error"
    [] answer.kind = "blocks" -> outcome = Failed(ContextDone)
    [] answer.kind = "error" ->
         outcome.kind = "error" /\ TextArrives(ErrorText(answer.error), outcome.error)
    [] answer.kind = "value" ->
         CASE answer.value = Huge -> outcome = Failed(ResponseBufferTooSmall)
           [] answer.value = ShortReport /\ client = ConsensusReport ->
                outcome.kind = "error"
           [] OTHER -> outcome = answer

\* A promise that is settled holds what the function of the called method did
\* in the mock its own test registered under the called id - the value it
\* returned, the error it returned as far as the text carries it - or the end
\* of the test; the runtime's own default consensus has its functions by then
\* (runtime.go:30-36, 173-214, error_serialization.go:12-25).
OutcomesAreTheStubs ==
  \A c \in AllCalls :
    LET th == c[1]
        call == calls[th][c[2]]
    IN  call.served # None /\ call.outcome # NotSettled =>
          /\ TestOf(call.served[1]) = TestOf(th)
          /\ MockOf(call).id = call.client.id
          /\ \/ call.outcome = Failed(ContextDone) /\ ended[TestOf(th)]
             \/ /\ call.phase = "sent"
                /\ call.served = Default(th) /\ Reaches(call) => call.stub # Unset
                /\ Arrives(Answer(call.client.method, call.stub, call.input),
                           call.client, call.outcome)

\* No two chains have one selector.
ChainsApart ==
  \A c, d \in EvmChains \cup SolanaChains : c[2] = d[2] => c = d

\* A request of a generated client is served by the generated mock of its id,
\* with the types the client sends and expects, and the limiter of the method
\* restricts that very request: the three are generated apart.  And no two
\* chains have one selector, or the mock and the limits of one would be those
\* of the other.
GeneratedPairsAgree ==
  /\ ChainsApart
  /\ \A c \in AllCalls :
       LET call == calls[c[1]][c[2]]
       IN  call.limit # None =>
             /\ call.limit.id = call.client.id /\ call.limit.method = call.client.method
             /\ call.served # None =>
                  /\ Reaches(call)
                  /\ MockOf(call).methods[call.client.method].output = call.client.output

\* Of the contracts mocked on one evm mock, the newest for the address that
\* has the method answers; the mock as it was before the first answers for
\* other addresses and methods, and there is an error if it had no function
\* (mock/utils.go:15-69).  A report goes to the newest for its receiver.
NewestContractAnswers ==
  \A c \in AllCalls :
    LET call == calls[c[1]][c[2]]
        mine == {n \in DOMAIN call.stub.layers :
                   call.stub.layers[n].address = call.input.to}
        able == {n \in mine : call.input.data \in DOMAIN call.stub.layers[n].callContract}
        called(answer) ==
          call.reply = Invoke(MockOf(call), call.client,
                              IF answer = Blocks THEN Failed(ContextDone) ELSE answer)
        original == IF call.stub.base = NoAnswer THEN call.reply.kind = "error"
                    ELSE called(call.stub.base)
    IN  call.reply # None /\ call.stub.layers # <<>> =>
          IF call.client.method = "CallContract"
            THEN CASE able # {} ->
                        called(call.stub.layers[Max(able)].callContract[call.input.data])
                   [] able = {} /\ mine # {} /\ call.input.data = TooShort ->
                        call.reply.kind = "error"
                   [] OTHER -> original
          ELSE IF mine # {} THEN called(call.stub.layers[Max(mine)].writeReport)
          ELSE original

\* The goroutine of a call ends once its function has returned, whether or
\* not anybody awaits the call (runtime.go:180-184): none is left behind.
MocksFinish ==
  <>[](crashed \/ \A c \in AllCalls : calls[c[1]][c[2]].phase # "answered")

\* Await returns once the function has, or the test is over
\* (runtime.go:200-205): neither a late answer nor a lost one holds it.
AwaitReturns ==
  <>[](crashed \/ \A c \in AllCalls :
         Awaiting(c[1], c[2]) =>
           calls[c[1]][c[2]].phase = "started" /\ ~ended[TestOf(c[1])])
=============================================================================
