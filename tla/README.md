# Verification of cre-sdk-go

TLA+ models of the Go SDK for CRE workflows, checked with TLC on small
instances, with proofs that TLAPS checks for every instance. Line numbers are
those of the sources under `src/`.

## The system

A workflow is a Go program compiled to WASM. The host starts the guest once for
every request: to learn what the workflow subscribes to, to ask for the
restrictions of an execution, or to run a handler for a trigger. Inside an
execution the workflow calls capabilities through a `Runtime`, switches between
DON mode (every node of the DON does the same) and node mode (each node on its
own) and awaits promises that the host fulfils.

| Part | State | Operations | Interacts with |
|---|---|---|---|
| Workflow runtimes `internal/sdkimpl/runtime.go` | `modeErr`, `nextCallId`, random source of `Runtime` and of each `NodeRuntime`, `nextNodeCallId` | `CallCapability`, `GetSecret(s)`, `Rand`, `RunInNodeMode`, the generators' draws | host through `RuntimeHelpers`; promises |
| Promises `cre/promise.go` | `sync.OnceValues` of each promise | `NewBasicPromise`, `PromiseFromResult`, `Then`, `ThenPromise`, `Await` | any function may await any promise it captured |
| Host interface `cre/wasm/runtime.go` | none of its own; the host's mode, outstanding requests, answers | `Call`, `Await`, `GetSecrets`, `AwaitSecrets`, `SwitchModes`, `GetSource` | runtimes on one side, host on the other |
| Runner `cre/wasm/runner.go` and handlers `cre/execution_handler.go` | the request, the handler list, the response | `getRunner`, `Run`, the `run` of subscriber, runner and preHookRunner, `exit` | host, which keeps the subscriptions; `initFn`; handlers |
| Report verification `cre/report_verification.go`, `report.go`, `report_fields.go` | `keyCache`, the report's signatures, its cached header | `ParseReport(WithConfig)`, `VerifySignatures(WithConfig)` | registry contracts, in two calls of the EVM capability |
| Consensus `cre/runtime.go`, `cre/consensus_aggregators.go` | none | generic `RunInNodeMode`, descriptors from struct tags | runtimes; consensus capability |
| TEE constraints `cre/tee_constraints.go` | none | JSON forms of what a handler accepts | handlers |
| Capability errors `capabilities/errors` | none | wire form of an error, and back | generated clients |
| Test host and registry `cre/testutils` | registries by test behind `registryLock`, mocks and their functions, a channel per call, secrets | `GetRegistry`, `RegisterCapability`, `NewRuntime`, `Call`, `Await`, `GetSecrets`, Cleanup | generated clients and mocks, promises |
| Generated clients, triggers and mocks | the functions of a mock | marshal, `CallCapability`, `Then`; `Invoke`; `AddContractMock` | runtimes, runner, test host |
| Contract bindings, `.pb.go`; generator and tools | none | conversions; text generation | |

What is hard here: ids are unique only because two counters move away from each
other and one of them is handed from `NodeRuntime` to `NodeRuntime`; isolation of
the modes rests on errors set and cleared around a callback that may nest, leak
or panic; promises are awaited late and in any order, by several goroutines
outside WASM; a report is verified against lists read in two steps, cached for
ever, under a registry that changes; the handler list is rebuilt in every
execution and the host knows handlers by their place; every node counts ids for
itself and the host matches requests of different nodes by them; tests share a
process-wide map of registries and leave goroutines behind.

What makes each part correct: *runtimes*: one usable runtime at a time, the host
in its mode, unique ids, own answers, random streams kept apart. *Promises*: an
outcome that does not depend on who awaits when, functions called once and only
when needed, no deadlock without a cycle. *Runner*: what was subscribed is what
is called, with the runtime it needs. *Reports*: accepted means a quorum of an
accepted registry, refused means none had one, and acceptance lasts. *Consensus*:
what `RunInNodeMode` gives a node is the aggregate of what the functions returned
at that very step, ignored fields apart; a self-referential type has no descriptor.
*Lockstep*: what the nodes of a DON do differently in node mode leaves no trace in
their DON ids and random numbers. *TEE constraints*: a config means what it names,
and nothing it leaves out, misspells or empties is taken for any. *Test host*: one
registry a test, an outcome that is what the mock's function did, Awaits that
return. *Generated code*: clients, limiters, mocks and triggers, generated apart,
agree. *Errors*: a serialised error comes back, anything else is left alone.

`PROJECT.json` lists every component with its status and every hazard at its
line, with the properties that cover it or why none does.

## Modules

| Module | Models | Lines it stands for |
|---|---|---|
| `CallLedger` | what the host sees: requests issued once, in their mode, settled once | abstract |
| `SdkRuntime` | runtimes, promises on calls, mode switch, the host's answers | `sdkimpl/runtime.go`, `wasm/runtime.go` |
| `Promise` | graphs of promises, several goroutines | `promise.go` |
| `ReportVerification` | verification, cache, registries | `report_verification.go` |
| `ConsensusTags` | descriptors read off struct tags, ignored fields cleared | `consensus_aggregators.go` |
| `DonConsensus` | nodes of a DON in one workflow, `RunInNodeMode` with its consensus | `cre/runtime.go`, over `sdkimpl/runtime.go` |
| `TeeConstraints` | constraints, their JSON, their requirements | `tee_constraints.go` |
| `GeneratedTriggers` | id, method, event type of every trigger | `trigger.go`, `*_sdk_gen.go` |
| `Runner` | executions and handlers, from the config to the TEE | `runner.go`, `execution_handler.go` |
| `CapErrors` | codes, wire form, and back | `capabilities/errors` |
| `ChainNames` | the chain names of the generated clients and what they stand for | `*_sdk_gen.go` |
| `GeneratedClients` | request, limiter and response of every client method | `*_sdk_gen.go` |
| `GeneratedMocks` | mocks, dispatch, stacks of contract mocks | `*_mock_gen.go`, `evm/mock/utils.go` |
| `TestHost` | goroutines of Go tests over registries, mocks and runtimes | `testutils/runtime.go`, `testutils/registry` |
| `MC...` | the small instances | |
| `...Proofs` | the theorems of `SdkRuntime`, `Promise`, `ConsensusTags`, `DonConsensus`, `Runner`, `TestHost` and (after `VerifySigsProofs`) `ReportVerification` | |

What extends what: `DonConsensus` the `ConsensusTags`; `Runner` the
`TeeConstraints` and `GeneratedTriggers`; `TestHost` the `GeneratedMocks`, which
extend `GeneratedClients` and those `CapErrors` and `ChainNames`; `SdkRuntime`
refines `CallLedger`.

Operators whose name says what is wrong with them (`UsableUnchecked`,
`CountsAgain`, ...) stand before the definition they spoil; no specification uses
them. Each is a plausible mistake in the code that one of the properties must
catch, and `PROJECT.json` pairs them.

### SdkRuntime

`modeErr`, `nextCallId` and `source` are the fields of `RuntimeBase` by runtime
(0 is the DON's, 1.. the node runtimes in order of creation), `nextNodeCallId`
the field of `Runtime`. `frames` is the stack of `RunInNodeMode` calls that have
not returned; `hostMode`, `calls`, `answered`, `taken` and `awaiting` are the
host's side; `results` holds the promises. `draws` and `returned` are histories: the
numbers that were drawn (by whom, from which stream, in which mode of the host), and
the NodeRuntimes whose function is over. `CallCapability` and `GetSecrets` have
the refusal (`modeErr`), the failure of the host call and the acceptance as
disjuncts, and the id is consumed in all three. `RunInNodeMode` runs to the call
of `fn`, `ReturnFromNodeMode` is what follows it. The workflow is whatever it
likes to be: it keeps every runtime, generator and promise it got and uses any of
them at any time. Two constants limit it: `Nesting` (it may call `RunInNodeMode`
inside the function of another) and `Recovers` (it may recover a panic of `fn`);
they name the two things the code does not guard against. `Logger` and `Now` have
no state, and every method of a `TeeRuntime` is that of the DON's runtime it holds,
so that it is the same runtime in the model. The id counters keep
their 32 bits as an assumption: MaxCalls is at most 2^31 - 1, and the code has no
guard at the wrap.

### Promise

The graph (kind, source, captured promise and outcome of every function) is chosen
in `Init`, over all graphs of the bound; a source is always an older promise, as it
must be constructed first. A captured promise need not be older in the code, and a
ring of them would wait for ever in `sync.Once`; the graphs are those without
rings, numbered so that a captured promise comes first. Each goroutine has a stack
of the Awaits it is in. A value is the list of promises whose
functions made it, so that a value lost, duplicated or taken from elsewhere shows.

### Runner, TeeConstraints, GeneratedTriggers

Every request is one execution: `GetRunner`, `InitFn`, then the `run` of the
request's runner, ending in `Exit`, in a crash, or in a return without response.
The host (external) subscribes once and then sends only ids it got, with the event
of the trigger's capability or without a payload, and runs an execution in a place
- a TEE in a region - that the requirements admit. `initFn` may build another list
every time; the properties that need the same list say so with the history variable
`subscribed`. `ReadsSecrets` says that it reads a secret. A result of the program
that `proto.Marshal` refuses (a text that is not UTF-8) is sent as nothing, for
`exit` ignores the error. After `exit` the process is gone; the test hook's `exit`
that comes back is the mutant `ExitGoingOn`.

A handler's TEEs are none, a constraint the program writes, or the `Tees` of the
config, which is JSON of any shape. An object is the function from its field names;
none has two spellings of one field. A config without the field leaves a nil
constraint, which panics when `HandlerInTee` asks it. `Names` is what a reader of
the JSON takes it to say, from the comments; `UnmarshalTees` and `toRequirements`
are the code. An element `null` of a list of regions is stored as "", which is no
region and admits no place.

### ReportVerification

A signature is the key it recovers to; an environment is a chain and a registry
address; a node is its p2p id and its operator. `GetDON` and `GetNodesByP2PIds` are
the two contract calls, between any two of which `ChangeDon` and `ChangeKey` may
change the registry. The candidates left to try are places in the config's list,
and what `verifySigs` keeps is said as the first f + 1 acceptable signatures rather
than as the loop that finds them. The ABI decoding is what it can yield: an error, or the
decoded prefix of the nodes. A count that Go cannot allocate, which would panic,
is not modelled. What was verified, and how, is kept in the history variable
`verdict`; `everDon` and `everKey` are histories of the registries, from which
`ReadFrom` tells whether a cached list is what one registry held.

### DonConsensus and ConsensusTags

A workflow's DON code is a script that all nodes follow at their own pace; what a
function does in node mode is chosen by each node. A node counts DON ids
(`nextCallId`) and draws (`drawn`) for itself. `LeaveNodeMode` is the rest of
`RunInNodeMode`: an observation that cannot be marshalled fails before an id is
used, a refused call after. The consensus capability (external) decides for
requests that carry one id. On the nodes of `Faulty` calls may fail, answers may be
lost, observations may be unmarshallable and the function may call a capability of
the DON runtime, which is refused and still uses a DON id; `slips` counts what
took a node's ids off the script, and `Lockstep` is about requests made before that.
A faulty node is not malicious.

`ConsensusTags` reads descriptors off a finite graph of Go types, which may lead
back to itself; a descriptor and a value are sets of nodes with paths. What median
or prefix consensus computes is external; which fields take part is not.

### TestHost, GeneratedMocks, GeneratedClients, CapErrors, ChainNames

Goroutines of tests follow scripts of operations: build a mock, set its function,
wrap it in contract mocks, replace a registered one, build a runtime, call through
a generated client, ask for secrets, await. Goroutine 1 of a test is the test
function; others may outlive it. `GetRegistry` is three steps under `registryLock`;
a Cleanup deletes without it (`registry.go:25`), and a Go map written beside
another access may kill the process, so `Cleanup` chooses whether it does.
`NewRuntime` registers its consensus mock in one step and gives it its functions in
another. Each call has a goroutine that reads the mock's function when it runs, not
when the call was made, and sends to a channel of one; `Await` takes the answer or
the end of the test. A function may answer, wait for the context, hang or panic.

A mock serves a method with the types it unmarshals and marshals; a client sends and
expects types; both are transcribed from their own generated files, so that they
agree is something to check. A chain selector is the text of its digits, which is
how it comes into an id; `GeneratedPairsAgree` also says that no two chains have one.
A `SendRequester` or `PerformActioner` makes the request of its client with the
`NodeRuntime` it is given, and `SendReport` that of `SendRequest`, unless its function
fails. A text is the sequence of its pieces between colons,
which is what `DeserializeErrorFromString` splits. The layers of `AddContractMock`
are kept as a list, newest last, and the recursion over it is the chain of closures.

## Runs

| Run | Instance | Shows |
|---|---|---|
| `runtime` | 2 outstanding calls, 2 ids a side, 2 node runs, 1 draw, disciplined | types, mode isolation, unique ids, own answers, refinement of `CallLedger`, an Await ends |
| `runtime_any` | the same with 2 draws, nesting and recovering | what holds of any workflow: DON ids, runtimes used in their time only, final promises |
| `runtime_nested` | nesting | violated: see Findings |
| `promises` | 3 promises, 2 goroutines, every graph without cycles | outcomes, calls, no deadlock, an Await returns |
| `runner` | 6 handlers, lists of up to 2, 37 configs, 4 executions | the subscribed handler is called, where and with what it needs |
| `runner_secrets` | `initFn` reads a secret | violated |
| `reports` | 2 chains, 2 DONs, reports of up to 3 signatures | what is accepted, what is refused, verification ends |
| `report_rotation` | 2 chains, one change at any time | judged by what an accepted registry held; acceptance lasts |
| `report_registries`, `report_nolist` | 2 registries of one chain; a DON without nodes | violated |
| `don` | 3 nodes, 1 faulty, 4 workflows, quorum and match of 2 | ids and draws in lockstep, expected outcomes, agreement reached |
| `testhost` | 2 tests, up to 3 goroutines; every client with every kind of answer; stacks of contracts | one registry a test, outcomes, generated code agrees, Awaits return |

The bounds are the smallest at which the interesting cases exist. Two node runs
are needed for ids to pass from one to the next, two ids a side for a repeat, two
outstanding calls for answers out of order, and one draw for one from the wrong stream
or mode (two where the workflow nests). Three promises make a chain with a
promise that two chains share; two goroutines can meet in one promise. One handler
before another tells the places apart; subscribe, preHook and trigger are three
executions, and the fourth is a retry or a second trigger. The configs have each
JSON type where another is expected, each field present, absent, misspelt, empty and
null, and two regions tell "any" from "those listed". Three signatures over three keys with
f of 0 and 1 give duplicates, unknown signers before known ones, too few and too
many. One change of a registry can fall between the two calls, or between two
verifications. Three nodes with two observations to decide let one node fail and
two different quorums meet; two steps with an id before or after `RunInNodeMode`
show a slip. Three layers of contracts at two addresses have one layer of the same
address below a layer of another; a function is assigned before them, and between two
of them. Two goroutines of one test race for its registry,
and another test runs its Cleanup beside them.

`runner` and `testhost` do not check for deadlock: executions are bounded, and a
test that awaits a function which never returns waits until its context is done,
which it is when the test function returns - never, if that is who awaits.

Fairness. `runtime` has the host work on what it accepted (weak fairness of its
answer and of the return of a blocked Await): the host's own promise, and what the
guest's blocking import waits for. `promises` has every goroutine scheduled and
every function return. `reports` has each contract call answered or failed, which
is the host's promise again, and nothing of the workflow or of the registries.
`don` has the capability decide once it can and the nodes outside `Faulty` await
what they asked for, and obliges no node to go on. `testhost` has the Go scheduler
run every goroutine that can run, and the testing package run a Cleanup; no
function of a mock is obliged to return, and `AwaitReturns` says so.

## Findings

- `RunInNodeMode` does not support nesting and does not refuse it: the inner call
  reopens the Runtime for the rest of the outer function (`runtime_nested`). Two
  inner calls in a row also reuse ids: `UniqueIds` fails with `Nesting`. Nothing in
  it is deferred either, so after a recovered panic the NodeRuntime goes on working
  outside: `SoleUsableRuntime` fails with `Recovers`.
- `keyCache` does not know registries: a config that accepts one registry of a
  chain is served the list of another (`report_registries`).
- A DON without nodes accepts nobody, where the comment says any f + 1 unique
  signers (`report_nolist`).
- The preHook execution has no secrets provider (`runner_secrets`).

Smaller disagreements met while modelling, without a run of their own:

- `AnyTeeInRegions{}` written in Go means any region, although its comment says one
  of the listed regions (`tee_constraints.go:33`); `{"regions":[null]}` is accepted.
- `SetNodeRandomSource` says changes have no effect after the first random
  (`testutils/runtime.go:82`); a later `RunInNodeMode` asks for the source again.
- The test host's error for a missing secret names its namespace, and not its id.
- `common_suffix` refuses a pointer to a slice, which `common_prefix` takes.
- An error of a mock's function that is a capability error loses its code, since
  its text and not its wire form is sent.
- `WorkflowName` is documented to return the name in hex (`report_fields.go:141`) and
  returns its ten bytes as they are.
- `ValidateLogTrackingOptions` turns 0, which its comments call unlimited, into a
  bound.
- Two log triggers of one payload type, swapped by a list that is rebuilt in another
  order, are confused without an error: the host knows places only.

## Proofs

`SdkRuntimeProofs` proves, for any number of calls, ids and node runs:

- of any workflow: `TypeCorrect`, `PromisesAreFinal`, `DonIdsAreUnique`,
  `RuntimesAreUsedInTime`;
- of a disciplined one, that is under `Disciplined == ~Nesting /\ ~Recovers`:
  `ModesAreIsolated`, `StreamsAreSeparate`, `IdsAreUnique`,
  `CallsAreMadeInMode`, `AnswersAreOwn` and `ImplementsLedger`, the refinement of
  `CallLedger`.

`RuntimesAreUsedInTime` is about every request, source and number that a step adds to
the histories. `TimeInv` says that a NodeRuntime that returned keeps its error for good,
whatever nests and panics after it, and that the DON runtime is open in DON mode only:
only the return from `RunInNodeMode` clears its error, and that switches the host back,
while a panic leaves both as they are.

`Disciplined` is needed for the rest: see Findings. The invariants are not inductive alone. `IsolationInv` ties `modeErr` of every runtime, the stack
and the host's mode together: which runtime is usable is a function of the stack.
`IdInv` adds that every issued DON id is at most the DON counter, and that every
issued node id is at least the floor (`NodeFloor`): the counter of the active
NodeRuntime or else `nextNodeCallId`, which is where the code's saving of the
counter enters. `OnceInv`, `StackInv` and `DrawInv` say which promises are decided, which node
runtimes are on the stack and which mode drew from a stream. Each is shown to be
kept by one step per action, with a lemma per helper, and refinement follows from
the id invariant: a step that issues is `Issue` because its id is new.

`ResponsesAreKept`, also of a disciplined workflow: when the request that an Await is
blocked on has been answered, a response with its id is there that nobody took. The
host hands a response out once, so what is needed is that every response that was
taken decided the promise of its own request (`TakenInv`), and that ids are unique.
`RuntimeIsClosed` needs only `~Nesting`: without nested calls the Runtime cannot be
used inside `RunInNodeMode`, panics recovered or not. It is the property that
`runtime_nested` violates, so nesting is all that stands against the documentation.

`DonConsensusProofs` proves, for any DON, workflow, types and choice of faulty
nodes, `DonTypeCorrect`, `NodesInLockstep` and `NodesDrawTheSame`. The invariant
says that a node's counter is the number of id-using steps of the script behind it
as long as it has not slipped (`IdsCountSteps`), and that its draws are the
number of drawing steps, slipped or not (`DrawsCountSteps`): what a node did in node
mode does not appear in either. Two requests with one id then stand at places with
equally many id-using steps before them, which are the same place
(`BeforeGrows`, `IdsTellSteps`).

`OutcomesExpected` adds what the nodes are given. `SentInv` says that a node makes
one request with an id and that an observation is that of its function's result;
`DecidedInv` that what was decided is an aggregate of a quorum of such observations;
`ResultsInv` that a node is given what was decided under its id. It remains that an
aggregate of observations is what the results call for (`AggregateIsExpected`): an
observed value tells what the function kept and nothing of the node (`ValueTells`),
so the observations that agree are those of results that do, and sets of them are
as large (`Quorum` and `Matching` are any numbers). Two assumptions on the constants
enter. `QuorumAssumption` (Quorum >= Matching): the capability waits for as many
observations as must agree; fewer errors than that could otherwise decide.
`CarriesAssumption`: of a step that is observed, a field takes part, and no field
that is ignored does; a type whose fields are all ignored has values that no
comparison tells apart. TLC evaluates both on the workflows of the run.

`NodesNeverWaitInVain` is the safety half of `AgreementIsReached`, for a DON of which
a quorum is not in `Faulty`: once all of these asked at a step, they asked under one id,
and either the capability can decide that id now, or each has its outcome or can be
given it. `HonestInv` says that an honest node never slips, so that its ids are those of the
script (`IdsCountSteps`). Its requests are then one a node, as many as the
capability waits for, and something comes of any observations (`SomeAggregate`).

`SelfReferenceNeverObserved` is the property of the run, and follows from
`ConsensusTagsProofs`, which holds for every graph of types and every depth:
`SelfReferenceHasNoDescriptor`. The recursions of `ConsensusTags` go down a depth
that is bounded by `maxConsensusDepth`; that they have values at all, and which,
follows from a greatest depth at which they would not (`ByDepth`). From a type that
leads back to itself there is a type to go on to at every step (`LeadsOn`), so at
no depth is it identical, fits a tag, or is parsed (`EndlessNotIdentical`,
`EndlessFitsNoTag`, `EndlessNotParsed`). The code skips fields that are unexported or
ignored, so a type that leads back to itself only through those is not
self-referential: `SelfReferential` follows the others (`Targets`).

`RunnerProofs` proves, for all lists of handlers, configs and regions:

- `TeesMeanTheSame`: of any JSON that is accepted, the requirements admit exactly
  the places it names. By cases of the decoder, with `RegionsMean` and
  `BindingMeans` for its parts.
- `RunnerTypeCorrect`, `TriggersReach`, `HooksFound`, `TeeHandlersInTee`: the
  properties of the run. `SubsInv` ties what the host keeps to the subscribed list,
  `RequestInv` the request to what the host keeps, `BuiltInv` a list to a config that
  was parsed, `CallInv` what was called to the request, `HookInv` restrictions to
  hooks. Every step of the guest is first reduced to what it does to these
  (`GuestSteps`), then shown to keep them.
- `WorkflowsAreBuilt`: `initFn` does not crash when it reads no secret
  (`~ReadsSecrets`) and configs have the Tees that handlers are given
  (`TeesAreWritten`). `runner_secrets` violates its property without the first.

`PromiseProofs` proves, for any goroutines, promises and graph without rings,
`PromiseTypeCorrect`, `FunctionsRunOnce`, `OutcomesAreFinal`, `OutcomesMean` and
`FunctionsAreNeeded`. `ActiveInv` says
that a promise that is running has exactly one frame that runs it, among the stacks
of all goroutines, and one that is not running has none; `RanInv` that its function
has not been called before it is entered, nor while its source is awaited. So
the frame that calls the function is alone with it, and the outcome it leaves
closes the promise for every other.

For the meaning, `SettledInv` ties the outcome of a promise to those of its source
and of the promise its function awaits, one level deep; `SuppliedInv` says that a
function runs on the value of its source and `ChainInv` that a frame awaits what
the frame above it on the stack runs. That such outcomes are the `Meaning` is shown
from a least promise whose outcome is not, for a promise is made after those behind
it; `Meaning` has the value its definition says for the same reason
(`MeaningUnfolds`). Needs are closed (`NeedsClosed`), so what a goroutine has come to
is needed by the Await it began with (`FramesNeeded`).

`NobodyDeadlocks`: for every goroutine that waits in a `sync.Once` there is one that
does not wait and works on something the first needs. `HeldInv` says that a promise
that is running is on the stack of a goroutine that runs it; what a stack comes to is
made before what is below it (`FramesDescend`). Of the running promises that nobody
works on, the one made first is run by a goroutine that waits for one made before
it, which somebody does work on, and the needs of the second are needs of the
first (`NeedsNest`). The run finds the same as the absence of
deadlock, for three promises and two goroutines.

`VerifySigsProofs` is about `verifySigs` alone, for any signatures, f and list:
`AcceptedSigs` (what is accepted is a quorum, attributed), `RefusedSigs` (what is
refused keeps its keys), `NoQuorum` (a refusal means there was none) and
`QuorumIsAccepted` (a quorum verifies again). That a set of n numbers has n
smallest ones (`FirstExists`) is shown from a least counterexample.

`ReportVerificationProofs` proves all five safety properties of the runs, for any
configs, reports, registries and changes of these: `ReportTypeCorrect`,
`VerifiedAreQuorums`, `VerifiedStay`, and under `OneRegistry`, which is needed (see
Findings), `InvalidAreNoQuorums` and `SignersAreAccepted`.
`CacheInv` follows every cached entry back to some registry of its chain, through
what was read in the first of the two calls (`ReadInv`); where a chain has one
registry, it is that of the environment the entry is used for (`CachedIsRead`). `TriedInv` says that the
places no longer to be tried were read and refuted, unless one could not be read;
at the end of the list that is `InvalidInv`. `VerifiedInv` says that a verified
report is still a quorum of the list it was judged by, that the list is still in
the cache for some place of the config, and that this place is still to come while
the report is verified again; so the loop cannot end without it.

`VerificationsAreBounded` ranks a verification: two contract calls for each candidate
left, less the one it made of the current (`WorkLeft`). Each of its steps leaves
less, and nothing else leaves more (`VerificationsAdvance`): neither changes of
registries nor what the calls answer make it go round. That a step is taken at
all is fairness, and stays with `VerificationEnds`.

`TestHostProofs` proves, for any tests, goroutines and scripts, `RegistriesAreOwn`
and `FirstMocksStay`. `LockInv` says that who is at the map of registries holds
`registryLock`, and that who is about to add one has not been overtaken;
`ApartInv` that a registry is one test's; `SameInv` that what a goroutine got is
what the map holds until the test's Cleanup, which needs no lock for it.

`TypeCorrect`, `OutcomesCorrect` and `NewestContracts` rest on `AllInv`, which
adds: where goroutines are in their scripts (`ScriptInv`); that a handle that is
built holds the mock its script made, and stubs a test may have made (`MocksInv`);
that a registered mock was made by a goroutine of the registry's test, and that the
runtime's own consensus mock has its functions before its maker goes on
(`RegisteredInv`); and of every call (`GoodCall`) that it was served by a mock of its
test with its id, that the reply is what `Invoke` makes of what the function
returned, and that the outcome is the client's reading of that reply, or the end of
the test (`CallsInv`). A stub may be set anew while a call runs: the call keeps the
function it read. The rest is about what comes of a reply: `TextsArrive`, for any
text, the two tables of codes (`CodesRoundTrip`) and the names of origins and
visibilities (`NamesRoundTrip`), `AnswersArrive`, for any
answer, mock and client, and for the contract mocks `CallContractIs` and
`WriteReportIs`, which replace the chain of closures by its newest link that does
not pass a request on (`NewestAnswers`, from a least layer at which they differ).

`GeneratedAgree` takes from the same invariant that a request kept the id and method
its client calls, or what the limiter of that method makes of them. The tables of ids,
methods and types are then compared entry by entry, for every selector
(`ChainMethodsAgree`, `MethodsAgree`, `LimitersAgree`), and no two chains have one
(`SelectorsApart`).

`NobodyWaitsForEver` is the safety half of `AwaitReturns` and `MocksFinish`: the lock
is held only by a goroutine inside `GetRegistry`, a call that was answered finds room in
its channel, and a promise that is not settled has a function that runs, an
answer to come, or a response in the channel (`HeldInv`).

These assume what `TestHost` assumes of scripts: that a goroutine uses its mock after
making it, and makes one (`OperationsAssumption`, the bound of `Handles`); that
functions return what a Go function can, with texts of at least a piece
(`FunctionsAssumption`); that clients and mocks of one id and method that take one
input have one output, which the generator gives them (`OutputsAssumption`); that tests make
generated mocks, and restrict a call with the limiter of its own client, of which
secrets have none (`GeneratedAssumption`); and that no two mocks have one id
(`MockIdsAssumption`). The last is a fact of text, for an id holds the digits of a
selector between other text: the provers know nothing of what makes two
concatenations differ, and TLC evaluates it for every mock and chain there is. It
evaluates the others on the scripts of `testhost`.

The assumptions are those of the modules, on the constants.

Recursive functions are in reach of the provers where a least or greatest
counterexample does: a minimum of a set of numbers exists (`NatLessThanWellFounded`,
`WFMin`), and nothing is instantiated by an operator.

Every safety property of a passing run is a theorem. Model-checked only: liveness
(`AwaitEnds`, `VerificationEnds`, `AwaitReturns` of `Promise` and `TestHost`,
`AgreementIsReached`, `MocksFinish`), which needs `ENABLED`. What these rest on beyond
fairness is proved: that nobody waits for what cannot come (`ResponsesAreKept`,
`NobodyDeadlocks`, `NodesNeverWaitInVain`, `NobodyWaitsForEver`), and that there is
less to do at each step (`VerificationsAreBounded`).

## Not modelled

Encoding, buffers and pointers of the host interface; logs, time and the random
sources of the test runtime; the hooks that replace the imports of a guest in the
SDK's own tests; what consensus computes; the ABI encoding and topics of contract
bindings; the protobuf messages, the protobuf library, signature recovery and the
host itself, other than by what they may answer. The generator and the tools write text at
build time, and the standard tests are users of the SDK. The accessors of a report
read a header that `ParseReport` has put there; what `parseRawReport` reads is kept
only as far as the DON's id, and whether there are bytes enough. Ids do not wrap: see
SdkRuntime. A Runtime is not shared by goroutines: its comments forbid it
(`sdkimpl/runtime.go:217-220`).

## Plan

1. Done: the core (`SdkRuntime`, `CallLedger`, `Promise`, `Runner`,
   `ReportVerification`), the DON (`DonConsensus`, `ConsensusTags`), the test host
   (`TestHost` and the generated code), TEE constraints and triggers.
2. Done: theorems of every safety property of the passing runs, and what their
   liveness rests on beyond fairness.
3. Left: nothing of the above; the parts under "Not modelled".
