----------------------------- MODULE MCTestHost -----------------------------
(***************************************************************************)
(* Test programs for TestHost: every generated client against its mock,    *)
(* contract mocks, misuse, and goroutines and tests that run side by side. *)
(***************************************************************************)
EXTENDS TestHost

CONSTANTS a, b           \* the tests

NewMockOp(mock) == [op |-> "mock", mock |-> mock]
ForceOp == [op |-> "force"]
StubOp(method, base) == [op |-> "stub", method |-> method, base |-> base]
ContractOp(layer) == [op |-> "contract", layer |-> layer]
RuntimeOp == [op |-> "runtime"]
CallOp(client, limit, input) ==
  [op |-> "call", client |-> client, limit |-> limit, input |-> input, prepared |-> TRUE]
AwaitOp(k) == [op |-> "await", call |-> k]

\* Only goroutine 1 of test a does anything; or the first goroutines of both.
Idle == [th \in Threads |-> <<>>]
Alone(ops) == [Idle EXCEPT ![<<a, 1>>] = ops]

Observed(o, d) == [observation |-> o, default |-> d]
NoInput == Observed("value", FALSE)

\* Two EVM chains and one of Solana.
Ethereum == ChainSelectorFromName(EvmChains, "ethereum-mainnet")
Sepolia == ChainSelectorFromName(EvmChains, "ethereum-testnet-sepolia")
Devnet == ChainSelectorFromName(SolanaChains, "solana-devnet")

Generated ==
  {<<EvmCallContract(Ethereum), LimitEvmCallContract(Ethereum, 5), EvmMock(Ethereum)>>,
   <<EvmFilterLogs(Ethereum), LimitEvmFilterLogs(Ethereum, 5), EvmMock(Ethereum)>>,
   <<EvmBalanceAt(Ethereum), LimitEvmBalanceAt(Ethereum, 5), EvmMock(Ethereum)>>,
   <<EvmEstimateGas(Ethereum), LimitEvmEstimateGas(Ethereum, 5), EvmMock(Ethereum)>>,
   <<EvmGetTransactionByHash(Ethereum), LimitEvmGetTransactionByHash(Ethereum, 5),
     EvmMock(Ethereum)>>,
   <<EvmGetTransactionReceipt(Ethereum), LimitEvmGetTransactionReceipt(Ethereum, 5),
     EvmMock(Ethereum)>>,
   <<EvmHeaderByNumber(Ethereum), LimitEvmHeaderByNumber(Ethereum, 5), EvmMock(Ethereum)>>,
   <<EvmWriteReport(Ethereum), LimitEvmWriteReport(Ethereum, 5), EvmMock(Ethereum)>>,
   <<SolanaWriteReport(Devnet), LimitSolanaWriteReport(Devnet, 5), SolanaMock(Devnet)>>,
   <<HttpSendRequest, LimitHttpSendRequest(5), HttpMock>>,
   <<ConfidentialSendRequest, LimitConfidentialSendRequest(5), ConfidentialMock>>,
   <<ConsensusSimple, LimitConsensusSimple(5), ConsensusMock>>,
   <<ConsensusReport, LimitConsensusReport(5), ConsensusMock>>,
   <<BasicPerformAction, LimitBasicPerformAction(5), BasicActionMock>>,
   <<NodePerformAction, LimitNodePerformAction(5), NodeActionMock>>,
   <<ClashPerformAction, LimitClashPerformAction(5), ClashMock>>,
   <<TriggerAction, LimitTriggerAction(5), TriggerActionMock>>}

\* What a function returns: values, a plain error, errors whose text has
\* colons or is the wire format, capability errors, or nothing for a while.
Answers ==
  {NoAnswer, Blocks, Got("reply"), Got(Huge), Got(ShortReport),
   Failed(PlainError(<<"refused">>)),
   Failed(PlainError(<<"dial", " host", "80", " refused">>)),
   Failed(PlainError(<<"Public", "User", "NotFound", "no such", "key">>)),
   Failed(NewError(<<"gone">>, VisibilityPublic, OriginSystem, 5)),
   Failed(NewError(<<"a", "b", "c">>, VisibilityPublic, OriginSystem, 100)),
   Failed(NewError(<<"odd">>, VisibilityPrivate, OriginUser, UnrecognisedErrorCode))}

\* Each client, served by a mock with each answer.
ClientScripts ==
  {Alone(<<NewMockOp(g[3]), StubOp(g[1].method, answer), RuntimeOp,
           CallOp(g[1], g[2], NoInput), AwaitOp(1)>>) :
     g \in Generated, answer \in Answers}

Raw(client) == CallOp(client, None, NoInput)

\* The default consensus, calls of what is not there, an input that cannot be
\* marshalled, a second await, a stub that changes under a call.
OtherScripts ==
  {Alone(<<RuntimeOp, CallOp(ConsensusSimple, None, Observed(o, d)),
           CallOp(ConsensusReport, None, NoInput), AwaitOp(2), AwaitOp(1), AwaitOp(1)>>) :
     o \in {"value", "error", "other"}, d \in BOOLEAN}
    \cup
  {Alone(<<RuntimeOp, Raw(EvmBalanceAt(Ethereum)), AwaitOp(1)>>),
   Alone(<<NewMockOp(EvmMock(Sepolia)), RuntimeOp, Raw(EvmBalanceAt(Ethereum)), AwaitOp(1)>>),
   Alone(<<NewMockOp(HttpMock), RuntimeOp,
           Raw([HttpSendReport EXCEPT !.method = "Other"]),
           Raw([HttpSendRequest EXCEPT !.input = "Other"]), AwaitOp(1), AwaitOp(2)>>),
   Alone(<<RuntimeOp, [Raw(ConsensusReport) EXCEPT !.prepared = FALSE], AwaitOp(1)>>),
   Alone(<<RuntimeOp, [Raw(HttpSendReport) EXCEPT !.prepared = FALSE], AwaitOp(1)>>),
   Alone(<<NewMockOp(HttpMock), StubOp("SendRequest", Got("first")), RuntimeOp,
           Raw(HttpSendRequest), StubOp("SendRequest", Got("second")), AwaitOp(1)>>)}

\* Secrets that are there, missing, or changed after they were asked for.
KeepOp(name, value) == [op |-> "keep", name |-> name, value |-> value]
SecretsOp(names) ==
  [op |-> "secrets", client |-> [id |-> "secrets", method |-> "GetSecrets"],
   limit |-> None, input |-> names, names |-> names]
SecretScripts ==
  {Alone(<<RuntimeOp, KeepOp(<<"main", "key">>, "k1"), KeepOp(<<"other", "key">>, "o1"),
           SecretsOp(names), KeepOp(<<"main", "key">>, "k2"), SecretsOp(names),
           AwaitOp(2), AwaitOp(1), AwaitOp(1)>>) :
     names \in {<<>>, << <<"", "key">> >>, << <<"other", "key">>, <<"main", "key">> >>,
               << <<"other", "lost">>, <<"", "key">>, <<"", "lost">> >>}}

\* Contracts at x and y on one mock, which may have a function of its own.
To(address, data) == [to |-> address, data |-> data]
Says(value) == Got(value)
Layers ==
  {Layer("x", [f |-> Says("x1f")], Says("x1w")),
   Layer("x", [f |-> Says("x2f"), g |-> Says("x2g")], NoCallback),
   Layer("y", [g |-> Says("yg")], Says("yw"))}
LayerLists == {l \in UNION {[1 .. n -> Layers] : n \in 1 .. 3} : IsInjective(l)}

ContractScripts ==
  {Alone(<<NewMockOp(EvmMock(Ethereum)), StubOp("CallContract", base), StubOp("WriteReport", base)>>
           \o [k \in DOMAIN l |-> ContractOp(l[k])]
           \o <<RuntimeOp, CallOp(client, None, To(address, data)), AwaitOp(1)>>) :
     l \in LayerLists, base \in {NoAnswer, Says("own")},
     client \in {EvmCallContract(Ethereum), EvmWriteReport(Ethereum)},
     address \in {"x", "y", "z"}, data \in {"f", "g", TooShort}}

\* A function assigned between two contracts, which takes the place of the first
\* and stands behind the second.
ReplacedScripts ==
  {Alone(<<NewMockOp(EvmMock(Ethereum)), ContractOp(Layer("x", [f |-> Says("xf")], Says("xw"))),
           StubOp("CallContract", Says("own")),
           ContractOp(Layer("y", [f |-> Says("yf")], NoCallback)), RuntimeOp,
           CallOp(client, None, To(address, "f")), AwaitOp(1)>>) :
     client \in {EvmCallContract(Ethereum), EvmWriteReport(Ethereum)},
     address \in {"x", "y"}}

\* Two goroutines of test a and one of test b, each with a runtime; the second
\* goroutine of a may outlive the test, and may wait for a function that does
\* not return before the test is over, or at all.
Simple == CallOp(ConsensusSimple, None, Observed("value", FALSE))
Programs ==
  {<<RuntimeOp, Simple, AwaitOp(1)>>,
   <<NewMockOp(ConsensusMock), StubOp("Simple", Got("own")), RuntimeOp, Simple>>}
Seconds ==
  {<<RuntimeOp, Simple, AwaitOp(1)>>}
    \cup
  {<<NewMockOp(ConsensusMock), StubOp("Simple", waits), ForceOp, RuntimeOp, Simple,
     AwaitOp(1)>> : waits \in {Blocks, Hangs}}
Beside(p, q, r) == [Idle EXCEPT ![<<a, 1>>] = p, ![<<a, 2>>] = q, ![<<b, 1>>] = r]
SideBySide ==
  {Beside(p, q, <<RuntimeOp>>) : p \in Programs, q \in Seconds}
    \cup
  {Beside(<<RuntimeOp, Simple>>, <<RuntimeOp, Simple>>, <<RuntimeOp, Simple>>)}

MCScripts ==
  ClientScripts \cup OtherScripts \cup SecretScripts \cup ContractScripts \cup ReplacedScripts
    \cup SideBySide
=============================================================================
