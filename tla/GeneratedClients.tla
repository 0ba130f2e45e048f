-------------------------- MODULE GeneratedClients --------------------------
(***************************************************************************)
(* The generated capability clients: the request every method makes, the   *)
(* types of its input and reply, the restriction its limiter builds, and   *)
(* what a response becomes.  A client method is the record of what it puts *)
(* in its request; a message is known by the name of its Go type.          *)
(***************************************************************************)
EXTENDS CapErrors, ChainNames

Client(id, method, input, output) ==
  [id |-> id, method |-> method, input |-> input, output |-> output]
MethodRestriction(id, method, maxCalls) ==
  [id |-> id, method |-> method, maxCalls |-> maxCalls]

Got(value) == [kind |-> "value", value |-> value]
Failed(err) == [kind |-> "error", error |-> err]
ErrorResponse(text) == [kind |-> "error", text |-> text]
PayloadResponse(type, value) == [kind |-> "payload", type |-> type, value |-> value]

MismatchedType == <<"mismatched message type", " got, want">>

\* What the promise of a client method makes of the host's response.
Unwrap(client, response) ==
  CASE response.kind = "error" ->
         Failed(DeserializeErrorFromString(response.text))
    [] response.kind = "payload" /\ response.type = client.output ->
         Got(response.value)
    [] response.kind = "payload" /\ response.type # client.output ->
         Failed(PlainError(MismatchedType))
    [] OTHER -> Failed(PlainError(<<"unexpected response type">>))

-----------------------------------------------------------------------------
(* capabilities/blockchain/evm, one client for each chain selector.        *)
EvmId(s) == "evm:ChainSelector:" \o s \o "@1.0.0"

EvmCallContract(s) ==
  Client(EvmId(s), "CallContract", "evm.CallContractRequest", "evm.CallContractReply")
EvmFilterLogs(s) ==
  Client(EvmId(s), "FilterLogs", "evm.FilterLogsRequest", "evm.FilterLogsReply")
EvmBalanceAt(s) ==
  Client(EvmId(s), "BalanceAt", "evm.BalanceAtRequest", "evm.BalanceAtReply")
EvmEstimateGas(s) ==
  Client(EvmId(s), "EstimateGas", "evm.EstimateGasRequest", "evm.EstimateGasReply")
EvmGetTransactionByHash(s) ==
  Client(EvmId(s), "GetTransactionByHash", "evm.GetTransactionByHashRequest",
         "evm.GetTransactionByHashReply")
EvmGetTransactionReceipt(s) ==
  Client(EvmId(s), "GetTransactionReceipt", "evm.GetTransactionReceiptRequest",
         "evm.GetTransactionReceiptReply")
EvmHeaderByNumber(s) ==
  Client(EvmId(s), "HeaderByNumber", "evm.HeaderByNumberRequest",
         "evm.HeaderByNumberReply")
\* Takes a WriteCreReportRequest, which is the request with a Report in it that
\* is unwrapped for the call.
EvmWriteReport(s) ==
  Client(EvmId(s), "WriteReport", "evm.WriteReportRequest", "evm.WriteReportReply")

\* A mutant: the limiter of another method.
LimitWrongMethod(s, n) == MethodRestriction(EvmId(s), "FilterLogs", n)

LimitEvmCallContract(s, n) == MethodRestriction(EvmId(s), "CallContract", n)
LimitEvmFilterLogs(s, n) == MethodRestriction(EvmId(s), "FilterLogs", n)
LimitEvmBalanceAt(s, n) == MethodRestriction(EvmId(s), "BalanceAt", n)
LimitEvmEstimateGas(s, n) == MethodRestriction(EvmId(s), "EstimateGas", n)
LimitEvmGetTransactionByHash(s, n) ==
  MethodRestriction(EvmId(s), "GetTransactionByHash", n)
LimitEvmGetTransactionReceipt(s, n) ==
  MethodRestriction(EvmId(s), "GetTransactionReceipt", n)
LimitEvmHeaderByNumber(s, n) == MethodRestriction(EvmId(s), "HeaderByNumber", n)
LimitEvmWriteReport(s, n) == MethodRestriction(EvmId(s), "WriteReport", n)

(* capabilities/blockchain/solana, likewise.                               *)
SolanaId(s) == "solana:ChainSelector:" \o s \o "@1.0.0"

SolanaWriteReport(s) ==
  Client(SolanaId(s), "WriteReport", "solana.WriteReportRequest",
         "solana.WriteReportReply")
LimitSolanaWriteReport(s, n) == MethodRestriction(SolanaId(s), "WriteReport", n)

-----------------------------------------------------------------------------
(* capabilities/networking: http in node mode or in a TEE, confidential    *)
(* http in DON mode.                                                       *)
\* A SendRequester makes this request with the NodeRuntime it is given by
\* RunInNodeMode.
HttpSendRequest ==
  Client("http-actions@1.0.0-alpha", "SendRequest", "http.Request", "http.Response")
LimitHttpSendRequest(n) ==
  MethodRestriction("http-actions@1.0.0-alpha", "SendRequest", n)

\* SendReport makes the request that a function of the workflow makes of the
\* report.  An error of that function refuses the call.
HttpSendReport == HttpSendRequest

ConfidentialSendRequest ==
  Client("confidential-http@1.0.0-alpha", "SendRequest",
         "confidentialhttp.ConfidentialHTTPRequest", "confidentialhttp.HTTPResponse")
LimitConfidentialSendRequest(n) ==
  MethodRestriction("confidential-http@1.0.0-alpha", "SendRequest", n)

-----------------------------------------------------------------------------
(* internal_testing/capabilities: consensus, which RunInNodeMode and       *)
(* GenerateReport call, and the capabilities of the SDK's own tests.       *)
ConsensusSimple ==
  Client("consensus@1.0.0-alpha", "Simple", "sdk.SimpleConsensusInputs", "pb.Value")
ConsensusReport ==
  Client("consensus@1.0.0-alpha", "Report", "sdk.ReportRequest", "sdk.ReportResponse")
LimitConsensusSimple(n) == MethodRestriction("consensus@1.0.0-alpha", "Simple", n)
LimitConsensusReport(n) == MethodRestriction("consensus@1.0.0-alpha", "Report", n)

\* The value of a report whose bytes are missing or do not hold the header.
ShortReport == "short report"

\* The header is read when the bytes are enough for all its fields.
parseRawReport(report) ==
  IF report = ShortReport THEN Failed(PlainError(<<"report too short">>))
  ELSE Got(report)

\* The Then that turns the reply of ConsensusReport into a Report: an error, or
\* a report that keeps its header.
WrapReport(outcome) ==
  IF outcome.kind = "value" THEN parseRawReport(outcome.value) ELSE outcome

BasicPerformAction ==
  Client("basic-test-action@1.0.0", "PerformAction", "basicaction.Inputs",
         "basicaction.Outputs")
LimitBasicPerformAction(n) ==
  MethodRestriction("basic-test-action@1.0.0", "PerformAction", n)

\* A PerformActioner likewise makes it with the NodeRuntime it is given.
NodePerformAction ==
  Client("basic-test-node-action@1.0.0", "PerformAction", "nodeaction.NodeInputs",
         "nodeaction.NodeOutputs")
LimitNodePerformAction(n) ==
  MethodRestriction("basic-test-node-action@1.0.0", "PerformAction", n)

ClashPerformAction ==
  Client("import-clash@1.0.0", "PerformAction", "p1.Item", "p2.Item")
LimitClashPerformAction(n) ==
  MethodRestriction("import-clash@1.0.0", "PerformAction", n)

TriggerAction ==
  Client("basic-test-action-trigger@1.0.0", "Action", "actionandtrigger.Input",
         "actionandtrigger.Output")
LimitTriggerAction(n) ==
  MethodRestriction("basic-test-action-trigger@1.0.0", "Action", n)
=============================================================================
