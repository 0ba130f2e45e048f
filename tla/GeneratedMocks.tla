--------------------------- MODULE GeneratedMocks ---------------------------
(***************************************************************************)
(* The generated capability mocks and the contract mocks of                *)
(* capabilities/blockchain/evm/mock/utils.go.                              *)
(*                                                                         *)
(* A mock is its id and, for each method its Invoke serves, the types of   *)
(* the input it unmarshals and of the reply it marshals.  A stub, the      *)
(* field of a method, is what it does when called (base), under the layers *)
(* that AddContractMock wraps around it, the newest last.                  *)
(***************************************************************************)
EXTENDS GeneratedClients

Serves(input, output) == [input |-> input, output |-> output]
Mock(id, methods) == [id |-> id, methods |-> methods]

EvmMockMethods ==
  [CallContract |-> Serves("evm.CallContractRequest", "evm.CallContractReply"),
   FilterLogs |-> Serves("evm.FilterLogsRequest", "evm.FilterLogsReply"),
   BalanceAt |-> Serves("evm.BalanceAtRequest", "evm.BalanceAtReply"),
   EstimateGas |-> Serves("evm.EstimateGasRequest", "evm.EstimateGasReply"),
   GetTransactionByHash |->
     Serves("evm.GetTransactionByHashRequest", "evm.GetTransactionByHashReply"),
   GetTransactionReceipt |->
     Serves("evm.GetTransactionReceiptRequest", "evm.GetTransactionReceiptReply"),
   HeaderByNumber |-> Serves("evm.HeaderByNumberRequest", "evm.HeaderByNumberReply"),
   WriteReport |-> Serves("evm.WriteReportRequest", "evm.WriteReportReply")]
EvmMockId(s) == "evm:ChainSelector:" \o s \o "@1.0.0"
EvmMock(s) == Mock(EvmMockId(s), EvmMockMethods)

SolanaMockMethods ==
  [WriteReport |-> Serves("solana.WriteReportRequest", "solana.WriteReportReply")]
SolanaMockId(s) == "solana:ChainSelector:" \o s \o "@1.0.0"
SolanaMock(s) == Mock(SolanaMockId(s), SolanaMockMethods)

HttpMock ==
  Mock("http-actions@1.0.0-alpha",
       [SendRequest |-> Serves("http.Request", "http.Response")])
ConfidentialMock ==
  Mock("confidential-http@1.0.0-alpha",
       [SendRequest |-> Serves("confidentialhttp.ConfidentialHTTPRequest",
                               "confidentialhttp.HTTPResponse")])
ConsensusMock ==
  Mock("consensus@1.0.0-alpha",
       [Simple |-> Serves("sdk.SimpleConsensusInputs", "pb.Value"),
        Report |-> Serves("sdk.ReportRequest", "sdk.ReportResponse")])
BasicActionMock ==
  Mock("basic-test-action@1.0.0",
       [PerformAction |-> Serves("basicaction.Inputs", "basicaction.Outputs")])
NodeActionMock ==
  Mock("basic-test-node-action@1.0.0",
       [PerformAction |-> Serves("nodeaction.NodeInputs", "nodeaction.NodeOutputs")])
ClashMock == Mock("import-clash@1.0.0", [PerformAction |-> Serves("p1.Item", "p2.Item")])
TriggerActionMock ==
  Mock("basic-test-action-trigger@1.0.0",
       [Action |-> Serves("actionandtrigger.Input", "actionandtrigger.Output")])

-----------------------------------------------------------------------------
NoAnswer == [kind |-> "none"]      \* the nil function
Blocks == [kind |-> "blocks"]      \* it waits for the context of the test
Hangs == [kind |-> "hangs"]        \* it waits for something else, for ever
Panics == [kind |-> "panics"]

Unset == [base |-> NoAnswer, layers |-> <<>>]
Function(base) == [base |-> base, layers |-> <<>>]

\* A request that reaches a method of a mock, and the answer of its stub.
Invoke(mock, request, answer) ==
  IF request.method \notin DOMAIN mock.methods THEN
    ErrorResponse(<<"method " \o request.method \o " not found">>)
  ELSE IF request.input # mock.methods[request.method].input THEN
    ErrorResponse(MismatchedType)
  ELSE IF answer = NoAnswer THEN
    ErrorResponse(<<"no stub provided for " \o request.method>>)
  ELSE IF answer.kind = "error" THEN ErrorResponse(ErrorText(answer.error))
  ELSE PayloadResponse(mock.methods[request.method].output, answer.value)

-----------------------------------------------------------------------------
(* AddContractMock: each layer answers for one address and passes the rest *)
(* to the mock as it was before, if that had the method.                   *)

NoCallback == NoAnswer
Layer(address, callContract, writeReport) ==
  [address |-> address, callContract |-> callContract, writeReport |-> writeReport]
AddLayer(stub, layer) == [stub EXCEPT !.layers = Append(@, layer)]

ContractNotFound(address) == Failed(PlainError(<<"contract " \o address \o " not found">>))
TooShort == "data too short"       \* stands for call data of less than four bytes

\* A mutant: a contract does not pass on the methods it does not have.
CallContractAlone(stub, input) ==
  LET answer[n \in 0 .. Len(stub.layers)] ==
        IF n = 0 THEN stub.base
        ELSE LET layer == stub.layers[n]
             IN  IF input.to # layer.address
                   THEN IF n > 1 \/ stub.base # NoAnswer THEN answer[n - 1]
                        ELSE ContractNotFound(layer.address)
                 ELSE IF input.data \in DOMAIN layer.callContract
                        THEN layer.callContract[input.data]
                 ELSE Failed(PlainError(<<"method not implemented">>))
  IN  answer[Len(stub.layers)]

CallContractMock(stub, input) ==
  LET answer[n \in 0 .. Len(stub.layers)] ==
        IF n = 0 THEN stub.base
        ELSE LET layer == stub.layers[n]
                 hasOriginal == n > 1 \/ stub.base # NoAnswer
             IN  CASE input.to # layer.address /\ hasOriginal -> answer[n - 1]
                   [] input.to # layer.address /\ ~hasOriginal ->
                        ContractNotFound(layer.address)
                   [] input.to = layer.address /\ input.data = TooShort ->
                        Failed(PlainError(<<TooShort>>))
                   [] input.to = layer.address /\ input.data # TooShort ->
                        IF input.data \in DOMAIN layer.callContract
                          THEN layer.callContract[input.data]
                        ELSE IF hasOriginal THEN answer[n - 1]
                        ELSE Failed(PlainError(<<"method not implemented">>))
  IN  answer[Len(stub.layers)]

\* A report shorter than its metadata header, and a nil callback, panic.
WriteReportMock(stub, input) ==
  LET answer[n \in 0 .. Len(stub.layers)] ==
        IF n = 0 THEN stub.base
        ELSE LET layer == stub.layers[n]
             IN  IF input.to = layer.address
                   THEN IF input.data = TooShort \/ layer.writeReport = NoCallback
                          THEN Panics ELSE layer.writeReport
                 ELSE IF n > 1 \/ stub.base # NoAnswer THEN answer[n - 1]
                 ELSE ContractNotFound(layer.address)
  IN  answer[Len(stub.layers)]

\* What the field of a method returns for an input.
StubAnswer(method, stub, input) ==
  CASE stub.layers = <<>> -> stub.base
    [] stub.layers # <<>> /\ method = "CallContract" -> CallContractMock(stub, input)
    [] stub.layers # <<>> /\ method # "CallContract" -> WriteReportMock(stub, input)
=============================================================================
