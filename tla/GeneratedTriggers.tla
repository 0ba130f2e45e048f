------------------------- MODULE GeneratedTriggers -------------------------
(***************************************************************************)
(* The generated triggers: what a subscription says of each, and the type  *)
(* of the event its handler takes.  NewT makes the message the event is    *)
(* read into, and Adapt hands it on.                                       *)
(***************************************************************************)
EXTENDS Sequences

LOCAL INSTANCE GeneratedClients

Trigger(id, method, payload) ==
  [CapabilityID |-> id, Method |-> method, NewT |-> payload]

CronTrigger == Trigger("cron-trigger@1.0.0", "Trigger", "cron.Payload")
HttpTrigger == Trigger("http-trigger@1.0.0-alpha", "Trigger", "http.Payload")
BasicTrigger == Trigger("basic-test-trigger@1.0.0", "Trigger", "basictrigger.Outputs")
BasicActionTrigger ==
  Trigger("basic-test-action-trigger@1.0.0", "Trigger", "actionandtrigger.TriggerEvent")

\* The capability of the evm client of the chain.
LogTrigger(selector) == Trigger(EvmId(selector), "LogTrigger", "evm.Log")

\* Every generated trigger, for chains of some selectors.
AllTriggers(selectors) ==
  {CronTrigger, HttpTrigger, BasicTrigger, BasicActionTrigger}
    \cup {LogTrigger(s) : s \in selectors}

\* The event a capability sends to a subscription (external).
EventOf(id, method) ==
  CASE id = CronTrigger.CapabilityID /\ method = "Trigger" -> "cron.Payload"
    [] id = HttpTrigger.CapabilityID /\ method = "Trigger" -> "http.Payload"
    [] id = BasicTrigger.CapabilityID /\ method = "Trigger" -> "basictrigger.Outputs"
    [] id = BasicActionTrigger.CapabilityID /\ method = "Trigger" ->
         "actionandtrigger.TriggerEvent"
    [] method = "LogTrigger" -> "evm.Log"
    [] OTHER -> "no such trigger"
=============================================================================
