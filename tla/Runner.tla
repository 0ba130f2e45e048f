------------------------------- MODULE Runner -------------------------------
(***************************************************************************)
(* The guest's runner (cre/wasm/runner.go) and the handlers it runs        *)
(* (cre/execution_handler.go).  Every request of the host is an execution  *)
(* of its own, in which the config is parsed and the workflow is built by  *)
(* initFn again: subscribe tells the host what the handlers listen to and  *)
(* where they may run, preHook asks a handler for the restrictions of an   *)
(* execution, trigger calls it.  Handlers have no names: the host knows    *)
(* them by their place in the list.                                        *)
(***************************************************************************)
EXTENDS TeeConstraints, GeneratedTriggers

CONSTANTS
  Workflows,      \* the lists of handlers initFn may build
  ChainSelectors, \* of the evm triggers
  Configs,        \* what the config has for its Tees: JSON, or Absent
  MaxExecutions,  \* bound: executions
  ReadsSecrets    \* does initFn read a secret?

Absent == [json |-> "absent"]

\* A handler: its trigger, the TEEs it accepts - a constraint the program
\* writes, the config's Tees or none - and whether it has a PreHook.
NoTees == [kind |-> "none"]
ConfigTees == [kind |-> "config"]
Handler(trigger) == [trigger |-> trigger, tees |-> NoTees, hook |-> FALSE]
HandlerInTee(trigger, tees) == [trigger |-> trigger, tees |-> tees, hook |-> FALSE]
HandlerWithPreHook(trigger) == [trigger |-> trigger, tees |-> NoTees, hook |-> TRUE]
HandlerInTeeWithPreHook(trigger, tees) ==
  [trigger |-> trigger, tees |-> tees, hook |-> TRUE]

IsTee(h) == h.tees # NoTees

IsHandler(h) ==
  /\ h.trigger \in AllTriggers(ChainSelectors)
  /\ \/ h.tees \in {NoTees, ConfigTees}
     \/ h.tees.kind \in {"AnyTee", "AnyTeeInRegions", "OneOfTees"}

ASSUME RunnerAssumption ==
  /\ MaxExecutions \in Nat
  /\ ReadsSecrets \in BOOLEAN
  /\ \A w \in Workflows : \A k \in DOMAIN w : IsHandler(w[k])

\* The interfaces a handler implements: the one with a PreHook always has
\* Requirements, which may be nil.
WithRequirements(h) == IsTee(h) \/ h.hook
WithPreHook(h) == h.hook

NoRequirements == [item |-> "none"]
Don == <<"no TEE", "the DON">>

Kinds == {"subscribe", "preHook", "trigger", "unknown", "malformed"}
NoEvent == "no payload"
NoRequest == [kind |-> "none", id |-> 0, event |-> NoEvent, place |-> Don]

\* What the host receives; "empty" stands for a result that proto.Marshal
\* refuses, of which nothing is sent.
Results == {"error", "subscriptions", "restrictions", "value", "empty"}
Ends == {"exited", "returned", "crashed"}

VARIABLES
  config,     \* what the config of the workflow has for its Tees
  workflow,   \* the list initFn built in this execution
  subscribed, \* history: the list it built when the host subscribed
  request,    \* what the host asks, with the event and where it runs
  subs,       \* what the host is subscribed to
  granted,    \* the place whose restrictions the host has, if any
  pc,         \* where the guest is, or how it ended
  responses,  \* what it sent
  called,     \* history: the handlers called, with the runtime they got
  executions  \* how many there were

vars == <<config, workflow, subscribed, request, subs, granted, pc, responses, called,
          executions>>

TypeOK ==
  /\ config \in Configs
  /\ workflow \in Workflows \cup {<<>>} /\ subscribed \in Workflows \cup {<<>>}
  /\ request.kind \in Kinds \cup {"none"}
  /\ request.place \in Places \cup {Don}
  /\ DOMAIN subs = DOMAIN subscribed
  /\ granted \in {0} \cup DOMAIN subs
  /\ pc \in {"start", "init", "run"} \cup Ends
  /\ responses \in {<<>>} \cup {<<r>> : r \in Results}
  /\ called # <<>> => DOMAIN called = {1} /\ called[1].handler = workflow[request.id]
  /\ executions \in 0 .. MaxExecutions

Init ==
  /\ config \in Configs
  /\ workflow = <<>>
  /\ subscribed = <<>>
  /\ request = NoRequest
  /\ subs = <<>>
  /\ granted = 0
  /\ pc = "exited"
  /\ responses = <<>>
  /\ called = <<>>
  /\ executions = 0

-----------------------------------------------------------------------------
\* What parse makes of the config: its Tees may have no constraint at all.
NoConstraint == [kind |-> "nil"]
Parsed == IF config = Absent THEN Ok(NoConstraint) ELSE UnmarshalTees(config)

Constraint(h) == IF h.tees = ConfigTees THEN Parsed.value ELSE h.tees

Requirements(h) ==
  IF WithRequirements(h) /\ IsTee(h) THEN toRequirements(Constraint(h))
  ELSE NoRequirements

\* The host (external): it subscribes once, and when a trigger fires it asks
\* the handler's hook, when it is subscribed with one, before it runs it, in
\* a TEE that the requirements admit.  The event may lack its payload.
MayAsk(kind, id) ==
  CASE kind \in {"subscribe", "unknown", "malformed"} -> subs = <<>>
    [] kind = "preHook" -> granted = 0 /\ subs[id].preHook
    [] kind = "trigger" -> subs[id].preHook => granted = id

PlacesOf(kind, id) ==
  IF kind = "trigger" /\ subs[id].requirements # NoRequirements
    THEN Admits(subs[id].requirements) ELSE {Don}
EventsOf(kind, id) ==
  IF kind \in {"preHook", "trigger"} THEN {EventOf(subs[id].id, subs[id].method), NoEvent}
  ELSE {NoEvent}

Ask(kind, id) ==
  /\ pc \in Ends
  /\ executions < MaxExecutions
  /\ id \in IF kind \in {"preHook", "trigger"} THEN DOMAIN subs ELSE {0}
  /\ MayAsk(kind, id)
  /\ executions' = executions + 1
  /\ workflow' = <<>>
  /\ \E event \in EventsOf(kind, id), place \in PlacesOf(kind, id) :
       request' = [kind |-> kind, id |-> id, event |-> event, place |-> place]
  /\ pc' = "start"
  /\ responses' = <<>>
  /\ called' = <<>>
  /\ granted' = IF kind = "trigger" THEN 0 ELSE granted
  /\ UNCHANGED <<config, subscribed, subs>>

ExitGoingOn(result, subscriptions) ==
  /\ responses' = Append(responses, result)
  /\ UNCHANGED <<pc, config, workflow, subscribed, request, subs, granted, executions>>

\* exit: what the host makes of the response is in subs and granted.
Exit(result, subscriptions) ==
  /\ pc' = "exited"
  /\ responses' = Append(responses, result)
  /\ subs' = IF result = "subscriptions" THEN subscriptions ELSE subs
  /\ subscribed' = IF result = "subscriptions" THEN workflow ELSE subscribed
  /\ granted' = IF result = "restrictions" THEN request.id ELSE granted
  /\ UNCHANGED <<config, workflow, request, executions>>

\* A result with something of the program's in it: a text that is not UTF-8
\* cannot be marshalled, and exit ignores the error.
ExitMarshalled(result) == Exit(result, <<>>) \/ Exit("empty", <<>>)

ExitErr == Exit("error", <<>>)

Crash ==
  /\ pc' = "crashed"
  /\ UNCHANGED <<config, workflow, subscribed, request, subs, granted, responses, executions>>

\* getRunner: a request that cannot be read, a config that cannot be parsed,
\* or the runner of the request.
GetRunner ==
  /\ pc = "start"
  /\ \/ request.kind \in {"unknown", "malformed"} /\ ExitErr
     \/ ExitMarshalled("error")
     \/ /\ request.kind \notin {"unknown", "malformed"}
        /\ Parsed.ok
        /\ pc' = "init"
        /\ UNCHANGED <<config, workflow, subscribed, request, subs, granted, responses,
                       executions>>
  /\ UNCHANGED called

\* The provider that initFn is given: preHookRunner is built without one.
NoProvider(kind) == kind = "preHook"

\* Run, up to the runner's own run.  HandlerInTee asks its constraint for the
\* requirements: one that is nil panics.
InitFn ==
  /\ pc = "init"
  /\ IF ReadsSecrets /\ NoProvider(request.kind) THEN Crash
     ELSE \/ ExitMarshalled("error")
          \/ \E w \in Workflows :
               IF \E k \in DOMAIN w : IsTee(w[k]) /\ Constraint(w[k]) = NoConstraint
                 THEN Crash
               ELSE /\ pc' = "run"
                    /\ workflow' = w
                    /\ UNCHANGED <<config, subscribed, request, subs, granted, responses,
                                   executions>>
  /\ UNCHANGED called

SubscriptionOfRequirements(h) ==
  [id |-> h.trigger.CapabilityID, method |-> h.trigger.Method,
   requirements |-> Requirements(h), preHook |-> WithRequirements(h)]
Subscription(h) ==
  [id |-> h.trigger.CapabilityID, method |-> h.trigger.Method,
   requirements |-> Requirements(h), preHook |-> WithPreHook(h)]

RunSubscriber ==
  /\ pc = "run" /\ request.kind = "subscribe"
  /\ Exit("subscriptions", [k \in DOMAIN workflow |-> Subscription(workflow[k])])
  /\ UNCHANGED called

\* preHookRunner.run: no such handler, none with a hook, no payload, or what
\* the hook says of an event it can read.
RunPreHook ==
  /\ pc = "run" /\ request.kind = "preHook"
  /\ IF request.id \notin DOMAIN workflow THEN ExitErr
     ELSE IF ~WithPreHook(workflow[request.id]) \/ request.event = NoEvent THEN ExitErr
     ELSE IF request.event # workflow[request.id].trigger.NewT THEN ExitErr
     ELSE ExitMarshalled("error") \/ ExitMarshalled("restrictions") \/ Crash
  /\ UNCHANGED called

RuntimeOf(h) == IF WithRequirements(h) THEN "extractable" ELSE "plain"

\* The wrapped callback: an event it cannot read, and wrapTeeCallback, which
\* panics without an extractable runtime, come before the callback.
Callback(h) ==
  IF request.event # h.trigger.NewT THEN ExitErr
  ELSE IF IsTee(h) /\ RuntimeOf(h) # "extractable" THEN Crash
  ELSE ExitMarshalled("value") \/ ExitMarshalled("error") \/ Crash

\* runner.run: the handler at the trigger's place; a place beyond the list
\* sends nothing.
MatchesNext(k) == k = request.id + 1
Matches(k) == k = request.id

RunTrigger ==
  /\ pc = "run" /\ request.kind = "trigger"
  /\ \/ /\ \A k \in DOMAIN workflow : ~Matches(k)
        /\ pc' = "returned"
        /\ UNCHANGED <<config, workflow, subscribed, request, subs, granted, responses,
                       called, executions>>
     \/ \E k \in DOMAIN workflow :
          /\ Matches(k)
          /\ called' = Append(called, [handler |-> workflow[k],
                                       runtime |-> RuntimeOf(workflow[k])])
          /\ Callback(workflow[k])

Next ==
  \/ \E kind \in Kinds, id \in 0 .. Len(subs) : Ask(kind, id)
  \/ GetRunner \/ InitFn \/ RunSubscriber \/ RunPreHook \/ RunTrigger

Spec == Init /\ [][Next]_vars
-----------------------------------------------------------------------------
\* When initFn builds the list it built for the subscription, the handler called
\* for a trigger is the one that was subscribed at its place, it can read the
\* event, and there always is one.
TriggersReachTheirHandler ==
  request.kind = "trigger" /\ workflow = subscribed =>
    /\ pc # "returned"
    /\ \A k \in DOMAIN called :
         /\ called[k].handler.trigger.CapabilityID = subs[request.id].id
         /\ called[k].handler.trigger.Method = subs[request.id].method
         /\ request.event \in {called[k].handler.trigger.NewT, NoEvent}

\* Then, also, a handler is subscribed with a hook only when the preHook execution
\* finds the hook; and the host never has restrictions without a hook.
HooksAreFound ==
  /\ \A k \in DOMAIN subs : subs[k].preHook => WithPreHook(subscribed[k])
  /\ request.kind = "preHook" /\ responses = <<"restrictions">> =>
       WithPreHook(workflow[request.id])
  /\ granted # 0 => subs[granted].preHook

\* A TEE handler, also one with a hook, is never called with a runtime from
\* which it cannot extract the TeeRuntime, whatever list initFn builds.
TeeRuntimeIsGiven ==
  \A k \in DOMAIN called : IsTee(called[k].handler) => called[k].runtime = "extractable"

\* The host is told of exactly the TEEs and regions that the JSON of the config
\* names for a handler (tee_constraints.go: it fails closed), so that what runs
\* in a TEE is what was meant to, where it was meant to.
TeesAreTheConfigs ==
  \A k \in DOMAIN subs :
    /\ IsTee(subscribed[k]) <=> subs[k].requirements # NoRequirements
    /\ subscribed[k].tees = ConfigTees =>
         /\ config # Absent
         /\ Admits(subs[k].requirements) = {p \in Places : Names(config, p)}

\* Both, and a trigger's handler runs where its own requirements let it.
TeeHandlersGetTee ==
  /\ TeeRuntimeIsGiven
  /\ TeesAreTheConfigs
  /\ workflow = subscribed =>
       \A k \in DOMAIN called :
         request.place \in IF IsTee(called[k].handler)
                             THEN Admits(toRequirements(Constraint(called[k].handler)))
                             ELSE {Don}

\* runner.go:5 (cre): initFn is given a SecretsProvider, so that a workflow that
\* reads a secret while it is built is built in every execution.
InitFnDoesNotCrash == [][pc = "init" => pc' # "crashed"]_vars
=============================================================================
