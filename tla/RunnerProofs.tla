---------------------------- MODULE RunnerProofs ----------------------------
(***************************************************************************)
(* What the host may rely on, for all workflows and configs: a trigger     *)
(* reaches the handler that was subscribed for it, hooks are found, and a  *)
(* TEE handler runs in a TEE that was meant, with its runtime.  The        *)
(* argument ties what the host keeps (subs, granted) to the list that was  *)
(* subscribed, and the request to what the host keeps.                     *)
(***************************************************************************)
EXTENDS Runner, TLAPS

-----------------------------------------------------------------------------
(* The JSON of a config: what is accepted means what it says.              *)

LEMMA RegionsMean ==
  ASSUME NEW doc, NonEmptyRegions(doc).ok, NEW region \in Regions
  PROVE  InRegions(region, NonEmptyRegions(doc).value) <=> Listed(region, doc)
<1>1. /\ NonEmptyRegions(doc) = UnmarshalRegions(doc)
      /\ UnmarshalRegions(doc) # Ok(<<>>) /\ UnmarshalRegions(doc).ok
  BY DEF NonEmptyRegions, Err
<1>2. doc # Null
  BY <1>1 DEF UnmarshalRegions
<1>3. /\ doc.json = "array"
      /\ \A k \in DOMAIN doc.items : IsRegion(doc.items[k])
      /\ UnmarshalRegions(doc) = Ok([k \in DOMAIN doc.items |-> RegionOf(doc.items[k])])
  BY <1>1, <1>2 DEF UnmarshalRegions, Err
<1> DEFINE read == [k \in DOMAIN doc.items |-> RegionOf(doc.items[k])]
<1>4. NonEmptyRegions(doc).value = read /\ read # <<>>
  <2>1. UnmarshalRegions(doc) = Ok(read)
    BY <1>3
  <2> HIDE DEF read
  <2>2. Ok(read).value = read
    BY DEF Ok
  <2>3. QED
    BY <1>1, <2>1, <2>2
<1>5. ASSUME NEW k \in DOMAIN doc.items
      PROVE  RegionOf(doc.items[k]) = region <=> doc.items[k] = Text(region)
  <2>1. IsRegion(doc.items[k]) /\ region # ""
    BY <1>3, RegionsAssumption
  <2>2. Null # Text(region)
    BY DEF Null, Text
  <2>3. CASE doc.items[k] = Null
    <3>1. RegionOf(doc.items[k]) = ""
      BY <2>3 DEF RegionOf
    <3>2. QED
      BY <2>1, <2>2, <2>3, <3>1
  <2>4. CASE doc.items[k] # Null
    <3>1. PICK r \in AwsRegions : doc.items[k] = Text(r)
      BY <2>1, <2>4 DEF IsRegion
    <3>2. RegionOf(doc.items[k]) = doc.items[k].text
      BY <2>4 DEF RegionOf
    <3>3. doc.items[k].text = r /\ Text(region).text = region
      BY <3>1 DEF Text
    <3>4. QED
      BY <3>1, <3>2, <3>3
  <2>5. QED
    BY <2>3, <2>4
<1>6. DOMAIN read = DOMAIN doc.items /\ \A k \in DOMAIN read : read[k] = RegionOf(doc.items[k])
  OBVIOUS
<1>7. InRegions(region, read) <=> \E k \in DOMAIN doc.items : RegionOf(doc.items[k]) = region
  BY <1>4, <1>6 DEF InRegions
<1>8. QED
  BY <1>3, <1>4, <1>5, <1>7 DEF Listed

\* A binding that is accepted is one of Nitro, in the regions it lists or all.
LEMMA BindingMeans ==
  ASSUME NEW doc, unmarshalBinding(doc).ok, NEW region \in Regions
  PROVE  /\ unmarshalBinding(doc).value.type = "TEE_TYPE_AWS_NITRO"
         /\ FieldOf(doc, "tee") = Text("nitro")
         /\ InRegions(region, unmarshalBinding(doc).value.regions) <=>
              (HasField(doc, "regions") => Listed(region, FieldOf(doc, "regions")))
<1>1. /\ FieldOf(doc, "tee") = Text("nitro")
      /\ unmarshalBinding(doc) = UnmarshalNitro(doc) /\ UnmarshalNitro(doc).ok
  BY DEF unmarshalBinding, Err
<1>2. CASE ~HasField(doc, "regions")
  <2>1. UnmarshalNitro(doc) = Ok(Nitro(<<>>))
    BY <1>1, <1>2 DEF UnmarshalNitro, Err
  <2>2. QED
    BY <1>1, <1>2, <2>1 DEF Ok, Nitro, InRegions
<1>3. CASE HasField(doc, "regions")
  <2> DEFINE list == FieldOf(doc, "regions")
  <2>1. NonEmptyRegions(list).ok /\ UnmarshalNitro(doc) = Ok(Nitro(NonEmptyRegions(list).value))
    BY <1>1, <1>3 DEF UnmarshalNitro, Err
  <2>2. InRegions(region, NonEmptyRegions(list).value) <=> Listed(region, list)
    BY <2>1, RegionsMean
  <2> HIDE DEF list
  <2>3. /\ unmarshalBinding(doc).value.type = "TEE_TYPE_AWS_NITRO"
        /\ unmarshalBinding(doc).value.regions = NonEmptyRegions(list).value
    BY <1>1, <2>1 DEF Ok, Nitro
  <2>4. QED
    BY <1>1, <1>3, <2>2, <2>3 DEF list
<1>4. QED
  BY <1>2, <1>3

\* The requirements of a config that is accepted admit the places that the
\* config names, no fewer and no more: nothing that is left out, misspelt or
\* empty is taken for "any" (tee_constraints.go:19, Tees fails closed).
THEOREM TeesMeanTheSame ==
  ASSUME NEW doc, UnmarshalTees(doc).ok
  PROVE  /\ UnmarshalTees(doc).value.kind \in {"AnyTee", "AnyTeeInRegions", "OneOfTees"}
         /\ Admits(toRequirements(UnmarshalTees(doc).value)) = {p \in Places : Names(doc, p)}
<1>1. CASE doc.json = "array"
  <2>1. /\ \A k \in DOMAIN doc.items : unmarshalBinding(doc.items[k]).ok
        /\ UnmarshalTees(doc) =
             Ok(OneOfTees([k \in DOMAIN doc.items |-> unmarshalBinding(doc.items[k]).value]))
    BY <1>1 DEF UnmarshalTees, decodeArray, Err
  <2> DEFINE types == [k \in DOMAIN doc.items |-> unmarshalBinding(doc.items[k]).value]
  <2>2. /\ DOMAIN types = DOMAIN doc.items
        /\ \A k \in DOMAIN doc.items : types[k] = unmarshalBinding(doc.items[k]).value
    OBVIOUS
  <2>3. UnmarshalTees(doc) = Ok(OneOfTees(types))
    BY <2>1
  <2> HIDE DEF types
  <2>4. /\ UnmarshalTees(doc).value.kind = "OneOfTees"
        /\ toRequirements(UnmarshalTees(doc).value) = TeeTypesAndRegions(types)
    BY <2>3 DEF Ok, OneOfTees, toRequirements
  <2>5. ASSUME NEW p \in Places
        PROVE  p \in Admits(TeeTypesAndRegions(types)) <=> Names(doc, p)
    <3>1. p[2] \in Regions
      BY DEF Places
    <3>2. p \in Admits(TeeTypesAndRegions(types)) <=>
            \E k \in DOMAIN types : types[k].type = p[1] /\ InRegions(p[2], types[k].regions)
      BY DEF Admits, TeeTypesAndRegions
    <3>3. \A k \in DOMAIN doc.items :
            /\ types[k].type = "TEE_TYPE_AWS_NITRO"
            /\ FieldOf(doc.items[k], "tee") = Text("nitro")
            /\ InRegions(p[2], types[k].regions) <=>
                 (HasField(doc.items[k], "regions") =>
                    Listed(p[2], FieldOf(doc.items[k], "regions")))
      BY <2>1, <2>2, <3>1, BindingMeans
    <3>4. QED
      BY <1>1, <2>2, <3>2, <3>3 DEF Names
  <2>6. Admits(TeeTypesAndRegions(types)) \subseteq Places
    BY DEF Admits
  <2>7. QED
    BY <2>4, <2>5, <2>6
<1>2. CASE doc.json = "object"
  <2>1. UnmarshalTees(doc) = decodeObject(doc)
    BY <1>2 DEF UnmarshalTees
  <2>2. CASE DOMAIN doc.fields = {}
    <3>1. UnmarshalTees(doc) = Ok(AnyTee)
      BY <2>1, <2>2 DEF decodeObject
    <3>2. /\ UnmarshalTees(doc).value.kind = "AnyTee"
          /\ toRequirements(UnmarshalTees(doc).value) = AnyRegions(<<>>)
      BY <3>1 DEF Ok, AnyTee, toRequirements
    <3>3. Admits(AnyRegions(<<>>)) = Places
      BY DEF Admits, AnyRegions, InRegions
    <3>4. \A p \in Places : Names(doc, p)
      BY <1>2, <2>2 DEF Names
    <3>5. QED
      BY <3>2, <3>3, <3>4
  <2>3. CASE DOMAIN doc.fields # {}
    <3> DEFINE list == doc.fields["regions"]
    <3>1. /\ NonEmptyRegions(list).ok
          /\ UnmarshalTees(doc) = Ok(AnyTeeInRegions(NonEmptyRegions(list).value))
      BY <2>1, <2>3 DEF decodeObject, Err
    <3>2. \A p \in Places :
            InRegions(p[2], NonEmptyRegions(list).value) <=> Listed(p[2], list)
      <4>1. \A p \in Places : p[2] \in Regions
        BY DEF Places
      <4>2. QED
        BY <3>1, <4>1, RegionsMean
    <3>3. \A p \in Places : Names(doc, p) <=> Listed(p[2], list)
      BY <1>2, <2>3 DEF Names
    <3> HIDE DEF list
    <3>4. /\ UnmarshalTees(doc).value.kind = "AnyTeeInRegions"
          /\ toRequirements(UnmarshalTees(doc).value) =
               AnyRegions(NonEmptyRegions(list).value)
      BY <3>1 DEF Ok, AnyTeeInRegions, toRequirements
    <3>5. Admits(AnyRegions(NonEmptyRegions(list).value)) =
            {p \in Places : InRegions(p[2], NonEmptyRegions(list).value)}
      BY DEF Admits, AnyRegions
    <3>6. QED
      BY <3>2, <3>3, <3>4, <3>5
  <2>4. QED
    BY <2>2, <2>3
<1>3. CASE doc.json \notin {"array", "object"}
  BY <1>3 DEF UnmarshalTees, Err
<1>4. QED
  BY <1>1, <1>2, <1>3

-----------------------------------------------------------------------------
(* The invariant.                                                          *)

\* What the host keeps is what the subscribed list says.
SubsInv ==
  /\ DOMAIN subs = DOMAIN subscribed
  /\ \A k \in DOMAIN subs : subs[k] = Subscription(subscribed[k])

\* The host asks for what it is subscribed to, once it is.
RequestInv ==
  /\ request.kind \in {"preHook", "trigger"} => request.id \in DOMAIN subs
  /\ request.kind = "preHook" => subs[request.id].preHook
  /\ request.kind = "trigger" =>
       /\ request.event \in EventsOf("trigger", request.id)
       /\ request.place \in PlacesOf("trigger", request.id)
  /\ request.kind = "subscribe" /\ pc \notin Ends => subs = <<>>

\* A list is built when every TEE handler of it has a constraint to ask.
Built(w) ==
  \A k \in DOMAIN w :
    IsTee(w[k]) => Parsed.ok /\ Constraint(w[k]) # NoConstraint
BuiltInv ==
  /\ pc \in {"init", "run"} => Parsed.ok
  /\ Built(workflow)
  /\ Built(subscribed)

\* The guest sends and calls last of all.
CallInv ==
  /\ pc \notin Ends => responses = <<>> /\ called = <<>>
  /\ pc = "returned" => request.kind = "trigger" /\ request.id \notin DOMAIN workflow
  /\ called # <<>> =>
       /\ request.kind = "trigger" /\ request.id \in DOMAIN workflow
       /\ called = <<[handler |-> workflow[request.id],
                      runtime |-> RuntimeOf(workflow[request.id])]>>

HookInv ==
  /\ request.kind = "preHook" /\ responses = <<"restrictions">> =>
       WithPreHook(workflow[request.id])
  /\ granted # 0 => granted \in DOMAIN subs /\ subs[granted].preHook

Inv == TypeOK /\ SubsInv /\ RequestInv /\ BuiltInv /\ CallInv /\ HookInv

-----------------------------------------------------------------------------
(* What the steps of the guest have in common.                             *)

\* The execution ends, having sent one of the results or nothing.
Ended(results) ==
  /\ UNCHANGED <<config, workflow, subscribed, request, subs, granted, executions>>
  /\ pc' \in {"exited", "crashed"}
  /\ responses' = responses \/ \E r \in results : responses' = Append(responses, r)

LEMMA Ending ==
  /\ ExitErr => Ended({"error", "value", "empty"})
  /\ Crash => Ended({"error", "value", "empty"})
  /\ ExitMarshalled("error") => Ended({"error", "value", "empty"})
  /\ ExitMarshalled("value") => Ended({"error", "value", "empty"})
<1>1. ASSUME NEW r \in {"error", "value", "empty"}, Exit(r, <<>>)
      PROVE  Ended({"error", "value", "empty"})
  BY <1>1 DEF Exit, Ended
<1>2. Crash => Ended({"error", "value", "empty"})
  BY DEF Crash, Ended
<1>3. QED
  BY <1>1, <1>2 DEF ExitErr, ExitMarshalled

EndedNow == Ended({"error", "value", "empty"})

\* What each step of the guest comes to.
LEMMA GuestSteps ==
  /\ GetRunner =>
       /\ pc = "start" /\ called' = called
       /\ \/ EndedNow
          \/ /\ Parsed.ok /\ pc' = "init"
             /\ UNCHANGED <<config, workflow, subscribed, request, subs, granted,
                            responses, executions>>
  /\ InitFn =>
       /\ pc = "init" /\ called' = called
       /\ \/ EndedNow
          \/ /\ workflow' \in Workflows /\ pc' = "run"
             /\ \A k \in DOMAIN workflow' :
                  IsTee(workflow'[k]) => Constraint(workflow'[k]) # NoConstraint
             /\ UNCHANGED <<config, subscribed, request, subs, granted, responses,
                            executions>>
  /\ RunSubscriber =>
       /\ pc = "run" /\ request.kind = "subscribe" /\ called' = called
       /\ pc' = "exited" /\ responses' = Append(responses, "subscriptions")
       /\ subs' = [k \in DOMAIN workflow |-> Subscription(workflow[k])]
       /\ subscribed' = workflow
       /\ UNCHANGED <<config, workflow, request, granted, executions>>
  /\ RunPreHook =>
       /\ pc = "run" /\ request.kind = "preHook" /\ called' = called
       /\ \/ EndedNow
          \/ /\ pc' = "exited" /\ responses' = Append(responses, "restrictions")
             /\ request.id \in DOMAIN workflow /\ WithPreHook(workflow[request.id])
             /\ granted' = request.id
             /\ UNCHANGED <<config, workflow, subscribed, request, subs, executions>>
  /\ RunTrigger =>
       /\ pc = "run" /\ request.kind = "trigger"
       /\ \/ /\ request.id \notin DOMAIN workflow
             /\ pc' = "returned"
             /\ UNCHANGED <<config, workflow, subscribed, request, subs, granted,
                            responses, called, executions>>
          \/ /\ request.id \in DOMAIN workflow
             /\ called' = Append(called, [handler |-> workflow[request.id],
                                          runtime |-> RuntimeOf(workflow[request.id])])
             /\ EndedNow
<1>1. GetRunner =>
        /\ pc = "start" /\ called' = called
        /\ \/ EndedNow
           \/ /\ Parsed.ok /\ pc' = "init"
              /\ UNCHANGED <<config, workflow, subscribed, request, subs, granted,
                             responses, executions>>
  BY Ending DEF GetRunner, EndedNow
<1>2. InitFn =>
        /\ pc = "init" /\ called' = called
        /\ \/ EndedNow
           \/ /\ workflow' \in Workflows /\ pc' = "run"
              /\ \A k \in DOMAIN workflow' :
                   IsTee(workflow'[k]) => Constraint(workflow'[k]) # NoConstraint
              /\ UNCHANGED <<config, subscribed, request, subs, granted, responses,
                             executions>>
  BY Ending DEF InitFn, EndedNow
<1>3. RunSubscriber =>
        /\ pc = "run" /\ request.kind = "subscribe" /\ called' = called
        /\ pc' = "exited" /\ responses' = Append(responses, "subscriptions")
        /\ subs' = [k \in DOMAIN workflow |-> Subscription(workflow[k])]
        /\ subscribed' = workflow
        /\ UNCHANGED <<config, workflow, request, granted, executions>>
  BY DEF RunSubscriber, Exit
<1>4. RunPreHook =>
        /\ pc = "run" /\ request.kind = "preHook" /\ called' = called
        /\ \/ EndedNow
           \/ /\ pc' = "exited" /\ responses' = Append(responses, "restrictions")
              /\ request.id \in DOMAIN workflow /\ WithPreHook(workflow[request.id])
              /\ granted' = request.id
              /\ UNCHANGED <<config, workflow, subscribed, request, subs, executions>>
  <2>1. Exit("empty", <<>>) => EndedNow
    BY DEF Exit, EndedNow, Ended
  <2>2. Exit("restrictions", <<>>) =>
          /\ pc' = "exited" /\ responses' = Append(responses, "restrictions")
          /\ granted' = request.id
          /\ UNCHANGED <<config, workflow, subscribed, request, subs, executions>>
    BY DEF Exit
  <2>3. QED
    BY <2>1, <2>2, Ending DEF RunPreHook, ExitMarshalled, EndedNow
<1>5. RunTrigger =>
        /\ pc = "run" /\ request.kind = "trigger"
        /\ \/ /\ request.id \notin DOMAIN workflow
              /\ pc' = "returned"
              /\ UNCHANGED <<config, workflow, subscribed, request, subs, granted,
                             responses, called, executions>>
           \/ /\ request.id \in DOMAIN workflow
              /\ called' = Append(called, [handler |-> workflow[request.id],
                                           runtime |-> RuntimeOf(workflow[request.id])])
              /\ EndedNow
  <2>1. \A h : Callback(h) => EndedNow
    BY Ending DEF Callback, EndedNow
  <2>2. QED
    BY <2>1 DEF RunTrigger, Matches
<1>6. QED
  BY <1>1, <1>2, <1>3, <1>4, <1>5

LEMMA ResponsesType ==
  /\ \A r \in Results : Append(<<>>, r) \in {<<q>> : q \in Results}
  /\ \A c : Append(<<>>, c) = <<c>>
  /\ \A q : <<q>> # <<>>
  /\ {"error", "value", "empty"} \subseteq Results
  /\ {"subscriptions", "restrictions"} \subseteq Results
<1>1. \A c : Append(<<>>, c) = <<c>>
  OBVIOUS
<1>2. \A q : <<q>> # <<>>
  OBVIOUS
<1>3. QED
  BY <1>1, <1>2 DEF Results

\* Once something was sent, it is a result, and what was called stays.
LEMMA EndedType ==
  ASSUME TypeOK, CallInv, pc \in {"start", "init", "run"}, EndedNow
  PROVE  /\ responses' \in {<<>>} \cup {<<r>> : r \in {"error", "value", "empty"}}
         /\ responses' # <<"restrictions">>
         /\ pc' \in Ends /\ pc' # "returned"
<1>1. responses = <<>>
  BY DEF CallInv, Ends
<1>2. responses' = <<>> \/ \E r \in {"error", "value", "empty"} : responses' = <<r>>
  BY <1>1, ResponsesType DEF EndedNow, Ended
<1>3. \A r \in {"error", "value", "empty"} : <<r>> # <<"restrictions">>
  OBVIOUS
<1>4. <<>> # <<"restrictions">>
  OBVIOUS
<1>5. pc' \in Ends /\ pc' # "returned"
  BY DEF EndedNow, Ended, Ends
<1>6. QED
  BY <1>2, <1>3, <1>4, <1>5

LEMMA InvInit == Init => Inv
<1> SUFFICES ASSUME Init PROVE Inv
  OBVIOUS
<1>1. DOMAIN <<>> = {}
  OBVIOUS
<1>2. TypeOK
  <2>1. 0 \in 0 .. MaxExecutions
    BY RunnerAssumption
  <2>2. QED
    BY <1>1, <2>1 DEF Init, TypeOK, NoRequest, Ends
<1>3. SubsInv /\ RequestInv /\ BuiltInv /\ CallInv /\ HookInv
  BY <1>1 DEF Init, SubsInv, RequestInv, BuiltInv, Built, CallInv, HookInv, NoRequest, Ends
<1>4. QED
  BY <1>2, <1>3 DEF Inv

-----------------------------------------------------------------------------
(* The host asks.                                                          *)

LEMMA AskKeeps ==
  ASSUME Inv, NEW kind \in Kinds, NEW id, Ask(kind, id)
  PROVE  Inv'
<1>1. /\ pc \in Ends /\ pc' = "start" /\ pc' \notin Ends
      /\ UNCHANGED <<config, subscribed, subs>>
      /\ workflow' = <<>> /\ responses' = <<>> /\ called' = <<>>
      /\ granted' = (IF kind = "trigger" THEN 0 ELSE granted)
      /\ MayAsk(kind, id)
      /\ id \in IF kind \in {"preHook", "trigger"} THEN DOMAIN subs ELSE {0}
  BY DEF Ask, Ends
<1>2. PICK event \in EventsOf(kind, id), place \in PlacesOf(kind, id) :
        request' = [kind |-> kind, id |-> id, event |-> event, place |-> place]
  BY DEF Ask
<1>3. /\ request'.kind = kind /\ request'.id = id
      /\ request'.event = event /\ request'.place = place
  BY <1>2
<1>4. DOMAIN <<>> = {}
  OBVIOUS
<1>5. TypeOK'
  <2>1. place \in Places \cup {Don}
    BY DEF PlacesOf, Admits
  <2>2. executions' \in 0 .. MaxExecutions
    BY RunnerAssumption DEF Ask, Inv, TypeOK
  <2>3. called' = <<>> /\ pc' \in {"start", "init", "run"} \cup Ends
    BY <1>1
  <2>4. QED
    BY <1>1, <1>3, <2>1, <2>2, <2>3 DEF Inv, TypeOK
<1>6. SubsInv'
  <2>1. \A h : Subscription(h)' = Subscription(h)
    BY <1>1 DEF Subscription, Requirements, Constraint, Parsed
  <2>2. QED
    BY <1>1, <2>1 DEF Inv, SubsInv
<1>7. RequestInv'
  <2>1. kind = "subscribe" => subs = <<>>
    BY <1>1 DEF MayAsk
  <2>2. kind = "preHook" => subs[id].preHook
    BY <1>1 DEF MayAsk
  <2>3. /\ EventsOf("trigger", id)' = EventsOf("trigger", id)
        /\ PlacesOf("trigger", id)' = PlacesOf("trigger", id)
    BY <1>1 DEF EventsOf, PlacesOf
  <2>4. QED
    BY <1>1, <1>3, <2>1, <2>2, <2>3 DEF RequestInv
<1>8. BuiltInv'
  BY <1>1, <1>4 DEF Inv, BuiltInv, Built, Parsed, Constraint
<1>9. CallInv'
  BY <1>1 DEF CallInv
<1>10. HookInv'
  <2>1. responses' # <<"restrictions">>
    BY <1>1
  <2>2. QED
    BY <1>1, <2>1 DEF Inv, HookInv
<1>11. QED
  BY <1>5, <1>6, <1>7, <1>8, <1>9, <1>10 DEF Inv

-----------------------------------------------------------------------------
(* The guest runs.                                                         *)

\* What is said of the config's handlers changes with the config only.
LEMMA SameConfig ==
  ASSUME config' = config
  PROVE  /\ Parsed' = Parsed
         /\ \A h : Constraint(h)' = Constraint(h)
         /\ \A h : Subscription(h)' = Subscription(h)
BY DEF Subscription, Requirements, Constraint, Parsed

\* When only the guest moved on, what the host has and asked is as it was.
LEMMA HostStays ==
  ASSUME Inv, UNCHANGED <<config, subscribed, request, subs>>, pc \notin Ends
  PROVE  SubsInv' /\ RequestInv' /\ (Built(subscribed) => Built(subscribed)')
<1>1. SubsInv'
  BY SameConfig DEF Inv, SubsInv
<1>2. RequestInv'
  <2>1. /\ EventsOf("trigger", request.id)' = EventsOf("trigger", request.id)
        /\ PlacesOf("trigger", request.id)' = PlacesOf("trigger", request.id)
    BY DEF EventsOf, PlacesOf
  <2>2. QED
    BY <2>1 DEF Inv, RequestInv
<1>3. Built(subscribed) => Built(subscribed)'
  BY SameConfig DEF Built
<1>4. QED
  BY <1>1, <1>2, <1>3

\* An execution ends, with the handler of its trigger called or none.
LEMMA EndedKeeps ==
  ASSUME Inv, EndedNow, pc \in {"start", "init", "run"},
         \/ called' = called
         \/ /\ request.kind = "trigger" /\ request.id \in DOMAIN workflow
            /\ called' = Append(called, [handler |-> workflow[request.id],
                                         runtime |-> RuntimeOf(workflow[request.id])])
  PROVE  Inv'
<1>1. /\ responses = <<>> /\ called = <<>> /\ pc \notin Ends
      /\ UNCHANGED <<config, workflow, subscribed, request, subs, granted, executions>>
  BY DEF Inv, CallInv, Ends, EndedNow, Ended
<1>2. /\ responses' \in {<<>>} \cup {<<r>> : r \in {"error", "value", "empty"}}
      /\ responses' # <<"restrictions">>
      /\ pc' \in Ends /\ pc' # "returned"
  BY EndedType DEF Inv
<1>3. called' # <<>> =>
        /\ request.kind = "trigger" /\ request.id \in DOMAIN workflow
        /\ called' = <<[handler |-> workflow[request.id],
                        runtime |-> RuntimeOf(workflow[request.id])]>>
  BY <1>1, ResponsesType
<1>4. TypeOK'
  <2>1. called' # <<>> =>
          DOMAIN called' = {1} /\ called'[1].handler = workflow'[request'.id]
    BY <1>1, <1>3
  <2>2. responses' \in {<<>>} \cup {<<r>> : r \in Results}
    BY <1>2, ResponsesType
  <2>3. QED
    BY <1>1, <1>2, <2>1, <2>2 DEF Inv, TypeOK
<1>5. SubsInv' /\ RequestInv' /\ (Built(subscribed) => Built(subscribed)')
  BY <1>1, HostStays
<1>6. BuiltInv'
  <2>1. Built(workflow)'
    BY <1>1, SameConfig DEF Inv, BuiltInv, Built
  <2>2. QED
    BY <1>2, <1>5, <2>1 DEF Inv, BuiltInv, Ends
<1>7. CallInv'
  BY <1>1, <1>2, <1>3 DEF CallInv, RuntimeOf
<1>8. HookInv'
  BY <1>1, <1>2 DEF Inv, HookInv
<1>9. QED
  BY <1>4, <1>5, <1>6, <1>7, <1>8 DEF Inv

LEMMA GetRunnerKeeps == Inv /\ GetRunner => Inv'
<1> SUFFICES ASSUME Inv, GetRunner PROVE Inv'
  OBVIOUS
<1>1. pc = "start" /\ called' = called
  BY GuestSteps
<1>2. CASE EndedNow
  BY <1>1, <1>2, EndedKeeps
<1>3. CASE /\ Parsed.ok /\ pc' = "init"
           /\ UNCHANGED <<config, workflow, subscribed, request, subs, granted,
                          responses, executions>>
  <2>1. pc \notin Ends /\ pc' \notin Ends /\ pc' # "returned"
    BY <1>1, <1>3 DEF Ends
  <2>2. SubsInv' /\ RequestInv' /\ (Built(subscribed) => Built(subscribed)')
    BY <1>3, <2>1, HostStays
  <2>3. Built(workflow)'
    BY <1>3, SameConfig DEF Inv, BuiltInv, Built
  <2>4. TypeOK' /\ CallInv' /\ HookInv'
    BY <1>1, <1>3, <2>1 DEF Inv, TypeOK, CallInv, HookInv
  <2>5. BuiltInv'
    BY <1>3, <2>2, <2>3, SameConfig DEF Inv, BuiltInv
  <2>6. QED
    BY <2>2, <2>4, <2>5 DEF Inv
<1>4. QED
  BY <1>2, <1>3, GuestSteps

LEMMA InitFnKeeps == Inv /\ InitFn => Inv'
<1> SUFFICES ASSUME Inv, InitFn PROVE Inv'
  OBVIOUS
<1>1. pc = "init" /\ called' = called
  BY GuestSteps
<1>2. CASE EndedNow
  BY <1>1, <1>2, EndedKeeps
<1>3. CASE /\ workflow' \in Workflows /\ pc' = "run"
           /\ \A k \in DOMAIN workflow' :
                IsTee(workflow'[k]) => Constraint(workflow'[k]) # NoConstraint
           /\ UNCHANGED <<config, subscribed, request, subs, granted, responses,
                          executions>>
  <2>1. /\ pc \notin Ends /\ pc' \notin Ends /\ pc' # "returned"
        /\ responses = <<>> /\ called = <<>> /\ Parsed.ok
    BY <1>1, <1>3 DEF Ends, Inv, CallInv, BuiltInv
  <2>2. SubsInv' /\ RequestInv' /\ (Built(subscribed) => Built(subscribed)')
    BY <1>3, <2>1, HostStays
  <2>3. Built(workflow)'
    BY <1>3, <2>1, SameConfig DEF Built
  <2>4. responses' # <<"restrictions">>
    BY <1>3, <2>1
  <2>5. TypeOK' /\ CallInv' /\ HookInv'
    BY <1>1, <1>3, <2>1, <2>4 DEF Inv, TypeOK, CallInv, HookInv
  <2>6. BuiltInv'
    BY <1>3, <2>1, <2>2, <2>3, SameConfig DEF Inv, BuiltInv
  <2>7. QED
    BY <2>2, <2>5, <2>6 DEF Inv
<1>4. QED
  BY <1>2, <1>3, GuestSteps

LEMMA RunSubscriberKeeps == Inv /\ RunSubscriber => Inv'
<1> SUFFICES ASSUME Inv, RunSubscriber PROVE Inv'
  OBVIOUS
<1>1. /\ pc = "run" /\ request.kind = "subscribe" /\ called' = called
      /\ pc' = "exited" /\ responses' = Append(responses, "subscriptions")
      /\ subs' = [k \in DOMAIN workflow |-> Subscription(workflow[k])]
      /\ subscribed' = workflow
      /\ UNCHANGED <<config, workflow, request, granted, executions>>
  BY GuestSteps
<1>2. /\ pc \notin Ends /\ pc' \in Ends /\ pc' # "returned"
      /\ responses = <<>> /\ called = <<>> /\ called' = <<>>
      /\ responses' = <<"subscriptions">>
  BY <1>1, ResponsesType DEF Ends, Inv, CallInv
<1>3. granted = 0
  <2>1. subs = <<>> /\ DOMAIN <<>> = {}
    BY <1>1, <1>2 DEF Inv, RequestInv
  <2>2. QED
    BY <2>1 DEF Inv, TypeOK
<1>4. DOMAIN subs' = DOMAIN subscribed'
  BY <1>1
<1>5. SubsInv'
  <2>1. \A k \in DOMAIN subs' : subs'[k] = Subscription(subscribed'[k])
    BY <1>1
  <2>2. QED
    BY <1>1, <1>4, <2>1, SameConfig DEF SubsInv
<1>6. TypeOK'
  <2>1. responses' \in {<<r>> : r \in Results}
    BY <1>2, ResponsesType
  <2>2. QED
    BY <1>1, <1>2, <1>3, <1>4, <2>1 DEF Inv, TypeOK
<1>7. RequestInv'
  BY <1>1, <1>2 DEF RequestInv, Ends
<1>8. BuiltInv'
  BY <1>1, SameConfig DEF Inv, BuiltInv, Built
<1>9. CallInv' /\ HookInv'
  BY <1>1, <1>2, <1>3 DEF CallInv, HookInv
<1>10. QED
  BY <1>5, <1>6, <1>7, <1>8, <1>9 DEF Inv

LEMMA RunPreHookKeeps == Inv /\ RunPreHook => Inv'
<1> SUFFICES ASSUME Inv, RunPreHook PROVE Inv'
  OBVIOUS
<1>1. pc = "run" /\ request.kind = "preHook" /\ called' = called
  BY GuestSteps
<1>2. CASE EndedNow
  BY <1>1, <1>2, EndedKeeps
<1>3. CASE /\ pc' = "exited" /\ responses' = Append(responses, "restrictions")
           /\ request.id \in DOMAIN workflow /\ WithPreHook(workflow[request.id])
           /\ granted' = request.id
           /\ UNCHANGED <<config, workflow, subscribed, request, subs, executions>>
  <2>1. /\ pc \notin Ends /\ pc' \in Ends /\ pc' # "returned"
        /\ responses = <<>> /\ called' = <<>>
        /\ responses' = <<"restrictions">>
        /\ request.id \in DOMAIN subs /\ subs[request.id].preHook
    BY <1>1, <1>3, ResponsesType DEF Ends, Inv, CallInv, RequestInv
  <2>2. SubsInv' /\ RequestInv' /\ (Built(subscribed) => Built(subscribed)')
    BY <1>3, <2>1, HostStays
  <2>3. BuiltInv'
    BY <1>3, <2>2, SameConfig DEF Inv, BuiltInv, Built
  <2>4. TypeOK'
    <3>1. responses' \in {<<r>> : r \in Results}
      BY <2>1, ResponsesType
    <3>2. QED
      BY <1>1, <1>3, <2>1, <3>1 DEF Inv, TypeOK
  <2>5. CallInv' /\ HookInv'
    BY <1>1, <1>3, <2>1 DEF CallInv, HookInv, WithPreHook
  <2>6. QED
    BY <2>2, <2>3, <2>4, <2>5 DEF Inv
<1>4. QED
  BY <1>2, <1>3, GuestSteps

LEMMA RunTriggerKeeps == Inv /\ RunTrigger => Inv'
<1> SUFFICES ASSUME Inv, RunTrigger PROVE Inv'
  OBVIOUS
<1>1. pc = "run" /\ request.kind = "trigger"
  BY GuestSteps
<1>2. CASE /\ request.id \in DOMAIN workflow
           /\ called' = Append(called, [handler |-> workflow[request.id],
                                        runtime |-> RuntimeOf(workflow[request.id])])
           /\ EndedNow
  BY <1>1, <1>2, EndedKeeps
<1>3. CASE /\ request.id \notin DOMAIN workflow
           /\ pc' = "returned"
           /\ UNCHANGED <<config, workflow, subscribed, request, subs, granted,
                          responses, called, executions>>
  <2>1. /\ pc \notin Ends /\ pc' \in Ends /\ responses = <<>> /\ called = <<>>
    BY <1>1, <1>3 DEF Ends, Inv, CallInv
  <2>2. SubsInv' /\ RequestInv' /\ (Built(subscribed) => Built(subscribed)')
    BY <1>3, <2>1, HostStays
  <2>3. BuiltInv'
    BY <1>3, <2>2, SameConfig DEF Inv, BuiltInv, Built
  <2>4. TypeOK' /\ CallInv' /\ HookInv'
    BY <1>1, <1>3, <2>1 DEF Inv, TypeOK, CallInv, HookInv
  <2>5. QED
    BY <2>2, <2>3, <2>4 DEF Inv
<1>4. QED
  BY <1>2, <1>3, GuestSteps

LEMMA StutterKeeps == Inv /\ UNCHANGED vars => Inv'
<1> SUFFICES ASSUME Inv, UNCHANGED vars PROVE Inv'
  OBVIOUS
<1>1. SubsInv' /\ BuiltInv'
  BY SameConfig DEF Inv, SubsInv, BuiltInv, Built, vars
<1>2. RequestInv'
  BY DEF Inv, RequestInv, EventsOf, PlacesOf, vars
<1>3. TypeOK' /\ CallInv' /\ HookInv'
  BY DEF Inv, TypeOK, CallInv, HookInv, vars
<1>4. QED
  BY <1>1, <1>2, <1>3 DEF Inv

LEMMA Invariant == Spec => []Inv
<1>1. Inv /\ [Next]_vars => Inv'
  BY AskKeeps, GetRunnerKeeps, InitFnKeeps, RunSubscriberKeeps, RunPreHookKeeps,
     RunTriggerKeeps, StutterKeeps DEF Next
<1>2. QED
  BY <1>1, InvInit, PTL DEF Spec

\* The variables keep their types.
THEOREM RunnerTypeCorrect == Spec => []TypeOK
<1>1. Inv => TypeOK
  BY DEF Inv
<1>2. QED
  BY <1>1, Invariant, PTL

-----------------------------------------------------------------------------
(* What follows from it.                                                   *)

\* The handlers of the lists are handlers.
LEMMA HandlersAreHandlers ==
  ASSUME TypeOK
  PROVE  \A k \in DOMAIN subscribed : IsHandler(subscribed[k])
<1>1. DOMAIN <<>> = {}
  OBVIOUS
<1>2. QED
  BY <1>1, RunnerAssumption DEF TypeOK

\* What a trigger's capability sends is what the trigger reads.
LEMMA EventsFit ==
  ASSUME NEW t \in AllTriggers(ChainSelectors)
  PROVE  EventOf(t.CapabilityID, t.Method) = t.NewT
<1>1. /\ CronTrigger.CapabilityID = "cron-trigger@1.0.0"
      /\ HttpTrigger.CapabilityID = "http-trigger@1.0.0-alpha"
      /\ BasicTrigger.CapabilityID = "basic-test-trigger@1.0.0"
      /\ BasicActionTrigger.CapabilityID = "basic-test-action-trigger@1.0.0"
      /\ \A u \in {CronTrigger, HttpTrigger, BasicTrigger, BasicActionTrigger} :
           u.Method = "Trigger"
  BY DEF CronTrigger, HttpTrigger, BasicTrigger, BasicActionTrigger, Trigger
<1>2. CASE t \in {CronTrigger, HttpTrigger, BasicTrigger, BasicActionTrigger}
  <2>1. /\ CronTrigger.NewT = "cron.Payload"
        /\ HttpTrigger.NewT = "http.Payload"
        /\ BasicTrigger.NewT = "basictrigger.Outputs"
        /\ BasicActionTrigger.NewT = "actionandtrigger.TriggerEvent"
    BY DEF CronTrigger, HttpTrigger, BasicTrigger, BasicActionTrigger, Trigger
  <2>3. EventOf(CronTrigger.CapabilityID, "Trigger") = "cron.Payload"
    BY <1>1 DEF EventOf
  <2>4. EventOf(HttpTrigger.CapabilityID, "Trigger") = "http.Payload"
    BY <1>1 DEF EventOf
  <2>5. EventOf(BasicTrigger.CapabilityID, "Trigger") = "basictrigger.Outputs"
    BY <1>1 DEF EventOf
  <2>6. EventOf(BasicActionTrigger.CapabilityID, "Trigger") = "actionandtrigger.TriggerEvent"
    BY <1>1 DEF EventOf
  <2>7. QED
    BY <1>1, <1>2, <2>1, <2>3, <2>4, <2>5, <2>6
<1>3. CASE \E s \in ChainSelectors : t = LogTrigger(s)
  <2>1. t.Method = "LogTrigger" /\ t.NewT = "evm.Log"
    BY <1>3 DEF LogTrigger, Trigger
  <2>2. QED
    BY <2>1 DEF EventOf
<1>4. QED
  BY <1>2, <1>3 DEF AllTriggers

\* A trigger reaches the handler that was subscribed for it.
THEOREM TriggersReach == Spec => []TriggersReachTheirHandler
<1>1. ASSUME Inv PROVE TriggersReachTheirHandler
  <2>1. SUFFICES ASSUME request.kind = "trigger", workflow = subscribed
                 PROVE  /\ pc # "returned"
                        /\ \A k \in DOMAIN called :
                             /\ called[k].handler.trigger.CapabilityID = subs[request.id].id
                             /\ called[k].handler.trigger.Method = subs[request.id].method
                             /\ request.event \in {called[k].handler.trigger.NewT, NoEvent}
    BY DEF TriggersReachTheirHandler
  <2>2. request.id \in DOMAIN subs /\ request.id \in DOMAIN workflow
    BY <1>1, <2>1 DEF Inv, RequestInv, SubsInv
  <2>3. pc # "returned"
    BY <1>1, <2>2 DEF Inv, CallInv
  <2> DEFINE h == subscribed[request.id]
  <2>4. subs[request.id].id = h.trigger.CapabilityID /\ subs[request.id].method = h.trigger.Method
    BY <1>1, <2>2 DEF Inv, SubsInv, Subscription
  <2>5. h.trigger \in AllTriggers(ChainSelectors)
    BY <1>1, <2>1, <2>2, HandlersAreHandlers DEF Inv, IsHandler
  <2>6. request.event \in {EventOf(h.trigger.CapabilityID, h.trigger.Method), NoEvent}
    BY <1>1, <2>1, <2>4 DEF Inv, RequestInv, EventsOf
  <2>7. request.event \in {h.trigger.NewT, NoEvent}
    BY <2>5, <2>6, EventsFit
  <2>8. \A k \in DOMAIN called : called[k].handler = h
    BY <1>1, <2>1 DEF Inv, TypeOK, CallInv
  <2>9. QED
    BY <2>3, <2>4, <2>7, <2>8
<1>2. QED
  BY <1>1, Invariant, PTL

\* A hook the host was told of is there, and no other is asked for.
THEOREM HooksFound == Spec => []HooksAreFound
<1>1. ASSUME Inv PROVE HooksAreFound
  <2>1. \A k \in DOMAIN subs : subs[k].preHook => WithPreHook(subscribed[k])
    BY <1>1 DEF Inv, SubsInv, Subscription
  <2>2. QED
    BY <1>1, <2>1 DEF Inv, HookInv, HooksAreFound
<1>2. QED
  BY <1>1, Invariant, PTL

\* The requirements of a TEE handler that was built are those of its
\* constraint, and admit what the config names when it is the config's.
LEMMA RequirementsMean ==
  ASSUME NEW h, IsHandler(h), IsTee(h), Parsed.ok, Constraint(h) # NoConstraint
  PROVE  /\ Requirements(h) = toRequirements(Constraint(h))
         /\ Requirements(h) # NoRequirements
         /\ h.tees = ConfigTees =>
              /\ config # Absent
              /\ Admits(Requirements(h)) = {p \in Places : Names(config, p)}
<1>1. Requirements(h) = toRequirements(Constraint(h))
  BY DEF Requirements, WithRequirements
<1>2. h.tees = ConfigTees =>
        /\ config # Absent /\ Parsed = UnmarshalTees(config)
        /\ UnmarshalTees(config).ok /\ Constraint(h) = UnmarshalTees(config).value
  BY DEF Parsed, Constraint, Ok
<1>3. Constraint(h).kind \in {"AnyTee", "AnyTeeInRegions", "OneOfTees"}
  <2>1. CASE h.tees = ConfigTees
    BY <1>2, <2>1, TeesMeanTheSame
  <2>2. CASE h.tees # ConfigTees
    BY <2>2 DEF IsHandler, IsTee, Constraint
  <2>3. QED
    BY <2>1, <2>2
<1>4. \A regions : AnyRegions(regions).item = "AnyRegions"
  BY DEF AnyRegions
<1>5. \A types : TeeTypesAndRegions(types).item = "TeeTypesAndRegions"
  BY DEF TeeTypesAndRegions
<1>6. NoRequirements.item = "none"
  BY DEF NoRequirements
<1>7. Requirements(h) # NoRequirements
  BY <1>1, <1>3, <1>4, <1>5, <1>6 DEF toRequirements
<1>8. h.tees = ConfigTees => Admits(Requirements(h)) = {p \in Places : Names(config, p)}
  BY <1>1, <1>2, TeesMeanTheSame
<1>9. QED
  BY <1>1, <1>2, <1>7, <1>8

\* A TEE handler runs where its requirements let it, with its TeeRuntime, and
\* the host was told of exactly what the config names.
THEOREM TeeHandlersInTee == Spec => []TeeHandlersGetTee
<1>1. ASSUME Inv PROVE TeeRuntimeIsGiven
  <2>1. \A k \in DOMAIN called : called[k].runtime = RuntimeOf(called[k].handler)
    <3>1. \A c : DOMAIN <<c>> = {1} /\ <<c>>[1] = c
      OBVIOUS
    <3>2. DOMAIN <<>> = {}
      OBVIOUS
    <3>3. QED
      BY <1>1, <3>1, <3>2 DEF Inv, CallInv
  <2>2. QED
    BY <2>1 DEF TeeRuntimeIsGiven, RuntimeOf, WithRequirements
<1>2. ASSUME Inv, NEW k \in DOMAIN subs
      PROVE  /\ subs[k] = Subscription(subscribed[k])
             /\ subs[k].requirements = Requirements(subscribed[k])
             /\ IsHandler(subscribed[k])
             /\ IsTee(subscribed[k]) =>
                  Parsed.ok /\ Constraint(subscribed[k]) # NoConstraint
  <2>1. k \in DOMAIN subscribed /\ subs[k] = Subscription(subscribed[k])
    BY <1>2 DEF Inv, SubsInv
  <2>2. subs[k].requirements = Requirements(subscribed[k])
    BY <2>1 DEF Subscription
  <2>3. QED
    BY <1>2, <2>1, <2>2, HandlersAreHandlers DEF Inv, BuiltInv, Built
<1>3. ASSUME Inv PROVE TeesAreTheConfigs
  <2>1. SUFFICES ASSUME NEW k \in DOMAIN subs
                 PROVE  /\ IsTee(subscribed[k]) <=> subs[k].requirements # NoRequirements
                        /\ subscribed[k].tees = ConfigTees =>
                             /\ config # Absent
                             /\ Admits(subs[k].requirements) =
                                  {p \in Places : Names(config, p)}
    BY DEF TeesAreTheConfigs
  <2>2. ~IsTee(subscribed[k]) => Requirements(subscribed[k]) = NoRequirements
    BY DEF Requirements
  <2>3. subscribed[k].tees = ConfigTees => IsTee(subscribed[k])
    BY DEF IsTee, ConfigTees, NoTees
  <2>4. QED
    BY <1>2, <1>3, <2>2, <2>3, RequirementsMean
<1>4. ASSUME Inv, workflow = subscribed, NEW k \in DOMAIN called
      PROVE  request.place \in IF IsTee(called[k].handler)
                                 THEN Admits(toRequirements(Constraint(called[k].handler)))
                                 ELSE {Don}
  <2> DEFINE h == subscribed[request.id]
  <2>1. /\ called[k].handler = h /\ request.kind = "trigger"
        /\ request.id \in DOMAIN subs
    BY <1>4 DEF Inv, TypeOK, CallInv, RequestInv
  <2>2. request.place \in PlacesOf("trigger", request.id)
    BY <1>4, <2>1 DEF Inv, RequestInv
  <2>3. /\ subs[request.id].requirements = Requirements(h)
        /\ IsHandler(h)
        /\ IsTee(h) => Parsed.ok /\ Constraint(h) # NoConstraint
    BY <1>2, <1>4, <2>1
  <2>4. CASE IsTee(h)
    <3>1. Requirements(h) = toRequirements(Constraint(h)) /\ Requirements(h) # NoRequirements
      BY <2>3, <2>4, RequirementsMean
    <3>2. QED
      BY <2>1, <2>2, <2>3, <2>4, <3>1 DEF PlacesOf
  <2>5. CASE ~IsTee(h)
    <3>1. Requirements(h) = NoRequirements
      BY <2>5 DEF Requirements
    <3>2. QED
      BY <2>1, <2>2, <2>3, <2>5, <3>1 DEF PlacesOf
  <2>6. QED
    BY <2>4, <2>5
<1>5. Inv => TeeHandlersGetTee
  BY <1>1, <1>3, <1>4 DEF TeeHandlersGetTee
<1>6. QED
  BY <1>5, Invariant, PTL

-----------------------------------------------------------------------------
(* When the workflow can be built.                                         *)

\* No handler is given the Tees of a config that has none.
TeesAreWritten ==
  Absent \in Configs => \A w \in Workflows : \A k \in DOMAIN w : w[k].tees # ConfigTees

LEMMA ConstraintsExist ==
  ASSUME TeesAreWritten, config \in Configs, Parsed.ok,
         NEW w \in Workflows, NEW k \in DOMAIN w, IsTee(w[k])
  PROVE  Constraint(w[k]) # NoConstraint
<1>1. CASE w[k].tees = ConfigTees
  <2>1. Parsed = UnmarshalTees(config)
    BY <1>1 DEF TeesAreWritten, Parsed
  <2>2. Parsed.value.kind \in {"AnyTee", "AnyTeeInRegions", "OneOfTees"}
    BY <2>1, TeesMeanTheSame
  <2>3. QED
    BY <1>1, <2>2 DEF Constraint, NoConstraint
<1>2. CASE w[k].tees # ConfigTees
  <2>1. w[k].tees.kind \in {"AnyTee", "AnyTeeInRegions", "OneOfTees"}
    BY <1>2, RunnerAssumption DEF IsHandler, IsTee
  <2>2. QED
    BY <1>2, <2>1 DEF Constraint, NoConstraint
<1>3. QED
  BY <1>1, <1>2

\* A workflow is built in every execution (cre/runner.go:5) when initFn reads no
\* secret and no handler is given Tees that the config leaves out: a config that
\* has them, whatever JSON they are, is refused or makes a constraint that is not
\* nil.  These two are all that makes the process panic while it is built.
THEOREM WorkflowsAreBuilt ==
  ASSUME ~ReadsSecrets, TeesAreWritten
  PROVE  Spec => InitFnDoesNotCrash
<1> DEFINE Builds == pc = "init" => pc' # "crashed"
<1>1. Inv /\ [Next]_vars => [Builds]_vars
  <2> SUFFICES ASSUME Inv, Next, pc = "init" PROVE pc' # "crashed"
    OBVIOUS
  <2>1. InitFn
    BY DEF Next, Ask, Ends, GetRunner, RunSubscriber, RunPreHook, RunTrigger
  <2>2. /\ config \in Configs /\ Parsed.ok
        /\ \A w \in Workflows : \A k \in DOMAIN w :
             IsTee(w[k]) => Constraint(w[k]) # NoConstraint
    BY ConstraintsExist DEF Inv, TypeOK, BuiltInv
  <2>3. ExitMarshalled("error") \/ pc' = "run"
    BY <2>1, <2>2 DEF InitFn
  <2>4. QED
    BY <2>3 DEF ExitMarshalled, Exit
<1>2. QED
  BY <1>1, Invariant, PTL DEF Spec, InitFnDoesNotCrash
=============================================================================
