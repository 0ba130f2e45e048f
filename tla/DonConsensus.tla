---------------------------- MODULE DonConsensus ----------------------------
(***************************************************************************)
(* The nodes of a DON run one workflow, each in its own guest, and meet in *)
(* the consensus capability: RunInNodeMode of cre/runtime.go over the      *)
(* runtimes of internal/sdkimpl/runtime.go, once per node.  The workflow's *)
(* DON code is the same everywhere and is a script here; what it does in   *)
(* node mode may differ from node to node.  The host (external) takes the  *)
(* requests of several nodes for one when they carry one id: so the ids,   *)
(* which every guest counts for itself, must stay in step.                 *)
(***************************************************************************)
EXTENDS ConsensusTags

CONSTANTS
  Nodes,
  Workflows,    \* what the DON code of a workflow does: sequences of Steps
  Kept,         \* what the fields that take part in consensus may hold
  None,
  Quorum,       \* observations after which the capability decides
  Matching,     \* equal values that decide
  Faulty,       \* bound: the nodes on which things may go wrong
  MaxSlips      \* bound: how often their functions use the DON runtime

\* A step of DON code: a capability call, secrets, a draw, or RunInNodeMode of
\* a function whose values have this shape and hold these, with the descriptor
\* of the aggregation it was given and what is set as its default.
NodeSteps ==
  [op : {"node"},
   shape : SUBSET [path : Seq(STRING), ignored : BOOLEAN],
   kept : SUBSET Kept,
   descriptor : [ok : BOOLEAN, nodes : SUBSET [path : Seq(STRING), agg : STRING]],
   default : {"none", "unwrappable", "given"}]
Steps == [op : {"call", "secrets", "rand"}] \cup NodeSteps

ASSUME WorkflowAssumption == Workflows \subseteq Seq(Steps)
ASSUME DonAssumption ==
  /\ IsFiniteSet(Nodes)
  /\ Quorum \in Nat /\ Matching \in Nat \ {0}
  /\ Faulty \subseteq Nodes /\ MaxSlips \in Nat

\* The capability waits for at least as many observations as it wants to agree.
ASSUME QuorumAssumption == Quorum >= Matching

\* What the function given to RunInNodeMode returns on a node: a value, an
\* error (a value that cannot be wrapped is one), or an error whose text is not
\* UTF-8, which can be observed and not marshalled.
Results ==
  [kind : {"value"}, kept : Kept]
    \cup [kind : {"error", "garbled"}, kept : {None}]

Outcomes ==
  [kind : {"value"}, kept : Kept]
    \cup [kind : {"default", "error", "unanswered"}, kept : {None}]

-----------------------------------------------------------------------------
\* observationFn calls the workflow's function only when the aggregation is
\* valid and its default can be wrapped.
Observable(step) == step.descriptor.ok /\ step.default # "unwrappable"

\* Of every step that is observed some field takes part, and none that does is
\* ignored: of the types of a workflow, those that have a field to observe and
\* no two fields under one name.
Remains(step) == {v \in step.shape : Covered(v.path, step.descriptor.nodes)}
ASSUME CarriesAssumption ==
  \A w \in Workflows : \A i \in DOMAIN w :
    w[i].op = "node" /\ Observable(w[i]) =>
      Remains(w[i]) # {} /\ \A v \in Remains(w[i]) : ~v.ignored

\* observationFn: a value goes without the fields that consensus ignores.  An
\* aggregation that is invalid, or whose default cannot be wrapped, is observed
\* as an error without a default; an error of the function keeps the default.
NoValue == {}
ObservedValue(step, n, result) ==
  IF result.kind = "value"
  THEN ClearIgnoredFields(ValueOf(step.shape, result.kept, n), step.descriptor.nodes)
  ELSE NoValue
ObservationWithoutDefaultOnError(step, n, result) ==
  [value |-> ObservedValue(step, n, result),
   default |-> step.default = "given" /\ result.kind = "value"]
Observation(step, n, result) ==
  [value |-> ObservedValue(step, n, result),
   default |-> step.default = "given" /\ Observable(step)]

Observations ==
  [value : SUBSET [path : Seq(STRING), holds : Kept \cup Nodes], default : BOOLEAN]

\* The ids of the node had not left the script when it made the request
\* (ok); result is history.
Requests ==
  [node : Nodes, id : Nat, step : Nat, ok : BOOLEAN,
   observation : Observations \cup {None}, result : Results \cup {None}]

Decisions == [id : Nat, from : SUBSET Nodes, outcome : Outcomes]

VARIABLES
  script,         \* of the workflow that all nodes run
  pc,             \* the step each node is at
  inNode,         \* is it in the function of RunInNodeMode?
  nextCallId,     \* of its DON runtime
  drawn,          \* how much of the DON random stream it has used
  slips,          \* history: how often its id counter left the script
  sent,           \* the requests the hosts took
  decided,        \* what the consensus capability answers, by id
  results         \* what the promise of RunInNodeMode gave each node

vars == <<script, pc, inNode, nextCallId, drawn, slips,
          sent, decided, results>>

TypeOK ==
  /\ script \in Workflows
  /\ pc \in [Nodes -> 1 .. Len(script) + 1]
  /\ inNode \in [Nodes -> BOOLEAN]
  /\ nextCallId \in [Nodes -> Nat]
  /\ drawn \in [Nodes -> Nat]
  /\ slips \in [Nodes -> Nat]
  /\ sent \subseteq Requests
  /\ decided \subseteq Decisions
  /\ results \subseteq [node : Nodes, step : Nat, id : Nat, outcome : Outcomes]

Init ==
  /\ script \in Workflows
  /\ pc = [n \in Nodes |-> 1]
  /\ inNode = [n \in Nodes |-> FALSE]
  /\ nextCallId = [n \in Nodes |-> 0]
  /\ drawn = [n \in Nodes |-> 0]
  /\ slips = [n \in Nodes |-> 0]
  /\ sent = {}
  /\ decided = {}
  /\ results = {}

-----------------------------------------------------------------------------
At(n, op) == pc[n] \in DOMAIN script /\ script[pc[n]].op = op

Advance(n) == pc' = [pc EXCEPT ![n] = @ + 1]

UseIdDown(n) == nextCallId' = [nextCallId EXCEPT ![n] = @ - 1]
UseId(n) == nextCallId' = [nextCallId EXCEPT ![n] = @ + 1]

Request(n, observation, result) ==
  [node |-> n, id |-> nextCallId[n] + 1, step |-> pc[n], ok |-> slips[n] = 0,
   observation |-> observation, result |-> result]

\* CallCapability, or GetSecrets, of the DON runtime in DON mode: the id is
\* used up whether or not the host takes the request.
DonCall(n) ==
  /\ At(n, "call") \/ At(n, "secrets")
  /\ UseId(n)
  /\ \/ sent' = sent \cup {Request(n, None, None)}
     \/ n \in Faulty /\ UNCHANGED sent       \* Call returned an error
  /\ Advance(n)
  /\ UNCHANGED <<script, inNode, drawn, slips, decided, results>>

\* A draw from the generator of the DON runtime.
DonDraw(n) ==
  /\ At(n, "rand")
  /\ drawn' = [drawn EXCEPT ![n] = @ + 1]
  /\ Advance(n)
  /\ UNCHANGED <<script, inNode, nextCallId, slips, sent, decided, results>>

EnterNodeMode(n) ==
  /\ At(n, "node")
  /\ ~inNode[n]
  /\ inNode' = [inNode EXCEPT ![n] = TRUE]
  /\ UNCHANGED <<script, pc, nextCallId, drawn, slips, sent, decided, results>>

RunsFunction(n) == inNode[n] /\ Observable(script[pc[n]])

\* The function calls a capability through its NodeRuntime, which counts ids
\* of its own: nothing of the DON runtime changes.
NodeCallOnDonCounter(n) ==
  /\ RunsFunction(n)
  /\ nextCallId[n] < pc[n]
  /\ UseId(n)
  /\ UNCHANGED <<script, pc, inNode, drawn, slips, sent, decided, results>>
NodeCall(n) ==
  /\ RunsFunction(n)
  /\ UNCHANGED vars

\* The function draws from the generator of its NodeRuntime: the copied base
\* has a source of its own, and nothing of the DON's changes.
NodeDrawOnDonStream(n) ==
  /\ RunsFunction(n)
  /\ drawn[n] = 0
  /\ drawn' = [drawn EXCEPT ![n] = 1]
  /\ UNCHANGED <<script, pc, inNode, nextCallId, slips, sent, decided, results>>
NodeDraw(n) ==
  /\ RunsFunction(n)
  /\ UNCHANGED vars

\* The function calls a capability through the DON runtime: the promise is an
\* error, and a DON id is gone.  (GetSecrets checks the mode first and uses
\* none; a draw panics.)
DonCallInNodeMode(n) ==
  /\ RunsFunction(n)
  /\ n \in Faulty /\ slips[n] < MaxSlips
  /\ UseId(n)
  /\ slips' = [slips EXCEPT ![n] = @ + 1]
  /\ UNCHANGED <<script, pc, inNode, drawn, sent, decided, results>>
-----------------------------------------------------------------------------
\* What the promise of RunInNodeMode gives a node for a step.
Gives(n, step, id, kind) ==
  results' = results \cup
    {[node |-> n, step |-> step, id |-> id, outcome |-> [kind |-> kind, kept |-> None]]}

\* The function returns and the runtime is back in DON mode.  The consensus
\* request is marshalled before an id is used, and then given to the host.
LeaveNodeMode(n, result) ==
  /\ inNode[n]
  /\ ~Observable(script[pc[n]]) => result = [kind |-> "error", kept |-> None]
  /\ result.kind = "value" => result.kept \in script[pc[n]].kept
  /\ inNode' = [inNode EXCEPT ![n] = FALSE]
  /\ Advance(n)
  /\ \/ /\ result.kind = "garbled" /\ n \in Faulty
        /\ slips' = [slips EXCEPT ![n] = @ + 1]
        /\ Gives(n, pc[n], 0, "error")
        /\ UNCHANGED <<nextCallId, sent>>
     \/ /\ result.kind # "garbled"
        /\ UseId(n)
        /\ sent' = sent \cup {Request(n, Observation(script[pc[n]], n, result), result)}
        /\ UNCHANGED <<slips, results>>
     \/ /\ result.kind # "garbled" /\ n \in Faulty
        /\ UseId(n)
        /\ Gives(n, pc[n], 0, "error")        \* Call returned an error
        /\ UNCHANGED <<slips, sent>>
  /\ UNCHANGED <<script, drawn, decided>>

Observed(id) == {r \in sent : r.id = id /\ r.observation # None}

Undecided(id) == \A d \in decided : d.id # id

\* The consensus capability (external): given enough observations under one
\* id, a value that enough of them have, else the default that enough of them
\* carry, else an error.
Aggregates(from) ==
  LET Agree(r) == {q \in from : q.observation.value = r.observation.value}
      agreed == {r \in from : /\ r.observation.value # NoValue
                              /\ Cardinality(Agree(r)) >= Matching}
      defaults == {r \in from : r.observation.default}
  IN  IF agreed # {} THEN [kind : {"value"}, kept : {r.result.kept : r \in agreed}]
      ELSE IF Cardinality(defaults) >= Matching
      THEN [kind : {"default"}, kept : {None}]
      ELSE [kind : {"error"}, kept : {None}]

Decide(id, from) ==
  /\ Cardinality(from) >= Quorum
  /\ \E outcome \in Aggregates(from) :
       decided' = decided \cup
         {[id |-> id, from |-> {r.node : r \in from}, outcome |-> outcome]}
  /\ UNCHANGED <<script, pc, inNode, nextCallId, drawn, slips, sent, results>>

Decides ==
  \E id \in {r.id : r \in sent} :
    Undecided(id) /\ \E from \in SUBSET Observed(id) : Decide(id, from)

AwaitedIdOfCounter(r) == nextCallId[r.node]
AwaitedId(r) == r.id

Pending(r) ==
  /\ r.observation # None
  /\ ~ \E x \in results : x.node = r.node /\ x.step = r.step

\* Await of the promise of RunInNodeMode: the host's answer to its id.
AwaitConsensus(n) ==
  /\ \E r \in sent, d \in decided :
       /\ r.node = n
       /\ Pending(r)
       /\ d.id = AwaitedId(r)
       /\ results' = results \cup
            {[node |-> n, step |-> r.step, id |-> r.id, outcome |-> d.outcome]}
  /\ UNCHANGED <<script, pc, inNode, nextCallId, drawn, slips, sent, decided>>

\* The host gives up waiting, or its answer is lost.
AwaitFails(n) ==
  /\ n \in Faulty
  /\ \E r \in sent :
       /\ r.node = n
       /\ Pending(r)
       /\ Gives(n, r.step, r.id, "unanswered")
  /\ UNCHANGED <<script, pc, inNode, nextCallId, drawn, slips, sent, decided>>

\* The workflow is through.
Done ==
  /\ \A n \in Nodes : pc[n] = Len(script) + 1
  /\ UNCHANGED vars

Next ==
  \/ \E n \in Nodes :
       \/ DonCall(n) \/ DonDraw(n) \/ EnterNodeMode(n)
       \/ NodeCall(n) \/ NodeDraw(n) \/ DonCallInNodeMode(n)
       \/ \E result \in Results : LeaveNodeMode(n, result)
       \/ AwaitConsensus(n) \/ AwaitFails(n)
  \/ Decides
  \/ Done

Spec == Init /\ [][Next]_vars

\* The capability decides when it can, and where nothing goes wrong the workflow
\* awaits what it asked for.  No node is obliged to go on, and no host to take a request.
Fairness == WF_vars(Decides) /\ \A n \in Nodes \ Faulty : WF_vars(AwaitConsensus(n))

FairSpec == Spec /\ Fairness
-----------------------------------------------------------------------------
\* Requests of two nodes carry one id exactly when they are of one step of the
\* workflow, whatever the nodes did in node mode, as long as neither used its
\* DON runtime there nor failed to marshal an observation.
Lockstep ==
  \A r, q \in sent : r.ok /\ q.ok => (r.id = q.id <=> r.step = q.step)

\* Two nodes at one step have used equally much of the DON random stream:
\* they draw the same numbers from it, even when their ids have come apart.
SameRandom ==
  \A m, n \in Nodes : pc[m] = pc[n] => drawn[m] = drawn[n]

\* The outcome that the results of the functions call for.
Expected(from) ==
  LET step == script[(CHOOSE r \in from : TRUE).step]
      Got(k) == {r \in from : r.result = [kind |-> "value", kept |-> k]}
      agreed == {k \in Kept : Cardinality(Got(k)) >= Matching}
  IN  IF agreed # {} THEN [kind : {"value"}, kept : agreed]
      ELSE IF step.default = "given" /\ Observable(step)
      THEN [kind : {"default"}, kept : {None}]
      ELSE [kind : {"error"}, kept : {None}]

\* What RunInNodeMode gives a node whose ids are in step is the aggregate of
\* the functions' results at that very step, from the nodes that contributed,
\* and fields the workflow ignores have no part in it: they may differ on every
\* node.  Errors count for the default, unless the aggregation is invalid.
OutcomeIsExpected ==
  \A x \in results, d \in decided :
    LET from == {r \in sent : r.id = d.id /\ r.node \in d.from}
    IN  /\ x.id = d.id
        /\ x.outcome.kind # "unanswered"
        /\ \A r \in from : r.ok
        /\ \E r \in sent : r.ok /\ r.node = x.node /\ r.id = x.id
        => /\ \A r \in from : r.step = x.step
           /\ x.outcome \in Expected(from)

\* A type that leads back to itself, directly or through what it is made of,
\* has no descriptor: reading the tags ends, in an error, and is not cut short
\* into a descriptor for part of the value (maxConsensusDepth).  Told when the
\* workflow starts.
SelfReferenceIsRefused ==
  (\A n \in Nodes : pc[n] = 1 /\ ~inNode[n]) =>
    \A t \in TypeNames : SelfReferential(t) => ~Descriptor("tags", t).ok

\* Once the nodes on which nothing goes wrong have asked for the outcome of a
\* step, they get one: what happens on the others cannot keep them waiting.
AgreementIsReached ==
  \A s \in 1 .. 3 :
    (\A n \in Nodes \ Faulty : \E r \in sent : r.node = n /\ r.step = s /\ r.observation # None)
      ~> (\A n \in Nodes \ Faulty : \E x \in results : x.node = n /\ x.step = s)
=============================================================================
