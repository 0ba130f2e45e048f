------------------------- MODULE DonConsensusProofs -------------------------
(***************************************************************************)
(* What keeps the nodes of a DON together, for every workflow, every       *)
(* number of nodes and every choice of the faulty ones: requests of one    *)
(* step carry one id, and of two steps two, every node draws the same      *)
(* random numbers, and what a node is given is the aggregate of what the   *)
(* functions returned at that step. The argument counts: an id is what is  *)
(* left of the script behind the node, not what the node did in node mode. *)
(* So the honest nodes ask under one id, and a quorum of them is answered. *)
(***************************************************************************)
EXTENDS DonConsensus, ConsensusTagsProofs, FiniteSetTheorems, TLAPS

LEMMA ScriptType ==
  ASSUME script \in Workflows
  PROVE  /\ script \in Seq(Steps)
         /\ Len(script) \in Nat /\ DOMAIN script = 1 .. Len(script)
         /\ \A i \in DOMAIN script : script[i].op = "node" => script[i] \in NodeSteps
<1>1. script \in Seq(Steps)
  BY WorkflowAssumption
<1>2. Len(script) \in Nat /\ DOMAIN script = 1 .. Len(script)
  BY <1>1
<1>3. \A i \in DOMAIN script : script[i].op = "node" => script[i] \in NodeSteps
  BY <1>1 DEF Steps
<1>4. QED
  BY <1>1, <1>2, <1>3

-----------------------------------------------------------------------------
\* The members of a set of steps that come before step k.
Before(S, k) == {j \in S : j < k}

LEMMA BeforeType ==
  ASSUME NEW len \in Nat, NEW S \in SUBSET (1 .. len), NEW k \in Nat
  PROVE  IsFiniteSet(Before(S, k)) /\ Cardinality(Before(S, k)) \in Nat
<1>1. IsFiniteSet(1 .. len)
  BY FS_Interval
<1>2. Before(S, k) \in SUBSET (1 .. len)
  BY DEF Before
<1>3. QED
  BY <1>1, <1>2, FS_Subset, FS_CardinalityType

\* Passing a step counts it when it is one of the set.
LEMMA BeforeNext ==
  ASSUME NEW len \in Nat, NEW S \in SUBSET (1 .. len), NEW k \in Nat
  PROVE  Cardinality(Before(S, k + 1)) =
           IF k \in S THEN Cardinality(Before(S, k)) + 1 ELSE Cardinality(Before(S, k))
<1>0. /\ \A j \in S : j \in Nat /\ (j < k + 1 <=> j < k \/ j = k)
      /\ ~(k < k)
  OBVIOUS
<1>1. CASE k \in S
  <2>1. Before(S, k + 1) = Before(S, k) \cup {k} /\ k \notin Before(S, k)
    BY <1>0, <1>1 DEF Before
  <2>2. QED
    BY <1>1, <2>1, BeforeType, FS_AddElement
<1>2. CASE k \notin S
  <2>1. Before(S, k + 1) = Before(S, k)
    BY <1>0, <1>2 DEF Before
  <2>2. QED
    BY <1>2, <2>1
<1>3. QED
  BY <1>1, <1>2

LEMMA BeforeFirst ==
  ASSUME NEW len \in Nat, NEW S \in SUBSET (1 .. len)
  PROVE  Cardinality(Before(S, 1)) = 0
<1>0. \A j \in S : ~(j < 1)
  OBVIOUS
<1>1. Before(S, 1) = {}
  BY <1>0 DEF Before
<1>2. QED
  BY <1>1, FS_EmptySet

\* Of two members the later has more of them before it.
LEMMA BeforeGrows ==
  ASSUME NEW len \in Nat, NEW S \in SUBSET (1 .. len),
         NEW i \in S, NEW k \in S, i < k
  PROVE  Cardinality(Before(S, i)) < Cardinality(Before(S, k))
<1>0. \A j \in S : j \in Nat /\ (j < i => j < k) /\ ~(i < i)
  OBVIOUS
<1>1. Before(S, i) \cup {i} \in SUBSET Before(S, k) /\ i \notin Before(S, i)
  BY <1>0 DEF Before
<1>2. IsFiniteSet(Before(S, i)) /\ IsFiniteSet(Before(S, k))
  BY <1>0, BeforeType
<1>3. /\ Cardinality(Before(S, i) \cup {i}) = Cardinality(Before(S, i)) + 1
      /\ Cardinality(Before(S, i)) \in Nat /\ Cardinality(Before(S, k)) \in Nat
  BY <1>1, <1>2, FS_AddElement, FS_CardinalityType
<1>4. Cardinality(Before(S, i) \cup {i}) <= Cardinality(Before(S, k))
  BY <1>1, <1>2, FS_Subset
<1>5. QED
  BY <1>3, <1>4

-----------------------------------------------------------------------------
\* The steps of the workflow that use up a DON id, and those that draw.
IdSteps == {i \in DOMAIN script : script[i].op # "rand"}
DrawSteps == {i \in DOMAIN script : script[i].op = "rand"}

IdsBefore(k) == Cardinality(Before(IdSteps, k))
DrawsBefore(k) == Cardinality(Before(DrawSteps, k))

LEMMA StepsOfScript ==
  ASSUME script \in Workflows
  PROVE  /\ IdSteps \in SUBSET (1 .. Len(script))
         /\ DrawSteps \in SUBSET (1 .. Len(script))
         /\ Len(script) \in Nat
BY ScriptType DEF IdSteps, DrawSteps

\* Only a node at a RunInNodeMode step is in node mode.
NodeModeAtNode == \A n \in Nodes : inNode[n] => At(n, "node")

\* A value was observed where the function returned one.
ObservedResults ==
  \A r \in sent : r.observation # None =>
    /\ r.result \in Results
    /\ r.observation.value # NoValue => r.result.kind = "value"

Typed == TypeOK /\ NodeModeAtNode /\ ObservedResults

\* The id counter of a node that never slipped is the number of steps behind
\* it that use one, and a request carries the next.
IdsCountSteps ==
  /\ \A n \in Nodes : slips[n] = 0 => nextCallId[n] = IdsBefore(pc[n])
  /\ \A r \in sent : r.ok => r.step \in IdSteps /\ r.id = IdsBefore(r.step) + 1

\* So is the use of the random stream, whether the node slipped or not.
DrawsCountSteps == \A n \in Nodes : drawn[n] = DrawsBefore(pc[n])

-----------------------------------------------------------------------------
LEMMA TypedInit == Init => Typed
<1> SUFFICES ASSUME Init PROVE Typed
  OBVIOUS
<1>1. Len(script) \in Nat
  BY ScriptType DEF Init
<1>2. 1 \in 1 .. Len(script) + 1
  BY <1>1
<1>3. TypeOK
  BY <1>2 DEF Init, TypeOK
<1>4. QED
  BY <1>3 DEF Init, Typed, NodeModeAtNode, ObservedResults

\* Where a node is, when it is at a step, and what advancing does.
LEMMA AtType ==
  ASSUME TypeOK, NEW n \in Nodes, NEW op, At(n, op)
  PROVE  /\ pc[n] \in 1 .. Len(script) /\ pc[n] \in DOMAIN script
         /\ pc[n] + 1 \in 1 .. Len(script) + 1
         /\ Len(script) \in Nat
BY ScriptType DEF TypeOK, At

LEMMA AdvanceType ==
  ASSUME TypeOK, NEW n \in Nodes, pc[n] + 1 \in 1 .. Len(script) + 1,
         Advance(n), script' = script
  PROVE  pc' \in [Nodes -> 1 .. Len(script') + 1]
BY DEF TypeOK, Advance

LEMMA UseIdType ==
  ASSUME TypeOK, NEW n \in Nodes, UseId(n)
  PROVE  nextCallId' \in [Nodes -> Nat]
BY DEF TypeOK, UseId

LEMMA RequestType ==
  ASSUME TypeOK, NEW n \in Nodes, NEW o \in Observations \cup {None},
         NEW result \in Results \cup {None}
  PROVE  Request(n, o, result) \in Requests
<1>1. nextCallId[n] + 1 \in Nat /\ pc[n] \in Nat
  BY ScriptType DEF TypeOK
<1>2. QED
  BY <1>1 DEF Request, Requests

LEMMA GivesType ==
  ASSUME TypeOK, NEW n \in Nodes, NEW step \in Nat, NEW id \in Nat,
         NEW kind \in {"error", "unanswered"}, Gives(n, step, id, kind)
  PROVE  results' \subseteq [node : Nodes, step : Nat, id : Nat, outcome : Outcomes]
<1>1. [kind |-> kind, kept |-> None] \in Outcomes
  BY DEF Outcomes
<1>2. QED
  BY <1>1 DEF TypeOK, Gives

\* What the capability makes of observations that were sent.
LEMMA AggregatesType ==
  ASSUME Typed, NEW id, NEW from \in SUBSET Observed(id)
  PROVE  Aggregates(from) \subseteq Outcomes
<1> DEFINE Agree(r) == {q \in from : q.observation.value = r.observation.value}
           agreed == {r \in from : /\ r.observation.value # NoValue
                                   /\ Cardinality(Agree(r)) >= Matching}
<1>1. \A r \in agreed : r.result.kept \in Kept
  <2> SUFFICES ASSUME NEW r \in agreed PROVE r.result.kept \in Kept
    OBVIOUS
  <2>1. r \in sent /\ r.observation # None /\ r.observation.value # NoValue
    BY DEF Observed
  <2>2. r.result \in Results /\ r.result.kind = "value"
    BY <2>1 DEF Typed, ObservedResults
  <2>3. QED
    BY <2>2 DEF Results
<1>2. [kind : {"value"}, kept : {r.result.kept : r \in agreed}] \subseteq Outcomes
  BY <1>1 DEF Outcomes
<1>3. /\ [kind : {"default"}, kept : {None}] \subseteq Outcomes
      /\ [kind : {"error"}, kept : {None}] \subseteq Outcomes
  BY DEF Outcomes
<1>4. QED
  BY <1>2, <1>3 DEF Aggregates

\* What is observed keeps the paths of the function's values.
LEMMA ObservationType ==
  ASSUME NEW step \in NodeSteps, NEW n \in Nodes, NEW result \in Results
  PROVE  Observation(step, n, result) \in Observations
<1> DEFINE Held == [path : Seq(STRING), holds : Kept \cup Nodes]
           value == ValueOf(step.shape, result.kept, n)
<1>1. ASSUME result.kind = "value"
      PROVE  ClearIgnoredFields(value, step.descriptor.nodes) \in SUBSET Held
  <2>1. result.kept \in Kept
    BY <1>1 DEF Results
  <2>2. \A v \in step.shape : v.path \in Seq(STRING)
    BY DEF NodeSteps
  <2>3. value \in SUBSET Held
    BY <2>1, <2>2 DEF ValueOf
  <2>4. QED
    BY <2>3 DEF ClearIgnoredFields
<1>2. ObservedValue(step, n, result) \in SUBSET Held
  BY <1>1 DEF ObservedValue, NoValue
<1>3. QED
  BY <1>2 DEF Observation, Observations

\* Of a request with an observation, in a state where nothing else is new.
LEMMA ObservedGrows ==
  ASSUME ObservedResults, NEW n \in Nodes, NEW step, NEW result \in Results,
         sent' = sent \cup {Request(n, Observation(step, n, result), result)}
  PROVE  ObservedResults'
<1>1. Observation(step, n, result).value # NoValue => result.kind = "value"
  BY DEF Observation, ObservedValue
<1>2. QED
  BY <1>1 DEF ObservedResults, Request

LEMMA TypedStep == Typed /\ [Next]_vars => Typed'
<1> SUFFICES ASSUME Typed, [Next]_vars PROVE Typed'
  OBVIOUS
<1> USE DEF Typed
<1>1. CASE UNCHANGED vars
  BY <1>1 DEF vars, TypeOK, NodeModeAtNode, ObservedResults, At
<1>2. ASSUME NEW n \in Nodes, DonCall(n) PROVE Typed'
  <2>1. /\ pc' \in [Nodes -> 1 .. Len(script') + 1]
        /\ nextCallId' \in [Nodes -> Nat]
    BY <1>2, AtType, AdvanceType, UseIdType DEF DonCall
  <2>2. Request(n, None, None) \in Requests
    BY RequestType
  <2>3. TypeOK'
    BY <1>2, <2>1, <2>2 DEF DonCall, TypeOK
  <2>4. ~inNode[n]
    BY <1>2 DEF DonCall, NodeModeAtNode, At
  <2>5. NodeModeAtNode'
    BY <1>2, <2>4 DEF DonCall, NodeModeAtNode, At, Advance, TypeOK
  <2>6. ObservedResults'
    BY <1>2 DEF DonCall, ObservedResults, Request
  <2>7. QED
    BY <2>3, <2>5, <2>6
<1>3. ASSUME NEW n \in Nodes, DonDraw(n) PROVE Typed'
  <2>1. pc' \in [Nodes -> 1 .. Len(script') + 1]
    BY <1>3, AtType, AdvanceType DEF DonDraw
  <2>2. TypeOK'
    <3>1. drawn' \in [Nodes -> Nat]
      BY <1>3 DEF DonDraw, TypeOK
    <3>2. UNCHANGED <<script, inNode, nextCallId, slips, sent, decided, results>>
      BY <1>3 DEF DonDraw
    <3>3. QED
      BY <2>1, <3>1, <3>2 DEF TypeOK
  <2>3. ~inNode[n]
    BY <1>3 DEF DonDraw, NodeModeAtNode, At
  <2>4. NodeModeAtNode'
    BY <1>3, <2>3 DEF DonDraw, NodeModeAtNode, At, Advance, TypeOK
  <2>5. QED
    BY <1>3, <2>2, <2>4 DEF DonDraw, ObservedResults
<1>4. ASSUME NEW n \in Nodes, EnterNodeMode(n) PROVE Typed'
  BY <1>4
  DEF EnterNodeMode, TypeOK, NodeModeAtNode, ObservedResults, At
<1>5. ASSUME NEW n \in Nodes, NodeCall(n) \/ NodeDraw(n) PROVE Typed'
  BY <1>5, <1>1 DEF NodeCall, NodeDraw
<1>6. ASSUME NEW n \in Nodes, DonCallInNodeMode(n) PROVE Typed'
  <2>1. nextCallId' \in [Nodes -> Nat]
    BY <1>6, UseIdType DEF DonCallInNodeMode
  <2>2. slips' \in [Nodes -> Nat]
    BY <1>6 DEF DonCallInNodeMode, TypeOK
  <2>3. UNCHANGED <<script, pc, inNode, drawn, sent, decided, results>>
    BY <1>6 DEF DonCallInNodeMode
  <2>4. TypeOK'
    BY <2>1, <2>2, <2>3 DEF TypeOK
  <2>5. QED
    BY <2>3, <2>4 DEF NodeModeAtNode, ObservedResults, At
<1>7. ASSUME NEW n \in Nodes, NEW result \in Results, LeaveNodeMode(n, result)
      PROVE  Typed'
  <2>1. At(n, "node") /\ inNode[n]
    BY <1>7 DEF LeaveNodeMode, NodeModeAtNode
  <2>2. pc' \in [Nodes -> 1 .. Len(script') + 1]
    BY <1>7, <2>1, AtType, AdvanceType DEF LeaveNodeMode
  <2>3. NodeModeAtNode'
    BY <1>7 DEF LeaveNodeMode, NodeModeAtNode, At, Advance, TypeOK
  <2>4. pc[n] \in Nat /\ script[pc[n]] \in NodeSteps
    <3>1. pc[n] \in 1 .. Len(script) /\ pc[n] \in DOMAIN script /\ Len(script) \in Nat
      BY <2>1, AtType
    <3>2. script \in Workflows /\ script[pc[n]].op = "node"
      BY <2>1 DEF At, TypeOK
    <3>3. QED
      BY <3>1, <3>2, ScriptType
  <2>5. CASE UNCHANGED <<nextCallId, sent>>
    <3>1. slips' \in [Nodes -> Nat] /\ Gives(n, pc[n], 0, "error")
      BY <1>7, <2>5 DEF LeaveNodeMode, TypeOK, UseId
    <3>2. results' \subseteq [node : Nodes, step : Nat, id : Nat, outcome : Outcomes]
      BY <2>4, <3>1, GivesType
    <3>3. TypeOK'
      BY <1>7, <2>2, <2>5, <3>1, <3>2 DEF LeaveNodeMode, TypeOK
    <3>4. QED
      BY <2>3, <2>5, <3>3 DEF ObservedResults
  <2>6. CASE /\ UseId(n)
             /\ sent' = sent \cup {Request(n, Observation(script[pc[n]], n, result), result)}
             /\ UNCHANGED <<slips, results>>
    <3>1. Observation(script[pc[n]], n, result) \in Observations
      BY <2>4, ObservationType
    <3>2. Request(n, Observation(script[pc[n]], n, result), result) \in Requests
      BY <3>1, RequestType
    <3>3. TypeOK'
      BY <1>7, <2>2, <2>6, <3>2, UseIdType DEF LeaveNodeMode, TypeOK
    <3>4. QED
      BY <2>3, <2>6, <3>3, ObservedGrows
  <2>7. CASE UseId(n) /\ Gives(n, pc[n], 0, "error") /\ UNCHANGED <<slips, sent>>
    <3>1. results' \subseteq [node : Nodes, step : Nat, id : Nat, outcome : Outcomes]
      BY <2>4, <2>7, GivesType
    <3>2. TypeOK'
      BY <1>7, <2>2, <2>7, <3>1, UseIdType DEF LeaveNodeMode, TypeOK
    <3>3. QED
      BY <2>3, <2>7, <3>2 DEF ObservedResults
  <2>8. QED
    BY <1>7, <2>5, <2>6, <2>7 DEF LeaveNodeMode
<1>8. ASSUME NEW n \in Nodes, AwaitConsensus(n) PROVE Typed'
  <2>1. PICK r \in sent, d \in decided :
          results' = results \cup
            {[node |-> n, step |-> r.step, id |-> r.id, outcome |-> d.outcome]}
    BY <1>8 DEF AwaitConsensus
  <2>2. r.step \in Nat /\ r.id \in Nat /\ d.outcome \in Outcomes
    BY DEF TypeOK, Requests, Decisions
  <2>3. results' \subseteq [node : Nodes, step : Nat, id : Nat, outcome : Outcomes]
    BY <2>1, <2>2 DEF TypeOK
  <2>4. QED
    BY <1>8, <2>3
    DEF AwaitConsensus, TypeOK, NodeModeAtNode, ObservedResults, At
<1>9. ASSUME NEW n \in Nodes, AwaitFails(n) PROVE Typed'
  <2>1. PICK r \in sent : Gives(n, r.step, r.id, "unanswered")
    BY <1>9 DEF AwaitFails
  <2>2. r.step \in Nat /\ r.id \in Nat
    BY DEF TypeOK, Requests
  <2>3. results' \subseteq [node : Nodes, step : Nat, id : Nat, outcome : Outcomes]
    BY <2>1, <2>2, GivesType
  <2>4. QED
    BY <1>9, <2>3
    DEF AwaitFails, TypeOK, NodeModeAtNode, ObservedResults, At
<1>10. ASSUME Decides PROVE Typed'
  <2>1. PICK r \in sent : \E from \in SUBSET Observed(r.id) : Decide(r.id, from)
    BY <1>10 DEF Decides
  <2>2. PICK from \in SUBSET Observed(r.id) : Decide(r.id, from)
    BY <2>1
  <2>3. PICK outcome \in Aggregates(from) :
          decided' = decided \cup
            {[id |-> r.id, from |-> {q.node : q \in from}, outcome |-> outcome]}
    BY <2>2 DEF Decide
  <2>4. outcome \in Outcomes
    BY <2>3, AggregatesType
  <2>5. r.id \in Nat /\ {q.node : q \in from} \subseteq Nodes
    BY DEF TypeOK, Requests, Observed
  <2>6. decided' \subseteq Decisions
    BY <2>3, <2>4, <2>5 DEF TypeOK, Decisions
  <2>7. QED
    BY <2>2, <2>6
    DEF Decide, TypeOK, NodeModeAtNode, ObservedResults, At
<1>11. ASSUME Done PROVE Typed'
  BY <1>11, <1>1 DEF Done
<1>12. QED
  BY <1>1, <1>2, <1>3, <1>4, <1>5, <1>6, <1>7, <1>8, <1>9, <1>10, <1>11 DEF Next

\* Every variable of the DON keeps its type.
THEOREM DonTypeCorrect == Spec => []TypeOK
<1>1. Typed => TypeOK
  BY DEF Typed
<1>2. QED
  BY <1>1, TypedInit, TypedStep, PTL DEF Spec

-----------------------------------------------------------------------------
\* What passing a step does to the two counts.
LEMMA CountsPass ==
  ASSUME TypeOK, NEW n \in Nodes
  PROVE  /\ pc[n] \in Nat
         /\ IdsBefore(pc[n]) \in Nat /\ DrawsBefore(pc[n]) \in Nat
         /\ IdsBefore(pc[n] + 1) =
              IF pc[n] \in IdSteps THEN IdsBefore(pc[n]) + 1 ELSE IdsBefore(pc[n])
         /\ DrawsBefore(pc[n] + 1) =
              IF pc[n] \in DrawSteps THEN DrawsBefore(pc[n]) + 1 ELSE DrawsBefore(pc[n])
<1>1. pc[n] \in Nat /\ script \in Workflows
  BY ScriptType DEF TypeOK
<1>2. QED
  BY <1>1, StepsOfScript, BeforeType, BeforeNext DEF IdsBefore, DrawsBefore

LEMMA CountsStay ==
  ASSUME script' = script
  PROVE  /\ IdSteps' = IdSteps /\ DrawSteps' = DrawSteps
         /\ \A k : IdsBefore(k)' = IdsBefore(k) /\ DrawsBefore(k)' = DrawsBefore(k)
BY DEF IdSteps, DrawSteps, IdsBefore, DrawsBefore

LEMMA CountsInit == Init => IdsCountSteps /\ DrawsCountSteps
<1> SUFFICES ASSUME Init PROVE IdsCountSteps /\ DrawsCountSteps
  OBVIOUS
<1>1. IdsBefore(1) = 0 /\ DrawsBefore(1) = 0
  BY StepsOfScript, BeforeFirst DEF Init, IdsBefore, DrawsBefore
<1>2. QED
  BY <1>1 DEF Init, IdsCountSteps, DrawsCountSteps

\* A node that passes a step which uses an id counts it, and asks with it.
LEMMA IdStepCounts ==
  ASSUME Typed, IdsCountSteps, NEW n \in Nodes, NEW o, NEW result,
         pc[n] \in IdSteps, script' = script,
         UseId(n), Advance(n), UNCHANGED slips,
         sent' \in {sent, sent \cup {Request(n, o, result)}}
  PROVE  IdsCountSteps'
<1>1. ASSUME NEW m \in Nodes, slips'[m] = 0
      PROVE  nextCallId'[m] = IdsBefore(pc'[m])
  <2>1. nextCallId[m] = IdsBefore(pc[m])
    BY <1>1 DEF IdsCountSteps
  <2>2. CASE m = n
    BY <2>1, <2>2, CountsPass DEF UseId, Advance, Typed, TypeOK
  <2>3. CASE m # n
    BY <2>1, <2>3 DEF UseId, Advance, Typed, TypeOK
  <2>4. QED
    BY <2>2, <2>3
<1>2. ASSUME NEW r \in sent', r.ok
      PROVE  r.step \in IdSteps /\ r.id = IdsBefore(r.step) + 1
  <2>1. CASE r \in sent
    BY <1>2, <2>1 DEF IdsCountSteps
  <2>2. CASE r = Request(n, o, result)
    BY <1>2, <2>2 DEF Request, IdsCountSteps
  <2>3. QED
    BY <1>2, <2>1, <2>2
<1>3. QED
  BY <1>1, <1>2, CountsStay DEF IdsCountSteps

LEMMA CountsStep ==
  Typed /\ IdsCountSteps /\ DrawsCountSteps /\ [Next]_vars
    => IdsCountSteps' /\ DrawsCountSteps'
<1> SUFFICES ASSUME Typed, IdsCountSteps, DrawsCountSteps, [Next]_vars
             PROVE  IdsCountSteps' /\ DrawsCountSteps'
  OBVIOUS
<1>a. TypeOK
  BY DEF Typed
<1>1. CASE UNCHANGED <<script, pc, nextCallId, drawn, slips, sent>>
  BY <1>1, CountsStay DEF IdsCountSteps, DrawsCountSteps
<1>2. ASSUME NEW n \in Nodes, UNCHANGED <<script, drawn>>, Advance(n),
             pc[n] \in DOMAIN script, script[pc[n]].op # "rand"
      PROVE  DrawsCountSteps'
  <2>1. pc[n] \notin DrawSteps
    BY <1>2 DEF DrawSteps
  <2>2. QED
    BY <1>a, <1>2, <2>1, CountsPass, CountsStay DEF Advance, DrawsCountSteps, TypeOK
<1>3. ASSUME NEW n \in Nodes, DonCall(n) PROVE IdsCountSteps' /\ DrawsCountSteps'
  <2>1. pc[n] \in DOMAIN script /\ script[pc[n]].op # "rand" /\ pc[n] \in IdSteps
    BY <1>3 DEF DonCall, At, IdSteps
  <2>2. sent' \in {sent, sent \cup {Request(n, None, None)}}
    BY <1>3 DEF DonCall
  <2>3. QED
    BY <1>2, <1>3, <2>1, <2>2, IdStepCounts DEF DonCall
<1>4. ASSUME NEW n \in Nodes, DonDraw(n) PROVE IdsCountSteps' /\ DrawsCountSteps'
  <2>1. pc[n] \in DrawSteps /\ pc[n] \notin IdSteps
    BY <1>4 DEF DonDraw, At, DrawSteps, IdSteps
  <2>2. DrawsCountSteps'
    BY <1>a, <1>4, <2>1, CountsPass, CountsStay
    DEF DonDraw, Advance, DrawsCountSteps, TypeOK
  <2>3. \A m \in Nodes : IdsBefore(pc'[m]) = IdsBefore(pc[m])
    BY <1>a, <1>4, <2>1, CountsPass DEF DonDraw, Advance, TypeOK
  <2>4. IdsCountSteps'
    BY <1>4, <2>3, CountsStay DEF DonDraw, IdsCountSteps
  <2>5. QED
    BY <2>2, <2>4
<1>5. ASSUME NEW n \in Nodes, EnterNodeMode(n) PROVE IdsCountSteps' /\ DrawsCountSteps'
  BY <1>1, <1>5 DEF EnterNodeMode
<1>6. ASSUME NEW n \in Nodes, NodeCall(n) \/ NodeDraw(n)
      PROVE  IdsCountSteps' /\ DrawsCountSteps'
  BY <1>1, <1>6 DEF NodeCall, NodeDraw, vars
<1>7. ASSUME NEW n \in Nodes, DonCallInNodeMode(n)
      PROVE  IdsCountSteps' /\ DrawsCountSteps'
  <2>1. /\ slips'[n] # 0
        /\ \A m \in Nodes : m # n => slips'[m] = slips[m] /\ nextCallId'[m] = nextCallId[m]
    BY <1>a, <1>7 DEF DonCallInNodeMode, UseId, TypeOK
  <2>2. QED
    BY <1>7, <2>1, CountsStay DEF DonCallInNodeMode, IdsCountSteps, DrawsCountSteps
<1>8. ASSUME NEW n \in Nodes, NEW result \in Results, LeaveNodeMode(n, result)
      PROVE  IdsCountSteps' /\ DrawsCountSteps'
  <2>1. pc[n] \in DOMAIN script /\ script[pc[n]].op # "rand" /\ pc[n] \in IdSteps
    BY <1>8 DEF LeaveNodeMode, Typed, NodeModeAtNode, At, IdSteps
  <2>2. DrawsCountSteps'
    BY <1>2, <1>8, <2>1 DEF LeaveNodeMode
  <2>3. CASE /\ slips' = [slips EXCEPT ![n] = @ + 1]
             /\ UNCHANGED <<nextCallId, sent>>
    <3>1. /\ slips'[n] # 0
          /\ \A m \in Nodes : m # n => slips'[m] = slips[m] /\ pc'[m] = pc[m]
      BY <1>a, <1>8, <2>3 DEF LeaveNodeMode, Advance, TypeOK
    <3>2. IdsCountSteps'
      BY <1>8, <2>3, <3>1, CountsStay DEF LeaveNodeMode, IdsCountSteps
    <3>3. QED
      BY <2>2, <3>2
  <2>4. CASE /\ UseId(n) /\ UNCHANGED slips
             /\ sent' \in {sent, sent \cup
                             {Request(n, Observation(script[pc[n]], n, result), result)}}
    <3>1. IdsCountSteps'
      BY <1>8, <2>1, <2>4, IdStepCounts DEF LeaveNodeMode
    <3>2. QED
      BY <2>2, <3>1
  <2>5. QED
    BY <1>8, <2>3, <2>4 DEF LeaveNodeMode
<1>9. ASSUME NEW n \in Nodes, AwaitConsensus(n) \/ AwaitFails(n)
      PROVE  IdsCountSteps' /\ DrawsCountSteps'
  BY <1>1, <1>9 DEF AwaitConsensus, AwaitFails
<1>10. ASSUME Decides PROVE IdsCountSteps' /\ DrawsCountSteps'
  BY <1>1, <1>10 DEF Decides, Decide
<1>11. CASE Done \/ UNCHANGED vars
  BY <1>1, <1>11 DEF Done, vars
<1>12. QED
  BY <1>3, <1>4, <1>5, <1>6, <1>7, <1>8, <1>9, <1>10, <1>11 DEF Next

\* Requests of one step carry one id, and of two steps two.
LEMMA IdsTellSteps ==
  ASSUME TypeOK, NEW i \in IdSteps, NEW k \in IdSteps,
         IdsBefore(i) + 1 = IdsBefore(k) + 1
  PROVE  i = k
<1>1. IdSteps \in SUBSET (1 .. Len(script)) /\ Len(script) \in Nat
  BY StepsOfScript DEF TypeOK
<1>2. i \in Nat /\ k \in Nat
  BY <1>1
<1>3. IdsBefore(i) \in Nat /\ IdsBefore(k) \in Nat
  BY <1>1, <1>2, BeforeType DEF IdsBefore
<1>4. i < k => IdsBefore(i) < IdsBefore(k)
  BY <1>1, BeforeGrows DEF IdsBefore
<1>5. k < i => IdsBefore(k) < IdsBefore(i)
  BY <1>1, BeforeGrows DEF IdsBefore
<1>6. QED
  BY <1>2, <1>3, <1>4, <1>5

\* The ids of the nodes stay in step, whatever the functions in node mode do on
\* each of them, until a node calls through its DON runtime there or cannot
\* marshal what it observed.
THEOREM NodesInLockstep == Spec => []Lockstep
<1>1. Typed /\ IdsCountSteps => Lockstep
  BY IdsTellSteps DEF Typed, IdsCountSteps, Lockstep
<1>2. QED
  BY <1>1, TypedInit, TypedStep, CountsInit, CountsStep, PTL DEF Spec

\* The nodes draw the same numbers of the DON stream, without exception.
THEOREM NodesDrawTheSame == Spec => []SameRandom
<1>1. DrawsCountSteps => SameRandom
  BY DEF DrawsCountSteps, SameRandom
<1>2. QED
  BY <1>1, TypedInit, TypedStep, CountsInit, CountsStep, PTL DEF Spec

-----------------------------------------------------------------------------
(* The outcome a node gets: what was decided under its id, from requests   *)
(* that are still those, of one step, and whose observations tell what the *)
(* functions returned.                                                     *)

\* A node makes one request with an id, and an observation is of the result.
SentInv ==
  /\ \A r \in sent : r.id >= 1 /\ r.id <= nextCallId[r.node]
  /\ \A r, q \in sent : r.node = q.node /\ r.id = q.id => r = q
  /\ \A r \in sent : r.observation # None =>
       /\ r.step \in DOMAIN script /\ script[r.step].op = "node"
       /\ r.observation = Observation(script[r.step], r.node, r.result)
       /\ r.result.kind = "value" => Observable(script[r.step])

From(d) == {r \in sent : r.id = d.id /\ r.node \in d.from}

\* What was decided is the aggregate of observations that were sent.
Rests(d) ==
  /\ \A n \in d.from : \E r \in sent : r.node = n /\ r.id = d.id
  /\ \A r \in From(d) : r.observation # None
  /\ Cardinality(From(d)) >= Quorum
  /\ d.outcome \in Aggregates(From(d))

DecidedInv ==
  /\ \A d \in decided : Rests(d)
  /\ \A d, e \in decided : d.id = e.id => d = e

\* A node is given what was decided under the id of its request.
Answered(x) ==
  \E r \in sent, d \in decided :
    /\ r.node = x.node /\ r.id = x.id /\ r.step = x.step
    /\ d.id = x.id /\ d.outcome = x.outcome

ResultsInv ==
  \A x \in results : x.id # 0 /\ x.outcome.kind # "unanswered" => Answered(x)

Outcome == SentInv /\ DecidedInv /\ ResultsInv

LEMMA OutcomeInit == Init => Outcome
BY DEF Init, Outcome, SentInv, DecidedInv, ResultsInv

\* A request with a new id leaves what was decided as it was.
LEMMA NewRequest ==
  ASSUME TypeOK, Outcome, NEW n \in Nodes, NEW o, NEW result,
         UseId(n), UNCHANGED <<script, decided>>, results \subseteq results',
         sent' \in {sent, sent \cup {Request(n, o, result)}},
         \A x \in results' : x \in results \/ x.id = 0,
         o # None =>
           /\ pc[n] \in DOMAIN script /\ script[pc[n]].op = "node"
           /\ o = Observation(script[pc[n]], n, result)
           /\ result.kind = "value" => Observable(script[pc[n]])
  PROVE  Outcome'
<1> DEFINE new == Request(n, o, result)
<1>1. /\ new.node = n /\ new.id = nextCallId[n] + 1 /\ new.step = pc[n]
      /\ new.observation = o /\ new.result = result
  BY DEF Request
<1>2. /\ nextCallId[n] \in Nat
      /\ \A m \in Nodes : nextCallId'[m] = IF m = n THEN nextCallId[n] + 1 ELSE nextCallId[m]
      /\ \A r \in sent : r.node \in Nodes /\ r.id \in Nat /\ nextCallId[r.node] \in Nat
  BY DEF UseId, TypeOK, Requests
<1> HIDE DEF new
<1>3. \A r \in sent' : r \in sent \/ r = new
  BY DEF new
<1>4. \A r \in sent : r.id >= 1 /\ r.id <= nextCallId[r.node]
  BY DEF Outcome, SentInv
<1>5. \A r \in sent : ~(r.node = n /\ r.id = new.id)
  BY <1>1, <1>2, <1>4
<1>6. SentInv'
  <2>1. \A r \in sent' : r.id >= 1 /\ r.id <= nextCallId'[r.node]
    <3>1. \A r \in sent : r.id >= 1 /\ r.id <= nextCallId'[r.node]
      BY <1>2, <1>4
    <3>2. new.id >= 1 /\ new.id <= nextCallId'[new.node]
      BY <1>1, <1>2
    <3>3. QED
      BY <1>3, <3>1, <3>2
  <2>2. \A r, q \in sent' : r.node = q.node /\ r.id = q.id => r = q
    BY <1>1, <1>3, <1>5 DEF Outcome, SentInv
  <2>3. ASSUME NEW r \in sent', r.observation # None
        PROVE  /\ r.step \in DOMAIN script /\ script[r.step].op = "node"
               /\ r.observation = Observation(script[r.step], r.node, r.result)
               /\ r.result.kind = "value" => Observable(script[r.step])
    BY <1>1, <1>3, <2>3 DEF Outcome, SentInv
  <2>4. QED
    BY <2>1, <2>2, <2>3 DEF SentInv
<1>7. \A d \in decided : From(d)' = From(d) /\ Rests(d)'
  <2> SUFFICES ASSUME NEW d \in decided PROVE From(d)' = From(d) /\ Rests(d)'
    OBVIOUS
  <2>1. Rests(d)
    BY DEF Outcome, DecidedInv
  <2>2. ~(new.node \in d.from /\ new.id = d.id)
    BY <1>1, <1>5, <2>1 DEF Rests
  <2>3. {r \in sent' : r.id = d.id /\ r.node \in d.from} =
        {r \in sent : r.id = d.id /\ r.node \in d.from}
    BY <1>3, <2>2
  <2>4. From(d)' = From(d)
    BY <2>3 DEF From
  <2>5. sent \subseteq sent'
    OBVIOUS
  <2>6. QED
    BY <2>1, <2>4, <2>5 DEF Rests, From
<1>8. DecidedInv'
  BY <1>7 DEF Outcome, DecidedInv
<1>9. ResultsInv'
  <2>1. sent \subseteq sent'
    OBVIOUS
  <2>2. QED
    BY <2>1 DEF Outcome, ResultsInv, Answered
<1>10. QED
  BY <1>6, <1>8, <1>9 DEF Outcome

LEMMA NoRequest ==
  ASSUME TypeOK, Outcome, UNCHANGED <<script, sent, decided>>,
         \A n \in Nodes : nextCallId'[n] \in Nat /\ nextCallId'[n] >= nextCallId[n],
         \A x \in results' :
           x \in results \/ x.id = 0 \/ x.outcome.kind = "unanswered" \/ Answered(x)
  PROVE  Outcome'
<1>1. \A r \in sent : r.node \in Nodes /\ r.id \in Nat /\ nextCallId[r.node] \in Nat
  BY DEF TypeOK, Requests
<1>2. SentInv'
  <2>1. \A r \in sent : r.id <= nextCallId'[r.node]
    BY <1>1 DEF Outcome, SentInv
  <2>2. QED
    BY <2>1 DEF Outcome, SentInv
<1>3. DecidedInv'
  BY DEF Outcome, DecidedInv, Rests, From
<1>4. ResultsInv'
  BY DEF Outcome, ResultsInv, Answered
<1>5. QED
  BY <1>2, <1>3, <1>4 DEF Outcome

LEMMA UseIdGrows ==
  ASSUME TypeOK, NEW n \in Nodes, UseId(n)
  PROVE  \A m \in Nodes : nextCallId'[m] \in Nat /\ nextCallId'[m] >= nextCallId[m]
BY DEF TypeOK, UseId

LEMMA DecidesOutcome ==
  ASSUME TypeOK, Outcome, Decides
  PROVE  Outcome'
<1>1. PICK r0 \in sent :
        Undecided(r0.id) /\ \E from \in SUBSET Observed(r0.id) : Decide(r0.id, from)
  BY DEF Decides
<1>2. PICK from \in SUBSET Observed(r0.id) : Decide(r0.id, from)
  BY <1>1
<1>3. PICK outcome \in Aggregates(from) :
        decided' = decided \cup
          {[id |-> r0.id, from |-> {q.node : q \in from}, outcome |-> outcome]}
  BY <1>2 DEF Decide
<1> DEFINE new == [id |-> r0.id, from |-> {q.node : q \in from}, outcome |-> outcome]
<1>4. new.id = r0.id /\ new.from = {q.node : q \in from} /\ new.outcome = outcome
  OBVIOUS
<1>5. \A r \in from : r \in sent /\ r.id = r0.id /\ r.observation # None
  BY DEF Observed
<1>6. UNCHANGED <<script, sent, nextCallId, results>> /\ Cardinality(from) >= Quorum
  BY <1>2 DEF Decide
<1> HIDE DEF new
<1>7. From(new) = from
  BY <1>4, <1>5 DEF From, Outcome, SentInv
<1>8. Rests(new)
  BY <1>4, <1>5, <1>6, <1>7 DEF Rests
<1>9. \A d \in decided' : d \in decided \/ d = new
  BY <1>3 DEF new
<1>10. DecidedInv'
  <2>1. \A d \in decided' : Rests(d)
    BY <1>8, <1>9 DEF Outcome, DecidedInv
  <2>2. \A d \in decided : d.id # new.id
    BY <1>1, <1>4 DEF Undecided
  <2>3. \A d, e \in decided' : d.id = e.id => d = e
    BY <1>9, <2>2 DEF Outcome, DecidedInv
  <2>4. QED
    BY <1>6, <2>1, <2>3 DEF DecidedInv, Rests, From
<1>11. SentInv'
  BY <1>6 DEF Outcome, SentInv
<1>12. ResultsInv'
  <2>1. decided \subseteq decided'
    BY <1>3
  <2>2. QED
    BY <1>6, <2>1 DEF Outcome, ResultsInv, Answered
<1>13. QED
  BY <1>10, <1>11, <1>12 DEF Outcome

LEMMA LeaveOutcome ==
  ASSUME Typed, Outcome, NEW n \in Nodes, NEW result \in Results, LeaveNodeMode(n, result)
  PROVE  Outcome'
<1> DEFINE o == Observation(script[pc[n]], n, result)
<1>1. /\ inNode[n] /\ At(n, "node") /\ TypeOK
      /\ UNCHANGED <<script, drawn, decided>>
  BY DEF LeaveNodeMode, Typed, NodeModeAtNode
<1>2. pc[n] \in DOMAIN script /\ script[pc[n]].op = "node"
  BY <1>1 DEF At
<1>3. result.kind = "value" => Observable(script[pc[n]])
  BY DEF LeaveNodeMode
<1>4. ASSUME Gives(n, pc[n], 0, "error")
      PROVE  /\ results \subseteq results'
             /\ \A x \in results' : x \in results \/ x.id = 0
  BY <1>4 DEF Gives
<1>5. CASE Gives(n, pc[n], 0, "error") /\ UNCHANGED <<nextCallId, sent>>
  <2>1. \A m \in Nodes : nextCallId'[m] \in Nat /\ nextCallId'[m] >= nextCallId[m]
    BY <1>1, <1>5 DEF TypeOK
  <2>2. QED
    BY <1>1, <1>4, <1>5, <2>1, NoRequest
<1>6. CASE UseId(n) /\ sent' = sent \cup {Request(n, o, result)} /\ UNCHANGED results
  <2>1. sent' \in {sent, sent \cup {Request(n, o, result)}}
    BY <1>6
  <2> HIDE DEF o
  <2>2. QED
    BY <1>1, <1>2, <1>3, <1>6, <2>1, NewRequest DEF o
<1>7. CASE UseId(n) /\ Gives(n, pc[n], 0, "error") /\ UNCHANGED sent
  BY <1>1, <1>4, <1>7, UseIdGrows, NoRequest
<1>8. QED
  BY <1>5, <1>6, <1>7 DEF LeaveNodeMode

LEMMA OutcomeStep == Typed /\ Outcome /\ [Next]_vars => Outcome'
<1> SUFFICES ASSUME Typed, Outcome, [Next]_vars PROVE Outcome'
  OBVIOUS
<1>1. TypeOK
  BY DEF Typed
<1>2. CASE UNCHANGED <<script, nextCallId, sent, decided, results>>
  <2>1. \A m \in Nodes : nextCallId'[m] \in Nat /\ nextCallId'[m] >= nextCallId[m]
    BY <1>1, <1>2 DEF TypeOK
  <2>2. QED
    BY <1>1, <1>2, <2>1, NoRequest
<1>3. ASSUME NEW n \in Nodes, DonCall(n) PROVE Outcome'
  <2>1. /\ UseId(n) /\ UNCHANGED <<script, decided, results>>
        /\ sent' \in {sent, sent \cup {Request(n, None, None)}}
    BY <1>3 DEF DonCall
  <2>2. QED
    BY <1>1, <2>1, NewRequest
<1>4. ASSUME NEW n \in Nodes, DonCallInNodeMode(n) PROVE Outcome'
  BY <1>1, <1>4, UseIdGrows, NoRequest DEF DonCallInNodeMode
<1>5. ASSUME NEW n \in Nodes, DonDraw(n) \/ EnterNodeMode(n) \/ NodeCall(n) \/ NodeDraw(n)
      PROVE  Outcome'
  BY <1>2, <1>5 DEF DonDraw, EnterNodeMode, NodeCall, NodeDraw, vars
<1>6. ASSUME NEW n \in Nodes, NEW result \in Results, LeaveNodeMode(n, result)
      PROVE  Outcome'
  BY <1>6, LeaveOutcome
<1>7. ASSUME NEW n \in Nodes, AwaitConsensus(n) PROVE Outcome'
  <2>1. PICK r \in sent, d \in decided :
          /\ r.node = n /\ d.id = AwaitedId(r)
          /\ results' = results \cup
               {[node |-> n, step |-> r.step, id |-> r.id, outcome |-> d.outcome]}
    BY <1>7 DEF AwaitConsensus
  <2>2. \A x \in results' : x \in results \/ Answered(x)
    BY <2>1 DEF Answered, AwaitedId
  <2>3. /\ UNCHANGED <<script, sent, decided, nextCallId>>
        /\ \A m \in Nodes : nextCallId'[m] \in Nat /\ nextCallId'[m] >= nextCallId[m]
    BY <1>1, <1>7 DEF AwaitConsensus, TypeOK
  <2>4. QED
    BY <1>1, <2>2, <2>3, NoRequest
<1>8. ASSUME NEW n \in Nodes, AwaitFails(n) PROVE Outcome'
  <2>1. PICK r \in sent : Gives(n, r.step, r.id, "unanswered")
    BY <1>8 DEF AwaitFails
  <2>2. \A x \in results' : x \in results \/ x.outcome.kind = "unanswered"
    BY <2>1 DEF Gives
  <2>3. /\ UNCHANGED <<script, sent, decided, nextCallId>>
        /\ \A m \in Nodes : nextCallId'[m] \in Nat /\ nextCallId'[m] >= nextCallId[m]
    BY <1>1, <1>8 DEF AwaitFails, TypeOK
  <2>4. QED
    BY <1>1, <2>2, <2>3, NoRequest
<1>9. CASE Decides
  BY <1>1, <1>9, DecidesOutcome
<1>10. CASE Done \/ UNCHANGED vars
  BY <1>2, <1>10 DEF Done, vars
<1>11. QED
  BY <1>3, <1>4, <1>5, <1>6, <1>7, <1>8, <1>9, <1>10 DEF Next

\* A value that is observed tells what the function returned and nothing of the
\* node, and is not mistaken for an error.
LEMMA ValueTells ==
  ASSUME NEW w \in Workflows, NEW i \in DOMAIN w, w[i].op = "node", Observable(w[i])
  PROVE  \A j, k : \A m, n :
           j.kind = "value" /\ k.kind = "value" =>
             /\ ObservedValue(w[i], m, j) # NoValue
             /\ ObservedValue(w[i], m, j) = ObservedValue(w[i], n, k) <=> j.kept = k.kept
<1> DEFINE step == w[i]
           held(kept) == {[path |-> v.path, holds |-> kept] : v \in Remains(step)}
<1>1. Remains(step) # {} /\ \A v \in Remains(step) : ~v.ignored
  BY CarriesAssumption
<1>2. ASSUME NEW result, NEW n, result.kind = "value"
      PROVE  ObservedValue(step, n, result) = held(result.kept)
  <2> DEFINE nodes == step.descriptor.nodes
             value == {[path |-> v.path, holds |-> IF v.ignored THEN n ELSE result.kept] :
                         v \in step.shape}
  <2>1. ObservedValue(step, n, result) = {v \in value : Covered(v.path, nodes)}
    BY <1>2 DEF ObservedValue, ClearIgnoredFields, ValueOf
  <2>2. ASSUME NEW u \in value, Covered(u.path, nodes) PROVE u \in held(result.kept)
    <3>1. PICK v \in step.shape :
            u = [path |-> v.path, holds |-> IF v.ignored THEN n ELSE result.kept]
      OBVIOUS
    <3>2. v \in Remains(step)
      BY <2>2, <3>1 DEF Remains
    <3>3. QED
      BY <1>1, <3>1, <3>2
  <2>3. ASSUME NEW u \in held(result.kept) PROVE u \in value /\ Covered(u.path, nodes)
    <3>1. PICK v \in Remains(step) : u = [path |-> v.path, holds |-> result.kept]
      OBVIOUS
    <3>2. v \in step.shape /\ Covered(v.path, nodes) /\ ~v.ignored
      BY <1>1 DEF Remains
    <3>3. QED
      BY <3>1, <3>2
  <2> HIDE DEF value, held, nodes
  <2>4. QED
    BY <2>1, <2>2, <2>3
<1>3. ASSUME NEW j, NEW k, held(j) = held(k) PROVE j = k
  <2>1. PICK v \in Remains(step) : TRUE
    BY <1>1
  <2>2. [path |-> v.path, holds |-> j] \in held(k)
    BY <1>3
  <2>3. QED
    BY <2>2
<1>4. \A k : held(k) # {}
  BY <1>1
<1> HIDE DEF held, step
<1>5. QED
  BY <1>2, <1>3, <1>4 DEF NoValue, step

\* The capability's aggregate of the observations of one step is the outcome
\* that the results call for.
LEMMA AggregateIsExpected ==
  ASSUME Typed, SentInv, NEW from \in SUBSET sent, NEW i,
         \A r \in from : r.step = i /\ r.observation # None,
         IsFiniteSet(from), Cardinality(from) >= Quorum
  PROVE  Aggregates(from) \subseteq Expected(from)
<1> DEFINE Agree(r) == {q \in from : q.observation.value = r.observation.value}
           agreeing == {r \in from : /\ r.observation.value # NoValue
                                     /\ Cardinality(Agree(r)) >= Matching}
           defaults == {r \in from : r.observation.default}
           step == script[(CHOOSE r \in from : TRUE).step]
           Got(k) == {r \in from : r.result = [kind |-> "value", kept |-> k]}
           agreed == {k \in Kept : Cardinality(Got(k)) >= Matching}
<1>0. Cardinality({}) = 0 /\ Matching \in Nat /\ Matching # 0 /\ Quorum \in Nat
      /\ Quorum >= Matching
  BY FS_EmptySet, DonAssumption, QuorumAssumption
<1>1. from # {}
  BY <1>0
<1>2. step = script[i]
  BY <1>1
<1>3. ASSUME NEW r \in from
      PROVE  /\ i \in DOMAIN script /\ script[i].op = "node"
             /\ r.observation = Observation(script[i], r.node, r.result)
             /\ r.result.kind = "value" => Observable(script[i])
             /\ r.result \in Results
  BY <1>3 DEF SentInv, Typed, ObservedResults
<1>4. script \in Workflows
  BY DEF Typed, TypeOK
<1>5. ASSUME NEW r \in from
      PROVE  /\ r.observation.value = ObservedValue(script[i], r.node, r.result)
             /\ r.observation.default = (script[i].default = "given" /\ Observable(script[i]))
             /\ r.observation.value # NoValue <=> r.result.kind = "value"
  <2>1. /\ r.observation.value = ObservedValue(script[i], r.node, r.result)
        /\ r.observation.default = (script[i].default = "given" /\ Observable(script[i]))
    <3> DEFINE value == ObservedValue(script[i], r.node, r.result)
               default == script[i].default = "given" /\ Observable(script[i])
    <3>1. r.observation = [value |-> value, default |-> default]
      BY <1>3 DEF Observation
    <3> HIDE DEF value, default
    <3>2. r.observation.value = value /\ r.observation.default = default
      BY <3>1
    <3>3. QED
      BY <3>2 DEF value, default
  <2>2. CASE r.result.kind = "value"
    BY <1>3, <1>4, <2>1, <2>2, ValueTells
  <2>3. CASE r.result.kind # "value"
    BY <2>1, <2>3 DEF ObservedValue
  <2>4. QED
    BY <2>1, <2>2, <2>3
<1>6. ASSUME NEW r \in from, r.result.kind = "value"
      PROVE  Agree(r) = Got(r.result.kept) /\ r.result.kept \in Kept
  <2>1. r.result.kept \in Kept
    BY <1>3, <1>6 DEF Results
  <2>2. ASSUME NEW q \in from
        PROVE  q.observation.value = r.observation.value
                 <=> q.result = [kind |-> "value", kept |-> r.result.kept]
    <3>1. CASE q.result.kind = "value"
      <4>1. q.observation.value = r.observation.value <=> q.result.kept = r.result.kept
        BY <1>3, <1>4, <1>5, <1>6, <3>1, ValueTells
      <4>2. q.result = [kind |-> "value", kept |-> q.result.kept]
        BY <1>3, <3>1 DEF Results
      <4>3. QED
        BY <4>1, <4>2
    <3>2. CASE q.result.kind # "value"
      BY <1>5, <1>6, <3>2
    <3>3. QED
      BY <3>1, <3>2
  <2>3. QED
    BY <2>1, <2>2
<1>7. \A r \in agreeing : r.result.kept \in agreed
  BY <1>5, <1>6
<1>8. agreed # {} => agreeing # {}
  <2> SUFFICES ASSUME NEW k \in agreed PROVE agreeing # {}
    OBVIOUS
  <2>1. Cardinality(Got(k)) >= Matching
    OBVIOUS
  <2>2. PICK r \in Got(k) : TRUE
    <3>1. Got(k) # {}
      BY <1>0, <2>1
    <3>2. QED
      BY <3>1
  <2>3. r \in from /\ r.result.kind = "value" /\ r.result.kept = k
    BY <2>2
  <2>4. Agree(r) = Got(k)
    BY <1>6, <2>3
  <2>5. r.observation.value # NoValue
    BY <1>5, <2>3
  <2>6. QED
    BY <2>1, <2>3, <2>4, <2>5
<1>9. IF script[i].default = "given" /\ Observable(script[i])
      THEN Cardinality(defaults) >= Matching
      ELSE ~(Cardinality(defaults) >= Matching)
  <2>1. CASE script[i].default = "given" /\ Observable(script[i])
    <3>1. defaults = from
      BY <1>5, <2>1
    <3> HIDE DEF defaults
    <3>2. Cardinality(from) \in Nat
      BY FS_CardinalityType
    <3>3. QED
      BY <1>0, <2>1, <3>1, <3>2
  <2>2. CASE ~(script[i].default = "given" /\ Observable(script[i]))
    <3>1. defaults = {}
      BY <1>5, <2>2
    <3> HIDE DEF defaults
    <3>2. QED
      BY <1>0, <2>2, <3>1
  <2>3. QED
    BY <2>1, <2>2
<1> HIDE DEF Agree, Got, defaults, step
<1>10. CASE agreed # {}
  <2>1. agreeing # {}
    BY <1>8, <1>10
  <2>2. Aggregates(from) = [kind : {"value"}, kept : {r.result.kept : r \in agreeing}]
    BY <2>1 DEF Aggregates, Agree
  <2>3. Expected(from) = [kind : {"value"}, kept : agreed]
    BY <1>10 DEF Expected, Got
  <2>4. {r.result.kept : r \in agreeing} \subseteq agreed
    BY <1>7
  <2> HIDE DEF agreeing, agreed
  <2>5. QED
    BY <2>2, <2>3, <2>4
<1>11. CASE agreed = {}
  <2>1. agreeing = {}
    BY <1>7, <1>11
  <2>2. Aggregates(from) = IF Cardinality(defaults) >= Matching
                           THEN [kind : {"default"}, kept : {None}]
                           ELSE [kind : {"error"}, kept : {None}]
    BY <2>1 DEF Aggregates, Agree, defaults
  <2>3. Expected(from) = IF step.default = "given" /\ Observable(step)
                         THEN [kind : {"default"}, kept : {None}]
                         ELSE [kind : {"error"}, kept : {None}]
    BY <1>11 DEF Expected, Got, step
  <2>4. QED
    BY <1>2, <1>9, <2>2, <2>3
<1>12. QED
  BY <1>10, <1>11

LEMMA FromIsFinite ==
  ASSUME TypeOK, SentInv, NEW d
  PROVE  IsFiniteSet(From(d))
<1> DEFINE f == [r \in From(d) |-> r.node]
<1>1. f \in [From(d) -> Nodes]
  BY DEF From, TypeOK, Requests
<1>2. \A r, q \in From(d) : f[r] = f[q] => r = q
  BY DEF From, SentInv
<1>3. f \in Injection(From(d), Nodes)
  BY <1>1, <1>2 DEF Injection, IsInjective
<1> HIDE DEF f
<1>4. QED
  BY <1>3, FS_Injection, DonAssumption

\* What RunInNodeMode gives a node whose ids are in step is what the functions'
\* results at that very step call for (cre/runtime.go:232-266), from whichever
\* nodes contributed: fields that are ignored have no part in it, however many
\* nodes there are and whatever the others do meanwhile.
THEOREM OutcomesExpected == Spec => []OutcomeIsExpected
<1>1. Typed /\ IdsCountSteps /\ Outcome => OutcomeIsExpected
  <2> SUFFICES ASSUME Typed, IdsCountSteps, Outcome,
                      NEW x \in results, NEW d \in decided,
                      x.id = d.id, x.outcome.kind # "unanswered",
                      \A r \in From(d) : r.ok,
                      NEW q \in sent, q.ok, q.node = x.node, q.id = x.id
               PROVE  /\ \A r \in From(d) : r.step = x.step
                      /\ x.outcome \in Expected(From(d))
    BY DEF OutcomeIsExpected, From
  <2>1. TypeOK /\ SentInv /\ Rests(d)
    BY DEF Typed, Outcome, DecidedInv
  <2>2. x.id # 0
    BY <2>1 DEF SentInv
  <2>3. PICK r \in sent, e \in decided :
          /\ r.node = x.node /\ r.id = x.id /\ r.step = x.step
          /\ e.id = x.id /\ e.outcome = x.outcome
    BY <2>2 DEF Outcome, ResultsInv, Answered
  <2>4. r = q /\ e = d
    BY <2>1, <2>3 DEF SentInv, Outcome, DecidedInv
  <2>5. ASSUME NEW p \in From(d) PROVE p.step = x.step
    <3>1. p \in sent /\ p.ok /\ p.id = q.id
      BY DEF From
    <3>2. /\ p.step \in IdSteps /\ p.id = IdsBefore(p.step) + 1
          /\ q.step \in IdSteps /\ q.id = IdsBefore(q.step) + 1
      BY <3>1 DEF IdsCountSteps
    <3>3. p.step = q.step
      BY <2>1, <3>1, <3>2, IdsTellSteps
    <3>4. QED
      BY <2>3, <2>4, <3>3
  <2>6. From(d) \in SUBSET sent /\ \A p \in From(d) : p.observation # None
    BY <2>1 DEF From, Rests
  <2>7. Cardinality(From(d)) >= Quorum /\ d.outcome \in Aggregates(From(d))
    BY <2>1 DEF Rests
  <2>8. Aggregates(From(d)) \subseteq Expected(From(d))
    BY <2>1, <2>5, <2>6, <2>7, FromIsFinite, AggregateIsExpected
  <2>9. QED
    BY <2>3, <2>4, <2>5, <2>7, <2>8
<1>2. QED
  BY <1>1, TypedInit, TypedStep, CountsInit, CountsStep, OutcomeInit, OutcomeStep, PTL DEF Spec
-----------------------------------------------------------------------------
\* A workflow never agrees on a type that leads back to itself: its tags give
\* no descriptor, in any state and so when it starts.
THEOREM SelfReferenceNeverObserved == Spec => []SelfReferenceIsRefused
<1>1. SelfReferenceIsRefused
  BY SelfReferenceHasNoDescriptor DEF SelfReferenceIsRefused
<1>2. QED
  BY <1>1, PTL

-----------------------------------------------------------------------------
(* That agreement is not held up.                                          *)

\* The nodes on which nothing goes wrong.
Honest == Nodes \ Faulty

HonestInv ==
  /\ \A n \in Honest : slips[n] = 0
  /\ \A r \in sent : r.node \in Honest => r.ok

LEMMA HonestStep == Typed /\ HonestInv /\ [Next]_vars => HonestInv'
<1> SUFFICES ASSUME Typed, HonestInv, [Next]_vars PROVE HonestInv'
  OBVIOUS
<1>a. TypeOK /\ slips \in [Nodes -> Nat]
  BY DEF Typed, TypeOK
<1>1. CASE UNCHANGED <<slips, sent>>
  BY <1>1 DEF HonestInv
<1>2. ASSUME NEW n \in Nodes, NEW o, NEW result, UNCHANGED slips,
             sent' \in {sent, sent \cup {Request(n, o, result)}}
      PROVE  HonestInv'
  <2>1. Request(n, o, result).node = n /\ Request(n, o, result).ok = (slips[n] = 0)
    BY DEF Request
  <2>2. \A r \in sent' : r \in sent \/ r = Request(n, o, result)
    BY <1>2
  <2>3. QED
    BY <1>2, <2>1, <2>2 DEF HonestInv
<1>3. ASSUME NEW n \in Faulty, UNCHANGED sent, slips' = [slips EXCEPT ![n] = @ + 1]
      PROVE  HonestInv'
  BY <1>a, <1>3 DEF HonestInv, Honest
<1>4. ASSUME NEW n \in Nodes, DonCall(n) PROVE HonestInv'
  BY <1>2, <1>4 DEF DonCall
<1>5. ASSUME NEW n \in Nodes, DonDraw(n) \/ EnterNodeMode(n) \/ AwaitConsensus(n) \/ AwaitFails(n)
      PROVE  HonestInv'
  BY <1>1, <1>5 DEF DonDraw, EnterNodeMode, AwaitConsensus, AwaitFails
<1>6. ASSUME NEW n \in Nodes, NodeCall(n) \/ NodeDraw(n) PROVE HonestInv'
  BY <1>1, <1>6 DEF NodeCall, NodeDraw, vars
<1>7. ASSUME NEW n \in Nodes, DonCallInNodeMode(n) PROVE HonestInv'
  BY <1>3, <1>7 DEF DonCallInNodeMode
<1>8. ASSUME NEW n \in Nodes, NEW result \in Results, LeaveNodeMode(n, result)
      PROVE  HonestInv'
  <2>1. CASE n \in Faulty /\ slips' = [slips EXCEPT ![n] = @ + 1] /\ UNCHANGED sent
    BY <1>3, <2>1
  <2>2. CASE /\ UNCHANGED slips
             /\ sent' \in {sent, sent \cup
                             {Request(n, Observation(script[pc[n]], n, result), result)}}
    BY <1>2, <2>2
  <2>3. QED
    BY <1>8, <2>1, <2>2 DEF LeaveNodeMode
<1>9. CASE Decides \/ Done \/ UNCHANGED vars
  BY <1>1, <1>9 DEF Decides, Decide, Done, vars
<1>10. QED
  BY <1>4, <1>5, <1>6, <1>7, <1>8, <1>9 DEF Next

\* A node has asked for the outcome of a step, under an id.
Asked(n, s, id) ==
  \E r \in sent : r.node = n /\ r.step = s /\ r.id = id /\ r.observation # None
\* Decides can be done with what was observed under an id, and AwaitConsensus
\* with what was decided.
Decidable(id) ==
  \E from \in SUBSET Observed(id) : Cardinality(from) >= Quorum /\ Aggregates(from) # {}
CanBeGiven(n, s, id) ==
  \E r \in sent, d \in decided :
    r.node = n /\ r.step = s /\ Pending(r) /\ r.id = id /\ d.id = id

\* Once the honest nodes have asked for the outcome of a step they have done so
\* under one id, and the capability can decide it, or it has, and every one of
\* them has its outcome or can be given it: nobody waits for the others.
NothingHoldsAgreement ==
  \A s \in DOMAIN script :
    (\A n \in Honest : \E id \in Nat : Asked(n, s, id)) =>
      \E id \in Nat :
        /\ \A n \in Honest : Asked(n, s, id)
        /\ IF Undecided(id) THEN Decidable(id)
           ELSE \A n \in Honest :
                  (\E x \in results : x.node = n /\ x.step = s) \/ CanBeGiven(n, s, id)

\* Something comes of any observations.
LEMMA SomeAggregate == ASSUME NEW from PROVE Aggregates(from) # {}
<1> DEFINE Agree(r) == {q \in from : q.observation.value = r.observation.value}
           agreed == {r \in from : /\ r.observation.value # NoValue
                                   /\ Cardinality(Agree(r)) >= Matching}
           kepts == {r.result.kept : r \in agreed}
           defaults == {r \in from : r.observation.default}
<1>1. agreed # {} => [kind : {"value"}, kept : kepts] # {}
  <2> SUFFICES ASSUME NEW r \in agreed PROVE [kind : {"value"}, kept : kepts] # {}
    OBVIOUS
  <2>1. r.result.kept \in kepts
    OBVIOUS
  <2> HIDE DEF kepts, agreed
  <2>2. [kind |-> "value", kept |-> r.result.kept] \in [kind : {"value"}, kept : kepts]
    BY <2>1
  <2>3. QED
    BY <2>2
<1>2. \A kind : [kind : {kind}, kept : {None}] # {}
  <2> SUFFICES ASSUME NEW kind PROVE [kind : {kind}, kept : {None}] # {}
    OBVIOUS
  <2>1. [kind |-> kind, kept |-> None] \in [kind : {kind}, kept : {None}]
    OBVIOUS
  <2>2. QED
    BY <2>1
<1>3. Aggregates(from) = IF agreed # {} THEN [kind : {"value"}, kept : kepts]
                         ELSE IF Cardinality(defaults) >= Matching
                         THEN [kind : {"default"}, kept : {None}]
                         ELSE [kind : {"error"}, kept : {None}]
  BY DEF Aggregates
<1> HIDE DEF agreed, kepts, defaults
<1>4. QED
  BY <1>1, <1>2, <1>3

\* As many observations as there are honest nodes are among those of an id
\* under which they all asked.
LEMMA HonestObserve ==
  ASSUME Cardinality(Honest) >= Quorum, NEW s, NEW id,
         \A n \in Honest : Asked(n, s, id)
  PROVE  Decidable(id)
<1>1. IsFiniteSet(Honest)
  BY DonAssumption, FS_Difference DEF Honest
<1> DEFINE theirs(n) == CHOOSE r \in Observed(id) : r.node = n
           f == [n \in Honest |-> theirs(n)]
           from == {theirs(n) : n \in Honest}
<1>2. \A n \in Honest : f[n] \in Observed(id) /\ f[n].node = n
  <2> SUFFICES ASSUME NEW n \in Honest PROVE f[n] \in Observed(id) /\ f[n].node = n
    OBVIOUS
  <2>1. \E r \in Observed(id) : r.node = n
    BY DEF Asked, Observed
  <2>2. theirs(n) \in Observed(id) /\ theirs(n).node = n
    BY <2>1
  <2> HIDE DEF theirs
  <2>3. QED
    BY <2>2
<1> HIDE DEF theirs
<1>3. f \in Bijection(Honest, from)
  <2>1. f \in [Honest -> from]
    OBVIOUS
  <2>2. \A m, n \in Honest : f[m] = f[n] => m = n
    BY <1>2
  <2>3. \A r \in from : \E n \in Honest : f[n] = r
    OBVIOUS
  <2> HIDE DEF f, from
  <2>4. QED
    BY <2>1, <2>2, <2>3 DEF Bijection, Injection, Surjection, IsInjective
<1>4. from \in SUBSET Observed(id)
  <2>1. \A n \in Honest : theirs(n) \in Observed(id)
    BY <1>2
  <2>2. QED
    BY <2>1
<1> HIDE DEF f, from
<1>5. Cardinality(from) = Cardinality(Honest)
  <2>1. ExistsBijection(Honest, from)
    BY <1>3 DEF ExistsBijection
  <2>2. QED
    BY <1>1, <2>1, FS_Bijection
<1>6. QED
  BY <1>4, <1>5, SomeAggregate DEF Decidable

\* Of any DON of which a quorum is honest, and any workflow: whatever the other
\* nodes do or fail to do, and whatever was observed, RunInNodeMode does not
\* keep the honest nodes waiting (cre/runtime.go:232-266).
THEOREM NodesNeverWaitInVain ==
  Cardinality(Nodes \ Faulty) >= Quorum => (Spec => []NothingHoldsAgreement)
<1> SUFFICES ASSUME Cardinality(Honest) >= Quorum PROVE Spec => []NothingHoldsAgreement
  BY DEF Honest
<1>1. Typed /\ IdsCountSteps /\ HonestInv => NothingHoldsAgreement
  <2> SUFFICES ASSUME Typed, IdsCountSteps, HonestInv, NEW s \in DOMAIN script,
                      \A n \in Honest : \E id \in Nat : Asked(n, s, id)
               PROVE  \E id \in Nat :
                        /\ \A n \in Honest : Asked(n, s, id)
                        /\ IF Undecided(id) THEN Decidable(id)
                           ELSE \A n \in Honest :
                                  \/ \E x \in results : x.node = n /\ x.step = s
                                  \/ CanBeGiven(n, s, id)
    BY DEF NothingHoldsAgreement
  <2>1. PICK id : id = IdsBefore(s) + 1
    OBVIOUS
  <2>2. \A n \in Honest : Asked(n, s, id)
    BY <2>1 DEF Asked, HonestInv, IdsCountSteps
  <2>3. id \in Nat
    <3>1. PICK n : n \in Honest
      <4>1. Cardinality(Honest) # 0
        BY QuorumAssumption, DonAssumption
      <4>2. Honest # {}
        BY <4>1, FS_EmptySet
      <4>3. QED
        BY <4>2
    <3>2. PICK r \in sent : r.id = id
      BY <2>2, <3>1 DEF Asked
    <3>3. QED
      BY <3>2 DEF Typed, TypeOK, Requests
  <2>4. Decidable(id)
    BY <2>2, HonestObserve
  <2>5. ASSUME ~Undecided(id), NEW n \in Honest,
               ~ \E x \in results : x.node = n /\ x.step = s
        PROVE  CanBeGiven(n, s, id)
    <3>1. PICK r \in sent : r.node = n /\ r.step = s /\ r.id = id /\ r.observation # None
      BY <2>2 DEF Asked
    <3>2. PICK d \in decided : d.id = id
      BY <2>5 DEF Undecided
    <3>3. Pending(r)
      BY <2>5, <3>1 DEF Pending
    <3>4. QED
      BY <3>1, <3>2, <3>3 DEF CanBeGiven
  <2>6. QED
    BY <2>2, <2>3, <2>4, <2>5
<1>2. Init => HonestInv
  BY DEF Init, HonestInv, Honest
<1>3. QED
  BY <1>1, <1>2, HonestStep, TypedInit, TypedStep, CountsInit, CountsStep, PTL DEF Spec
=============================================================================
