------------------------- MODULE SdkRuntimeProofs -------------------------
(***************************************************************************)
(* What the runtime guarantees for every bound: the type invariant and the *)
(* properties of every workflow first, then, for a workflow that neither   *)
(* nests RunInNodeMode nor recovers its panics, the isolation of the two   *)
(* modes, the uniqueness of the ids, and that the runtime implements the   *)
(* ledger of its host.                                                     *)
(***************************************************************************)
EXTENDS SdkRuntime, TLAPS

\* The bounds and index sets as the numbers they are.
LEMMA BoundsAreNumbers ==
  /\ MaxCalls \in Nat /\ MaxCalls >= 1
  /\ MaxIssued \in Nat /\ MaxDraws \in Nat /\ MaxNodeRuns \in Nat
  /\ DON \in Runtimes /\ DON \notin NodeRuntimes
  /\ CallIds \subseteq Int
  /\ NodeRuntimes \subseteq Runtimes /\ NodeRuntimes \subseteq Nat \ {0}
BY MaxCallsAssumption, BoundsAssumption
DEF DON, Runtimes, NodeRuntimes, CallIds

\* Accepting a request appends a typed call and keeps the earlier ones.
LEMMA AcceptType ==
  ASSUME calls \in Seq(Call), NEW id \in CallIds, NEW r \in Runtimes,
         NEW m \in Modes, NEW a \in Apis, Accept(id, r, m, a)
  PROVE  /\ calls' \in Seq(Call)
         /\ DOMAIN calls \subseteq DOMAIN calls'
BY DEF Accept, Call

\* Counting an id in bound keeps the counters typed and on their sides.
LEMMA CountType ==
  ASSUME TypeOK, NEW r \in Runtimes, InBound(r),
         nextCallId' = [nextCallId EXCEPT ![r] = NextId(r)]
  PROVE  /\ nextCallId' \in [Runtimes -> CallIds]
         /\ nextCallId'[DON] >= 0
         /\ \A n \in NodeRuntimes : nextCallId'[n] <= 0
BY BoundsAreNumbers
DEF TypeOK, InBound, NextId, ModeOf, CallIds, Runtimes

\* What hangs on the list of calls stays typed while the list only grows.
LEMMA GrowType ==
  ASSUME TypeOK, calls' \in Seq(Call), DOMAIN calls \subseteq DOMAIN calls',
         UNCHANGED <<answered, taken, awaiting, results>>
  PROVE  /\ answered' \subseteq DOMAIN calls' /\ taken' \subseteq answered'
         /\ awaiting' \in {0} \cup DOMAIN calls'
         /\ results' \subseteq (DOMAIN calls') \X ({0} \cup DOMAIN calls')
BY DEF TypeOK

\* Every variable keeps its type, and the two id counters stay on their own
\* side of zero, in every workflow.
THEOREM TypeCorrect == Spec => []TypeOK
<1>1. Init => TypeOK
  BY BoundsAreNumbers DEF Init, TypeOK, CallIds, ModeErrors, Modes
<1>2. TypeOK /\ [Next]_vars => TypeOK'
  <2> SUFFICES ASSUME TypeOK, [Next]_vars PROVE TypeOK'
    OBVIOUS
  <2>1. CASE UNCHANGED vars
    BY <2>1 DEF vars, guestVars, hostVars, TypeOK
  <2>2. ASSUME NEW r \in Runtimes, CallCapability(r) PROVE TypeOK'
    <3>1. calls' \in Seq(Call) /\ DOMAIN calls \subseteq DOMAIN calls'
      BY <2>2, AcceptType DEF CallCapability, TypeOK, Apis, InBound
    <3>2. UNCHANGED <<answered, taken, awaiting, results>>
      BY <2>2 DEF CallCapability
    <3>3. QED
      BY <2>2, <3>1, <3>2, GrowType, CountType DEF CallCapability, TypeOK
  <2>3. ASSUME NEW r \in Runtimes, Rand(r) PROVE TypeOK'
    BY <2>3 DEF Rand, TypeOK, ModeOf, Modes, hostVars
  <2>4. ASSUME NEW r \in Runtimes, Draw(r) PROVE TypeOK'
    <3>1. NumberFrom(r) \in DrawnNumber
      BY <2>4 DEF Draw, TypeOK, NumberFrom, DrawnNumber
    <3>2. QED
      BY <2>4, <3>1 DEF Draw, TypeOK, guestVars, hostVars
  <2>5. ASSUME GetSecrets PROVE TypeOK'
    <3>1. calls' \in Seq(Call) /\ DOMAIN calls \subseteq DOMAIN calls'
      BY <2>5, AcceptType, BoundsAreNumbers
      DEF GetSecrets, AcceptSecrets, TypeOK, Apis, InBound
    <3>2. UNCHANGED <<answered, taken, awaiting, results>>
      BY <2>5 DEF GetSecrets
    <3>3. QED
      BY <2>5, <3>1, <3>2, GrowType, CountType, BoundsAreNumbers
      DEF GetSecrets, TypeOK
  <2>6. ASSUME RunInNodeMode PROVE TypeOK'
    <3>1. created + 1 \in NodeRuntimes
      BY <2>6, BoundsAreNumbers DEF RunInNodeMode, TypeOK, NodeRuntimes
    <3>2. /\ created' \in 0 .. MaxNodeRuns
          /\ frames' \in Seq(NodeRuntimes)
          /\ hostMode' \in Modes
      BY <2>6, <3>1 DEF RunInNodeMode, TypeOK, Modes, NodeRuntimes
    <3>3. /\ modeErr' \in [Runtimes -> ModeErrors]
          /\ source' \in [Runtimes -> {"nil"} \cup Modes]
      BY <2>6, <3>1, BoundsAreNumbers
      DEF RunInNodeMode, TypeOK, CopiedSource, ModeErrors
    <3>4. /\ nextCallId' \in [Runtimes -> CallIds]
          /\ nextCallId'[DON] >= 0
          /\ \A n \in NodeRuntimes : nextCallId'[n] <= 0
      BY <2>6, <3>1, BoundsAreNumbers DEF RunInNodeMode, TypeOK
    <3>5. QED
      BY <2>6, <3>2, <3>3, <3>4 DEF RunInNodeMode, TypeOK
  <2>7. ASSUME ReturnFromNodeMode PROVE TypeOK'
    <3>1. frames[Len(frames)] \in NodeRuntimes /\ frames' \in Seq(NodeRuntimes)
      BY <2>7 DEF ReturnFromNodeMode, TypeOK
    <3>2. calls' \in Seq(Call) /\ DOMAIN calls \subseteq DOMAIN calls'
      BY <2>7, AcceptType, BoundsAreNumbers
      DEF ReturnFromNodeMode, TypeOK, Apis, Modes, InBound
    <3>3. UNCHANGED <<answered, taken, awaiting, results>>
      BY <2>7 DEF ReturnFromNodeMode
    <3>4. /\ nextCallId' \in [Runtimes -> CallIds]
          /\ nextCallId'[DON] >= 0
          /\ \A n \in NodeRuntimes : nextCallId'[n] <= 0
      BY <2>7, CountType, BoundsAreNumbers DEF ReturnFromNodeMode, TypeOK
    <3>5. nextNodeCallId' \in CallIds /\ nextNodeCallId' <= 0
      BY <2>7, <3>1, BoundsAreNumbers
      DEF ReturnFromNodeMode, TypeOK, LeftNodeCallId
    <3>6. modeErr' \in [Runtimes -> ModeErrors]
      BY <2>7 DEF ReturnFromNodeMode, TypeOK, LeftErrors, ModeErrors
    <3>7. QED
      BY <2>7, <3>1, <3>2, <3>3, <3>4, <3>5, <3>6, GrowType
      DEF ReturnFromNodeMode, TypeOK, Modes
  <2>8. ASSUME Recover PROVE TypeOK'
    BY <2>8 DEF Recover, PanicErrors, TypeOK, hostVars
  <2>9. ASSUME NEW i \in DOMAIN calls, Await(i) PROVE TypeOK'
    BY <2>9 DEF Await, TypeOK, guestVars, hostVars
  <2>10. ASSUME AwaitFails PROVE TypeOK'
    BY <2>10 DEF AwaitFails, TypeOK, guestVars, hostVars
  <2>11. ASSUME NEW i \in DOMAIN calls, HostAnswers(i) PROVE TypeOK'
    BY <2>11 DEF HostAnswers, TypeOK, guestVars
  <2>12. ASSUME AwaitReturns PROVE TypeOK'
    BY <2>12 DEF AwaitReturns, TypeOK, guestVars
  <2>13. QED
    BY <2>1, <2>2, <2>3, <2>4, <2>5, <2>6, <2>7, <2>8, <2>9, <2>10, <2>11, <2>12
    DEF Next, Idle
<1>3. QED
  BY <1>1, <1>2, PTL DEF Spec

-----------------------------------------------------------------------------
(* Every workflow: promises.                                                *)

\* At most one decision is recorded per promise, and the promise the guest is
\* blocked on has none yet.
OnceInv ==
  /\ \A d, e \in results : d[1] = e[1] => d = e
  /\ awaiting # 0 => Pending(awaiting)

LEMMA OnceInvIsKept == TypeOK /\ OnceInv /\ [Next]_vars => OnceInv'
<1> SUFFICES ASSUME TypeOK, OnceInv, [Next]_vars PROVE OnceInv'
  OBVIOUS
<1>1. CASE UNCHANGED <<results, awaiting>>
  BY <1>1 DEF OnceInv, Pending
<1>2. ASSUME NEW i \in DOMAIN calls, Await(i) PROVE OnceInv'
  BY <1>2 DEF Await, OnceInv, Pending
<1>3. ASSUME NEW j, awaiting # 0, awaiting' = 0,
             results' = results \cup {<<awaiting, j>>}
      PROVE  OnceInv'
  BY <1>3 DEF OnceInv, Pending
<1>4. QED
  BY <1>1, <1>2, <1>3
  DEF Next, vars, hostVars, CallCapability, Rand, Draw, GetSecrets,
      RunInNodeMode, ReturnFromNodeMode, Recover, AwaitFails, HostAnswers,
      AwaitReturns, Idle

\* Once decided, a promise keeps its result and never reaches the host again.
THEOREM PromisesAreFinal == Spec => PromiseFinal
<1>1. Init => OnceInv
  BY DEF Init, OnceInv
<1>2. TypeOK /\ OnceInv /\ [Next]_vars => OnceInv'
  BY OnceInvIsKept
<1>3. TypeOK /\ OnceInv /\ OnceInv' /\ [Next]_vars =>
        [\A d \in results :
           /\ awaiting' # d[1]
           /\ \A e \in results' : e[1] = d[1] => e = d]_vars
  <2> SUFFICES ASSUME TypeOK, OnceInv, OnceInv', [Next]_vars, NEW d \in results
               PROVE  /\ awaiting' # d[1]
                      /\ \A e \in results' : e[1] = d[1] => e = d
    OBVIOUS
  <2>1. results \subseteq results'
    BY DEF Next, vars, hostVars, CallCapability, Rand, Draw, GetSecrets,
           RunInNodeMode, ReturnFromNodeMode, Recover, Await, AwaitFails,
           HostAnswers, AwaitReturns, Idle
  <2>2. d[1] \in DOMAIN calls /\ d[1] # 0
    BY DEF TypeOK
  <2>3. QED
    BY <2>1, <2>2 DEF OnceInv, Pending
<1>4. QED
  BY <1>1, <1>2, <1>3, TypeCorrect, PTL DEF Spec, PromiseFinal

-----------------------------------------------------------------------------
(* Every workflow: DON ids and dead NodeRuntimes.                           *)

\* The ids the DON runtime issued lie between zero and its counter, those of
\* the NodeRuntimes below zero.
DonIdInv ==
  /\ \A i \in DOMAIN calls :
       IF calls[i].by = DON
       THEN calls[i].id \in 1 .. nextCallId[DON]
       ELSE calls[i].id < 0
  /\ DonIdsUnique

\* How the list of calls changes in a step: it stays, or it gains one call of a
\* usable runtime under that runtime's next id, which is used up.
CallStep ==
  \/ /\ UNCHANGED calls
     /\ nextCallId'[DON] \in Int /\ nextCallId'[DON] >= nextCallId[DON]
  \/ \E r \in Held, m \in Modes, a \in Apis :
       /\ calls' = Append(calls, [id |-> NextId(r), by |-> r, mode |-> m, api |-> a])
       /\ nextCallId' = [nextCallId EXCEPT ![r] = NextId(r)]
       /\ InBound(r)
       /\ \/ Usable(r) /\ m = hostMode /\ hostMode' = hostMode
          \/ r = DON /\ m = "DON" /\ hostMode' = "DON" /\ frames # <<>>

LEMMA CallsAreTyped ==
  TypeOK => \A i \in DOMAIN calls :
              /\ calls[i].id \in Int /\ calls[i].by \in Runtimes
              /\ calls[i].mode \in Modes
<1> SUFFICES ASSUME TypeOK, NEW i \in DOMAIN calls
             PROVE  /\ calls[i].id \in Int /\ calls[i].by \in Runtimes
                    /\ calls[i].mode \in Modes
  OBVIOUS
<1>1. calls[i] \in Call
  BY DEF TypeOK
<1>2. QED
  BY <1>1, BoundsAreNumbers DEF Call

\* The next id of a runtime continues on the side of zero of its mode.
LEMMA NextIdSides ==
  ASSUME TypeOK, NEW r \in Runtimes
  PROVE  /\ NextId(r) \in Int
         /\ r = DON => NextId(r) = nextCallId[DON] + 1 /\ NextId(r) > 0
         /\ r # DON => NextId(r) = nextCallId[r] - 1 /\ NextId(r) < 0
<1>1. nextCallId[r] \in Int
  BY BoundsAreNumbers DEF TypeOK
<1>2. CASE r = DON
  BY <1>1, <1>2 DEF NextId, ModeOf, TypeOK
<1>3. CASE r # DON
  BY <1>1, <1>3 DEF NextId, ModeOf, TypeOK, Runtimes
<1>4. QED
  BY <1>2, <1>3

LEMMA HeldAreRuntimes == TypeOK => Held \subseteq Runtimes
BY BoundsAreNumbers DEF TypeOK, Held, TeeRuntime, Runtimes, NodeRuntimes

\* Every step is a CallStep.
LEMMA StepsIssueOneCall == TypeOK /\ [Next]_vars => CallStep
<1> SUFFICES ASSUME TypeOK, [Next]_vars PROVE CallStep
  OBVIOUS
<1>1. nextCallId[DON] \in Int /\ DON \in Held
  BY BoundsAreNumbers DEF TypeOK, Held, TeeRuntime
<1>2. CASE UNCHANGED <<calls, nextCallId>>
  BY <1>1, <1>2 DEF CallStep
<1>3. ASSUME NEW r \in Runtimes, CallCapability(r) PROVE CallStep
  <2>1. CASE UNCHANGED calls
    BY <1>1, <1>3, <2>1, BoundsAreNumbers
    DEF CallCapability, CallStep, TypeOK, NextId, ModeOf
  <2>2. CASE Usable(r) /\ Accept(NextId(r), r, hostMode, "capability")
    BY <1>3, <2>2 DEF CallCapability, CallStep, Accept, TypeOK, Apis
  <2>3. QED
    BY <1>3, <2>1, <2>2 DEF CallCapability
<1>4. ASSUME GetSecrets PROVE CallStep
  <2>1. CASE UNCHANGED calls
    BY <1>1, <1>4, <2>1, BoundsAreNumbers
    DEF GetSecrets, CallStep, TypeOK, NextId, ModeOf
  <2>2. CASE Accept(NextId(DON), DON, hostMode, "secrets")
    BY <1>1, <1>4, <2>2 DEF GetSecrets, AcceptSecrets, CallStep, Accept, TypeOK, Apis
  <2>3. QED
    BY <1>4, <2>1, <2>2 DEF GetSecrets, AcceptSecrets
<1>5. ASSUME RunInNodeMode PROVE CallStep
  <2>1. created + 1 \in NodeRuntimes
    BY <1>5, BoundsAreNumbers DEF RunInNodeMode, TypeOK, NodeRuntimes
  <2>2. QED
    BY <1>1, <1>5, <2>1, BoundsAreNumbers DEF RunInNodeMode, CallStep, TypeOK
<1>6. ASSUME ReturnFromNodeMode PROVE CallStep
  <2>1. CASE UNCHANGED calls
    BY <1>1, <1>6, <2>1, BoundsAreNumbers
    DEF ReturnFromNodeMode, CallStep, TypeOK, NextId, ModeOf
  <2>2. CASE /\ InBound(DON)
             /\ nextCallId' = [nextCallId EXCEPT ![DON] = NextId(DON)]
             /\ Accept(NextId(DON), DON, "DON", "capability")
    BY <1>1, <1>6, <2>2
    DEF ReturnFromNodeMode, CallStep, Accept, Apis, Modes
  <2>3. QED
    BY <1>6, <2>1, <2>2 DEF ReturnFromNodeMode
<1>7. QED
  BY <1>2, <1>3, <1>4, <1>5, <1>6
  DEF Next, vars, guestVars, hostVars, Rand, Draw, Recover, Await, AwaitFails,
      HostAnswers, AwaitReturns, Idle

LEMMA DonIdInvIsKept == TypeOK /\ DonIdInv /\ [Next]_vars => DonIdInv'
<1> SUFFICES ASSUME TypeOK, DonIdInv, CallStep PROVE DonIdInv'
  BY StepsIssueOneCall
<1>1. CASE /\ UNCHANGED calls
           /\ nextCallId'[DON] \in Int /\ nextCallId'[DON] >= nextCallId[DON]
  <2>1. nextCallId[DON] \in Int
    BY BoundsAreNumbers DEF TypeOK
  <2>2. \A i \in DOMAIN calls :
          calls[i].id \in 1 .. nextCallId[DON]
            => calls[i].id \in 1 .. nextCallId'[DON]
    BY <1>1, <2>1, CallsAreTyped
  <2>3. QED
    BY <1>1, <2>2 DEF DonIdInv, DonIdsUnique
<1>2. ASSUME NEW r \in Held, NEW m \in Modes, NEW a \in Apis, InBound(r),
             calls' = Append(calls, [id |-> NextId(r), by |-> r,
                                     mode |-> m, api |-> a]),
             nextCallId' = [nextCallId EXCEPT ![r] = NextId(r)]
      PROVE  DonIdInv'
  <2> DEFINE new == Len(calls) + 1
  <2>1. /\ DOMAIN calls' = (DOMAIN calls) \cup {new}
        /\ new \notin DOMAIN calls
        /\ \A i \in DOMAIN calls : calls'[i] = calls[i]
        /\ calls'[new].id = NextId(r) /\ calls'[new].by = r
    BY <1>2
  <2>2. /\ nextCallId[DON] \in Nat
        /\ r = DON => NextId(r) = nextCallId[DON] + 1
                      /\ nextCallId'[DON] = nextCallId[DON] + 1
        /\ r # DON => NextId(r) < 0 /\ nextCallId'[DON] = nextCallId[DON]
    <3>1. nextCallId \in [Runtimes -> CallIds] /\ nextCallId[DON] >= 0
      BY DEF TypeOK
    <3>2. r \in Runtimes /\ DON \in Runtimes
      BY HeldAreRuntimes, BoundsAreNumbers
    <3>3. nextCallId[DON] \in Nat
      BY <3>1, <3>2, BoundsAreNumbers DEF CallIds
    <3>4. QED
      BY <1>2, <3>1, <3>2, <3>3, NextIdSides
  <2>3. \A i \in DOMAIN calls : calls[i].id \in Int
    BY CallsAreTyped
  <2>4. \A i \in DOMAIN calls' :
          IF calls'[i].by = DON
          THEN calls'[i].id \in 1 .. nextCallId'[DON]
          ELSE calls'[i].id < 0
    <3>1. ASSUME NEW i \in DOMAIN calls
          PROVE  IF calls'[i].by = DON
                 THEN calls'[i].id \in 1 .. nextCallId'[DON]
                 ELSE calls'[i].id < 0
      BY <2>1, <2>2, <2>3 DEF DonIdInv
    <3>2. QED
      BY <2>1, <2>2, <3>1
  <2>5. \A i \in DOMAIN calls :
          calls[i].by = DON \/ r = DON => calls[i].id # NextId(r)
    BY <2>2, <2>3 DEF DonIdInv
  <2>6. DonIdsUnique'
    BY <2>1, <2>5 DEF DonIdInv, DonIdsUnique
  <2>7. QED
    BY <2>4, <2>6 DEF DonIdInv
<1>3. QED
  BY <1>1, <1>2 DEF CallStep

\* Whatever the workflow does, an id the DON runtime issued is never repeated.
THEOREM DonIdsAreUnique == Spec => []DonIdsUnique
<1>1. Init => DonIdInv
  BY DEF Init, DonIdInv, DonIdsUnique
<1>2. TypeOK /\ DonIdInv /\ [Next]_vars => DonIdInv'
  BY DonIdInvIsKept
<1>3. DonIdInv => DonIdsUnique
  BY DEF DonIdInv
<1>4. QED
  BY <1>1, <1>2, <1>3, TypeCorrect, PTL DEF Spec

\* The stack holds NodeRuntimes that exist; one that does not has no mode error.
StackInv ==
  /\ \A k \in DOMAIN frames : frames[k] <= created
  /\ \A n \in NodeRuntimes : n > created => modeErr[n] = "none"

LEMMA StackInvIsKept == TypeOK /\ StackInv /\ [Next]_vars => StackInv'
<1> SUFFICES ASSUME TypeOK, StackInv, [Next]_vars PROVE StackInv'
  OBVIOUS
<1>1. CASE UNCHANGED <<modeErr, created, frames>>
  BY <1>1 DEF StackInv
<1>2. CASE RunInNodeMode
  <2>1. created \in Nat
    BY BoundsAreNumbers DEF TypeOK
  <2>2. \A k \in DOMAIN frames : frames[k] \in Int
    BY BoundsAreNumbers DEF TypeOK, NodeRuntimes
  <2>3. \A k \in DOMAIN frames' : frames'[k] <= created'
    BY <1>2, <2>1, <2>2 DEF RunInNodeMode, StackInv, TypeOK
  <2>4. \A n \in NodeRuntimes : n > created' => modeErr'[n] = "none"
    BY <1>2, <2>1, BoundsAreNumbers DEF RunInNodeMode, StackInv, TypeOK
  <2>5. QED
    BY <2>3, <2>4 DEF StackInv
<1>3. CASE ReturnFromNodeMode
  <2>1. /\ frames[Len(frames)] \in NodeRuntimes
        /\ frames[Len(frames)] <= created
    BY <1>3 DEF ReturnFromNodeMode, StackInv, TypeOK
  <2>2. \A k \in DOMAIN frames' : frames'[k] <= created'
    BY <1>3 DEF ReturnFromNodeMode, StackInv, TypeOK
  <2>3. created \in Int
    BY BoundsAreNumbers DEF TypeOK
  <2>4. \A n \in NodeRuntimes : n > created' => modeErr'[n] = "none"
    BY <1>3, <2>1, <2>3, BoundsAreNumbers
    DEF ReturnFromNodeMode, StackInv, TypeOK, LeftErrors
  <2>5. QED
    BY <2>2, <2>4 DEF StackInv
<1>4. CASE Recover
  BY <1>4 DEF Recover, PanicErrors, StackInv, TypeOK
<1>5. QED
  BY <1>1, <1>2, <1>3, <1>4
  DEF Next, vars, guestVars, CallCapability, Rand, Draw, GetSecrets,
      Await, AwaitFails, HostAnswers, AwaitReturns, Idle

\* A NodeRuntime that returned keeps its error, and the DON runtime is open in
\* DON mode only.
TimeInv ==
  /\ \A r \in returned : r <= created /\ modeErr[r] = "NodeModeCallInDonMode"
  /\ Usable(DON) => hostMode = "DON"

LEMMA TimeInvIsKept == TypeOK /\ StackInv /\ TimeInv /\ [Next]_vars => TimeInv'
<1> SUFFICES ASSUME TypeOK, StackInv, TimeInv, [Next]_vars PROVE TimeInv'
  OBVIOUS
<1>0. created \in Nat /\ (\A r \in returned : r \in NodeRuntimes /\ r \in Nat)
  BY BoundsAreNumbers DEF TypeOK
<1>1. CASE UNCHANGED <<modeErr, created, returned, hostMode>>
  BY <1>1 DEF TimeInv, Usable
<1>2. CASE RunInNodeMode
  <2>1. modeErr'[DON] = "DonModeCallInNodeMode"
    BY <1>2, BoundsAreNumbers DEF RunInNodeMode, TypeOK
  <2>2. \A r \in returned : modeErr'[r] = modeErr[r] /\ r <= created'
    BY <1>0, <1>2, BoundsAreNumbers DEF RunInNodeMode, TypeOK, TimeInv
  <2>3. QED
    BY <1>2, <2>1, <2>2 DEF RunInNodeMode, TimeInv, Usable
<1>3. CASE ReturnFromNodeMode
  <2>1. PICK n : n = frames[Len(frames)]
    OBVIOUS
  <2>2. n \in NodeRuntimes /\ n <= created
    BY <1>3, <2>1 DEF ReturnFromNodeMode, StackInv, TypeOK
  <2>3. /\ returned' = returned \cup {n} /\ created' = created /\ hostMode' = "DON"
        /\ modeErr' = LeftErrors(n)
    BY <1>3, <2>1 DEF ReturnFromNodeMode
  <2>4. \A r \in returned \cup {n} : modeErr'[r] = "NodeModeCallInDonMode"
    BY <1>0, <2>2, <2>3, BoundsAreNumbers DEF TypeOK, TimeInv, LeftErrors
  <2>5. QED
    BY <2>2, <2>3, <2>4 DEF TimeInv
<1>4. CASE Recover
  BY <1>1, <1>4 DEF Recover, PanicErrors, hostVars
<1>5. QED
  BY <1>1, <1>2, <1>3, <1>4
  DEF Next, vars, guestVars, hostVars, CallCapability, Rand, Draw, GetSecrets,
      Await, AwaitFails, HostAnswers, AwaitReturns, Idle

\* What is new in a list that grew by one.
LEMMA NewOfAppend ==
  ASSUME NEW T, NEW list \in Seq(T), NEW e,
         NEW i \in DOMAIN Append(list, e) \ DOMAIN list
  PROVE  Append(list, e)[i] = e
OBVIOUS

\* In time: no runtime that returned uses anything, nor does the DON runtime
\* outside DON mode.
LEMMA CallsInTime ==
  ASSUME TypeOK, TimeInv, [Next]_vars, NEW use \in NewCalls
  PROVE  use.by \notin returned /\ (use.by = DON => use.mode = "DON")
<1>0. DON \notin returned
  BY BoundsAreNumbers DEF TypeOK
<1>1. PICK i \in DOMAIN calls' \ DOMAIN calls : use = calls'[i]
  BY DEF NewCalls
<1>2. ASSUME NEW q \in Runtimes, NEW id, NEW m, NEW a, Accept(id, q, m, a),
             q = DON => m = "DON", q \notin returned
      PROVE  use.by \notin returned /\ (use.by = DON => use.mode = "DON")
  <2>1. calls'[i] = [id |-> id, by |-> q, mode |-> m, api |-> a]
    BY <1>1, <1>2, NewOfAppend DEF Accept, TypeOK
  <2>2. QED
    BY <1>1, <1>2, <2>1
<1>3. calls' # calls
  BY <1>1
<1>4. ASSUME NEW r \in Runtimes, CallCapability(r)
      PROVE  use.by \notin returned /\ (use.by = DON => use.mode = "DON")
  <2>1. Usable(r) /\ Accept(NextId(r), r, hostMode, "capability")
    BY <1>3, <1>4 DEF CallCapability
  <2>2. (r = DON => hostMode = "DON") /\ r \notin returned
    BY <2>1 DEF TimeInv, Usable
  <2>3. QED
    BY <1>2, <2>1, <2>2
<1>5. ASSUME GetSecrets
      PROVE  use.by \notin returned /\ (use.by = DON => use.mode = "DON")
  <2>1. Usable(DON) /\ Accept(NextId(DON), DON, hostMode, "secrets")
    BY <1>3, <1>5 DEF GetSecrets, AcceptSecrets
  <2>2. hostMode = "DON"
    BY <2>1 DEF TimeInv
  <2>3. QED
    BY <1>0, <1>2, <2>1, <2>2, BoundsAreNumbers
<1>6. ASSUME ReturnFromNodeMode
      PROVE  use.by \notin returned /\ (use.by = DON => use.mode = "DON")
  <2>1. Accept(NextId(DON), DON, "DON", "capability")
    BY <1>3, <1>6 DEF ReturnFromNodeMode
  <2>2. QED
    BY <1>0, <1>2, <2>1, BoundsAreNumbers
<1>7. QED
  BY <1>3, <1>4, <1>5, <1>6
  DEF Next, vars, hostVars, Rand, Draw, RunInNodeMode, Recover, Await, AwaitFails,
      HostAnswers, AwaitReturns, Idle

LEMMA DrawsInTime ==
  ASSUME TypeOK, TimeInv, [Next]_vars, NEW use \in NewDraws
  PROVE  use.by \notin returned /\ (use.by = DON => use.mode = "DON")
<1>1. PICK i \in DOMAIN draws' \ DOMAIN draws : use = draws'[i]
  BY DEF NewDraws
<1>2. draws' # draws
  BY <1>1
<1>3. PICK r \in Runtimes : Draw(r)
  BY <1>2
  DEF Next, vars, CallCapability, Rand, GetSecrets, RunInNodeMode, ReturnFromNodeMode,
      Recover, Await, AwaitFails, HostAnswers, AwaitReturns, Idle
<1>4. use = NumberFrom(r)
  BY <1>1, <1>3, NewOfAppend DEF Draw, TypeOK
<1>5. Usable(r)
  BY <1>3 DEF Draw
<1>6. QED
  BY <1>4, <1>5 DEF NumberFrom, TimeInv, Usable

LEMMA SourcesInTime ==
  ASSUME TypeOK, TimeInv, [Next]_vars
  PROVE  /\ \A r \in returned : source'[r] = source[r]
         /\ hostMode = "NODE" => source'[DON] = source[DON]
<1>1. CASE UNCHANGED source
  BY <1>1
<1>2. ASSUME NEW q \in Runtimes, Rand(q)
      PROVE  /\ \A r \in returned : source'[r] = source[r]
             /\ hostMode = "NODE" => source'[DON] = source[DON]
  <2>1. q \notin returned /\ (q = DON => hostMode = "DON")
    BY <1>2 DEF Rand, Usable, TimeInv
  <2>2. QED
    BY <1>2, <2>1, BoundsAreNumbers DEF Rand, TypeOK
<1>3. CASE RunInNodeMode
  <2>1. created + 1 # DON /\ (\A r \in returned : r # created + 1)
    BY <1>3, BoundsAreNumbers DEF RunInNodeMode, TypeOK, TimeInv, DON
  <2>2. QED
    BY <1>3, <2>1, BoundsAreNumbers DEF RunInNodeMode, CopiedSource, TypeOK
<1>4. QED
  BY <1>1, <1>2, <1>3
  DEF Next, vars, guestVars, CallCapability, Draw, GetSecrets, ReturnFromNodeMode,
      Recover, Await, AwaitFails, HostAnswers, AwaitReturns, Idle

\* A NodeRuntime whose function returned makes no request, fetches no source and
\* draws no number, and the DON runtime does so in DON mode only
\* (runtime.go:79, 109, 139, 245-265), however calls of RunInNodeMode nest and
\* whatever panics are recovered.
THEOREM RuntimesAreUsedInTime == Spec => UsedInTime
<1>1. Init => StackInv /\ TimeInv
  BY BoundsAreNumbers DEF Init, StackInv, TimeInv
<1>2. TypeOK /\ TimeInv /\ [Next]_vars =>
        /\ \A r \in returned :
             /\ source'[r] = source[r]
             /\ \A use \in NewCalls \cup NewDraws : use.by # r
        /\ \A use \in NewCalls \cup NewDraws : use.by = DON => use.mode = "DON"
        /\ hostMode = "NODE" => source'[DON] = source[DON]
  BY CallsInTime, DrawsInTime, SourcesInTime
<1>3. QED
  BY <1>1, <1>2, StackInvIsKept, TimeInvIsKept, TypeCorrect, PTL DEF Spec, UsedInTime

-----------------------------------------------------------------------------
(* A workflow that neither nests RunInNodeMode nor recovers its panics.     *)

Disciplined == ~Nesting /\ ~Recovers

\* Where the mode errors stand while the DON code runs, and while fn runs.
IsolationInv ==
  /\ Len(frames) <= 1
  /\ frames = <<>> =>
       /\ hostMode = "DON" /\ modeErr[DON] = "none"
       /\ \A n \in 1 .. created : modeErr[n] = "NodeModeCallInDonMode"
  /\ frames # <<>> =>
       /\ hostMode = "NODE" /\ modeErr[DON] = "DonModeCallInNodeMode"
       /\ frames[1] = created /\ modeErr[created] = "none"
       /\ \A n \in 1 .. created - 1 : modeErr[n] = "NodeModeCallInDonMode"

LEMMA AtMostOne == \A n \in Nat : n <= 1 /\ n # 0 => n = 1
OBVIOUS

LEMMA StackLengths ==
  TypeOK => /\ Len(frames) \in Nat
            /\ frames = <<>> <=> Len(frames) = 0
            /\ frames # <<>> => frames[Len(frames)] \in NodeRuntimes
BY DEF TypeOK

LEMMA IsolationIsKept ==
  ASSUME Disciplined, TypeOK, IsolationInv, [Next]_vars
  PROVE  IsolationInv'
<1>1. CASE UNCHANGED <<modeErr, created, frames, hostMode>>
  BY <1>1 DEF IsolationInv
<1>2. CASE RunInNodeMode
  <2>1. frames = <<>> /\ frames' # <<>> /\ created \in Nat
    BY <1>2, BoundsAreNumbers DEF RunInNodeMode, Disciplined, TypeOK
  <2>2. Len(frames') = 1 /\ frames'[1] = created + 1
    BY <1>2, <2>1 DEF RunInNodeMode
  <2>3. created + 1 \in NodeRuntimes /\ created' = created + 1
    BY <1>2, <2>1, BoundsAreNumbers DEF RunInNodeMode, TypeOK, NodeRuntimes
  <2>4. /\ modeErr'[created + 1] = "none"
        /\ modeErr'[DON] = "DonModeCallInNodeMode"
    BY <1>2, <2>1, <2>3, BoundsAreNumbers DEF RunInNodeMode, IsolationInv, TypeOK
  <2>5. ASSUME NEW n \in 1 .. created
        PROVE  modeErr'[n] = "NodeModeCallInDonMode"
    <3>1. n \in Runtimes /\ n # created + 1 /\ n # DON
      BY <2>1, <2>3, BoundsAreNumbers DEF NodeRuntimes, DON
    <3>2. modeErr[n] = "NodeModeCallInDonMode"
      BY <2>1 DEF IsolationInv
    <3>3. modeErr' = [modeErr EXCEPT ![created + 1] = modeErr[DON],
                                     ![DON] = "DonModeCallInNodeMode"]
      BY <1>2 DEF RunInNodeMode
    <3>4. modeErr \in [Runtimes -> ModeErrors]
      BY DEF TypeOK
    <3>5. QED
      BY <3>1, <3>2, <3>3, <3>4
  <2>6. hostMode' = "NODE"
    BY <1>2 DEF RunInNodeMode
  <2>7. created' - 1 = created
    BY <2>1, <2>3
  <2>8. QED
    BY <2>1, <2>2, <2>3, <2>4, <2>5, <2>6, <2>7 DEF IsolationInv
<1>3. CASE ReturnFromNodeMode
  <2>1. /\ Len(frames) = 1 /\ frames # <<>>
        /\ frames[Len(frames)] = created /\ created \in NodeRuntimes
    <3>1. frames # <<>> /\ Len(frames) <= 1
      BY <1>3 DEF ReturnFromNodeMode, IsolationInv
    <3>2. Len(frames) = 1
      BY <3>1, StackLengths, AtMostOne
    <3>3. frames[1] = created
      BY <3>1 DEF IsolationInv
    <3>4. QED
      BY <3>1, <3>2, <3>3, StackLengths
  <2>2. frames' = <<>> /\ Len(frames') = 0
    BY <1>3, <2>1 DEF ReturnFromNodeMode, TypeOK
  <2>3. modeErr'[created] = "NodeModeCallInDonMode" /\ modeErr'[DON] = "none"
    BY <1>3, <2>1, BoundsAreNumbers DEF ReturnFromNodeMode, TypeOK, LeftErrors
  <2>4. ASSUME NEW n \in 1 .. created - 1
        PROVE  modeErr'[n] = "NodeModeCallInDonMode"
    <3>1. n \in NodeRuntimes /\ n # created /\ n # DON
      BY <2>1, BoundsAreNumbers DEF NodeRuntimes, DON
    <3>2. modeErr[n] = "NodeModeCallInDonMode"
      BY <2>1 DEF IsolationInv
    <3>3. QED
      BY <1>3, <2>1, <3>1, <3>2, BoundsAreNumbers
      DEF ReturnFromNodeMode, TypeOK, LeftErrors
  <2>5. \A n \in 1 .. created : n = created \/ n \in 1 .. created - 1
    BY <2>1 DEF NodeRuntimes
  <2>6. QED
    BY <1>3, <2>2, <2>3, <2>4, <2>5 DEF ReturnFromNodeMode, IsolationInv
<1>4. QED
  BY <1>1, <1>2, <1>3
  DEF Next, vars, guestVars, hostVars, CallCapability, Rand, Draw, GetSecrets,
      Recover, Disciplined, Await, AwaitFails, HostAnswers, AwaitReturns, Idle

LEMMA IsolationMakesSole == TypeOK /\ IsolationInv => SoleUsableRuntime
<1> SUFFICES ASSUME TypeOK, IsolationInv PROVE SoleUsableRuntime
  OBVIOUS
<1>1. created \in Nat
  BY BoundsAreNumbers DEF TypeOK
<1>2. CASE frames = <<>>
  BY <1>1, <1>2
  DEF IsolationInv, SoleUsableRuntime, Active, Held, TeeRuntime, Usable, ModeOf, DON
<1>3. CASE frames # <<>>
  <2>1. Len(frames) = 1 /\ Active = created /\ created \in 1 .. created
    <3>1. frames # <<>> /\ Len(frames) <= 1 /\ frames[1] = created
      BY <1>3 DEF IsolationInv
    <3>2. Len(frames) = 1
      BY <3>1, StackLengths, AtMostOne
    <3>3. created \in NodeRuntimes
      BY <3>1, <3>2, StackLengths
    <3>4. QED
      BY <3>1, <3>2, <3>3 DEF Active, NodeRuntimes
  <2>2. hostMode = ModeOf(Active)
    BY <1>3, <2>1 DEF IsolationInv, ModeOf, DON
  <2>3. {r \in Held : Usable(r)} = {Active}
    BY <1>1, <1>3, <2>1 DEF IsolationInv, Held, TeeRuntime, Usable, DON
  <2>4. QED
    BY <2>2, <2>3 DEF SoleUsableRuntime
<1>4. QED
  BY <1>2, <1>3

\* In a disciplined workflow one runtime is usable at a time: the one whose
\* code runs, in the mode the host is in.
THEOREM ModesAreIsolated ==
  ASSUME Disciplined
  PROVE  Spec => []SoleUsableRuntime
<1>1. Init => IsolationInv
  BY BoundsAreNumbers DEF Init, IsolationInv
<1>2. TypeOK /\ IsolationInv /\ [Next]_vars => IsolationInv'
  BY IsolationIsKept
<1>3. TypeOK /\ IsolationInv => SoleUsableRuntime
  BY IsolationMakesSole
<1>4. QED
  BY <1>1, <1>2, <1>3, TypeCorrect, PTL DEF Spec

\* A stream is drawn from only in its mode, because a generator over it hangs
\* on a runtime of that mode.
DrawInv ==
  /\ \A r \in Runtimes : source[r] \in {"nil", ModeOf(r)}
  /\ DrawsStayInMode

THEOREM StreamsAreSeparate ==
  ASSUME Disciplined
  PROVE  Spec => []DrawsStayInMode
<1>1. Init => IsolationInv /\ DrawInv
  BY BoundsAreNumbers DEF Init, IsolationInv, DrawInv, DrawsStayInMode
<1>2. TypeOK /\ IsolationInv /\ DrawInv /\ [Next]_vars
        => IsolationInv' /\ DrawInv'
  <2> SUFFICES ASSUME TypeOK, IsolationInv, DrawInv, [Next]_vars
               PROVE  DrawInv'
    BY IsolationIsKept
  <2>1. CASE UNCHANGED <<source, draws>>
    BY <2>1 DEF DrawInv, DrawsStayInMode
  <2>2. ASSUME NEW r \in Runtimes, Rand(r) PROVE DrawInv'
    BY <2>2 DEF Rand, DrawInv, DrawsStayInMode, TypeOK
  <2>3. ASSUME NEW r \in Runtimes, Draw(r) PROVE DrawInv'
    <3>1. hostMode = ModeOf(r)
      BY <2>3, IsolationMakesSole DEF Draw, SoleUsableRuntime
    <3>2. /\ draws' = Append(draws, NumberFrom(r)) /\ draws \in Seq(DrawnNumber)
          /\ NumberFrom(r).stream = NumberFrom(r).mode
      BY <2>3, <3>1 DEF Draw, DrawInv, NumberFrom, TypeOK
    <3>3. UNCHANGED source
      BY <2>3 DEF Draw, guestVars
    <3>4. QED
      BY <3>2, <3>3 DEF DrawInv, DrawsStayInMode
  <2>4. CASE RunInNodeMode
    BY <2>4 DEF RunInNodeMode, CopiedSource, DrawInv, DrawsStayInMode, TypeOK
  <2>5. QED
    BY <2>1, <2>2, <2>3, <2>4
    DEF Next, vars, guestVars, CallCapability, GetSecrets, ReturnFromNodeMode,
        Recover, Await, AwaitFails, HostAnswers, AwaitReturns, Idle
<1>3. DrawInv => DrawsStayInMode
  BY DEF DrawInv
<1>4. QED
  BY <1>1, <1>2, <1>3, TypeCorrect, PTL DEF Spec

-----------------------------------------------------------------------------
(* A disciplined workflow: ids, and the host's ledger.                      *)

\* The lowest node id used so far: the counter of the running NodeRuntime, or
\* the one the last run left behind.
NodeFloor == IF frames = <<>> THEN nextNodeCallId ELSE nextCallId[frames[1]]

IdInv ==
  /\ DonIdInv
  /\ \A i \in DOMAIN calls : calls[i].by # DON => calls[i].id >= NodeFloor
  /\ UniqueIds
  /\ CallsMatchMode

\* The floor only sinks, and by one when a NodeRuntime issues a request.
LEMMA FloorSinks ==
  ASSUME Disciplined, TypeOK, IsolationInv, [Next]_vars
  PROVE  /\ NodeFloor \in Int /\ NodeFloor' \in Int /\ NodeFloor' <= NodeFloor
         /\ \A r \in NodeRuntimes :
              Usable(r) /\ nextCallId' = [nextCallId EXCEPT ![r] = NextId(r)]
                        /\ frames' = frames /\ r \in Held
                => NextId(r) < NodeFloor /\ NodeFloor' = NextId(r)
<1> DEFINE top == frames[1]
<1>1. /\ frames # <<>> => top \in NodeRuntimes /\ nextCallId[top] \in Int
      /\ nextNodeCallId \in Int
  <2>1. frames # <<>> => Len(frames) = 1
    BY StackLengths, AtMostOne DEF IsolationInv
  <2>2. frames # <<>> => top \in NodeRuntimes
    BY <2>1, StackLengths
  <2>3. nextCallId \in [Runtimes -> CallIds] /\ nextNodeCallId \in CallIds
    BY DEF TypeOK
  <2>4. QED
    BY <2>2, <2>3, BoundsAreNumbers
<1>2. NodeFloor \in Int
  BY <1>1 DEF NodeFloor
<1>3. ASSUME UNCHANGED frames, UNCHANGED nextNodeCallId,
             NEW r \in Runtimes,
             nextCallId' = [nextCallId EXCEPT ![r] = NextId(r)]
      PROVE  /\ NodeFloor' \in Int /\ NodeFloor' <= NodeFloor
             /\ r # DON /\ r = top /\ frames # <<>>
                  => NextId(r) < NodeFloor /\ NodeFloor' = NextId(r)
  <2>1. nextCallId \in [Runtimes -> CallIds]
    BY DEF TypeOK
  <2>2. CASE frames = <<>>
    BY <1>1, <1>3, <2>2 DEF NodeFloor
  <2>3. CASE frames # <<>> /\ r # top
    BY <1>1, <1>3, <2>1, <2>3, BoundsAreNumbers DEF NodeFloor
  <2>4. CASE frames # <<>> /\ r = top
    <3>1. NextId(r) \in Int /\ NextId(r) = nextCallId[top] - 1 /\ r # DON
      BY <1>1, <2>4, NextIdSides, BoundsAreNumbers
    <3>2. nextCallId'[top] = NextId(r)
      BY <1>3, <2>1, <2>4
    <3>3. NodeFloor = nextCallId[top] /\ NodeFloor' = nextCallId'[top]
      BY <1>3, <2>4 DEF NodeFloor
    <3>4. QED
      BY <1>1, <2>4, <3>1, <3>2, <3>3
  <2>5. QED
    BY <2>2, <2>3, <2>4
<1>4. NodeFloor' \in Int /\ NodeFloor' <= NodeFloor
  <2>1. CASE UNCHANGED <<frames, nextCallId, nextNodeCallId>>
    BY <1>2, <2>1 DEF NodeFloor
  <2>2. ASSUME NEW r \in Runtimes, CallCapability(r)
        PROVE  NodeFloor' \in Int /\ NodeFloor' <= NodeFloor
    BY <1>3, <2>2 DEF CallCapability
  <2>3. CASE GetSecrets
    BY <1>3, <2>3, BoundsAreNumbers DEF GetSecrets, AcceptSecrets
  <2>4. CASE RunInNodeMode
    <3>1. frames = <<>> /\ created + 1 \in Runtimes
      BY <2>4, BoundsAreNumbers
      DEF RunInNodeMode, Disciplined, TypeOK, NodeRuntimes, Runtimes
    <3>2. frames' # <<>> /\ frames'[1] = created + 1
      BY <2>4, <3>1 DEF RunInNodeMode, TypeOK
    <3>3. nextCallId'[created + 1] = nextNodeCallId
      BY <2>4, <3>1 DEF RunInNodeMode, TypeOK
    <3>4. NodeFloor' = NodeFloor
      BY <3>1, <3>2, <3>3 DEF NodeFloor
    <3>5. QED
      BY <1>2, <3>4
  <2>5. CASE ReturnFromNodeMode
    <3>1. frames # <<>> /\ Len(frames) = 1
      BY <2>5, StackLengths, AtMostOne DEF ReturnFromNodeMode, IsolationInv
    <3>2. frames' = <<>>
      BY <2>5, <3>1 DEF ReturnFromNodeMode, TypeOK
    <3>3. nextNodeCallId' = nextCallId[top]
      BY <2>5, <3>1 DEF ReturnFromNodeMode, LeftNodeCallId
    <3>4. NodeFloor' = NodeFloor
      BY <3>1, <3>2, <3>3 DEF NodeFloor
    <3>5. QED
      BY <1>2, <3>4
  <2>6. QED
    BY <2>1, <2>2, <2>3, <2>4, <2>5
    DEF Next, vars, guestVars, Rand, Draw, Recover, Disciplined, Await,
        AwaitFails, HostAnswers, AwaitReturns, Idle
<1>5. ASSUME NEW r \in NodeRuntimes, Usable(r), r \in Held, frames' = frames,
             nextCallId' = [nextCallId EXCEPT ![r] = NextId(r)]
      PROVE  NextId(r) < NodeFloor /\ NodeFloor' = NextId(r)
  <2>1. r = Active /\ r # DON
    BY <1>5, IsolationMakesSole, BoundsAreNumbers DEF SoleUsableRuntime
  <2>2. frames # <<>> /\ r = top
    BY <2>1, StackLengths, AtMostOne DEF Active, IsolationInv
  <2>3. NextId(r) = nextCallId[top] - 1 /\ nextCallId'[top] = NextId(r)
    BY <1>5, <2>1, <2>2, NextIdSides, BoundsAreNumbers DEF TypeOK
  <2>4. QED
    BY <1>1, <1>5, <2>2, <2>3 DEF NodeFloor
<1>6. QED
  BY <1>2, <1>4, <1>5

LEMMA IdInvIsKept ==
  ASSUME Disciplined, TypeOK, IsolationInv, IdInv, [Next]_vars
  PROVE  IdInv'
<1>1. DonIdInv'
  BY DonIdInvIsKept DEF IdInv
<1>2. \A i \in DOMAIN calls : calls[i].id \in Int /\ calls[i].by \in Runtimes
  BY CallsAreTyped
<1>3. CASE UNCHANGED calls
  <2>1. \A i \in DOMAIN calls : calls[i].by # DON => calls[i].id >= NodeFloor'
    BY <1>2, FloorSinks DEF IdInv
  <2>2. QED
    BY <1>1, <1>3, <2>1 DEF IdInv, UniqueIds, CallsMatchMode
<1>4. ASSUME NEW r \in Held, NEW m \in Modes, NEW a \in Apis,
             calls' = Append(calls, [id |-> NextId(r), by |-> r,
                                     mode |-> m, api |-> a]),
             nextCallId' = [nextCallId EXCEPT ![r] = NextId(r)],
             \/ Usable(r) /\ m = hostMode /\ hostMode' = hostMode
             \/ r = DON /\ m = "DON" /\ hostMode' = "DON" /\ frames # <<>>
      PROVE  IdInv'
  <2> DEFINE new == Len(calls) + 1
  <2>1. /\ DOMAIN calls' = (DOMAIN calls) \cup {new}
        /\ new \notin DOMAIN calls
        /\ \A i \in DOMAIN calls : calls'[i] = calls[i]
        /\ calls'[new] = [id |-> NextId(r), by |-> r, mode |-> m, api |-> a]
    BY <1>4 DEF TypeOK
  <2>2. r \in Runtimes /\ NextId(r) \in Int
    BY HeldAreRuntimes, NextIdSides
  <2>3. m = ModeOf(r)
    BY <1>4, IsolationMakesSole DEF SoleUsableRuntime, ModeOf
  <2>4. r # DON => NextId(r) < NodeFloor /\ NodeFloor' = NextId(r)
    <3>1. SUFFICES ASSUME r # DON
                   PROVE  NextId(r) < NodeFloor /\ NodeFloor' = NextId(r)
      OBVIOUS
    <3>2. frames' = frames
      <4>1. CASE UNCHANGED frames
        BY <4>1
      <4>2. CASE RunInNodeMode
        BY <1>4, <2>1, <4>2 DEF RunInNodeMode
      <4>3. CASE ReturnFromNodeMode
        <5>1. calls' = calls \/ Accept(NextId(DON), DON, "DON", "capability")
          BY <4>3 DEF ReturnFromNodeMode
        <5>2. calls'[new].by = DON
          BY <2>1, <5>1 DEF Accept, TypeOK
        <5>3. QED
          BY <2>1, <3>1, <5>2
      <4>4. QED
        BY <4>1, <4>2, <4>3
        DEF Next, vars, guestVars, CallCapability, Rand, Draw, GetSecrets,
            Recover, Disciplined, Await, AwaitFails, HostAnswers, AwaitReturns,
            Idle
    <3>3. r \in NodeRuntimes /\ Usable(r)
      BY <1>4, <2>2, <3>1 DEF Runtimes
    <3>4. QED
      BY <1>4, <3>2, <3>3, FloorSinks
  <2>5. \A i \in DOMAIN calls : calls[i].id # NextId(r)
    <3>1. CASE r = DON
      <4>1. nextCallId'[DON] = NextId(DON)
        BY <1>4, <2>2, <3>1, BoundsAreNumbers DEF TypeOK
      <4>2. NextId(DON) = nextCallId[DON] + 1 /\ NextId(DON) > 0
            /\ nextCallId[DON] \in Int
        BY NextIdSides, BoundsAreNumbers DEF TypeOK
      <4>3. QED
        BY <1>2, <3>1, <4>2 DEF IdInv, DonIdInv
    <3>2. CASE r # DON
      <4>1. NextId(r) < 0 /\ NextId(r) < NodeFloor /\ NodeFloor \in Int
        BY <2>2, <2>4, <3>2, NextIdSides, FloorSinks
      <4>2. QED
        BY <1>2, <2>2, <4>1 DEF IdInv, DonIdInv
    <3>3. QED
      BY <3>1, <3>2
  <2>6. \A i \in DOMAIN calls' : calls'[i].by # DON => calls'[i].id >= NodeFloor'
    <3>1. ASSUME NEW i \in DOMAIN calls, calls[i].by # DON
          PROVE  calls[i].id >= NodeFloor'
      BY <1>2, <3>1, FloorSinks DEF IdInv
    <3>2. r # DON => NextId(r) >= NodeFloor'
      BY <2>2, <2>4
    <3>3. QED
      BY <2>1, <3>1, <3>2
  <2>7. UniqueIds'
    BY <2>1, <2>5 DEF IdInv, UniqueIds
  <2>8. CallsMatchMode'
    BY <2>1, <2>3 DEF IdInv, CallsMatchMode
  <2>9. QED
    BY <1>1, <2>6, <2>7, <2>8 DEF IdInv
<1>5. QED
  BY <1>3, <1>4, StepsIssueOneCall DEF CallStep

\* The invariant of a disciplined workflow, for the theorems below.
LEMMA DisciplinedInvariant ==
  ASSUME Disciplined
  PROVE  Spec => [](TypeOK /\ IsolationInv /\ IdInv)
<1>1. Init => IsolationInv /\ IdInv
  BY BoundsAreNumbers
  DEF Init, IsolationInv, IdInv, DonIdInv, DonIdsUnique, UniqueIds, CallsMatchMode
<1>2. TypeOK /\ IsolationInv /\ IdInv /\ [Next]_vars => IsolationInv' /\ IdInv'
  BY IsolationIsKept, IdInvIsKept
<1>3. QED
  BY <1>1, <1>2, TypeCorrect, PTL DEF Spec

\* No callback id is used for two requests.
THEOREM IdsAreUnique ==
  ASSUME Disciplined
  PROVE  Spec => []UniqueIds
<1>1. IdInv => UniqueIds
  BY DEF IdInv
<1>2. QED
  BY <1>1, DisciplinedInvariant, PTL

\* Every request reaches the host in the mode of the runtime that issues it.
THEOREM CallsAreMadeInMode ==
  ASSUME Disciplined
  PROVE  Spec => []CallsMatchMode
<1>1. IdInv => CallsMatchMode
  BY DEF IdInv
<1>2. QED
  BY <1>1, DisciplinedInvariant, PTL

\* A promise is only ever decided by the response to its own call.
THEOREM AnswersAreOwn ==
  ASSUME Disciplined
  PROVE  Spec => []AnswersOwnCall
<1>1. Init => AnswersOwnCall
  BY DEF Init, AnswersOwnCall
<1>2. TypeOK /\ IdInv /\ AnswersOwnCall /\ [Next]_vars => AnswersOwnCall'
  <2> SUFFICES ASSUME TypeOK, IdInv, AnswersOwnCall, [Next]_vars
               PROVE  AnswersOwnCall'
    OBVIOUS
  <2>1. CASE UNCHANGED results
    BY <2>1 DEF AnswersOwnCall
  <2>2. CASE AwaitFails
    BY <2>2 DEF AwaitFails, AnswersOwnCall
  <2>3. CASE AwaitReturns
    <3>1. PICK j \in answered \ taken :
            /\ calls[j].id = calls[awaiting].id
            /\ results' = results \cup {<<awaiting, j>>}
      BY <2>3 DEF AwaitReturns
    <3>2. j \in DOMAIN calls /\ awaiting \in DOMAIN calls
      BY <2>3 DEF AwaitReturns, TypeOK
    <3>3. j = awaiting
      BY <3>1, <3>2 DEF IdInv, UniqueIds
    <3>4. QED
      BY <3>1, <3>3 DEF AnswersOwnCall
  <2>4. QED
    BY <2>1, <2>2, <2>3
    DEF Next, vars, CallCapability, Rand, Draw, GetSecrets, RunInNodeMode,
        ReturnFromNodeMode, Recover, Await, HostAnswers, Idle
<1>3. QED
  BY <1>1, <1>2, DisciplinedInvariant, PTL DEF Spec

-----------------------------------------------------------------------------
(* The refinement of the ledger.                                            *)

Issued == {[id |-> calls[i].id, mode |-> calls[i].mode] : i \in DOMAIN calls}
Settled == {calls[d[1]].id : d \in results}

\* A step that leaves the list of calls alone switches, settles or stutters.
LEMMA QuietStepsMap ==
  ASSUME TypeOK, TypeOK', IdInv, OnceInv, [Next]_vars, UNCHANGED calls
  PROVE  Ledger!Next
<1>1. Issued' = Issued /\ UNCHANGED Len(calls)
  BY DEF Issued
<1>2. CASE UNCHANGED results
  <2>1. Settled' = Settled
    BY <1>2 DEF Settled
  <2>2. hostMode' \in Ledger!Modes
    BY DEF TypeOK, Modes, Ledger!Modes
  <2>3. Ledger!Switch(hostMode')
    BY <1>1, <2>1 DEF Ledger!Switch, Issued, Settled
  <2>4. QED
    BY <2>2, <2>3 DEF Ledger!Next
<1>3. ASSUME NEW j, awaiting # 0, results' = results \cup {<<awaiting, j>>},
             UNCHANGED hostMode
      PROVE  Ledger!Next
  <2>1. awaiting \in DOMAIN calls
    BY <1>3 DEF TypeOK
  <2>2. PICK id : id = calls[awaiting].id
    OBVIOUS
  <2>3. id \in Ledger!Ids
    <3>1. [id |-> calls[awaiting].id, mode |-> calls[awaiting].mode] \in Issued
      BY <2>1 DEF Issued
    <3>2. Ledger!Ids = {c.id : c \in Issued}
      BY DEF Ledger!Ids, Issued
    <3>3. QED
      BY <2>2, <3>1, <3>2
  <2>4. id \notin Settled
    <3>1. \A d \in results : d[1] \in DOMAIN calls /\ d[1] # awaiting
      BY <1>3 DEF OnceInv, Pending, TypeOK
    <3>2. QED
      BY <2>1, <2>2, <3>1 DEF Settled, IdInv, UniqueIds
  <2>5. Settled' = Settled \cup {id}
    <3>1. Settled' = {calls[d[1]].id : d \in results \cup {<<awaiting, j>>}}
      BY <1>3 DEF Settled
    <3>2. calls[<<awaiting, j>>[1]].id = id
      BY <2>2
    <3>3. QED
      BY <3>1, <3>2, Zenon DEF Settled
  <2>6. Ledger!Settle(id)
    BY <1>1, <1>3, <2>3, <2>4, <2>5 DEF Ledger!Settle, Issued, Settled
  <2>7. QED
    BY <2>3, <2>6 DEF Ledger!Next
<1>4. QED
  BY <1>2, <1>3
  DEF Next, vars, hostVars, CallCapability, Rand, Draw, GetSecrets,
      RunInNodeMode, ReturnFromNodeMode, Recover, Await, AwaitFails,
      HostAnswers, AwaitReturns, Idle

\* A step that appends a call is the ledger's Issue.
LEMMA IssuingStepsMap ==
  ASSUME TypeOK, TypeOK', IdInv, IdInv', [Next]_vars,
         NEW r \in Held, NEW m \in Modes, NEW a \in Apis,
         calls' = Append(calls, [id |-> NextId(r), by |-> r,
                                 mode |-> m, api |-> a]),
         InBound(r), hostMode' = m
  PROVE  Ledger!Next
<1> DEFINE new == Len(calls) + 1
<1>1. /\ DOMAIN calls' = (DOMAIN calls) \cup {new}
      /\ new \notin DOMAIN calls
      /\ \A i \in DOMAIN calls : calls'[i] = calls[i]
      /\ calls'[new] = [id |-> NextId(r), by |-> r, mode |-> m, api |-> a]
      /\ Len(calls') = Len(calls) + 1
  BY DEF TypeOK
<1>2. Issued' = Issued \cup {[id |-> NextId(r), mode |-> m]}
  BY <1>1 DEF Issued
<1>3. UNCHANGED results
  BY <1>1
  DEF Next, vars, hostVars, CallCapability, Rand, Draw, GetSecrets,
      RunInNodeMode, ReturnFromNodeMode, Recover, Await, AwaitFails,
      HostAnswers, AwaitReturns, Idle
<1>4. Settled' = Settled
  <2>1. \A d \in results : d[1] \in DOMAIN calls
    BY DEF TypeOK
  <2>2. QED
    BY <1>1, <1>3, <2>1 DEF Settled
<1>5. NextId(r) \notin Ledger!Ids
  <2>1. \A i \in DOMAIN calls : calls[i].id # NextId(r)
    BY <1>1 DEF IdInv, UniqueIds
  <2>2. QED
    BY <2>1 DEF Ledger!Ids
<1>6. m = ModeOf(r)
  <2>1. calls'[new].mode = ModeOf(calls'[new].by)
    BY <1>1 DEF IdInv, CallsMatchMode
  <2>2. QED
    BY <1>1, <2>1
<1>7. Ledger!Side(m, NextId(r))
  <2>1. r \in Runtimes
    BY HeldAreRuntimes
  <2>2. QED
    BY <1>6, <2>1, NextIdSides DEF Ledger!Side, ModeOf
<1>8. PICK id \in CallIds : id = NextId(r)
  BY DEF InBound
<1>9. Ledger!Issue(m, id)
  BY <1>1, <1>2, <1>4, <1>5, <1>7, <1>8 DEF Ledger!Issue, Issued, Settled
<1>10. m \in Ledger!Modes
  BY DEF Modes, Ledger!Modes
<1>11. QED
  BY <1>9, <1>10 DEF Ledger!Next

\* The runtime implements its host's ledger: fresh ids on the right side of
\* zero, each settled at most once.
THEOREM ImplementsLedger ==
  ASSUME Disciplined
  PROVE  Spec => LedgerSpec
<1>1. Init => Ledger!Init
  BY DEF Init, Ledger!Init
<1>2. Init => OnceInv
  BY DEF Init, OnceInv
<1>3. TypeOK /\ OnceInv /\ [Next]_vars => OnceInv'
  BY OnceInvIsKept
<1>4. TypeOK /\ TypeOK' /\ IdInv /\ IdInv' /\ OnceInv /\ [Next]_vars
        => [Ledger!Next]_(Ledger!vars)
  <2> SUFFICES ASSUME TypeOK, TypeOK', IdInv, IdInv', OnceInv, [Next]_vars
               PROVE  Ledger!Next
    OBVIOUS
  <2>1. CASE UNCHANGED calls
    BY <2>1, QuietStepsMap
  <2>2. ASSUME NEW r \in Held, NEW m \in Modes, NEW a \in Apis,
               calls' = Append(calls, [id |-> NextId(r), by |-> r,
                                       mode |-> m, api |-> a]),
               InBound(r), hostMode' = m
        PROVE  Ledger!Next
    BY <2>2, IssuingStepsMap
  <2>3. QED
    BY <2>1, <2>2, StepsIssueOneCall DEF CallStep
<1>5. QED
  BY <1>1, <1>2, <1>3, <1>4, DisciplinedInvariant, PTL
  DEF Spec, LedgerSpec, Ledger!Spec

-----------------------------------------------------------------------------
(* What is left of the properties that fail for other workflows.            *)

\* A response that was handed out has decided the promise of its own call.
TakenInv == \A j \in taken : \E d \in results : d[1] = j

\* The host has the response to the call that the guest awaits: that is all
\* that AwaitReturns asks for.
AnsweredAwaitReturns ==
  awaiting # 0 /\ awaiting \in answered =>
    \E j \in answered \ taken :
      calls[j].id = calls[awaiting].id /\ calls[j].api = calls[awaiting].api

LEMMA TakenInvIsKept == TypeOK /\ IdInv /\ TakenInv /\ [Next]_vars => TakenInv'
<1> SUFFICES ASSUME TypeOK, IdInv, TakenInv, [Next]_vars PROVE TakenInv'
  OBVIOUS
<1>1. CASE UNCHANGED <<taken, results>>
  BY <1>1 DEF TakenInv
<1>2. CASE AwaitFails
  BY <1>2 DEF AwaitFails, hostVars, TakenInv
<1>3. CASE AwaitReturns
  <2>1. PICK j \in answered \ taken :
          /\ calls[j].id = calls[awaiting].id
          /\ taken' = taken \cup {j} /\ results' = results \cup {<<awaiting, j>>}
    BY <1>3 DEF AwaitReturns
  <2>2. j = awaiting
    BY <1>3, <2>1 DEF AwaitReturns, TypeOK, IdInv, UniqueIds
  <2>3. <<awaiting, j>>[1] = j /\ <<awaiting, j>> \in results'
    BY <2>1, <2>2
  <2>4. QED
    BY <2>1, <2>3 DEF TakenInv
<1>4. QED
  BY <1>1, <1>2, <1>3
  DEF Next, vars, hostVars, CallCapability, Rand, Draw, GetSecrets, RunInNodeMode,
      ReturnFromNodeMode, Recover, Await, HostAnswers, Idle

\* The host hands a response out once (wasm/runtime.go: AwaitCapabilities by id):
\* no other Await has taken the one that the guest is blocked on, so that an
\* Await is only ever held up by a request the host still works on.
THEOREM ResponsesAreKept ==
  ASSUME Disciplined
  PROVE  Spec => []AnsweredAwaitReturns
<1>1. Init => TakenInv /\ OnceInv
  BY DEF Init, TakenInv, OnceInv
<1>2. TypeOK /\ IdInv /\ TakenInv /\ [Next]_vars => TakenInv'
  BY TakenInvIsKept
<1>3. TypeOK /\ OnceInv /\ [Next]_vars => OnceInv'
  BY OnceInvIsKept
<1>4. TakenInv /\ OnceInv => AnsweredAwaitReturns
  BY DEF TakenInv, OnceInv, Pending, AnsweredAwaitReturns
<1>5. QED
  BY <1>1, <1>2, <1>3, <1>4, DisciplinedInvariant, PTL DEF Spec

\* With one RunInNodeMode at a time, its function has the Runtime closed.
ClosedInv == Len(frames) <= 1 /\ DonRuntimeOutsideNodeMode

LEMMA ClosedInvIsKept ==
  ASSUME ~Nesting, TypeOK, ClosedInv, [Next]_vars
  PROVE  ClosedInv'
<1>1. CASE UNCHANGED <<modeErr, frames>>
  BY <1>1 DEF ClosedInv, DonRuntimeOutsideNodeMode, Usable
<1>2. CASE RunInNodeMode
  <2>1. frames = <<>> /\ frames' = Append(frames, created + 1)
    BY <1>2 DEF RunInNodeMode
  <2>2. modeErr'[DON] = "DonModeCallInNodeMode"
    <3>1. /\ modeErr' = [modeErr EXCEPT ![created + 1] = modeErr[DON],
                                        ![DON] = "DonModeCallInNodeMode"]
          /\ modeErr \in [Runtimes -> ModeErrors]
      BY <1>2 DEF RunInNodeMode, TypeOK
    <3>2. QED
      BY <3>1 DEF Runtimes
  <2>3. Len(frames') = 1
    BY <2>1
  <2>4. QED
    BY <2>2, <2>3 DEF ClosedInv, DonRuntimeOutsideNodeMode, Usable
<1>3. ASSUME NEW k \in 0 .. Len(frames) - 1, frames # <<>>, frames' = SubSeq(frames, 1, k)
      PROVE  ClosedInv'
  <2>1. Len(frames) = 1
    BY <1>3, StackLengths, AtMostOne DEF ClosedInv
  <2>2. frames' = <<>> /\ Len(frames') = 0
    BY <1>3, <2>1 DEF TypeOK
  <2>3. QED
    BY <2>2 DEF ClosedInv, DonRuntimeOutsideNodeMode
<1>4. CASE ReturnFromNodeMode
  <2>1. frames # <<>> /\ Len(frames) - 1 \in 0 .. Len(frames) - 1
    BY <1>4, StackLengths DEF ReturnFromNodeMode
  <2>2. QED
    BY <1>3, <1>4, <2>1 DEF ReturnFromNodeMode
<1>5. CASE Recover
  BY <1>3, <1>5 DEF Recover
<1>6. QED
  BY <1>1, <1>2, <1>4, <1>5
  DEF Next, vars, guestVars, hostVars, CallCapability, Rand, Draw, GetSecrets,
      Await, AwaitFails, HostAnswers, AwaitReturns, Idle

\* The Runtime cannot be used inside RunInNodeMode (cre/runtime.go:199) as long
\* as calls of it are not nested, panics recovered or not: nesting is all that
\* stands against what the documentation says.
THEOREM RuntimeIsClosed ==
  ASSUME ~Nesting
  PROVE  Spec => []DonRuntimeOutsideNodeMode
<1>1. Init => ClosedInv
  BY DEF Init, ClosedInv, DonRuntimeOutsideNodeMode
<1>2. TypeOK /\ ClosedInv /\ [Next]_vars => ClosedInv'
  BY ClosedInvIsKept
<1>3. ClosedInv => DonRuntimeOutsideNodeMode
  BY DEF ClosedInv
<1>4. QED
  BY <1>1, <1>2, <1>3, TypeCorrect, PTL DEF Spec
=============================================================================
