--------------------------- MODULE TestHostProofs ---------------------------
(***************************************************************************)
(* What the test host gives the tests, for any number of tests, goroutines *)
(* and scripts: a registry for each test until its Cleanup, though that    *)
(* Cleanup does not take the lock; registered mocks that stay; promises    *)
(* that hold what the functions of the mocks returned; and contract mocks  *)
(* of which the newest answers; clients, limiters and mocks that agree;    *)
(* and nobody held up for ever.  The first two follow from the lock (Inv); *)
(* the others from what is known of every stub, registered mock and call   *)
(* as well (AllInv, HeldInv).                                              *)
(***************************************************************************)
EXTENDS TestHost, NaturalsInduction, WellFoundedInduction, TLAPS

Phases == {"run", "lookup", "insert", "registry", "defaults"}
AtTheMap(th) == phase[th] \in {"lookup", "insert"}

TypeInv ==
  /\ capabilities \in Seq(SUBSET Handles)
  /\ phase \in [Threads -> Phases]
  /\ testRegistries \in [Tests -> {None} \cup DOMAIN capabilities]
  /\ got \in [Threads -> {None} \cup DOMAIN capabilities]
  /\ cleaned \in [Tests -> BOOLEAN]

\* A goroutine at the map holds the lock, and one that is about to add a
\* registry has not been overtaken.
LockInv ==
  \A th \in Threads :
    /\ AtTheMap(th) => lock = th
    /\ phase[th] = "insert" => testRegistries[TestOf(th)] = None

\* A registry belongs to one test, whether the map or a goroutine has it.
ApartInv ==
  /\ \A s, t \in Tests :
       testRegistries[s] # None /\ testRegistries[s] = testRegistries[t] => s = t
  /\ \A th \in Threads : \A t \in Tests :
       got[th] # None /\ got[th] = testRegistries[t] => TestOf(th) = t
  /\ \A m, n \in Threads :
       got[m] # None /\ got[m] = got[n] => TestOf(m) = TestOf(n)

\* Until its Cleanup, what a goroutine got is what the map has for its test.
SameInv ==
  \A th \in Threads :
    got[th] # None /\ ~cleaned[TestOf(th)] => testRegistries[TestOf(th)] = got[th]

Inv == TypeInv /\ LockInv /\ ApartInv /\ SameInv

LEMMA ThreadType == \A th \in Threads : TestOf(th) \in Tests
  BY DEF Threads, TestOf

LEMMA InvInit == Init => Inv
<1> SUFFICES ASSUME Init PROVE Inv
  OBVIOUS
<1>1. TypeInv
  BY DEF Init, TypeInv, Phases
<1>2. LockInv /\ SameInv /\ ApartInv
  BY ThreadType DEF Init, LockInv, AtTheMap, SameInv, ApartInv
<1>3. QED
  BY <1>1, <1>2 DEF Inv

-----------------------------------------------------------------------------
(* The steps that are not at the map.                                      *)

\* What they do to the registries.
AwayFromMap ==
  /\ testRegistries' = testRegistries /\ lock' = lock /\ got' = got
  /\ cleaned' = cleaned
  /\ capabilities' \in Seq(SUBSET Handles)
  /\ DOMAIN capabilities' = DOMAIN capabilities
  /\ phase' \in [Threads -> Phases]
  /\ \A th \in Threads : phase'[th] = phase[th] \/ phase'[th] \in {"run", "defaults"}

LEMMA AwayKeeps == Inv /\ AwayFromMap => Inv'
<1> SUFFICES ASSUME Inv, AwayFromMap PROVE Inv'
  OBVIOUS
<1>1. TypeInv'
  BY DEF Inv, AwayFromMap, TypeInv
<1>2. LockInv'
  <2> SUFFICES ASSUME NEW th \in Threads
               PROVE  /\ AtTheMap(th)' => lock' = th
                      /\ phase'[th] = "insert" => testRegistries'[TestOf(th)] = None
    BY DEF LockInv
  <2>1. phase'[th] = phase[th] \/ phase'[th] \in {"run", "defaults"}
    BY DEF AwayFromMap
  <2>2. QED
    BY <2>1 DEF Inv, LockInv, AtTheMap, AwayFromMap
<1>3. ApartInv' /\ SameInv'
  BY DEF Inv, AwayFromMap, ApartInv, SameInv
<1>4. QED
  BY <1>1, <1>2, <1>3 DEF Inv

LEMMA DoneIsAway ==
  ASSUME TypeInv, NEW th \in Threads, NEW p \in {"run", "defaults"},
         phase' = [phase EXCEPT ![th] = p]
  PROVE  /\ phase' \in [Threads -> Phases]
         /\ \A u \in Threads : phase'[u] = phase[u] \/ phase'[u] \in {"run", "defaults"}
BY DEF TypeInv, Phases

LEMMA EntryReplaced ==
  ASSUME NEW S, NEW f \in Seq(S), NEW r, NEW v, r \in DOMAIN f => v \in S,
         NEW g, g = [f EXCEPT ![r] = v]
  PROVE  g \in Seq(S) /\ DOMAIN g = DOMAIN f
<1>1. Len(f) \in Nat /\ DOMAIN f = 1 .. Len(f)
  OBVIOUS
<1>2. ASSUME NEW i \in 1 .. Len(f) PROVE g[i] \in S
  <2>1. f[i] \in S /\ i \in DOMAIN f
    BY <1>1
  <2>2. g[i] = IF i = r THEN v ELSE f[i]
    BY <2>1
  <2>3. QED
    BY <2>1, <2>2
<1>3. DOMAIN g = 1 .. Len(f) /\ g = [i \in 1 .. Len(f) |-> g[i]]
  BY <1>1
<1>4. g \in [1 .. Len(f) -> S]
  BY <1>2, <1>3
<1>5. QED
  BY <1>1, <1>3, <1>4

\* The two registrations change at most the registry they are given.
LEMMA Registrations ==
  ASSUME TypeInv, NEW r, NEW h \in Handles, NEW id,
         RegisterCapability(r, h, id) \/ ForceRegisterCapability(r, h, id)
  PROVE  /\ capabilities' \in Seq(SUBSET Handles)
         /\ DOMAIN capabilities' = DOMAIN capabilities
<1> DEFINE old == RegisteredAs(r, id)
           new == IF RegisterCapability(r, h, id) THEN capabilities[r] \cup {h}
                  ELSE (capabilities[r] \ old) \cup {h}
<1> HIDE DEF old
<1>1. capabilities \in Seq(SUBSET Handles)
  BY DEF TypeInv
<1>2. r \in DOMAIN capabilities => capabilities[r] \in SUBSET Handles
  BY <1>1
<1>3. r \in DOMAIN capabilities => new \in SUBSET Handles
  BY <1>2
<1>4. \/ capabilities' = capabilities
      \/ capabilities' = [capabilities EXCEPT ![r] = new]
  BY DEF RegisterCapability, ForceRegisterCapability, old
<1> HIDE DEF new
<1>6. CASE capabilities' = capabilities
  BY <1>6, <1>1
<1>7. CASE capabilities' = [capabilities EXCEPT ![r] = new]
  <2> DEFINE S == SUBSET Handles
  <2>1. capabilities \in Seq(S) /\ (r \in DOMAIN capabilities => new \in S)
    BY <1>1, <1>3
  <2> HIDE DEF S
  <2>2. capabilities' \in Seq(S) /\ DOMAIN capabilities' = DOMAIN capabilities
    BY <2>1, <1>7, EntryReplaced
  <2>3. QED
    BY <2>2 DEF S
<1>8. QED
  BY <1>4, <1>6, <1>7

\* The steps of a goroutine that register a mock.
LEMMA RegisteringIsAway ==
  ASSUME Inv, NEW th \in Threads, NewMock(th) \/ ForceMock(th) \/ NewRuntime(th)
  PROVE  AwayFromMap
<1>1. Own(th) \in Handles /\ Default(th) \in Handles
  BY DEF Handles, Own, Default
<1>2. capabilities' \in Seq(SUBSET Handles) /\ DOMAIN capabilities' = DOMAIN capabilities
  <2>1. CASE NewMock(th)
    BY <1>1, <2>1, Registrations DEF NewMock, Inv
  <2>2. CASE ForceMock(th)
    BY <1>1, <2>2, Registrations DEF ForceMock, Inv
  <2>3. CASE NewRuntime(th)
    BY <1>1, <2>3, Registrations DEF NewRuntime, Inv
  <2>4. QED
    BY <2>1, <2>2, <2>3
<1>3. testRegistries' = testRegistries /\ lock' = lock /\ got' = got /\ cleaned' = cleaned
  BY DEF NewMock, ForceMock, NewRuntime, testVars
<1>4. PICK p \in {"run", "defaults"} : phase' = [phase EXCEPT ![th] = p]
  BY DEF NewMock, ForceMock, NewRuntime, Done, Goto
<1>5. QED
  BY <1>2, <1>3, <1>4, DoneIsAway DEF Inv, AwayFromMap

\* Those that leave the registries alone.
LEMMA OthersAreAway ==
  ASSUME Inv, NEW th \in Threads,
         \/ SetStub(th) \/ AddContractMock(th) \/ SetDefaults(th)
         \/ RefuseInput(th) \/ CallCapability(th) \/ KeepSecret(th) \/ GetSecrets(th)
         \/ AwaitResponse(th) \/ AwaitSecrets(th) \/ AwaitContext(th) \/ AwaitSettled(th)
  PROVE  AwayFromMap /\ capabilities' = capabilities
<1>1. UNCHANGED <<registryVars, cleaned>>
  <2>1. CASE SetStub(th) \/ AddContractMock(th) \/ SetDefaults(th)
    BY <2>1 DEF SetStub, AddContractMock, SetDefaults, testVars
  <2>2. CASE RefuseInput(th) \/ CallCapability(th) \/ KeepSecret(th) \/ GetSecrets(th)
    BY <2>2 DEF RefuseInput, CallCapability, KeepSecret, GetSecrets, testVars
  <2>3. CASE AwaitResponse(th) \/ AwaitSecrets(th) \/ AwaitContext(th) \/ AwaitSettled(th)
    BY <2>3 DEF AwaitResponse, AwaitSecrets, AwaitContext, AwaitSettled, Settle, testVars
  <2>4. QED
    BY <2>1, <2>2, <2>3
<1>2. phase' = [phase EXCEPT ![th] = "run"]
  <2>1. Done(th)
    BY DEF SetStub, AddContractMock, SetDefaults, RefuseInput, CallCapability,
           KeepSecret, GetSecrets, AwaitResponse, AwaitSecrets, AwaitContext,
           AwaitSettled, Settle
  <2>2. QED
    BY <2>1 DEF Done
<1>3. QED
  BY <1>1, <1>2, DoneIsAway DEF Inv, TypeInv, AwayFromMap, registryVars

\* The goroutines of the calls, and the end of a test function.
LEMMA AnsweringIsAway ==
  ASSUME Inv, \/ \E th \in Threads : Answering(th)
              \/ \E t \in Tests : EndTest(t)
              \/ UNCHANGED vars
  PROVE  AwayFromMap /\ capabilities' = capabilities
<1>1. UNCHANGED <<registryVars, cleaned, phase>>
  <2>1. CASE \E th \in Threads : Answering(th)
    <3> PICK th \in Threads : Answering(th)
      BY <2>1
    <3>1. PICK k \in DOMAIN calls[th] :
            InvokeMock(th, k) \/ ReleaseMock(th, k) \/ MockPanics(th, k) \/ SendResponse(th, k)
      BY DEF Answering
    <3>2. CASE InvokeMock(th, k)
      BY <3>2 DEF InvokeMock, testVars
    <3>3. CASE ReleaseMock(th, k)
      BY <3>3 DEF ReleaseMock, testVars
    <3>4. CASE MockPanics(th, k)
      BY <3>4 DEF MockPanics
    <3>5. CASE SendResponse(th, k)
      BY <3>5 DEF SendResponse, testVars
    <3>6. QED
      BY <3>1, <3>2, <3>3, <3>4, <3>5
  <2>2. CASE \E t \in Tests : EndTest(t)
    BY <2>2 DEF EndTest
  <2>3. CASE UNCHANGED vars
    BY <2>3 DEF vars, testVars
  <2>4. QED
    BY <2>1, <2>2, <2>3
<1>2. QED
  BY <1>1 DEF Inv, TypeInv, AwayFromMap, registryVars

-----------------------------------------------------------------------------
(* The steps at the map.                                                   *)

LEMMA LockRegistriesKeeps == ASSUME Inv, NEW th \in Threads, LockRegistries(th) PROVE Inv'
<1>1. /\ lock = None /\ lock' = th /\ phase' = [phase EXCEPT ![th] = "lookup"]
      /\ UNCHANGED <<testRegistries, capabilities, got, cleaned>>
  BY DEF LockRegistries, Goto, testVars
<1>2. TypeInv'
  BY <1>1 DEF Inv, TypeInv, Phases
<1>3. LockInv'
  <2> SUFFICES ASSUME NEW u \in Threads
               PROVE  /\ AtTheMap(u)' => lock' = u
                      /\ phase'[u] = "insert" => testRegistries'[TestOf(u)] = None
    BY DEF LockInv
  <2>1. CASE u = th
    BY <2>1, <1>1 DEF Inv, TypeInv, AtTheMap
  <2>2. CASE u # th
    <3>1. phase'[u] = phase[u]
      BY <2>2, <1>1 DEF Inv, TypeInv
    <3>2. ~AtTheMap(u)
      BY <1>1, NoneAssumption DEF Inv, LockInv
    <3>3. QED
      BY <3>1, <3>2 DEF AtTheMap
  <2>3. QED
    BY <2>1, <2>2
<1>4. ApartInv' /\ SameInv'
  BY <1>1 DEF Inv, ApartInv, SameInv
<1>5. QED
  BY <1>2, <1>3, <1>4 DEF Inv

LEMMA FindRegistryKeeps == ASSUME Inv, NEW th \in Threads, FindRegistry(th) PROVE Inv'
<1> DEFINE r == testRegistries[TestOf(th)]
<1>1. /\ r # None /\ got' = [got EXCEPT ![th] = r] /\ AtTheMap(th)
      /\ phase' = [phase EXCEPT ![th] = "registry"]
      /\ UNCHANGED <<testRegistries, capabilities, cleaned>>
  BY DEF FindRegistry, Goto, testVars, AtTheMap
<1>2. r \in DOMAIN capabilities /\ TestOf(th) \in Tests
  BY <1>1, ThreadType DEF Inv, TypeInv
<1>3. \A u \in Threads : got'[u] = IF u = th THEN r ELSE got[u]
  BY <1>1 DEF Inv, TypeInv
<1>4. TypeInv'
  BY <1>1, <1>2 DEF Inv, TypeInv, Phases
<1>5. LockInv'
  <2> SUFFICES ASSUME NEW u \in Threads PROVE ~AtTheMap(u)'
    BY DEF LockInv, AtTheMap
  <2>1. CASE u = th
    BY <2>1, <1>1 DEF Inv, TypeInv, AtTheMap
  <2>2. CASE u # th
    BY <2>2, <1>1 DEF Inv, TypeInv, AtTheMap, LockInv
  <2>3. QED
    BY <2>1, <2>2
<1>6. ApartInv'
  <2>1. \A s, t \in Tests : testRegistries'[s] # None
          /\ testRegistries'[s] = testRegistries'[t] => s = t
    BY <1>1 DEF Inv, ApartInv
  <2>2. \A u \in Threads : \A t \in Tests :
          got'[u] # None /\ got'[u] = testRegistries'[t] => TestOf(u) = t
    BY <1>1, <1>2, <1>3 DEF Inv, ApartInv
  <2>3. \A m, n \in Threads :
          got'[m] # None /\ got'[m] = got'[n] => TestOf(m) = TestOf(n)
    BY <1>1, <1>2, <1>3 DEF Inv, ApartInv
  <2>4. QED
    BY <2>1, <2>2, <2>3 DEF ApartInv
<1>7. SameInv'
  BY <1>1, <1>3 DEF Inv, SameInv
<1>8. QED
  BY <1>4, <1>5, <1>6, <1>7 DEF Inv

LEMMA MissRegistryKeeps == ASSUME Inv, NEW th \in Threads, MissRegistry(th) PROVE Inv'
<1>1. /\ testRegistries[TestOf(th)] = None /\ phase[th] = "lookup"
      /\ phase' = [phase EXCEPT ![th] = "insert"]
      /\ UNCHANGED <<registryVars, cleaned>>
  BY DEF MissRegistry, Goto, testVars
<1>2. TypeInv'
  BY <1>1 DEF Inv, TypeInv, Phases, registryVars
<1>3. LockInv'
  <2> SUFFICES ASSUME NEW u \in Threads
               PROVE  /\ AtTheMap(u)' => lock' = u
                      /\ phase'[u] = "insert" => testRegistries'[TestOf(u)] = None
    BY DEF LockInv
  <2>1. CASE u = th
    BY <2>1, <1>1 DEF Inv, TypeInv, AtTheMap, LockInv, registryVars
  <2>2. CASE u # th
    BY <2>2, <1>1 DEF Inv, TypeInv, AtTheMap, LockInv, registryVars
  <2>3. QED
    BY <2>1, <2>2
<1>4. ApartInv' /\ SameInv'
  BY <1>1 DEF Inv, ApartInv, SameInv, registryVars
<1>5. QED
  BY <1>2, <1>3, <1>4 DEF Inv

LEMMA AddRegistryKeeps == ASSUME Inv, NEW th \in Threads, AddRegistry(th) PROVE Inv'
<1> DEFINE r == Len(capabilities) + 1
           mine == TestOf(th)
<1>1. /\ phase[th] = "insert" /\ phase' = [phase EXCEPT ![th] = "registry"]
      /\ capabilities' = Append(capabilities, {})
      /\ testRegistries' = [testRegistries EXCEPT ![mine] = r]
      /\ got' = [got EXCEPT ![th] = r]
      /\ cleaned' = cleaned
  BY DEF AddRegistry, Goto, testVars
<1>2. mine \in Tests /\ testRegistries[mine] = None /\ AtTheMap(th)
  BY <1>1, ThreadType DEF Inv, LockInv, AtTheMap
<1>3. /\ capabilities' \in Seq(SUBSET Handles) /\ r \in DOMAIN capabilities'
      /\ DOMAIN capabilities \subseteq DOMAIN capabilities' /\ r \notin DOMAIN capabilities
  <2>1. capabilities \in Seq(SUBSET Handles) /\ {} \in SUBSET Handles
    BY DEF Inv, TypeInv
  <2>2. /\ Len(capabilities) \in Nat /\ DOMAIN capabilities = 1 .. Len(capabilities)
        /\ DOMAIN Append(capabilities, {}) = 1 .. Len(capabilities) + 1
        /\ Append(capabilities, {}) \in Seq(SUBSET Handles)
    BY <2>1
  <2>3. QED
    BY <1>1, <2>2
<1> HIDE DEF r, mine
<1>4. /\ \A u \in Threads : got'[u] = IF u = th THEN r ELSE got[u]
      /\ \A t \in Tests : testRegistries'[t] = IF t = mine THEN r ELSE testRegistries[t]
  BY <1>1 DEF Inv, TypeInv
<1>5. /\ \A u \in Threads : got[u] # None => got[u] # r
      /\ \A t \in Tests : testRegistries[t] # None => testRegistries[t] # r
  BY <1>3 DEF Inv, TypeInv
<1>6. TypeInv'
  BY <1>1, <1>3 DEF Inv, TypeInv, Phases
<1>7. LockInv'
  <2> SUFFICES ASSUME NEW u \in Threads PROVE ~AtTheMap(u)'
    BY DEF LockInv, AtTheMap
  <2>1. CASE u = th
    BY <2>1, <1>1 DEF Inv, TypeInv, AtTheMap
  <2>2. CASE u # th
    BY <2>2, <1>1, <1>2 DEF Inv, TypeInv, AtTheMap, LockInv
  <2>3. QED
    BY <2>1, <2>2
<1>8. ApartInv'
  <2>1. \A s, t \in Tests : testRegistries'[s] # None
          /\ testRegistries'[s] = testRegistries'[t] => s = t
    BY <1>4, <1>5 DEF Inv, ApartInv
  <2>2. \A u \in Threads : \A t \in Tests :
          got'[u] # None /\ got'[u] = testRegistries'[t] => TestOf(u) = t
    BY <1>4, <1>5 DEF Inv, ApartInv, mine
  <2>3. \A m, n \in Threads :
          got'[m] # None /\ got'[m] = got'[n] => TestOf(m) = TestOf(n)
    BY <1>4, <1>5 DEF Inv, ApartInv
  <2>4. QED
    BY <2>1, <2>2, <2>3 DEF ApartInv
<1>9. SameInv'
  <2> SUFFICES ASSUME NEW u \in Threads, got'[u] # None, ~cleaned[TestOf(u)]
               PROVE  testRegistries'[TestOf(u)] = got'[u]
    BY <1>1 DEF SameInv
  <2>1. CASE u = th
    BY <2>1, <1>2, <1>4 DEF mine
  <2>2. CASE u # th
    <3>1. testRegistries[TestOf(u)] = got[u] /\ got[u] # None /\ TestOf(u) \in Tests
      BY <2>2, <1>4, ThreadType DEF Inv, SameInv
    <3>2. TestOf(u) # mine
      BY <3>1, <1>2
    <3>3. QED
      BY <2>2, <3>1, <3>2, <1>4
  <2>3. QED
    BY <2>1, <2>2
<1>10. QED
  BY <1>6, <1>7, <1>8, <1>9 DEF Inv

LEMMA CleanupKeeps == ASSUME Inv, NEW t \in Tests, Cleanup(t) PROVE Inv'
<1>1. /\ testRegistries' = [testRegistries EXCEPT ![t] = None]
      /\ cleaned' = [cleaned EXCEPT ![t] = TRUE]
      /\ UNCHANGED <<phase, lock, capabilities, got>>
  BY DEF Cleanup
<1>2. /\ \A s \in Tests : testRegistries'[s] = IF s = t THEN None ELSE testRegistries[s]
      /\ \A s \in Tests : cleaned'[s] = IF s = t THEN TRUE ELSE cleaned[s]
  BY <1>1 DEF Inv, TypeInv
<1>3. TypeInv'
  BY <1>1 DEF Inv, TypeInv
<1>4. LockInv'
  BY <1>1, <1>2, ThreadType DEF Inv, LockInv, AtTheMap
<1>5. ApartInv'
  BY <1>1, <1>2 DEF Inv, ApartInv
<1>6. SameInv'
  BY <1>1, <1>2, ThreadType DEF Inv, SameInv
<1>7. QED
  BY <1>3, <1>4, <1>5, <1>6 DEF Inv

-----------------------------------------------------------------------------
LEMMA InvStep == Inv /\ [Next]_vars => Inv'
<1> SUFFICES ASSUME Inv, [Next]_vars PROVE Inv'
  OBVIOUS
<1>1. ASSUME NEW th \in Threads, Step(th) PROVE Inv'
  <2>1. CASE LockRegistries(th) \/ FindRegistry(th) \/ MissRegistry(th) \/ AddRegistry(th)
    BY <2>1, LockRegistriesKeeps, FindRegistryKeeps, MissRegistryKeeps, AddRegistryKeeps
  <2>2. CASE NewMock(th) \/ ForceMock(th) \/ NewRuntime(th)
    BY <2>2, RegisteringIsAway, AwayKeeps
  <2>3. CASE \/ SetStub(th) \/ AddContractMock(th) \/ SetDefaults(th)
             \/ RefuseInput(th) \/ CallCapability(th) \/ KeepSecret(th) \/ GetSecrets(th)
             \/ AwaitResponse(th) \/ AwaitSecrets(th) \/ AwaitContext(th) \/ AwaitSettled(th)
    BY <2>3, OthersAreAway, AwayKeeps
  <2>4. QED
    BY <1>1, <2>1, <2>2, <2>3 DEF Step
<1>2. CASE \/ \E th \in Threads : Answering(th)
           \/ \E t \in Tests : EndTest(t)
           \/ UNCHANGED vars
  BY <1>2, AnsweringIsAway, AwayKeeps
<1>3. CASE \E t \in Tests : Cleanup(t)
  BY <1>3, CleanupKeeps
<1>4. QED
  BY <1>1, <1>2, <1>3 DEF Next, Finishing

LEMMA Invariant == Spec => []Inv
<1>1. QED
  BY InvInit, InvStep, PTL DEF Spec

\* The goroutines of a test share one registry and no other test's, until the
\* Cleanup of the test: GetRegistry under its lock (registry.go:15-28), and a
\* Cleanup without it, in any order.
THEOREM RegistriesAreOwn == Spec => []OneRegistryPerTest
<1>1. Inv => OneRegistryPerTest
  BY DEF Inv, ApartInv, SameInv, OneRegistryPerTest
<1>2. QED
  BY <1>1, Invariant, PTL

\* A registered mock is lost only to a test that forces its own in its place
\* (registry.go:49-75, testutils/runtime.go:32).
THEOREM FirstMocksStay == Spec => FirstMockStays
<1> DEFINE Kept ==
      \A r \in DOMAIN capabilities : \A h \in capabilities[r] :
        \/ h \in capabilities'[r]
        \/ \E th \in Threads : Doing(th, "force") /\ got[th] = r
<1>1. ASSUME capabilities' = capabilities PROVE Kept
  BY <1>1
<1>2. ASSUME Inv, NEW th \in Threads, Step(th) PROVE Kept
  <2>1. CASE LockRegistries(th) \/ FindRegistry(th) \/ MissRegistry(th)
    BY <2>1, <1>1 DEF LockRegistries, FindRegistry, MissRegistry, registryVars
  <2>2. CASE AddRegistry(th)
    <3>1. capabilities' = Append(capabilities, {}) /\ capabilities \in Seq(SUBSET Handles)
      BY <1>2, <2>2 DEF AddRegistry, Inv, TypeInv
    <3>2. \A r \in DOMAIN capabilities : capabilities'[r] = capabilities[r]
      BY <3>1
    <3>3. QED
      BY <3>2
  <2>3. CASE NewMock(th) \/ ForceMock(th) \/ NewRuntime(th)
    <3>1. CASE ForceMock(th)
      <4>1. Doing(th, "force") /\ \A r \in DOMAIN capabilities :
              r # got[th] => capabilities'[r] = capabilities[r]
        BY <3>1 DEF ForceMock, ForceRegisterCapability
      <4>2. QED
        BY <4>1
    <3>2. CASE NewMock(th) \/ NewRuntime(th)
      <4>1. PICK h : \E id : RegisterCapability(got[th], h, id)
        BY <3>2 DEF NewMock, NewRuntime
      <4>2. \/ capabilities' = capabilities
            \/ capabilities' =
                 [capabilities EXCEPT ![got[th]] = capabilities[got[th]] \cup {h}]
        BY <4>1 DEF RegisterCapability
      <4>3. \A r \in DOMAIN capabilities : capabilities[r] \subseteq capabilities'[r]
        BY <4>2
      <4>4. QED
        BY <4>3
    <3>3. QED
      BY <2>3, <3>1, <3>2
  <2>4. CASE \/ SetStub(th) \/ AddContractMock(th) \/ SetDefaults(th)
             \/ RefuseInput(th) \/ CallCapability(th) \/ KeepSecret(th) \/ GetSecrets(th)
             \/ AwaitResponse(th) \/ AwaitSecrets(th) \/ AwaitContext(th) \/ AwaitSettled(th)
    BY <1>1, <1>2, <2>4, OthersAreAway
  <2>5. QED
    BY <1>2, <2>1, <2>2, <2>3, <2>4 DEF Step
<1>3. ASSUME Inv, \/ \E th \in Threads : Answering(th)
                  \/ \E t \in Tests : EndTest(t)
                  \/ UNCHANGED vars
      PROVE  Kept
  BY <1>1, <1>3, AnsweringIsAway
<1>4. ASSUME NEW t \in Tests, Cleanup(t) PROVE Kept
  BY <1>1, <1>4 DEF Cleanup
<1>5. Inv /\ [Next]_vars => [Kept]_vars
  BY <1>2, <1>3, <1>4 DEF Next, Finishing
<1>6. QED
  BY <1>5, Invariant, PTL DEF Spec, FirstMockStays
-----------------------------------------------------------------------------
(* The invariant behind what the calls return.                             *)

IsSequence(s) == \E S : s \in Seq(S)

Passed(th, kind) == Before(script[th], next[th], kind)

\* Has the mock of a handle been made?
Built(h) ==
  \/ h[2] = "own" /\ Passed(h[1], "mock")
  \/ h[2] = "default" /\ (Passed(h[1], "runtime") \/ phase[h[1]] = "defaults")

\* A goroutine that is inside an operation is at one.
ScriptInv ==
  /\ script \in Scripts
  /\ next \in [Threads -> Nat \ {0}]
  /\ \A th \in Threads :
       /\ next[th] <= Len(script[th]) + 1
       /\ phase[th] # "run" => ~Finished(th)
       /\ phase[th] = "defaults" => Op(th).op = "runtime"

\* A stub holds what a test or NewRuntime may have put there, and only the two
\* functions that contract mocks wrap have layers.
GoodStub(method, stub) ==
  /\ stub = [base |-> stub.base, layers |-> stub.layers]
  /\ PossibleAnswer(stub.base) \/ stub = Function(Defaults)
  /\ IsSequence(stub.layers)
  /\ \A n \in DOMAIN stub.layers : PossibleLayer(stub.layers[n])
  /\ stub.layers # <<>> => method \in {"CallContract", "WriteReport"}

\* The mock that a handle was made with.
Made(h) ==
  IF h[2] = "own"
  THEN \E j \in 1 .. next[h[1]] - 1 :
         script[h[1]][j].op = "mock" /\ mocks[h] = script[h[1]][j].mock
  ELSE mocks[h] = ConsensusMock

MocksInv ==
  /\ DOMAIN mocks = Handles /\ DOMAIN stubs = Handles
  /\ \A h \in Handles : Built(h) =>
       /\ Made(h)
       /\ DOMAIN stubs[h] = DOMAIN mocks[h].methods
       /\ \A m \in DOMAIN stubs[h] :
            /\ GoodStub(m, stubs[h][m])
            /\ h[2] = "own" => PossibleAnswer(stubs[h][m].base)

DefaultStubs == [Simple |-> Function(Defaults), Report |-> Function(Defaults)]

\* A registered mock has been made by a goroutine of the registry's test, and
\* a default one is given its functions before its maker goes on.
RegisteredInv ==
  \A r \in DOMAIN capabilities : \A h \in capabilities[r] :
    /\ Built(h)
    /\ h[2] = "default" => phase[h[1]] = "defaults" \/ stubs[h] = DefaultStubs
    /\ \A th \in Threads : got[th] = r => TestOf(th) = TestOf(h[1])
    /\ \A t \in Tests : testRegistries[t] = r => t = TestOf(h[1])

\* GetRegistry has returned to a goroutine that is past it.
GotInv == \A th \in Threads : phase[th] \in {"registry", "defaults"} => got[th] # None

IsCall(c) ==
  c = [client |-> c.client, limit |-> c.limit, input |-> c.input, served |-> c.served,
       phase |-> c.phase, stub |-> c.stub, reply |-> c.reply, channel |-> c.channel,
       outcome |-> c.outcome]

\* What the function that was called returned, when it did.
Returned(c) == Answer(c.client.method, c.stub, c.input)
Replied(th, c) ==
  /\ GoodStub(c.client.method, c.stub)
  /\ ~Reaches(c) => c.stub = Unset
  /\ c.served = Default(th) /\ Reaches(c) => c.stub # Unset
  /\ Returned(c) \notin {Hangs, Panics}
  /\ c.reply = Invoke(MockOf(c), c.client,
                      IF Returned(c) = Blocks THEN Failed(ContextDone) ELSE Returned(c))

\* A call that reached a mock: of its own test, registered under its id, and
\* with its functions if it is the runtime's own.
ServedCall(th, c) ==
  /\ c.served \in Handles /\ Built(c.served)
  /\ TestOf(c.served[1]) = TestOf(th)
  /\ MockOf(c).id = c.client.id /\ SameOutput(MockOf(c), c.client)
  /\ c.served = Default(th) => stubs[c.served] = DefaultStubs
  /\ c.phase \in {"started", "answered", "sent"}
  /\ c.phase = "started" => c.reply = None
  /\ c.phase # "started" => Replied(th, c)
  /\ c.phase = "sent" => c.channel \in {<<>>, <<c.reply>>}
  /\ \/ c.outcome = NotSettled
     \/ c.outcome = Failed(ContextDone) /\ ended[TestOf(th)]
     \/ c.phase = "sent" /\ c.outcome = OutcomeOf(c.client, c.reply)

\* A limiter was the one of the client's method.
Limited(c) == c.limit # None => Restricts(c.limit, c.client)

\* A promise that is not settled has its response to come, or in the channel.
AnswerKept(c) ==
  c.outcome = NotSettled =>
    c.phase # "refused" /\ (c.phase = "sent" => c.channel # <<>>)

GoodCall(th, c) ==
  /\ IsCall(c) /\ Limited(c) /\ AnswerKept(c)
  /\ c.phase \in {"started", "answered", "sent", "refused"}
  /\ c.served \in Handles \cup {None}
  /\ c.channel = <<>> \/ c.channel = <<c.channel[1]>>
  /\ c.phase \in {"started", "answered"} => c.channel = <<>>
  /\ c.served = None => c.phase \in {"sent", "refused"} /\ c.reply = None
  /\ c.served # None => ServedCall(th, c)

CallsInv ==
  /\ DOMAIN calls = Threads
  /\ \A th \in Threads :
       /\ IsSequence(calls[th]) /\ Len(calls[th]) < next[th]
       /\ \A k \in DOMAIN calls[th] : GoodCall(th, calls[th][k])

FlagsInv ==
  /\ lock \in Threads \cup {None}
  /\ ended \in [Tests -> BOOLEAN] /\ crashed \in BOOLEAN

AllInv ==
  /\ Inv /\ ScriptInv /\ FlagsInv
  /\ MocksInv /\ GotInv /\ RegisteredInv /\ CallsInv

-----------------------------------------------------------------------------
(* Sequences of which no more is known.                                    *)

LEMMA SequenceFacts ==
  ASSUME NEW s, IsSequence(s)
  PROVE  Len(s) \in Nat /\ DOMAIN s = 1 .. Len(s)
<1>1. PICK S : s \in Seq(S)
  BY DEF IsSequence
<1>2. QED
  BY <1>1

LEMMA SequenceAppended ==
  ASSUME NEW s, IsSequence(s), NEW e
  PROVE  /\ IsSequence(Append(s, e)) /\ Len(Append(s, e)) = Len(s) + 1
         /\ DOMAIN Append(s, e) = DOMAIN s \cup {Len(s) + 1}
         /\ \A k \in DOMAIN s : Append(s, e)[k] = s[k]
         /\ Append(s, e)[Len(s) + 1] = e
<1>1. PICK S : s \in Seq(S)
  BY DEF IsSequence
<1> DEFINE T == S \cup {e}
<1>2. \A k \in DOMAIN s : s[k] \in T
  BY <1>1
<1>3. s \in Seq(T) /\ e \in T
  BY <1>1, <1>2
<1> HIDE DEF T
<1>4. Append(s, e) \in Seq(T)
  BY <1>3
<1>5. /\ Len(Append(s, e)) = Len(s) + 1 /\ Len(s) \in Nat
      /\ DOMAIN s = 1 .. Len(s) /\ DOMAIN Append(s, e) = 1 .. Len(s) + 1
      /\ \A k \in 1 .. Len(s) : Append(s, e)[k] = s[k]
      /\ Append(s, e)[Len(s) + 1] = e
  BY <1>3
<1>6. QED
  BY <1>4, <1>5 DEF IsSequence

LEMMA SequenceReplaced ==
  ASSUME NEW s, IsSequence(s), NEW k, NEW e, NEW g, g = [s EXCEPT ![k] = e]
  PROVE  IsSequence(g) /\ Len(g) = Len(s) /\ DOMAIN g = DOMAIN s
<1>1. PICK S : s \in Seq(S)
  BY DEF IsSequence
<1> DEFINE T == S \cup {e}
<1>2. \A i \in DOMAIN s : s[i] \in T
  BY <1>1
<1>3. s \in Seq(T) /\ e \in T
  BY <1>1, <1>2
<1> HIDE DEF T
<1>4. g \in Seq(T) /\ DOMAIN g = DOMAIN s
  BY <1>3, EntryReplaced
<1>5. Len(g) = Len(s)
  <2>1. Len(g) \in Nat /\ Len(s) \in Nat /\ DOMAIN g = 1 .. Len(g) /\ DOMAIN s = 1 .. Len(s)
    BY <1>3, <1>4
  <2>2. 1 .. Len(g) = 1 .. Len(s)
    BY <2>1, <1>4
  <2>3. QED
    BY <2>1, <2>2
<1>6. QED
  BY <1>4, <1>5 DEF IsSequence

-----------------------------------------------------------------------------
(* How the goroutines go through their scripts.                            *)

\* A goroutine does an operation, or a part of one.
DoesOne(th) ==
  next' = [next EXCEPT ![th] = @ + 1] /\ phase' = [phase EXCEPT ![th] = "run"]
DoesPart(th) ==
  /\ next' = next /\ phase[th] # "defaults"
  /\ \E p \in Phases : /\ phase' = [phase EXCEPT ![th] = p]
                       /\ p = "defaults" => Op(th).op = "runtime"

LEMMA StepMoves ==
  ASSUME ScriptInv, NEW th \in Threads, Step(th)
  PROVE  script' = script /\ ~Finished(th) /\ (DoesOne(th) \/ DoesPart(th))
<1>1. CASE LockRegistries(th)
  BY <1>1 DEF LockRegistries, Goto, DoesPart, Phases
<1>2. CASE FindRegistry(th) \/ MissRegistry(th) \/ AddRegistry(th)
  BY <1>2 DEF FindRegistry, MissRegistry, AddRegistry, Goto, DoesPart, Phases, ScriptInv
<1>3. CASE NewRuntime(th)
  BY <1>3 DEF NewRuntime, Goto, Done, Doing, DoesPart, DoesOne, Phases
<1>4. CASE NewMock(th) \/ ForceMock(th) \/ SetStub(th) \/ AddContractMock(th) \/ SetDefaults(th)
  BY <1>4 DEF NewMock, ForceMock, SetStub, AddContractMock, SetDefaults, Done, Doing, DoesOne
<1>5. CASE RefuseInput(th) \/ CallCapability(th) \/ KeepSecret(th) \/ GetSecrets(th)
  BY <1>5 DEF RefuseInput, CallCapability, KeepSecret, GetSecrets, Done, Doing, DoesOne
<1>6. CASE AwaitResponse(th) \/ AwaitSecrets(th) \/ AwaitContext(th) \/ AwaitSettled(th)
  BY <1>6 DEF AwaitResponse, AwaitSecrets, AwaitContext, AwaitSettled, Settle, Done, Doing,
              DoesOne
<1>7. QED
  BY <1>1, <1>2, <1>3, <1>4, <1>5, <1>6 DEF Step

\* Nothing else moves a goroutine.
LEMMA OthersDoNotMove ==
  ASSUME \/ \E th \in Threads : Answering(th)
         \/ \E t \in Tests : Finishing(t)
         \/ UNCHANGED vars
  PROVE  UNCHANGED <<script, next, phase>>
<1>1. CASE \E th \in Threads : Answering(th)
  <2> PICK th \in Threads : Answering(th)
    BY <1>1
  <2>1. PICK k \in DOMAIN calls[th] :
          InvokeMock(th, k) \/ ReleaseMock(th, k) \/ MockPanics(th, k) \/ SendResponse(th, k)
    BY DEF Answering
  <2>2. CASE InvokeMock(th, k)
    BY <2>2 DEF InvokeMock
  <2>3. CASE ReleaseMock(th, k)
    BY <2>3 DEF ReleaseMock
  <2>4. CASE MockPanics(th, k)
    BY <2>4 DEF MockPanics
  <2>5. CASE SendResponse(th, k)
    BY <2>5 DEF SendResponse
  <2>6. QED
    BY <2>1, <2>2, <2>3, <2>4, <2>5
<1>2. CASE \E t \in Tests : Finishing(t)
  BY <1>2 DEF Finishing, EndTest, Cleanup
<1>3. QED
  BY <1>1, <1>2 DEF vars

LEMMA ScriptFacts ==
  ASSUME ScriptInv, NEW th \in Threads
  PROVE  /\ Len(script[th]) \in Nat /\ DOMAIN script[th] = 1 .. Len(script[th])
         /\ next[th] \in Nat \ {0} /\ next[th] <= Len(script[th]) + 1
         /\ ~Finished(th) => next[th] \in DOMAIN script[th]
         /\ \A i \in DOMAIN script[th] :
              /\ script[th][i].op \in {"mock", "runtime"} =>
                   ~Before(script[th], i, script[th][i].op)
              /\ script[th][i].op \in {"force", "stub", "contract"} =>
                   Before(script[th], i, "mock")
<1>1. /\ Len(script[th]) \in Nat /\ DOMAIN script[th] = 1 .. Len(script[th])
      /\ next[th] \in Nat \ {0} /\ next[th] <= Len(script[th]) + 1
  BY OperationsAssumption DEF ScriptInv
<1>2. ~Finished(th) => next[th] \in DOMAIN script[th]
  BY <1>1 DEF Finished
<1>3. QED
  BY <1>1, <1>2, OperationsAssumption DEF ScriptInv

LEMMA ScriptStep ==
  ASSUME ScriptInv, TypeInv, [Next]_vars
  PROVE  ScriptInv' /\ script' = script /\ \A th \in Threads : next[th] <= next'[th]
<1>1. ASSUME NEW th \in Threads, Step(th)
      PROVE  ScriptInv' /\ script' = script /\ \A u \in Threads : next[u] <= next'[u]
  <2>1. script' = script /\ ~Finished(th) /\ (DoesOne(th) \/ DoesPart(th))
    BY <1>1, StepMoves
  <2>2. next[th] \in Nat /\ Len(script[th]) \in Nat /\ next[th] <= Len(script[th])
    BY <2>1, ScriptFacts DEF Finished
  <2>3. CASE DoesOne(th)
    <3>1. next' \in [Threads -> Nat \ {0}]
      BY <2>2, <2>3 DEF DoesOne, ScriptInv
    <3>2. ASSUME NEW u \in Threads
          PROVE  /\ next[u] <= next'[u]
                 /\ next'[u] <= Len(script[u]) + 1
                 /\ phase'[u] # "run" => ~Finished(u)'
                 /\ phase'[u] = "defaults" => Op(u)'.op = "runtime"
      <4>1. CASE u = th
        BY <2>2, <2>3, <4>1 DEF DoesOne, ScriptInv, TypeInv
      <4>2. CASE u # th
        BY <2>1, <2>3, <4>2 DEF DoesOne, ScriptInv, TypeInv, Finished, Op
      <4>3. QED
        BY <4>1, <4>2
    <3>3. QED
      BY <2>1, <3>1, <3>2 DEF ScriptInv
  <2>4. CASE DoesPart(th)
    <3>1. PICK p \in Phases : phase' = [phase EXCEPT ![th] = p]
                              /\ (p = "defaults" => Op(th).op = "runtime")
      BY <2>4 DEF DoesPart
    <3>2. next' = next
      BY <2>4 DEF DoesPart
    <3>3. ASSUME NEW u \in Threads
          PROVE  /\ phase'[u] # "run" => ~Finished(u)'
                 /\ phase'[u] = "defaults" => Op(u)'.op = "runtime"
      BY <2>1, <3>1, <3>2 DEF ScriptInv, TypeInv, Finished, Op
    <3>4. QED
      BY <2>1, <3>2, <3>3 DEF ScriptInv
  <2>5. QED
    BY <2>1, <2>3, <2>4
<1>2. CASE UNCHANGED <<script, next, phase>>
  BY <1>2 DEF ScriptInv, Finished, Op
<1>3. QED
  BY <1>1, <1>2, OthersDoNotMove DEF Next

\* What a goroutine has passed stays behind it, and so a mock that was made.
LEMMA BuiltStays ==
  ASSUME ScriptInv, TypeInv, [Next]_vars, NEW h \in Handles, Built(h)
  PROVE  Built(h)'
<1> DEFINE th == h[1]
<1>1. th \in Threads /\ h[2] \in {"own", "default"}
  BY DEF Handles
<1>2. script' = script /\ next[th] <= next'[th] /\ next[th] \in Nat /\ next'[th] \in Nat
  BY <1>1, ScriptStep DEF ScriptInv
<1>3. ASSUME NEW kind, Passed(th, kind) PROVE Before(script[th], next'[th], kind)
  BY <1>2, <1>3 DEF Passed, Before
<1>4. CASE h[2] = "own"
  BY <1>2, <1>3, <1>4 DEF Built, Passed
<1>5. CASE h[2] = "default" /\ Passed(th, "runtime")
  BY <1>2, <1>3, <1>5 DEF Built, Passed
<1>6. CASE h[2] = "default" /\ phase[th] = "defaults"
  <2>1. Op(th).op = "runtime" /\ script[th][next[th]].op = "runtime"
    BY <1>1, <1>6 DEF ScriptInv, Op
  <2>2. CASE phase'[th] = "defaults"
    BY <1>6, <2>2 DEF Built
  <2>3. CASE phase'[th] # "defaults"
    <3>1. next'[th] = next[th] + 1
      <4>1. PICK u \in Threads : Step(u)
        BY <1>6, <2>3, OthersDoNotMove DEF Next
      <4>2. DoesOne(u) \/ DoesPart(u)
        BY <4>1, StepMoves
      <4>3. u = th
        BY <1>1, <1>6, <2>3, <4>2 DEF DoesOne, DoesPart, TypeInv
      <4>4. QED
        BY <1>1, <1>6, <4>2, <4>3 DEF DoesOne, DoesPart, ScriptInv
    <3>2. next[th] \in 1 .. next'[th] - 1
      BY <1>1, <1>2, <3>1, ScriptFacts
    <3>3. Before(script[th], next'[th], "runtime")
      BY <2>1, <3>2 DEF Before
    <3>4. QED
      BY <1>2, <1>6, <3>3 DEF Built, Passed
  <2>4. QED
    BY <2>2, <2>3
<1>7. QED
  BY <1>1, <1>4, <1>5, <1>6 DEF Built

LEMMA HandleFacts ==
  /\ \A th \in Threads :
       /\ Own(th) \in Handles /\ Own(th)[1] = th /\ Own(th)[2] = "own"
       /\ Default(th) \in Handles /\ Default(th)[1] = th /\ Default(th)[2] = "default"
       /\ Own(th) # Default(th)
  /\ \A h \in Handles :
       /\ h[1] \in Threads
       /\ \/ h = Own(h[1]) /\ h[2] = "own"
          \/ h = Default(h[1]) /\ h[2] = "default"
<1> DEFINE T == Threads
<1>1. Handles = T \X {"own", "default"}
  BY DEF Handles
<1> HIDE DEF T
<1>2. ASSUME NEW th \in T
      PROVE  /\ Own(th) \in Handles /\ Own(th)[1] = th /\ Own(th)[2] = "own"
             /\ Default(th) \in Handles /\ Default(th)[1] = th /\ Default(th)[2] = "default"
             /\ Own(th) # Default(th)
  <2>1. /\ Own(th) \in Handles /\ Own(th)[1] = th /\ Own(th)[2] = "own"
        /\ Default(th) \in Handles /\ Default(th)[1] = th /\ Default(th)[2] = "default"
    BY <1>1 DEF Own, Default
  <2>2. QED
    BY <2>1
<1>3. ASSUME NEW h \in Handles
      PROVE  /\ h[1] \in T
             /\ \/ h = Own(h[1]) /\ h[2] = "own"
                \/ h = Default(h[1]) /\ h[2] = "default"
  <2>1. PICK th \in T, w \in {"own", "default"} : h = <<th, w>>
    BY <1>1
  <2>2. h[1] = th /\ h[2] = w
    BY <2>1
  <2>3. QED
    BY <2>1, <2>2 DEF Own, Default
<1>4. QED
  BY <1>2, <1>3 DEF T

\* A goroutine makes a mock once, and uses it after that.
LEMMA MadeOnce ==
  ASSUME ScriptInv, NEW th \in Threads
  PROVE  /\ NewMock(th) => ~Built(Own(th))
         /\ NewRuntime(th) => ~Built(Default(th))
         /\ ForceMock(th) \/ SetStub(th) \/ AddContractMock(th) => Built(Own(th))
         /\ SetDefaults(th) => Built(Default(th)) /\ phase[th] = "defaults"
<1> DEFINE i == next[th]
<1>1. ASSUME NEW op, Doing(th, op) PROVE i \in DOMAIN script[th] /\ script[th][i].op = op
  BY <1>1, ScriptFacts DEF Doing, Op
<1>2. NewMock(th) => ~Built(Own(th))
  BY <1>1, ScriptFacts, HandleFacts DEF NewMock, Built, Passed
<1>3. NewRuntime(th) => ~Built(Default(th))
  BY <1>1, ScriptFacts, HandleFacts DEF NewRuntime, Built, Passed
<1>4. ForceMock(th) \/ SetStub(th) \/ AddContractMock(th) => Built(Own(th))
  BY <1>1, ScriptFacts, HandleFacts DEF ForceMock, SetStub, AddContractMock, Built, Passed
<1>5. SetDefaults(th) => Built(Default(th)) /\ phase[th] = "defaults"
  BY HandleFacts DEF SetDefaults, Built
<1>6. QED
  BY <1>2, <1>3, <1>4, <1>5

\* Only the two constructors make one.
LEMMA BuiltNow ==
  ASSUME ScriptInv, TypeInv, [Next]_vars, NEW h \in Handles, ~Built(h), Built(h)'
  PROVE  \/ h = Own(h[1]) /\ NewMock(h[1])
         \/ h = Default(h[1]) /\ NewRuntime(h[1])
<1>1. PICK th \in Threads : Step(th)
  BY OthersDoNotMove DEF Next, Built, Passed
<1>2. script' = script /\ (DoesOne(th) \/ DoesPart(th))
  BY <1>1, StepMoves
<1>3. h[1] = th
  BY <1>2, HandleFacts DEF DoesOne, DoesPart, ScriptInv, TypeInv, Built, Passed
<1>4. /\ next[th] \in Nat \ {0}
      /\ next'[th] = next[th] \/ next'[th] = next[th] + 1
  BY <1>2, ScriptFacts DEF DoesOne, DoesPart, ScriptInv
<1>5. ASSUME NEW kind, Passed(th, kind)', ~Passed(th, kind)
      PROVE  Op(th).op = kind /\ DoesOne(th)
  <2>1. PICK j \in 1 .. next'[th] - 1 : script[th][j].op = kind
    BY <1>2, <1>5 DEF Passed, Before
  <2>2. j \notin 1 .. next[th] - 1
    BY <1>5, <2>1 DEF Passed, Before
  <2>3. j = next[th] /\ next'[th] # next[th]
    BY <1>4, <2>1, <2>2
  <2>4. QED
    BY <1>2, <2>1, <2>3 DEF Op, DoesPart
<1>6. CASE h[2] = "own"
  <2>1. Op(th).op = "mock" /\ DoesOne(th)
    BY <1>3, <1>5, <1>6 DEF Built
  <2>2. phase'[th] = "run"
    BY <2>1 DEF DoesOne, TypeInv
  <2>3. next'[th] # next[th]
    BY <1>4, <2>1 DEF DoesOne, ScriptInv
  <2>4. NewMock(th)
    BY <1>1, <2>1, <2>3
       DEF Step, Doing, LockRegistries, FindRegistry, MissRegistry, AddRegistry, Goto,
           ForceMock, SetStub, AddContractMock, NewRuntime, SetDefaults, RefuseInput,
           CallCapability, KeepSecret, GetSecrets, AwaitResponse, AwaitSecrets,
           AwaitContext, AwaitSettled
  <2>5. QED
    BY <1>3, <1>6, <2>4, HandleFacts
<1>7. CASE h[2] = "default"
  <2>1. ~Passed(th, "runtime") /\ phase[th] # "defaults"
    BY <1>3, <1>7 DEF Built
  <2>2. /\ Op(th).op = "runtime"
        /\ next'[th] # next[th] \/ phase'[th] = "defaults"
    <3>1. CASE Passed(th, "runtime")'
      BY <1>4, <1>5, <2>1, <3>1 DEF DoesOne, ScriptInv
    <3>2. CASE phase'[th] = "defaults"
      BY <1>2, <3>2, <2>1 DEF DoesOne, DoesPart, TypeInv
    <3>3. QED
      BY <1>3, <1>7, <3>1, <3>2 DEF Built
  <2>3. NewRuntime(th)
    BY <1>1, <2>1, <2>2
       DEF Step, Doing, LockRegistries, FindRegistry, MissRegistry, AddRegistry, Goto,
           ForceMock, SetStub, AddContractMock, NewMock, SetDefaults, RefuseInput,
           CallCapability, KeepSecret, GetSecrets, AwaitResponse, AwaitSecrets,
           AwaitContext, AwaitSettled, TypeInv
  <2>4. QED
    BY <1>3, <1>7, <2>3, HandleFacts
<1>8. QED
  BY <1>6, <1>7, HandleFacts

-----------------------------------------------------------------------------
(* The mocks and their stubs.                                              *)

LEMMA MockSteps ==
  ASSUME [Next]_vars
  PROVE  \/ UNCHANGED <<mocks, stubs>>
         \/ \E th \in Threads : NewMock(th) \/ NewRuntime(th)
         \/ \E th \in Threads :
              UNCHANGED mocks /\ (SetStub(th) \/ AddContractMock(th) \/ SetDefaults(th))
<1>1. CASE \E th \in Threads : Answering(th)
  BY <1>1 DEF Answering, InvokeMock, ReleaseMock, MockPanics, SendResponse, mockVars
<1>2. CASE \E t \in Tests : Finishing(t)
  BY <1>2 DEF Finishing, EndTest, Cleanup, mockVars
<1>3. ASSUME NEW th \in Threads, Step(th)
      PROVE  \/ UNCHANGED <<mocks, stubs>>
             \/ NewMock(th) \/ NewRuntime(th)
             \/ UNCHANGED mocks /\ (SetStub(th) \/ AddContractMock(th) \/ SetDefaults(th))
  <2>1. CASE LockRegistries(th) \/ FindRegistry(th) \/ MissRegistry(th) \/ AddRegistry(th)
    BY <2>1 DEF LockRegistries, FindRegistry, MissRegistry, AddRegistry, mockVars
  <2>2. CASE ForceMock(th) \/ RefuseInput(th) \/ CallCapability(th) \/ KeepSecret(th)
             \/ GetSecrets(th)
    BY <2>2 DEF ForceMock, RefuseInput, CallCapability, KeepSecret, GetSecrets, mockVars
  <2>3. CASE AwaitResponse(th) \/ AwaitSecrets(th) \/ AwaitContext(th) \/ AwaitSettled(th)
    BY <2>3 DEF AwaitResponse, AwaitSecrets, AwaitContext, AwaitSettled, Settle, mockVars
  <2>4. CASE SetStub(th) \/ AddContractMock(th) \/ SetDefaults(th)
    BY <2>4 DEF SetStub, AddContractMock, SetDefaults
  <2>5. QED
    BY <1>3, <2>1, <2>2, <2>3, <2>4 DEF Step
<1>4. QED
  BY <1>1, <1>2, <1>3 DEF Next, vars, mockVars

\* A mock that has been made is not made again.
LEMMA MocksStay ==
  ASSUME ScriptInv, MocksInv, [Next]_vars, NEW h \in Handles, Built(h)
  PROVE  mocks'[h] = mocks[h]
<1>1. ASSUME NEW th \in Threads, NewMock(th) \/ NewRuntime(th)
      PROVE  mocks'[h] = mocks[h]
  <2>1. CASE NewMock(th)
    <3>1. h # Own(th)
      BY <2>1, MadeOnce
    <3>2. QED
      BY <2>1, <3>1 DEF NewMock, Build, MocksInv
  <2>2. CASE NewRuntime(th)
    <3>1. h # Default(th)
      BY <2>2, MadeOnce
    <3>2. QED
      BY <2>2, <3>1 DEF NewRuntime, Build, MocksInv
  <2>3. QED
    BY <1>1, <2>1, <2>2
<1>2. QED
  BY <1>1, MockSteps

LEMMA MadeStays ==
  ASSUME ScriptInv, TypeInv, MocksInv, [Next]_vars, NEW h \in Handles, Built(h)
  PROVE  Made(h)'
<1>1. Made(h) /\ mocks'[h] = mocks[h] /\ h[1] \in Threads
  BY MocksStay, HandleFacts DEF MocksInv
<1>2. /\ script' = script /\ next[h[1]] <= next'[h[1]]
      /\ next[h[1]] \in Nat /\ next'[h[1]] \in Nat
  BY <1>1, ScriptStep DEF ScriptInv
<1>3. QED
  BY <1>1, <1>2 DEF Made

LEMMA EmptySequence == IsSequence(<<>>)
<1>1. <<>> \in Seq({})
  OBVIOUS
<1>2. QED
  BY <1>1 DEF IsSequence

LEMMA FunctionIsGood ==
  ASSUME NEW m, NEW base, PossibleAnswer(base) \/ base = Defaults
  PROVE  GoodStub(m, Function(base))
<1>1. DOMAIN <<>> = {}
  OBVIOUS
<1>2. QED
  BY <1>1, EmptySequence DEF Function, GoodStub

LEMMA UnsetIsGood == ASSUME NEW m PROVE GoodStub(m, Unset)
<1>1. DOMAIN <<>> = {}
  OBVIOUS
<1>2. PossibleAnswer(NoAnswer)
  BY DEF PossibleAnswer
<1>3. QED
  BY <1>1, <1>2, EmptySequence DEF Unset, GoodStub

LEMMA LayerIsGood ==
  ASSUME NEW m \in {"CallContract", "WriteReport"}, NEW stub, GoodStub(m, stub),
         PossibleAnswer(stub.base), NEW layer, PossibleLayer(layer)
  PROVE  GoodStub(m, AddLayer(stub, layer)) /\ AddLayer(stub, layer).base = stub.base
<1> DEFINE layers == Append(stub.layers, layer)
<1>1. AddLayer(stub, layer) = [base |-> stub.base, layers |-> layers]
  BY DEF AddLayer, GoodStub
<1>2. /\ IsSequence(layers) /\ Len(layers) = Len(stub.layers) + 1
      /\ DOMAIN layers = DOMAIN stub.layers \cup {Len(layers)}
      /\ \A n \in DOMAIN stub.layers : layers[n] = stub.layers[n]
      /\ layers[Len(layers)] = layer
  BY SequenceAppended DEF GoodStub
<1>3. \A n \in DOMAIN layers : PossibleLayer(layers[n])
  BY <1>2 DEF GoodStub
<1> HIDE DEF layers
<1>4. QED
  BY <1>1, <1>2, <1>3 DEF GoodStub

\* A mock that was made keeps its methods, and a stub for each.
LEMMA StubsStep ==
  ASSUME ScriptInv, TypeInv, MocksInv, [Next]_vars, NEW h \in Handles, Built(h)
  PROVE  /\ DOMAIN stubs'[h] = DOMAIN stubs[h]
         /\ \A m \in DOMAIN stubs'[h] :
              /\ GoodStub(m, stubs'[h][m])
              /\ h[2] = "own" => PossibleAnswer(stubs'[h][m].base)
         /\ h[2] = "default" /\ stubs[h] = DefaultStubs => stubs'[h] = DefaultStubs
<1> DEFINE Good(m, stub) ==
             GoodStub(m, stub) /\ (h[2] = "own" => PossibleAnswer(stub.base))
           Kept == /\ DOMAIN stubs'[h] = DOMAIN stubs[h]
                   /\ \A m \in DOMAIN stubs'[h] : Good(m, stubs'[h][m])
                   /\ h[2] = "default" /\ stubs[h] = DefaultStubs => stubs'[h] = DefaultStubs
<1>1. /\ h \in DOMAIN stubs /\ \A m \in DOMAIN stubs[h] : Good(m, stubs[h][m])
      /\ h[2] = "default" => DOMAIN stubs[h] = {"Simple", "Report"}
  BY DEF MocksInv, Made, ConsensusMock, Mock
<1>2. ASSUME stubs'[h] = stubs[h] PROVE Kept
  BY <1>1, <1>2
<1>3. ASSUME NEW th \in Threads, NewMock(th) \/ NewRuntime(th) PROVE Kept
  <2>1. CASE NewMock(th)
    <3>1. h # Own(th)
      BY <2>1, MadeOnce
    <3>2. stubs'[h] = stubs[h]
      BY <2>1, <3>1, <1>1 DEF NewMock, Build
    <3>3. QED
      BY <1>2, <3>2
  <2>2. CASE NewRuntime(th)
    <3>1. h # Default(th)
      BY <2>2, MadeOnce
    <3>2. stubs'[h] = stubs[h]
      BY <2>2, <3>1, <1>1 DEF NewRuntime, Build
    <3>3. QED
      BY <1>2, <3>2
  <2>3. QED
    BY <1>3, <2>1, <2>2
<1>4. ASSUME NEW th \in Threads, SetStub(th) PROVE Kept
  <2>1. Doing(th, "stub") /\ stubs' = [stubs EXCEPT ![Own(th)][Op(th).method] = Function(Op(th).base)]
    BY <1>4 DEF SetStub
  <2>2. PossibleAnswer(Op(th).base)
    BY <2>1, ScriptFacts, FunctionsAssumption DEF Doing, Op, ScriptInv
  <2>3. CASE h # Own(th)
    BY <1>1, <1>2, <2>1, <2>3
  <2>4. CASE h = Own(th)
    <3>1. stubs'[h] = [stubs[h] EXCEPT ![Op(th).method] = Function(Op(th).base)]
      BY <1>1, <2>1, <2>4
    <3>2. \A m : Good(m, Function(Op(th).base))
      BY <2>2, FunctionIsGood DEF Function
    <3> HIDE DEF Good
    <3>3. \A m \in DOMAIN stubs'[h] : Good(m, stubs'[h][m])
      BY <1>1, <3>1, <3>2
    <3>4. h[2] = "own"
      BY <2>4, HandleFacts
    <3>5. QED
      BY <3>1, <3>3, <3>4
  <2>5. QED
    BY <2>3, <2>4
<1>5. ASSUME NEW th \in Threads, AddContractMock(th) PROVE Kept
  <2>1. /\ Doing(th, "contract")
        /\ stubs' = [stubs EXCEPT ![Own(th)].CallContract = AddLayer(@, Op(th).layer),
                                  ![Own(th)].WriteReport = AddLayer(@, Op(th).layer)]
    BY <1>5 DEF AddContractMock
  <2>2. PossibleLayer(Op(th).layer)
    BY <2>1, ScriptFacts, FunctionsAssumption DEF Doing, Op, ScriptInv
  <2>3. CASE h # Own(th)
    BY <1>1, <1>2, <2>1, <2>3
  <2>4. CASE h = Own(th)
    <3>1. /\ DOMAIN stubs'[h] = DOMAIN stubs[h]
          /\ \A m \in DOMAIN stubs[h] : stubs'[h][m] =
               IF m \in {"CallContract", "WriteReport"} THEN AddLayer(stubs[h][m], Op(th).layer)
               ELSE stubs[h][m]
      BY <1>1, <2>1, <2>4
    <3>2. h[2] = "own"
      BY <2>4, HandleFacts
    <3>3. ASSUME NEW m \in DOMAIN stubs[h] PROVE Good(m, stubs'[h][m])
      BY <1>1, <2>2, <3>1, <3>2, LayerIsGood
    <3> HIDE DEF Good
    <3>4. QED
      BY <3>1, <3>2, <3>3
  <2>5. QED
    BY <2>3, <2>4
<1>6. ASSUME NEW th \in Threads, SetDefaults(th) PROVE Kept
  <2>1. stubs' = [stubs EXCEPT ![Default(th)] = DefaultStubs]
    BY <1>6 DEF SetDefaults, DefaultStubs
  <2>2. CASE h # Default(th)
    BY <1>1, <1>2, <2>1, <2>2
  <2>3. CASE h = Default(th)
    <3>1. stubs'[h] = DefaultStubs
      BY <1>1, <2>1, <2>3
    <3>2. \A m : Good(m, Function(Defaults))
      BY <2>3, FunctionIsGood, HandleFacts
    <3> HIDE DEF Good
    <3>3. \A m \in DOMAIN DefaultStubs : Good(m, DefaultStubs[m])
      BY <3>2 DEF DefaultStubs
    <3>4. DOMAIN DefaultStubs = {"Simple", "Report"}
      BY DEF DefaultStubs
    <3>5. h[2] = "default"
      BY <2>3, HandleFacts
    <3>6. QED
      BY <1>1, <3>1, <3>3, <3>4, <3>5
  <2>4. QED
    BY <2>2, <2>3
<1>7. Kept
  BY <1>2, <1>3, <1>4, <1>5, <1>6, MockSteps
<1>8. QED
  BY <1>7

LEMMA MocksStep ==
  ASSUME ScriptInv, TypeInv, MocksInv, [Next]_vars
  PROVE  MocksInv'
<1>1. DOMAIN mocks' = Handles /\ DOMAIN stubs' = Handles
  <2>1. DOMAIN mocks = Handles /\ DOMAIN stubs = Handles
    BY DEF MocksInv
  <2>2. ASSUME NEW th \in Threads, NewMock(th) \/ NewRuntime(th)
        PROVE  DOMAIN mocks' = Handles /\ DOMAIN stubs' = Handles
    BY <2>1, <2>2 DEF NewMock, NewRuntime, Build
  <2>3. ASSUME NEW th \in Threads, UNCHANGED mocks,
               SetStub(th) \/ AddContractMock(th) \/ SetDefaults(th)
        PROVE  DOMAIN mocks' = Handles /\ DOMAIN stubs' = Handles
    BY <2>1, <2>3 DEF SetStub, AddContractMock, SetDefaults
  <2>4. QED
    BY <2>1, <2>2, <2>3, MockSteps
<1>2. ASSUME NEW h \in Handles, Built(h)'
      PROVE  /\ Made(h)'
             /\ DOMAIN stubs'[h] = DOMAIN mocks'[h].methods
             /\ \A m \in DOMAIN stubs'[h] :
                  /\ GoodStub(m, stubs'[h][m])
                  /\ h[2] = "own" => PossibleAnswer(stubs'[h][m].base)
  <2>1. CASE Built(h)
    BY <2>1, MadeStays, MocksStay, StubsStep DEF MocksInv
  <2>2. CASE ~Built(h)
    <3> DEFINE th == h[1]
    <3>1. \/ h = Own(th) /\ NewMock(th)
          \/ h = Default(th) /\ NewRuntime(th)
      BY <1>2, <2>2, BuiltNow
    <3>2. ASSUME NEW mock, Build(h, mock)
          PROVE  /\ mocks'[h] = mock
                 /\ DOMAIN stubs'[h] = DOMAIN mocks'[h].methods
                 /\ \A m \in DOMAIN stubs'[h] :
                      /\ GoodStub(m, stubs'[h][m])
                      /\ h[2] = "own" => PossibleAnswer(stubs'[h][m].base)
      <4>1. mocks'[h] = mock /\ stubs'[h] = [m \in DOMAIN mock.methods |-> Unset]
        BY <3>2 DEF Build, MocksInv
      <4>2. PossibleAnswer(Unset.base)
        BY DEF Unset, PossibleAnswer
      <4>3. QED
        BY <4>1, <4>2, UnsetIsGood
    <3>3. CASE h = Own(th) /\ NewMock(th)
      <4>1. Build(h, Op(th).mock) /\ Doing(th, "mock") /\ Done(th)
        BY <3>3 DEF NewMock
      <4>2. th \in Threads /\ h[2] = "own"
        BY <3>3, HandleFacts
      <4>3. /\ next[th] \in 1 .. next'[th] - 1 /\ script' = script
            /\ script[th][next[th]].op = "mock"
        BY <4>1, <4>2, ScriptFacts DEF Done, Doing, Op, ScriptInv
      <4>4. mocks'[h] = script[th][next[th]].mock
        BY <3>2, <4>1 DEF Op
      <4>5. Made(h)'
        BY <4>2, <4>3, <4>4 DEF Made
      <4>6. QED
        BY <3>2, <4>1, <4>5
    <3>4. CASE h = Default(th) /\ NewRuntime(th)
      <4>1. Build(h, ConsensusMock)
        BY <3>4 DEF NewRuntime
      <4>2. h[2] # "own"
        BY HandleFacts, <3>4
      <4>3. Made(h)'
        BY <3>2, <4>1, <4>2 DEF Made
      <4>4. QED
        BY <3>2, <4>1, <4>3
    <3>5. QED
      BY <3>1, <3>3, <3>4
  <2>3. QED
    BY <2>1, <2>2
<1>3. QED
  BY <1>1, <1>2 DEF MocksInv

-----------------------------------------------------------------------------
(* What is registered.                                                     *)

\* What a step may do to the registries.
LEMMA RegistrySteps ==
  ASSUME Inv, [Next]_vars
  PROVE  \/ UNCHANGED capabilities
         \/ \E th \in Threads : AddRegistry(th)
         \/ \E th \in Threads : NewMock(th) \/ ForceMock(th) \/ NewRuntime(th)
<1>1. ASSUME NEW th \in Threads, Step(th)
      PROVE  \/ UNCHANGED capabilities \/ AddRegistry(th)
             \/ NewMock(th) \/ ForceMock(th) \/ NewRuntime(th)
  <2>1. CASE LockRegistries(th) \/ FindRegistry(th) \/ MissRegistry(th)
    BY <2>1 DEF LockRegistries, FindRegistry, MissRegistry, registryVars
  <2>2. CASE \/ SetStub(th) \/ AddContractMock(th) \/ SetDefaults(th)
             \/ RefuseInput(th) \/ CallCapability(th) \/ KeepSecret(th) \/ GetSecrets(th)
             \/ AwaitResponse(th) \/ AwaitSecrets(th) \/ AwaitContext(th) \/ AwaitSettled(th)
    BY <2>2, OthersAreAway
  <2>3. QED
    BY <1>1, <2>1, <2>2 DEF Step
<1>2. ASSUME NEW t \in Tests, Cleanup(t) PROVE UNCHANGED capabilities
  BY <1>2 DEF Cleanup
<1>3. QED
  BY <1>1, <1>2, AnsweringIsAway DEF Next, Finishing

\* A goroutine has a registry when it leaves the map, and not before.
LEMMA GotStep ==
  ASSUME Inv, ScriptInv, GotInv, [Next]_vars
  PROVE  GotInv'
<1>1. SUFFICES ASSUME NEW u \in Threads, phase'[u] \in {"registry", "defaults"}
               PROVE  got'[u] # None
  BY DEF GotInv
<1>2. CASE UNCHANGED <<phase, got>>
  BY <1>1, <1>2 DEF GotInv
<1>3. ASSUME NEW th \in Threads, Step(th) PROVE got'[u] # None
  <2>1. CASE AddRegistry(th)
    <3>1. got' = [got EXCEPT ![th] = Len(capabilities) + 1] /\ Len(capabilities) + 1 # None
      BY <2>1, NoneAssumption DEF AddRegistry, Inv, TypeInv
    <3>2. phase' = [phase EXCEPT ![th] = "registry"]
      BY <2>1 DEF AddRegistry, Goto
    <3>3. QED
      BY <1>1, <3>1, <3>2 DEF Inv, TypeInv, GotInv
  <2>2. CASE FindRegistry(th)
    BY <1>1, <2>2 DEF FindRegistry, Goto, Inv, TypeInv, GotInv
  <2>3. CASE LockRegistries(th) \/ MissRegistry(th)
    BY <1>1, <2>3 DEF LockRegistries, MissRegistry, Goto, registryVars, Inv, TypeInv, GotInv
  <2>4. CASE NewMock(th) \/ ForceMock(th) \/ NewRuntime(th)
    BY <1>1, <2>4 DEF NewMock, ForceMock, NewRuntime, Done, Goto, Inv, TypeInv, GotInv
  <2>5. CASE \/ SetStub(th) \/ AddContractMock(th) \/ SetDefaults(th)
             \/ RefuseInput(th) \/ CallCapability(th) \/ KeepSecret(th) \/ GetSecrets(th)
             \/ AwaitResponse(th) \/ AwaitSecrets(th) \/ AwaitContext(th) \/ AwaitSettled(th)
    <3>1. got' = got
      BY <2>5, OthersAreAway DEF AwayFromMap
    <3>2. phase' = [phase EXCEPT ![th] = "run"]
      BY <2>5 DEF SetStub, AddContractMock, SetDefaults, RefuseInput, CallCapability,
                  KeepSecret, GetSecrets, AwaitResponse, AwaitSecrets, AwaitContext,
                  AwaitSettled, Settle, Done
    <3>3. QED
      BY <1>1, <3>1, <3>2 DEF Inv, TypeInv, GotInv
  <2>6. QED
    BY <1>3, <2>1, <2>2, <2>3, <2>4, <2>5 DEF Step
<1>4. ASSUME NEW t \in Tests, Cleanup(t) PROVE UNCHANGED <<phase, got>>
  BY <1>4 DEF Cleanup
<1>5. ASSUME \/ \E th \in Threads : Answering(th)
             \/ \E t \in Tests : EndTest(t)
             \/ UNCHANGED vars
      PROVE  UNCHANGED <<phase, got>>
  <2>1. got' = got
    BY <1>5, AnsweringIsAway DEF AwayFromMap
  <2>2. phase' = phase
    BY <1>5, OthersDoNotMove DEF Finishing
  <2>3. QED
    BY <2>1, <2>2
<1>6. QED
  BY <1>2, <1>3, <1>4, <1>5 DEF Next, Finishing

\* A default mock has its functions when its maker goes on.
LEMMA DefaultsStay ==
  ASSUME ScriptInv, TypeInv, MocksInv, [Next]_vars, NEW h \in Handles, Built(h),
         h[2] = "default", phase[h[1]] = "defaults" \/ stubs[h] = DefaultStubs
  PROVE  phase'[h[1]] = "defaults" \/ stubs'[h] = DefaultStubs
<1> DEFINE th == h[1]
<1>1. th \in Threads /\ h = Default(th)
  BY HandleFacts
<1>2. CASE stubs[h] = DefaultStubs
  BY <1>2, StubsStep
<1>3. CASE phase[th] = "defaults" /\ phase'[th] # "defaults"
  <2>1. PICK u \in Threads : Step(u)
    BY <1>3, OthersDoNotMove DEF Next
  <2>2. u = th
    <3>1. DoesOne(u) \/ DoesPart(u)
      BY <2>1, StepMoves
    <3>2. QED
      BY <1>1, <1>3, <3>1 DEF DoesOne, DoesPart, TypeInv
  <2>3. Op(th).op = "runtime"
    BY <1>1, <1>3 DEF ScriptInv
  <2>4. SetDefaults(th)
    BY <1>3, <2>1, <2>2, <2>3
       DEF Step, Doing, LockRegistries, FindRegistry, MissRegistry, AddRegistry, NewRuntime,
           ForceMock, SetStub, AddContractMock, NewMock, RefuseInput,
           CallCapability, KeepSecret, GetSecrets, AwaitResponse, AwaitSecrets,
           AwaitContext, AwaitSettled
  <2>5. QED
    BY <1>1, <2>4 DEF SetDefaults, DefaultStubs, MocksInv
<1>4. QED
  BY <1>2, <1>3

LEMMA NowRegistered ==
  ASSUME Inv, NEW th \in Threads, NewMock(th) \/ ForceMock(th) \/ NewRuntime(th),
         NEW r \in DOMAIN capabilities', NEW h \in capabilities'[r]
  PROVE  \/ r \in DOMAIN capabilities /\ h \in capabilities[r]
         \/ r = got[th] /\ h = Own(th) /\ (NewMock(th) \/ ForceMock(th))
         \/ /\ r = got[th] /\ h = Default(th) /\ NewRuntime(th)
            /\ phase' = [phase EXCEPT ![th] = "defaults"]
<1> DEFINE g == got[th]
<1>1. r \in DOMAIN capabilities
  BY RegisteringIsAway DEF AwayFromMap
<1>2. ASSUME NEW x, NEW id, RegisterCapability(g, x, id) \/ ForceRegisterCapability(g, x, id)
      PROVE  h \in capabilities[r] \/ (r = g /\ h = x)
  <2> DEFINE old == RegisteredAs(g, id)
  <2> HIDE DEF old
  <2>1. \/ capabilities' = capabilities
        \/ capabilities' = [capabilities EXCEPT ![g] = @ \cup {x}]
        \/ capabilities' = [capabilities EXCEPT ![g] = (@ \ old) \cup {x}]
    BY <1>2 DEF RegisterCapability, ForceRegisterCapability, old
  <2>2. QED
    BY <1>1, <2>1
<1>3. CASE NewMock(th)
  BY <1>1, <1>2, <1>3 DEF NewMock
<1>4. CASE ForceMock(th)
  BY <1>1, <1>2, <1>4 DEF ForceMock
<1>5. CASE NewRuntime(th)
  <2>1. CASE RegisteredAs(g, ConsensusMock.id) = {}
    BY <1>1, <1>2, <1>5, <2>1 DEF NewRuntime, Goto
  <2>2. CASE RegisteredAs(g, ConsensusMock.id) # {}
    BY <1>1, <1>5, <2>2 DEF NewRuntime, RegisterCapability
  <2>3. QED
    BY <2>1, <2>2
<1>6. QED
  BY <1>3, <1>4, <1>5

\* What points at a registry that there was has pointed at one of its test.
LEMMA PointersStep ==
  ASSUME Inv, [Next]_vars, NEW r \in DOMAIN capabilities
  PROVE  /\ \A th \in Threads : got'[th] = r =>
              got[th] = r \/ testRegistries[TestOf(th)] = r
         /\ \A t \in Tests : testRegistries'[t] = r => testRegistries[t] = r
<1> DEFINE Old == /\ \A th \in Threads : got'[th] = r =>
                       got[th] = r \/ testRegistries[TestOf(th)] = r
                  /\ \A t \in Tests : testRegistries'[t] = r => testRegistries[t] = r
<1>1. r \in Nat /\ r <= Len(capabilities) /\ Len(capabilities) \in Nat
  BY DEF Inv, TypeInv
<1>2. CASE UNCHANGED <<got, testRegistries>>
  BY <1>2
<1>3. ASSUME NEW th \in Threads, Step(th) PROVE Old
  <2>1. CASE LockRegistries(th) \/ MissRegistry(th)
    BY <2>1, <1>2 DEF LockRegistries, MissRegistry, registryVars
  <2>2. CASE FindRegistry(th)
    BY <2>2 DEF FindRegistry, Inv, TypeInv
  <2>3. CASE AddRegistry(th)
    <3>1. /\ got' = [got EXCEPT ![th] = Len(capabilities) + 1]
          /\ testRegistries' = [testRegistries EXCEPT ![TestOf(th)] = Len(capabilities) + 1]
          /\ r # Len(capabilities) + 1
      BY <1>1, <2>3 DEF AddRegistry
    <3>2. QED
      BY <3>1 DEF Inv, TypeInv
  <2>4. CASE NewMock(th) \/ ForceMock(th) \/ NewRuntime(th)
    BY <1>2, <2>4, RegisteringIsAway DEF AwayFromMap
  <2>5. CASE \/ SetStub(th) \/ AddContractMock(th) \/ SetDefaults(th)
             \/ RefuseInput(th) \/ CallCapability(th) \/ KeepSecret(th) \/ GetSecrets(th)
             \/ AwaitResponse(th) \/ AwaitSecrets(th) \/ AwaitContext(th) \/ AwaitSettled(th)
    BY <1>2, <2>5, OthersAreAway DEF AwayFromMap
  <2>6. QED
    BY <1>3, <2>1, <2>2, <2>3, <2>4, <2>5 DEF Step
<1>4. ASSUME NEW t \in Tests, Cleanup(t) PROVE Old
  <2>1. got' = got /\ testRegistries' = [testRegistries EXCEPT ![t] = None] /\ r # None
    BY <1>1, <1>4, NoneAssumption DEF Cleanup
  <2>2. QED
    BY <2>1 DEF Inv, TypeInv
<1>5. CASE \/ \E th \in Threads : Answering(th)
           \/ \E t \in Tests : EndTest(t)
           \/ UNCHANGED vars
  BY <1>2, <1>5, AnsweringIsAway DEF AwayFromMap
<1>6. QED
  BY <1>3, <1>4, <1>5 DEF Next, Finishing

LEMMA RegisteredStep ==
  ASSUME Inv, ScriptInv, MocksInv, RegisteredInv, GotInv, [Next]_vars
  PROVE  RegisteredInv'
<1> SUFFICES ASSUME NEW r \in DOMAIN capabilities', NEW h \in capabilities'[r]
             PROVE  /\ Built(h)'
                    /\ h[2] = "default" => phase'[h[1]] = "defaults" \/ stubs'[h] = DefaultStubs
                    /\ \A th \in Threads : got'[th] = r => TestOf(th) = TestOf(h[1])
                    /\ \A t \in Tests : testRegistries'[t] = r => t = TestOf(h[1])
  BY DEF RegisteredInv, DefaultStubs
<1>1. TypeInv
  BY DEF Inv
<1>2. ASSUME NEW x \in Handles, Built(x)
      PROVE  Built(x)'
  BY <1>1, <1>2, BuiltStays
<1>3. CASE r \in DOMAIN capabilities /\ h \in capabilities[r]
  <2>1. h \in Handles
    BY <1>1, <1>3 DEF TypeInv
  <2>2. /\ Built(h)
        /\ h[2] = "default" => phase[h[1]] = "defaults" \/ stubs[h] = DefaultStubs
        /\ \A th \in Threads : got[th] = r => TestOf(th) = TestOf(h[1])
        /\ \A t \in Tests : testRegistries[t] = r => t = TestOf(h[1])
    BY <1>3 DEF RegisteredInv
  <2>3. h[2] = "default" => phase'[h[1]] = "defaults" \/ stubs'[h] = DefaultStubs
    BY <1>1, <2>1, <2>2, DefaultsStay
  <2>4. /\ \A th \in Threads : got'[th] = r => TestOf(th) = TestOf(h[1])
        /\ \A t \in Tests : testRegistries'[t] = r => t = TestOf(h[1])
    BY <1>3, <2>2, PointersStep, ThreadType
  <2>5. QED
    BY <1>2, <2>1, <2>2, <2>3, <2>4
<1>4. CASE ~(r \in DOMAIN capabilities /\ h \in capabilities[r])
  <2>1. capabilities' # capabilities
    BY <1>4
  <2>2. ASSUME NEW th \in Threads, AddRegistry(th) PROVE FALSE
    <3>1. capabilities' = Append(capabilities, {}) /\ capabilities \in Seq(SUBSET Handles)
      BY <1>1, <2>2 DEF AddRegistry, TypeInv
    <3>2. /\ DOMAIN capabilities' = DOMAIN capabilities \cup {Len(capabilities) + 1}
          /\ capabilities'[Len(capabilities) + 1] = {}
          /\ \A s \in DOMAIN capabilities : capabilities'[s] = capabilities[s]
      <4> DEFINE S == SUBSET Handles
      <4>1. capabilities \in Seq(S) /\ {} \in S
        BY <3>1
      <4> HIDE DEF S
      <4>2. QED
        BY <3>1, <4>1
    <3>3. QED
      BY <1>4, <3>2
  <2>3. PICK th \in Threads : NewMock(th) \/ ForceMock(th) \/ NewRuntime(th)
    BY <2>1, <2>2, RegistrySteps
  <2>4. \/ r = got[th] /\ h = Own(th) /\ (NewMock(th) \/ ForceMock(th))
        \/ /\ r = got[th] /\ h = Default(th) /\ NewRuntime(th)
           /\ phase' = [phase EXCEPT ![th] = "defaults"]
    BY <1>4, <2>3, NowRegistered
  <2>5. /\ testRegistries' = testRegistries /\ got' = got
        /\ got[th] # None
    <3>1. phase[th] = "registry"
      BY <2>3 DEF NewMock, ForceMock, NewRuntime
    <3>2. QED
      BY <2>3, <3>1, RegisteringIsAway DEF AwayFromMap, GotInv
  <2>6. h \in Handles /\ h[1] = th /\ (h[2] = "default" => h = Default(th))
    BY <2>4, HandleFacts
  <2>7. /\ \A u \in Threads : got'[u] = r => TestOf(u) = TestOf(h[1])
        /\ \A t \in Tests : testRegistries'[t] = r => t = TestOf(h[1])
    BY <2>4, <2>5, <2>6 DEF Inv, ApartInv
  <2>8. Built(h)' /\ (h[2] = "default" => phase'[h[1]] = "defaults")
    <3>1. CASE h = Default(th) /\ phase' = [phase EXCEPT ![th] = "defaults"]
      BY <1>1, <2>6, <3>1, HandleFacts DEF Built, TypeInv
    <3>2. CASE h = Own(th) /\ ForceMock(th)
      BY <1>2, <2>6, <3>2, MadeOnce, HandleFacts
    <3>3. CASE h = Own(th) /\ NewMock(th)
      <4>1. Doing(th, "mock") /\ Done(th)
        BY <3>3 DEF NewMock
      <4>2. /\ next[th] \in 1 .. next'[th] - 1 /\ script' = script
            /\ script[th][next[th]].op = "mock"
        BY <4>1, ScriptFacts DEF Done, Doing, Op, ScriptInv
      <4>3. Passed(th, "mock")'
        BY <4>2 DEF Passed, Before
      <4>4. QED
        BY <2>6, <3>3, <4>3, HandleFacts DEF Built
    <3>4. QED
      BY <2>4, <3>1, <3>2, <3>3
  <2>9. QED
    BY <2>7, <2>8
<1>5. QED
  BY <1>3, <1>4

-----------------------------------------------------------------------------
(* The calls.                                                              *)

\* A call is what it was while its goroutine and its runtime leave it alone.
LEMMA GoodCallsStay ==
  ASSUME AllInv, [Next]_vars, \A t \in Tests : ended[t] => ended'[t]
  PROVE  \A th \in Threads : \A c : GoodCall(th, c) => GoodCall(th, c)'
<1> SUFFICES ASSUME NEW th \in Threads, NEW c, GoodCall(th, c)
             PROVE  GoodCall(th, c)'
  OBVIOUS
<1>1. CASE c.served = None
  BY <1>1 DEF GoodCall, IsCall
<1>2. CASE c.served # None
  <2> DEFINE h == c.served
  <2>1. ServedCall(th, c) /\ h \in Handles /\ Built(h) /\ TypeInv
    BY <1>2 DEF GoodCall, ServedCall, AllInv, Inv
  <2>2. Built(h)' /\ mocks'[h] = mocks[h]
    BY <2>1, BuiltStays, MocksStay DEF AllInv
  <2>3. h = Default(th) => stubs'[h] = DefaultStubs
    BY <2>1, StubsStep, HandleFacts DEF AllInv, ServedCall
  <2>4. ended[TestOf(th)] => ended'[TestOf(th)]
    BY ThreadType
  <2>5. MockOf(c)' = MockOf(c) /\ (Reaches(c)' <=> Reaches(c))
    BY <2>2 DEF MockOf, Reaches
  <2>6. Replied(th, c) => Replied(th, c)'
    BY <2>5 DEF Replied, Returned
  <2>7. ServedCall(th, c)'
    BY <2>1, <2>2, <2>3, <2>4, <2>5, <2>6 DEF ServedCall, DefaultStubs
  <2>8. QED
    BY <2>7 DEF GoodCall, IsCall
<1>3. QED
  BY <1>1, <1>2

\* Nothing but its goroutine's steps and those of its calls changes a
\* runtime's calls: a call is added, or one is changed.
Added(th, c) ==
  /\ calls' = [calls EXCEPT ![th] = Append(@, c)]
  /\ next' = [next EXCEPT ![th] = @ + 1]
Changed(th, k, c) ==
  /\ calls' = [calls EXCEPT ![th] = [@ EXCEPT ![k] = c]]
  /\ next' = next \/ next' = [next EXCEPT ![th] = @ + 1]

LEMMA CallsNow ==
  ASSUME DOMAIN calls' = Threads,
         \A th \in Threads : \A s : s = calls'[th] =>
           /\ IsSequence(s) /\ Len(s) < next'[th]
           /\ \A k \in DOMAIN s : \A c : c = s[k] => GoodCall(th, c)'
  PROVE  CallsInv'
<1>1. ASSUME NEW th \in Threads, NEW k \in DOMAIN calls'[th]
      PROVE  GoodCall(th, calls[th][k])'
  <2>1. \A c : c = calls'[th][k] => GoodCall(th, c)'
    BY <1>1
  <2>2. QED
    BY <2>1 DEF GoodCall
<1>2. QED
  BY <1>1 DEF CallsInv

LEMMA CallsKept ==
  ASSUME AllInv, ScriptInv', NEW th \in Threads, NEW s, calls' = [calls EXCEPT ![th] = s],
         IsSequence(s), Len(s) < next'[th],
         \A k \in DOMAIN s : \A c : c = s[k] => GoodCall(th, c)',
         \A u \in Threads : \A c : GoodCall(u, c) => GoodCall(u, c)',
         \A u \in Threads : next[u] <= next'[u]
  PROVE  CallsInv'
<1>1. DOMAIN calls = Threads
  BY DEF AllInv, CallsInv
<1>2. ASSUME NEW u \in Threads, NEW d, d = calls'[u]
      PROVE  /\ IsSequence(d) /\ Len(d) < next'[u]
             /\ \A k \in DOMAIN d : \A c : c = d[k] => GoodCall(u, c)'
  <2>1. CASE u = th
    BY <1>1, <1>2, <2>1
  <2>2. CASE u # th
    <3>1. d = calls[u]
      BY <1>1, <1>2, <2>2
    <3>2. /\ IsSequence(d) /\ Len(d) < next[u]
          /\ \A k \in DOMAIN d : GoodCall(u, d[k])
      BY <3>1 DEF AllInv, CallsInv
    <3>3. Len(d) < next'[u]
      BY <3>2, SequenceFacts DEF AllInv, ScriptInv
    <3>4. QED
      BY <3>2, <3>3
  <2>3. QED
    BY <2>1, <2>2
<1>3. DOMAIN calls' = Threads
  BY <1>1
<1>4. QED
  BY <1>2, <1>3, CallsNow

LEMMA AddedKeeps ==
  ASSUME AllInv, ScriptInv', NEW th \in Threads, NEW c, Added(th, c), GoodCall(th, c),
         \A u \in Threads : \A d : GoodCall(u, d) => GoodCall(u, d)',
         \A u \in Threads : next[u] <= next'[u]
  PROVE  CallsInv'
<1>1. PICK s : s = Append(calls[th], c)
  OBVIOUS
<1>2. calls' = [calls EXCEPT ![th] = s]
  BY <1>1 DEF Added
<1>3. /\ IsSequence(s) /\ Len(s) = Len(calls[th]) + 1
      /\ \A k \in DOMAIN s : s[k] = c \/ (k \in DOMAIN calls[th] /\ s[k] = calls[th][k])
  BY <1>1, SequenceAppended DEF AllInv, CallsInv
<1>4. Len(s) < next'[th]
  BY <1>3, SequenceFacts DEF Added, AllInv, ScriptInv, CallsInv
<1>5. ASSUME NEW k \in DOMAIN s, NEW d, d = s[k] PROVE GoodCall(th, d)'
  <2>1. GoodCall(th, d)
    BY <1>3, <1>5 DEF AllInv, CallsInv
  <2>2. QED
    BY <2>1
<1>6. QED
  BY <1>2, <1>3, <1>4, <1>5, CallsKept

LEMMA ChangedKeeps ==
  ASSUME AllInv, ScriptInv', NEW th \in Threads, NEW k, NEW c, Changed(th, k, c),
         k \in DOMAIN calls[th] => GoodCall(th, c),
         \A u \in Threads : \A d : GoodCall(u, d) => GoodCall(u, d)',
         \A u \in Threads : next[u] <= next'[u]
  PROVE  CallsInv'
<1>1. PICK s : s = [calls[th] EXCEPT ![k] = c]
  OBVIOUS
<1>2. calls' = [calls EXCEPT ![th] = s]
  BY <1>1 DEF Changed
<1>3. /\ IsSequence(s) /\ Len(s) = Len(calls[th]) /\ DOMAIN s = DOMAIN calls[th]
      /\ \A j \in DOMAIN s : (j = k /\ s[j] = c) \/ s[j] = calls[th][j]
  BY <1>1, SequenceReplaced DEF AllInv, CallsInv
<1>4. Len(s) < next'[th]
  BY <1>3, SequenceFacts DEF AllInv, ScriptInv, CallsInv
<1>5. ASSUME NEW j \in DOMAIN s, NEW d, d = s[j] PROVE GoodCall(th, d)'
  <2>1. GoodCall(th, d)
    BY <1>3, <1>5 DEF AllInv, CallsInv
  <2>2. QED
    BY <2>1
<1>6. QED
  BY <1>2, <1>3, <1>4, <1>5, CallsKept

-----------------------------------------------------------------------------
(* What the steps add and change.                                          *)

LEMMA OperationIsLimited ==
  ASSUME ScriptInv, NEW th \in Threads, ~Finished(th), Op(th).op \in {"call", "secrets"}
  PROVE  Limited(Op(th))
<1>1. next[th] \in DOMAIN script[th] /\ script \in Scripts
  BY ScriptFacts DEF ScriptInv
<1>2. /\ Op(th).op = "secrets" => Op(th).limit = None
      /\ Op(th).op = "call" /\ Op(th).limit # None => Restricts(Op(th).limit, Op(th).client)
  BY <1>1, GeneratedAssumption DEF Op
<1>3. QED
  BY <1>2 DEF Limited

LEMMA NewCallIsGood ==
  ASSUME NEW th, NEW op, Limited(op), NEW outcome, outcome # NotSettled
  PROVE  GoodCall(th, NewCall(op, None, "refused", outcome))
BY DEF NewCall, GoodCall, IsCall, Limited, AnswerKept

LEMMA OutcomesSettle ==
  /\ \A err : Failed(err) # NotSettled
  /\ \A value : Got(value) # NotSettled
  /\ \A client, response : OutcomeOf(client, response) # NotSettled
  /\ \A responses : SecretsOutcome(responses) # NotSettled
<1>1. /\ \A err : Failed(err) # NotSettled
      /\ \A value : Got(value) # NotSettled
  BY DEF Failed, Got, NotSettled
<1>2. \A client, response : Unwrap(client, response) # NotSettled
  BY <1>1 DEF Unwrap
<1>3. \A outcome : outcome # NotSettled => WrapReport(outcome) # NotSettled
  BY <1>1 DEF WrapReport, parseRawReport
<1>4. \A client, response : OutcomeOf(client, response) # NotSettled
  BY <1>1, <1>2, <1>3 DEF OutcomeOf
<1>5. \A responses : SecretsOutcome(responses) # NotSettled
  BY <1>1 DEF SecretsOutcome
<1>6. QED
  BY <1>1, <1>4, <1>5

\* A secrets response is in the channel from the start.
LEMMA SecretsCallIsGood ==
  ASSUME NEW th, NEW op, Limited(op), NEW response
  PROVE  GoodCall(th, [NewCall(op, None, "sent", NotSettled) EXCEPT !.channel = <<response>>])
<1> DEFINE channel == <<response>>
<1>1. channel = <<channel[1]>> /\ channel # <<>>
  OBVIOUS
<1> HIDE DEF channel
<1>2. QED
  BY <1>1 DEF NewCall, GoodCall, IsCall, Limited, AnswerKept

LEMMA ServedIsGood ==
  ASSUME AllInv, NEW th \in Threads, Doing(th, "call"), phase[th] = "registry",
         NEW h \in RegisteredAs(got[th], Op(th).client.id)
  PROVE  GoodCall(th, NewCall(Op(th), h, "started", NotSettled))
<1> DEFINE r == got[th]
           c == NewCall(Op(th), h, "started", NotSettled)
<1>1. /\ r \in DOMAIN capabilities /\ h \in capabilities[r] /\ h \in Handles
      /\ mocks[h].id = Op(th).client.id
  BY DEF AllInv, Inv, TypeInv, GotInv, RegisteredAs
<1>2. /\ Built(h) /\ TestOf(th) = TestOf(h[1])
      /\ h[2] = "default" => phase[h[1]] = "defaults" \/ stubs[h] = DefaultStubs
  BY <1>1 DEF AllInv, RegisteredInv
<1>3. h = Default(th) => stubs[h] = DefaultStubs
  BY <1>2, HandleFacts
<1>4. SameOutput(mocks[h], Op(th).client)
  <2>1. Made(h) /\ h[1] \in Threads
    BY <1>1, <1>2, HandleFacts DEF AllInv, MocksInv
  <2>2. next[th] \in DOMAIN script[th] /\ script[th][next[th]].op = "call" /\ script \in Scripts
    BY ScriptFacts DEF AllInv, Doing, Op, ScriptInv
  <2>3. /\ SameOutput(ConsensusMock, Op(th).client)
        /\ \A u \in Threads : \A j \in DOMAIN script[u] :
             script[u][j].op = "mock" => SameOutput(script[u][j].mock, Op(th).client)
    BY <2>2, OutputsAssumption DEF Op
  <2>4. \A j \in 1 .. next[h[1]] - 1 : j \in DOMAIN script[h[1]]
    BY <2>1, ScriptFacts DEF AllInv
  <2>5. QED
    BY <2>1, <2>3, <2>4 DEF Made
<1>5. /\ c.served = h /\ c.client = Op(th).client /\ c.phase = "started" /\ c.reply = None
      /\ c.outcome = NotSettled /\ c.channel = <<>> /\ IsCall(c)
      /\ Limited(Op(th)) => Limited(c)
  BY DEF NewCall, IsCall, Limited
<1>9. Limited(c)
  BY <1>5, OperationIsLimited DEF AllInv, Doing
<1> HIDE DEF c
<1>6. ServedCall(th, c)
  BY <1>1, <1>2, <1>3, <1>4, <1>5 DEF ServedCall, MockOf
<1>7. GoodCall(th, c)
  BY <1>1, <1>5, <1>6, <1>9, NoneAssumption DEF GoodCall, AnswerKept
<1>8. QED
  BY <1>7 DEF c

LEMMA AnsweredIsGood ==
  ASSUME AllInv, NEW th \in Threads, NEW c, GoodCall(th, c), c.phase = "started",
         NEW stub, stub = StubOf(c), NEW answer, answer = Answer(c.client.method, stub, c.input),
         answer \notin {Hangs, Panics},
         NEW reply, reply = Invoke(MockOf(c), c.client,
                                   IF answer = Blocks THEN Failed(ContextDone) ELSE answer),
         NEW d, d = [c EXCEPT !.phase = "answered", !.stub = stub, !.reply = reply]
  PROVE  GoodCall(th, d)
<1> DEFINE h == c.served
           m == c.client.method
<1>1. ServedCall(th, c) /\ h \in Handles /\ Built(h)
  BY DEF GoodCall, ServedCall
<1>2. /\ d.client = c.client /\ d.limit = c.limit /\ d.input = c.input /\ d.served = h
      /\ d.phase = "answered" /\ d.stub = stub /\ d.reply = reply
      /\ d.channel = c.channel /\ d.outcome = c.outcome
      /\ IsCall(d)
  BY DEF GoodCall, IsCall
<1>13. Limited(d)
  BY <1>2 DEF GoodCall, Limited
<1>3. MockOf(d) = MockOf(c) /\ (Reaches(d) <=> Reaches(c))
  BY <1>2 DEF MockOf, Reaches
<1>4. /\ DOMAIN stubs[h] = DOMAIN mocks[h].methods
      /\ \A n \in DOMAIN stubs[h] : GoodStub(n, stubs[h][n])
  BY <1>1 DEF AllInv, MocksInv
<1>5. /\ Reaches(c) => stub = stubs[h][m] /\ m \in DOMAIN stubs[h]
      /\ ~Reaches(c) => stub = Unset
  BY <1>4 DEF StubOf, Reaches, MockOf
<1>6. GoodStub(m, stub)
  BY <1>4, <1>5, UnsetIsGood
<1>7. h = Default(th) /\ Reaches(c) => stub # Unset
  <2>1. Function(Defaults) # Unset
    BY DEF Function, Defaults, Unset, NoAnswer
  <2>2. m \in DOMAIN DefaultStubs => DefaultStubs[m] = Function(Defaults)
    BY DEF DefaultStubs
  <2>3. QED
    BY <1>1, <1>5, <2>1, <2>2 DEF ServedCall
<1>8. Returned(d) = answer
  BY <1>2 DEF Returned
<1>9. Replied(th, d)
  BY <1>2, <1>3, <1>5, <1>6, <1>7, <1>8 DEF Replied
<1>10. c.channel = <<>>
  BY DEF GoodCall
<1>11. ServedCall(th, d)
  BY <1>1, <1>2, <1>3, <1>9 DEF ServedCall
<1>12. QED
  BY <1>1, <1>2, <1>10, <1>11, <1>13, NoneAssumption DEF GoodCall, AnswerKept

LEMMA SentIsGood ==
  ASSUME NEW th \in Threads, NEW c, GoodCall(th, c), c.phase = "answered",
         NEW d, d = [c EXCEPT !.channel = Append(c.channel, c.reply), !.phase = "sent"]
  PROVE  GoodCall(th, d)
<1>1. ServedCall(th, c) /\ c.served \in Handles /\ c.channel = <<>>
  BY DEF GoodCall, ServedCall
<1>2. /\ d.client = c.client /\ d.limit = c.limit /\ d.input = c.input
      /\ d.served = c.served /\ d.phase = "sent" /\ d.stub = c.stub
      /\ d.reply = c.reply /\ d.channel = Append(c.channel, c.reply)
      /\ d.outcome = c.outcome /\ IsCall(d)
  BY DEF GoodCall, IsCall
<1>9. Limited(d)
  BY <1>2 DEF GoodCall, Limited
<1> DEFINE channel == <<c.reply>>
<1>3. Append(<<>>, c.reply) = channel /\ channel[1] = c.reply
  OBVIOUS
<1>4. d.channel = channel /\ d.channel = <<d.channel[1]>> /\ d.channel # <<>>
  BY <1>1, <1>2, <1>3
<1>5. MockOf(d) = MockOf(c) /\ (Reaches(d) <=> Reaches(c)) /\ Returned(d) = Returned(c)
  BY <1>2 DEF MockOf, Reaches, Returned
<1>6. Replied(th, d)
  BY <1>1, <1>2, <1>5 DEF Replied, ServedCall
<1>7. ServedCall(th, d)
  BY <1>1, <1>2, <1>4, <1>5, <1>6 DEF ServedCall
<1> HIDE DEF channel
<1>8. QED
  BY <1>1, <1>2, <1>4, <1>7, <1>9, NoneAssumption DEF GoodCall, AnswerKept

\* A promise is settled by the response or by the end of the test.
LEMMA SettledIsGood ==
  ASSUME NEW th \in Threads, NEW c, GoodCall(th, c), NEW outcome, NEW channel,
         outcome # NotSettled,
         \/ c.served = None /\ channel = <<>>
         \/ /\ c.served # None /\ c.channel # <<>>
            /\ outcome = OutcomeOf(c.client, Head(c.channel)) /\ channel = Tail(c.channel)
         \/ /\ c.served # None /\ outcome = Failed(ContextDone) /\ ended[TestOf(th)]
            /\ channel = c.channel,
         NEW d, d = [c EXCEPT !.outcome = outcome, !.channel = channel]
  PROVE  GoodCall(th, d)
<1>1. /\ d.client = c.client /\ d.limit = c.limit /\ d.input = c.input
      /\ d.served = c.served /\ d.phase = c.phase /\ d.stub = c.stub
      /\ d.reply = c.reply /\ d.channel = channel /\ d.outcome = outcome /\ IsCall(d)
  BY DEF GoodCall, IsCall
<1>5. Limited(d) /\ AnswerKept(d)
  BY <1>1 DEF GoodCall, Limited, AnswerKept
<1>2. CASE c.served = None
  BY <1>1, <1>2, <1>5 DEF GoodCall
<1>3. CASE c.served # None
  <2>1. ServedCall(th, c) /\ c.served \in Handles
    BY <1>3 DEF GoodCall, ServedCall
  <2>2. MockOf(d) = MockOf(c) /\ (Reaches(d) <=> Reaches(c)) /\ Returned(d) = Returned(c)
    BY <1>1 DEF MockOf, Reaches, Returned
  <2>3. Replied(th, c) => Replied(th, d)
    BY <1>1, <2>2 DEF Replied
  <2>4. CASE /\ c.channel # <<>> /\ channel = Tail(c.channel)
             /\ outcome = OutcomeOf(c.client, Head(c.channel))
    <3>1. c.phase = "sent" /\ c.channel = <<c.reply>>
      BY <2>1, <2>4 DEF GoodCall, ServedCall
    <3>2. Head(<<c.reply>>) = c.reply /\ Tail(<<c.reply>>) = <<>>
      OBVIOUS
    <3>3. channel = <<>> /\ outcome = OutcomeOf(c.client, c.reply)
      BY <2>4, <3>1, <3>2
    <3>4. ServedCall(th, d)
      BY <1>1, <2>1, <2>2, <2>3, <3>1, <3>3 DEF ServedCall
    <3>5. QED
      BY <1>1, <1>5, <3>1, <3>3, <3>4, <2>1 DEF GoodCall
  <2>5. CASE outcome = Failed(ContextDone) /\ ended[TestOf(th)] /\ channel = c.channel
    <3>1. ServedCall(th, d)
      BY <1>1, <2>1, <2>2, <2>3, <2>5 DEF ServedCall
    <3>2. QED
      BY <1>1, <1>5, <2>5, <3>1 DEF GoodCall
  <2>6. QED
    BY <1>3, <2>4, <2>5
<1>4. QED
  BY <1>2, <1>3

\* The steps of a runtime add a call or change one, and what they make is good.
LEMMA CallingSteps ==
  ASSUME AllInv, NEW th \in Threads, Step(th)
  PROVE  \/ UNCHANGED calls
         \/ \E c : Added(th, c) /\ GoodCall(th, c)
         \/ \E k, c : Changed(th, k, c) /\ (k \in DOMAIN calls[th] => GoodCall(th, c))
<1> DEFINE Result == \/ UNCHANGED calls
                     \/ \E c : Added(th, c) /\ GoodCall(th, c)
                     \/ \E k, c : Changed(th, k, c) /\ (k \in DOMAIN calls[th] => GoodCall(th, c))
<1>1. CASE \/ LockRegistries(th) \/ FindRegistry(th) \/ MissRegistry(th) \/ AddRegistry(th)
           \/ NewMock(th) \/ ForceMock(th) \/ SetStub(th) \/ AddContractMock(th)
           \/ NewRuntime(th) \/ SetDefaults(th) \/ KeepSecret(th) \/ AwaitSettled(th)
  BY <1>1 DEF LockRegistries, FindRegistry, MissRegistry, AddRegistry, NewMock, ForceMock,
              SetStub, AddContractMock, NewRuntime, SetDefaults, KeepSecret, AwaitSettled
<1>11. Limited(Op(th)) \/ ~(RefuseInput(th) \/ CallCapability(th) \/ GetSecrets(th))
  BY OperationIsLimited DEF AllInv, Doing, RefuseInput, CallCapability, GetSecrets
<1>2. CASE RefuseInput(th)
  <2>1. PICK c : c = NewCall(Op(th), None, "refused", Failed(PlainError(<<"marshal">>)))
    OBVIOUS
  <2>2. Added(th, c)
    BY <1>2, <2>1 DEF RefuseInput, AddCall, Added, Done
  <2>3. GoodCall(th, c)
    BY <1>2, <1>11, <2>1, NewCallIsGood, OutcomesSettle
  <2>4. QED
    BY <2>2, <2>3
<1>3. CASE CallCapability(th)
  <2> DEFINE served == RegisteredAs(got[th], Op(th).client.id)
             refused == NewCall(Op(th), None, "refused", CapabilityNotFound(Op(th).client.id))
  <2>1. PICK c : c = IF served = {} THEN refused
                     ELSE NewCall(Op(th), CHOOSE h \in served : TRUE, "started", NotSettled)
    OBVIOUS
  <2>2. Added(th, c)
    BY <1>3, <2>1 DEF CallCapability, AddCall, Added, Done
  <2>3. CASE served = {}
    <3>1. GoodCall(th, c)
      BY <1>3, <1>11, <2>1, <2>3, NewCallIsGood, OutcomesSettle DEF CapabilityNotFound
    <3>2. QED
      BY <2>2, <3>1
  <2>4. CASE served # {}
    <3>1. PICK h \in served : c = NewCall(Op(th), h, "started", NotSettled)
      BY <2>1, <2>4
    <3>2. GoodCall(th, c)
      BY <1>3, <3>1, ServedIsGood DEF CallCapability
    <3>3. QED
      BY <2>2, <3>2
  <2>5. QED
    BY <2>3, <2>4
<1>4. CASE GetSecrets(th)
  <2> DEFINE refused == NewCall(Op(th), None, "refused", Got(<<>>))
             answered == [NewCall(Op(th), None, "sent", NotSettled) EXCEPT
                            !.channel = <<SecretsResponse(th, Op(th).names)>>]
  <2>1. PICK c : c = IF Op(th).names = <<>> THEN refused ELSE answered
    OBVIOUS
  <2>2. Added(th, c)
    BY <1>4, <2>1 DEF GetSecrets, AddCall, Added, Done
  <2>3. GoodCall(th, c)
    <3>1. GoodCall(th, refused)
      BY <1>4, <1>11, NewCallIsGood, OutcomesSettle
    <3>2. GoodCall(th, answered)
      <4>1. PICK response : response = SecretsResponse(th, Op(th).names)
        OBVIOUS
      <4>2. answered = [NewCall(Op(th), None, "sent", NotSettled) EXCEPT
                          !.channel = <<response>>]
        BY <4>1
      <4>3. GoodCall(th, [NewCall(Op(th), None, "sent", NotSettled) EXCEPT
                            !.channel = <<response>>])
        BY <1>4, <1>11, SecretsCallIsGood
      <4> HIDE DEF answered
      <4>4. QED
        BY <4>2, <4>3
    <3> HIDE DEF refused, answered
    <3>3. QED
      BY <2>1, <3>1, <3>2
  <2>4. QED
    BY <2>2, <2>3
<1>5. ASSUME NEW k, NEW outcome, NEW channel, Settle(th, k, outcome, channel),
             outcome # NotSettled,
             LET c == calls[th][k]
             IN  \/ c.served = None /\ channel = <<>>
                 \/ /\ c.served # None /\ c.channel # <<>>
                    /\ outcome = OutcomeOf(c.client, Head(c.channel))
                    /\ channel = Tail(c.channel)
                 \/ /\ c.served # None /\ outcome = Failed(ContextDone) /\ ended[TestOf(th)]
                    /\ channel = c.channel
      PROVE  Result
  <2>1. PICK c : c = calls[th][k]
    OBVIOUS
  <2>2. PICK d : d = [c EXCEPT !.outcome = outcome, !.channel = channel]
    OBVIOUS
  <2>3. Changed(th, k, d)
    <3>1. /\ calls' = [calls EXCEPT ![th][k].outcome = outcome, ![th][k].channel = channel]
          /\ next' = [next EXCEPT ![th] = @ + 1]
      BY <1>5 DEF Settle, Done
    <3>2. DOMAIN calls = Threads
      BY DEF AllInv, CallsInv
    <3>3. calls' = [calls EXCEPT ![th] = [@ EXCEPT ![k] = d]]
      <4>1. PICK s : s = calls[th]
        OBVIOUS
      <4>2. [s EXCEPT ![k].outcome = outcome, ![k].channel = channel] = [s EXCEPT ![k] = d]
        BY <2>1, <2>2, <4>1
      <4>3. calls' = [calls EXCEPT ![th] =
                        [s EXCEPT ![k].outcome = outcome, ![k].channel = channel]]
        BY <3>1, <3>2, <4>1
      <4>4. QED
        BY <4>1, <4>2, <4>3
    <3>4. QED
      BY <3>1, <3>3 DEF Changed
  <2>4. k \in DOMAIN calls[th] => GoodCall(th, c)
    BY <2>1 DEF AllInv, CallsInv
  <2>5. k \in DOMAIN calls[th] => GoodCall(th, d)
    BY <1>5, <2>1, <2>2, <2>4, SettledIsGood
  <2>6. QED
    BY <2>3, <2>5
<1>6. CASE AwaitResponse(th) \/ AwaitSecrets(th) \/ AwaitContext(th)
  <2>1. PICK k : k = Op(th).call
    OBVIOUS
  <2>2. PICK c : c = calls[th][k]
    OBVIOUS
  <2>3. CASE AwaitResponse(th)
    <3>1. PICK outcome, channel : outcome = OutcomeOf(c.client, Head(c.channel))
                                  /\ channel = Tail(c.channel)
      OBVIOUS
    <3>2. c.served # None /\ c.channel # <<>> /\ Settle(th, k, outcome, channel)
      BY <2>1, <2>2, <2>3, <3>1 DEF AwaitResponse
    <3>3. QED
      BY <1>5, <2>2, <3>1, <3>2, OutcomesSettle
  <2>4. CASE AwaitSecrets(th)
    <3>1. PICK outcome, channel : outcome = SecretsOutcome(Head(c.channel).responses)
                                  /\ channel = <<>>
      OBVIOUS
    <3>2. c.served = None /\ Settle(th, k, outcome, channel)
      BY <2>1, <2>2, <2>4, <3>1 DEF AwaitSecrets
    <3>3. QED
      BY <1>5, <2>2, <3>1, <3>2, OutcomesSettle
  <2>5. CASE AwaitContext(th)
    <3>1. PICK outcome, channel : outcome = Failed(ContextDone) /\ channel = c.channel
      OBVIOUS
    <3>2. c.served # None /\ ended[TestOf(th)] /\ Settle(th, k, outcome, channel)
      BY <2>1, <2>2, <2>5, <3>1 DEF AwaitContext
    <3>3. QED
      BY <1>5, <2>2, <3>1, <3>2, OutcomesSettle
  <2>6. QED
    BY <1>6, <2>3, <2>4, <2>5
<1>7. QED
  BY <1>1, <1>2, <1>3, <1>4, <1>6 DEF Step

LEMMA AnsweringSteps ==
  ASSUME AllInv, NEW th \in Threads, Answering(th)
  PROVE  \/ UNCHANGED calls
         \/ \E k, c : Changed(th, k, c) /\ (k \in DOMAIN calls[th] => GoodCall(th, c))
<1>1. PICK k \in DOMAIN calls[th] :
        InvokeMock(th, k) \/ ReleaseMock(th, k) \/ MockPanics(th, k) \/ SendResponse(th, k)
  BY DEF Answering
<1>2. PICK c : c = calls[th][k]
  OBVIOUS
<1>3. GoodCall(th, c) /\ DOMAIN calls = Threads
  BY <1>1, <1>2 DEF AllInv, CallsInv
<1>4. CASE MockPanics(th, k)
  BY <1>4 DEF MockPanics
<1>5. CASE InvokeMock(th, k) \/ ReleaseMock(th, k)
  <2>1. PICK stub : stub = StubOf(c)
    OBVIOUS
  <2>2. PICK answer : answer = Answer(c.client.method, stub, c.input)
    OBVIOUS
  <2>3. PICK reply : reply = Invoke(MockOf(c), c.client,
                                    IF answer = Blocks THEN Failed(ContextDone) ELSE answer)
    OBVIOUS
  <2>4. PICK d : d = [c EXCEPT !.phase = "answered", !.stub = stub, !.reply = reply]
    OBVIOUS
  <2>5. /\ answer \notin {Hangs, Panics} /\ c.phase = "started" /\ next' = next
        /\ calls' = [calls EXCEPT ![th][k] = d]
    <3>1. Blocks # Hangs /\ Blocks # Panics
      BY DEF Blocks, Hangs, Panics
    <3>2. CASE InvokeMock(th, k)
      BY <1>2, <2>1, <2>2, <2>3, <2>4, <3>2 DEF InvokeMock
    <3>3. CASE ReleaseMock(th, k)
      BY <1>2, <2>1, <2>2, <2>3, <2>4, <3>1, <3>3 DEF ReleaseMock
    <3>4. QED
      BY <1>5, <3>2, <3>3
  <2>6. GoodCall(th, d)
    BY <1>3, <2>1, <2>2, <2>3, <2>4, <2>5, AnsweredIsGood
  <2>7. Changed(th, k, d)
    BY <2>5 DEF Changed
  <2>8. QED
    BY <2>6, <2>7
<1>6. CASE SendResponse(th, k)
  <2>1. PICK d : d = [c EXCEPT !.channel = Append(c.channel, c.reply), !.phase = "sent"]
    OBVIOUS
  <2>2. PICK channel : channel = Append(c.channel, c.reply)
    OBVIOUS
  <2>3. c.phase = "answered" /\ next' = next
    BY <1>2, <1>6 DEF SendResponse
  <2>4. calls' = [calls EXCEPT ![th][k].channel = channel, ![th][k].phase = "sent"]
    BY <1>2, <1>6, <2>2 DEF SendResponse
  <2>5. Changed(th, k, d)
    <3>1. d = [c EXCEPT !.channel = channel, !.phase = "sent"]
      BY <2>1, <2>2
    <3>2. calls' = [calls EXCEPT ![th] = [@ EXCEPT ![k] = d]]
      <4>1. PICK s : s = calls[th]
        OBVIOUS
      <4>2. [s EXCEPT ![k].channel = channel, ![k].phase = "sent"] = [s EXCEPT ![k] = d]
        BY <1>2, <3>1, <4>1
      <4>3. calls' = [calls EXCEPT ![th] =
                        [s EXCEPT ![k].channel = channel, ![k].phase = "sent"]]
        BY <1>3, <2>4, <4>1
      <4>4. QED
        BY <4>1, <4>2, <4>3
    <3>3. QED
      BY <2>3, <3>2 DEF Changed
  <2>6. GoodCall(th, d)
    BY <1>3, <2>1, <2>3, SentIsGood
  <2>7. QED
    BY <2>5, <2>6
<1>7. QED
  BY <1>1, <1>4, <1>5, <1>6

\* A test that is over stays over, and the lock is somebody's or nobody's.
LEMMA FlagsStep ==
  ASSUME FlagsInv, [Next]_vars
  PROVE  FlagsInv' /\ \A t \in Tests : ended[t] => ended'[t]
<1>1. ASSUME NEW th \in Threads, Step(th)
      PROVE  UNCHANGED <<ended, crashed>> /\ lock' \in {lock, th, None}
  <2>1. CASE LockRegistries(th) \/ FindRegistry(th) \/ MissRegistry(th) \/ AddRegistry(th)
    BY <2>1 DEF LockRegistries, FindRegistry, MissRegistry, AddRegistry, registryVars, testVars
  <2>2. CASE NewMock(th) \/ ForceMock(th) \/ NewRuntime(th)
    BY <2>2 DEF NewMock, ForceMock, NewRuntime, testVars
  <2>3. CASE SetStub(th) \/ AddContractMock(th) \/ SetDefaults(th)
    BY <2>3 DEF SetStub, AddContractMock, SetDefaults, registryVars, testVars
  <2>4. CASE RefuseInput(th) \/ CallCapability(th) \/ KeepSecret(th) \/ GetSecrets(th)
    BY <2>4 DEF RefuseInput, CallCapability, KeepSecret, GetSecrets, registryVars, testVars
  <2>5. CASE AwaitResponse(th) \/ AwaitSecrets(th) \/ AwaitContext(th) \/ AwaitSettled(th)
    BY <2>5 DEF AwaitResponse, AwaitSecrets, AwaitContext, AwaitSettled, Settle, registryVars,
                testVars
  <2>6. QED
    BY <1>1, <2>1, <2>2, <2>3, <2>4, <2>5 DEF Step
<1>2. ASSUME NEW th \in Threads, Answering(th)
      PROVE  UNCHANGED <<ended, lock>> /\ (crashed' = crashed \/ crashed' = TRUE)
  BY <1>2 DEF Answering, InvokeMock, ReleaseMock, MockPanics, SendResponse, registryVars, testVars
<1>3. ASSUME NEW t \in Tests, EndTest(t)
      PROVE  UNCHANGED <<lock, crashed>> /\ ended' = [ended EXCEPT ![t] = TRUE]
  BY <1>3 DEF EndTest, registryVars
<1>4. ASSUME NEW t \in Tests, Cleanup(t)
      PROVE  UNCHANGED <<lock, ended>> /\ crashed' \in BOOLEAN
  <2>1. UNCHANGED <<lock, ended>>
    BY <1>4 DEF Cleanup
  <2>2. crashed' \in (IF \E th \in Threads : phase[th] \in {"lookup", "insert"}
                        THEN BOOLEAN ELSE {FALSE})
    BY <1>4 DEF Cleanup
  <2>3. QED
    BY <2>1, <2>2
<1>5. CASE UNCHANGED vars
  BY <1>5 DEF FlagsInv, vars, registryVars, testVars
<1>6. CASE \E th \in Threads : Step(th)
  BY <1>1, <1>6 DEF FlagsInv
<1>7. CASE \E th \in Threads : Answering(th)
  <2>1. UNCHANGED <<ended, lock>> /\ (crashed' = crashed \/ crashed' = TRUE)
    BY <1>2, <1>7
  <2>2. CASE crashed' = crashed
    BY <2>1, <2>2 DEF FlagsInv
  <2>3. CASE crashed' = TRUE
    BY <2>1, <2>3 DEF FlagsInv
  <2>4. QED
    BY <2>1, <2>2, <2>3
<1>8. CASE \E t \in Tests : EndTest(t)
  BY <1>3, <1>8 DEF FlagsInv
<1>9. CASE \E t \in Tests : Cleanup(t)
  BY <1>4, <1>9 DEF FlagsInv
<1>10. QED
  BY <1>5, <1>6, <1>7, <1>8, <1>9 DEF Next, Finishing

LEMMA CallsStep ==
  ASSUME AllInv, [Next]_vars
  PROVE  CallsInv'
<1>1. /\ ScriptInv' /\ \A u \in Threads : next[u] <= next'[u]
      /\ \A t \in Tests : ended[t] => ended'[t]
  BY ScriptStep, FlagsStep DEF AllInv, Inv
<1>2. \A u \in Threads : \A c : GoodCall(u, c) => GoodCall(u, c)'
  BY <1>1, GoodCallsStay
<1>3. CASE UNCHANGED calls
  <2>1. DOMAIN calls' = Threads
    BY <1>3 DEF AllInv, CallsInv
  <2>2. ASSUME NEW th \in Threads, NEW s, s = calls'[th]
        PROVE  /\ IsSequence(s) /\ Len(s) < next'[th]
               /\ \A k \in DOMAIN s : \A c : c = s[k] => GoodCall(th, c)'
    <3>1. s = calls[th]
      BY <1>3, <2>2
    <3>2. IsSequence(s) /\ Len(s) < next[th] /\ \A k \in DOMAIN s : GoodCall(th, s[k])
      BY <3>1 DEF AllInv, CallsInv
    <3>3. Len(s) < next'[th]
      BY <1>1, <3>2, SequenceFacts DEF AllInv, ScriptInv
    <3>4. QED
      BY <1>2, <3>2, <3>3
  <2>3. QED
    BY <2>1, <2>2, CallsNow
<1>4. ASSUME NEW th \in Threads, NEW c, Added(th, c), GoodCall(th, c)
      PROVE  CallsInv'
  BY <1>1, <1>2, <1>4, AddedKeeps
<1>5. ASSUME NEW th \in Threads, NEW k, NEW c, Changed(th, k, c),
             k \in DOMAIN calls[th] => GoodCall(th, c)
      PROVE  CallsInv'
  BY <1>1, <1>2, <1>5, ChangedKeeps
<1>6. ASSUME NEW th \in Threads, Step(th) PROVE CallsInv'
  BY <1>3, <1>4, <1>5, <1>6, CallingSteps
<1>7. ASSUME NEW th \in Threads, Answering(th) PROVE CallsInv'
  BY <1>3, <1>5, <1>7, AnsweringSteps
<1>8. ASSUME NEW t \in Tests, Finishing(t) PROVE UNCHANGED calls
  BY <1>8 DEF Finishing, EndTest, Cleanup
<1>9. QED
  BY <1>3, <1>6, <1>7, <1>8 DEF Next, vars

-----------------------------------------------------------------------------
LEMMA AllInit == Init => AllInv
<1> SUFFICES ASSUME Init PROVE AllInv
  OBVIOUS
<1>1. \A th \in Threads : script[th] = script[th] /\ next[th] = 1 /\ phase[th] = "run"
  BY DEF Init
<1>2. ScriptInv
  BY OperationsAssumption DEF Init, ScriptInv
<1>3. \A h \in Handles : ~Built(h)
  BY <1>1, HandleFacts DEF Built, Passed, Before
<1>4. MocksInv
  BY <1>3 DEF Init, MocksInv
<1>5. RegisteredInv
  <2>1. DOMAIN <<>> = {}
    OBVIOUS
  <2>2. QED
    BY <2>1 DEF Init, RegisteredInv
<1>6. CallsInv
  <2>1. DOMAIN <<>> = {} /\ Len(<<>>) = 0
    OBVIOUS
  <2>2. QED
    BY <1>1, <2>1, EmptySequence DEF Init, CallsInv
<1>7. FlagsInv /\ GotInv
  BY DEF Init, FlagsInv, GotInv
<1>8. QED
  BY <1>2, <1>4, <1>5, <1>6, <1>7, InvInit DEF AllInv

LEMMA AllStep == AllInv /\ [Next]_vars => AllInv'
<1> SUFFICES ASSUME AllInv, [Next]_vars PROVE AllInv'
  OBVIOUS
<1>1. Inv' /\ ScriptInv' /\ FlagsInv'
  BY InvStep, ScriptStep, FlagsStep DEF AllInv, Inv
<1>2. MocksInv' /\ GotInv' /\ RegisteredInv'
  BY MocksStep, GotStep, RegisteredStep DEF AllInv, Inv
<1>3. QED
  BY <1>1, <1>2, CallsStep DEF AllInv

LEMMA AllInvariant == Spec => []AllInv
<1>1. QED
  BY AllInit, AllStep, PTL DEF Spec

\* Every variable keeps its type, a channel holds one answer at most, and a
\* goroutine makes no more calls than its script has operations.
THEOREM TypeCorrect == Spec => []TypeOK
<1>1. AllInv => TypeOK
  <2> SUFFICES ASSUME AllInv PROVE TypeOK
    OBVIOUS
  <2>1. /\ testRegistries \in [Tests -> {None} \cup DOMAIN capabilities]
        /\ lock \in Threads \cup {None}
        /\ DOMAIN mocks = Handles /\ DOMAIN stubs = Handles
        /\ {ended, cleaned} \subseteq [Tests -> BOOLEAN]
        /\ crashed \in BOOLEAN
    BY DEF AllInv, Inv, TypeInv, FlagsInv, MocksInv
  <2>2. \A r \in DOMAIN capabilities : capabilities[r] \subseteq Handles
    BY DEF AllInv, Inv, TypeInv
  <2>3. ASSUME NEW th \in Threads
        PROVE  /\ next[th] \in 1 .. Len(script[th]) + 1
               /\ phase[th] \in {"run", "lookup", "insert", "registry", "defaults"}
               /\ got[th] \in {None} \cup DOMAIN capabilities
               /\ Len(calls[th]) <= Len(script[th])
    <3>1. /\ next[th] \in Nat \ {0} /\ next[th] <= Len(script[th]) + 1 /\ Len(script[th]) \in Nat
      BY ScriptFacts DEF AllInv
    <3>2. Len(calls[th]) \in Nat /\ Len(calls[th]) < next[th]
      BY SequenceFacts DEF AllInv, CallsInv
    <3>3. QED
      BY <3>1, <3>2 DEF AllInv, Inv, TypeInv, Phases
  <2>4. ASSUME NEW th \in Threads, NEW k \in DOMAIN calls[th]
        PROVE  /\ calls[th][k].phase \in {"started", "answered", "sent", "refused"}
               /\ Len(calls[th][k].channel) <= 1
               /\ calls[th][k].served \in Handles \cup {None}
    <3>1. GoodCall(th, calls[th][k])
      BY DEF AllInv, CallsInv
    <3>2. Len(<<>>) <= 1 /\ \A x : Len(<<x>>) <= 1
      OBVIOUS
    <3>3. PICK s : s = calls[th][k].channel
      OBVIOUS
    <3>4. PICK x : s = <<>> \/ s = <<x>>
      BY <3>1, <3>3 DEF GoodCall
    <3>5. Len(s) <= 1
      BY <3>2, <3>4, Zenon
    <3>6. QED
      BY <3>1, <3>3, <3>5 DEF GoodCall
  <2>5. QED
    BY <2>1, <2>2, <2>3, <2>4 DEF TypeOK
<1>2. QED
  BY <1>1, AllInvariant, PTL

-----------------------------------------------------------------------------
(* What a function returns arrives.                                        *)

\* What is known of every answer, the runtime's own included.
GoodAnswer(answer) ==
  \/ answer \in {NoAnswer, Blocks, Hangs, Panics}
  \/ answer.kind = "value" /\ answer = Got(answer.value)
  \/ /\ answer.kind = "error" /\ answer = Failed(answer.error)
     /\ answer.error.kind # "capability" => answer.error = PlainError(answer.error.text)
     /\ IsSequence(answer.error.text) /\ answer.error.text # <<>>

LEMMA PossibleIsGood == ASSUME NEW answer, PossibleAnswer(answer) PROVE GoodAnswer(answer)
<1>1. \A e : PossibleError(e) => IsSequence(e.text)
  BY DEF PossibleError, IsSequence
<1>2. QED
  BY <1>1 DEF PossibleAnswer, GoodAnswer, PossibleError

LEMMA ValuesAreGood == \A value : GoodAnswer(Got(value))
BY DEF GoodAnswer, Got

LEMMA OnePieceIsGood == \A piece : GoodAnswer(Failed(PlainError(<<piece>>)))
<1>1. ASSUME NEW piece PROVE IsSequence(<<piece>>) /\ <<piece>> # <<>>
  <2>1. <<piece>> \in Seq({piece})
    OBVIOUS
  <2>2. QED
    BY <2>1 DEF IsSequence
<1>2. ASSUME NEW text, IsSequence(text), text # <<>> PROVE GoodAnswer(Failed(PlainError(text)))
  BY <1>2 DEF GoodAnswer, Failed, PlainError
<1>3. QED
  BY <1>1, <1>2

\* The text of an error is not empty, and is made of pieces.
LEMMA TextIsSequence ==
  ASSUME NEW answer, GoodAnswer(answer), answer.kind = "error"
  PROVE  IsSequence(ErrorText(answer.error))
<1> DEFINE e == answer.error
<1>1. IsSequence(e.text) /\ e.text # <<>>
  BY DEF GoodAnswer, NoAnswer, Blocks, Hangs, Panics, Got
<1>2. ASSUME NEW x, NEW y PROVE IsSequence(<<x, y>> \o Tail(e.text))
  <2>1. PICK S : e.text \in Seq(S)
    BY <1>1 DEF IsSequence
  <2> DEFINE T == S \cup {x, y}
  <2>2. e.text \in Seq(T) /\ x \in T /\ y \in T
    BY <2>1
  <2> HIDE DEF T
  <2>3. Tail(e.text) \in Seq(T) /\ <<x, y>> \in Seq(T)
    BY <1>1, <2>2
  <2>4. <<x, y>> \o Tail(e.text) \in Seq(T)
    BY <2>3
  <2>5. QED
    BY <2>4 DEF IsSequence
<1> HIDE DEF e
<1>3. IsSequence(ErrorText(e))
  BY <1>1, <1>2 DEF ErrorText
<1>4. QED
  BY <1>3 DEF e

\* The two tables of error codes are each other's inverse
\* (error_codes.go:149-191).
LEMMA CodesRoundTrip ==
  /\ \A str \in DOMAIN stringToErrorCode :
       /\ stringToErrorCode[str] \in DOMAIN errorCodeToString
       /\ stringToErrorCode[str] # UnrecognisedErrorCode
       /\ errorCodeToString[stringToErrorCode[str]] = str
  /\ \A code \in DOMAIN errorCodeToString : errorCodeToString[code] \in DOMAIN stringToErrorCode
BY DEF stringToErrorCode, errorCodeToString, ErrorCodes, UnrecognisedErrorCode

\* A name of a visibility or an origin is read back, and no other text is taken
\* for one (error.go:16-72).
LEMMA NamesRoundTrip ==
  /\ \A str : IF FromVisibilityString(str) = -1 THEN str \notin {"Public", "Private"}
             ELSE VisibilityString(FromVisibilityString(str)) = str
  /\ \A str : IF FromOriginString(str) = -1 THEN str \notin {"System", "User"}
             ELSE OriginString(FromOriginString(str)) = str
BY DEF FromVisibilityString, VisibilityString, VisibilityPublic, VisibilityPrivate,
       FromOriginString, OriginString, OriginSystem, OriginUser

LEMMA TextsArrive ==
  ASSUME NEW text, IsSequence(text)
  PROVE  TextArrives(text, DeserializeErrorFromString(text))
<1>1. PICK S : text \in Seq(S)
  BY DEF IsSequence
<1>2. CASE Len(text) < 4
  BY <1>1, <1>2 DEF TextArrives, DeserializeErrorFromString
<1>3. CASE ~(Len(text) < 4)
  <2> DEFINE code == FromErrorCodeString(text[3])
             rest == SubSeq(text, 4, Len(text))
             err == DeserializeErrorFromString(text)
  <2>1. /\ err.kind = "capability" /\ err.text = rest /\ err.code = code
        /\ err.visibility = FromVisibilityString(text[1])
        /\ err.origin = FromOriginString(text[2])
    BY <1>3 DEF DeserializeErrorFromString, NewError
  <2>2. text = SubSeq(text, 1, 3) \o rest
    BY <1>1, <1>3
  <2>3. code # UnrecognisedErrorCode => CodeString(code) = text[3]
    BY CodesRoundTrip DEF FromErrorCodeString, CodeString
  <2>4. code = UnrecognisedErrorCode => text[3] \notin Range(errorCodeToString)
    BY CodesRoundTrip DEF FromErrorCodeString, Range
  <2>5. ~(Len(text) <= 3)
    BY <1>1, <1>3
  <2> HIDE DEF code, rest, err
  <2>6. TextArrives(text, err)
    BY <2>1, <2>2, <2>3, <2>4, <2>5, NamesRoundTrip DEF TextArrives
  <2>7. QED
    BY <2>6 DEF err
<1>4. QED
  BY <1>2, <1>3

\* The request reaches the mock's method.
Meets(mock, client) ==
  client.method \in DOMAIN mock.methods /\ client.input = mock.methods[client.method].input

LEMMA OnePieceArrives ==
  ASSUME NEW piece
  PROVE  DeserializeErrorFromString(ErrorText(PlainError(<<piece>>))) = PlainError(<<piece>>)
<1>1. PICK text : text = <<piece>>
  OBVIOUS
<1>2. Len(text) = 1
  BY <1>1
<1>3. ErrorText(PlainError(text)) = text
  BY DEF ErrorText, PlainError
<1>4. Len(text) < 4
  BY <1>2
<1>5. DeserializeErrorFromString(text) = PlainError(text)
  BY <1>4 DEF DeserializeErrorFromString
<1>6. QED
  BY <1>1, <1>3, <1>5

LEMMA ErrorsFail ==
  ASSUME NEW client, NEW text
  PROVE  OutcomeOf(client, ErrorResponse(text)) = Failed(DeserializeErrorFromString(text))
<1>1. Unwrap(client, ErrorResponse(text)) = Failed(DeserializeErrorFromString(text))
  BY DEF Unwrap, ErrorResponse
<1>2. ErrorResponse(text).kind # "payload"
  BY DEF ErrorResponse
<1>3. Failed(DeserializeErrorFromString(text)).kind # "value"
  BY DEF Failed
<1>4. QED
  BY <1>1, <1>2, <1>3 DEF OutcomeOf, WrapReport

LEMMA AnswersArrive ==
  ASSUME NEW mock, NEW client, SameOutput(mock, client), mock.id = client.id,
         NEW answer, GoodAnswer(answer), answer \notin {Hangs, Panics},
         ~Meets(mock, client) => answer = NoAnswer
  PROVE  Arrives(answer, client,
                 OutcomeOf(client, Invoke(mock, client,
                                          IF answer = Blocks THEN Failed(ContextDone)
                                          ELSE answer)))
<1> DEFINE given == IF answer = Blocks THEN Failed(ContextDone) ELSE answer
           reply == Invoke(mock, client, given)
           outcome == OutcomeOf(client, reply)
<1>1. CASE answer = NoAnswer
  <2>1. answer.kind = "none" /\ given = NoAnswer
    BY <1>1 DEF NoAnswer, Blocks
  <2>2. PICK text : reply = ErrorResponse(text)
    BY <2>1 DEF Invoke
  <2>3. outcome.kind = "error"
    BY <2>2, ErrorsFail DEF Failed
  <2> HIDE DEF outcome
  <2>4. Arrives(answer, client, outcome)
    BY <2>1, <2>3 DEF Arrives
  <2>5. QED
    BY <2>4 DEF outcome
<1>2. ASSUME Meets(mock, client), NEW e, given = Failed(e)
      PROVE  outcome = Failed(DeserializeErrorFromString(ErrorText(e)))
  <2>1. given # NoAnswer /\ given.kind = "error" /\ given.error = e
    BY <1>2 DEF Failed, NoAnswer
  <2> HIDE DEF given
  <2>2. reply = ErrorResponse(ErrorText(e))
    BY <1>2, <2>1 DEF Invoke, Meets
  <2>3. QED
    BY <2>2, ErrorsFail
<1>3. CASE answer = Blocks
  <2>1. Meets(mock, client)
    BY <1>3 DEF Blocks, NoAnswer
  <2>2. PICK piece : piece = "context canceled"
    OBVIOUS
  <2>3. DeserializeErrorFromString(ErrorText(ContextDone)) = ContextDone
    BY <2>2, OnePieceArrives DEF ContextDone
  <2>4. given = Failed(ContextDone)
    BY <1>3
  <2>5. outcome = Failed(ContextDone)
    BY <1>2, <2>1, <2>3, <2>4
  <2>6. answer.kind = "blocks"
    BY <1>3 DEF Blocks
  <2> HIDE DEF outcome
  <2>7. Arrives(answer, client, outcome)
    BY <2>5, <2>6 DEF Arrives
  <2>8. QED
    BY <2>7 DEF outcome
<1>4. CASE answer.kind = "error"
  <2>1. /\ answer # NoAnswer /\ answer # Blocks /\ answer = Failed(answer.error)
    BY <1>4 DEF GoodAnswer, NoAnswer, Blocks, Hangs, Panics
  <2>2. Meets(mock, client) /\ given = Failed(answer.error)
    BY <2>1
  <2>3. outcome = Failed(DeserializeErrorFromString(ErrorText(answer.error)))
    BY <1>2, <2>2
  <2>4. TextArrives(ErrorText(answer.error), DeserializeErrorFromString(ErrorText(answer.error)))
    BY <1>4, TextIsSequence, TextsArrive
  <2>5. /\ outcome.kind = "error"
        /\ outcome.error = DeserializeErrorFromString(ErrorText(answer.error))
    BY <2>3 DEF Failed
  <2> HIDE DEF outcome
  <2>6. Arrives(answer, client, outcome)
    BY <1>4, <2>4, <2>5 DEF Arrives
  <2>7. QED
    BY <2>6 DEF outcome
<1>5. CASE answer.kind = "value"
  <2> DEFINE value == answer.value
  <2>1. answer # NoAnswer /\ answer # Blocks /\ answer = Got(value)
    BY <1>5 DEF GoodAnswer, NoAnswer, Blocks, Hangs, Panics
  <2>2. Meets(mock, client) /\ given = answer /\ given.kind # "error" /\ given # NoAnswer
    BY <1>5, <2>1
  <2>3. mock.methods[client.method].output = client.output
    BY <2>2 DEF SameOutput, Meets
  <2> HIDE DEF given
  <2>4. reply = PayloadResponse(client.output, value)
    BY <2>2, <2>3 DEF Invoke, Meets
  <2>5. /\ reply.kind = "payload" /\ reply.type = client.output /\ reply.value = value
    BY <2>4 DEF PayloadResponse
  <2> HIDE DEF reply
  <2>6. Unwrap(client, reply) = Got(value)
    BY <2>5 DEF Unwrap
  <2> HIDE DEF value
  <2>7. value = Huge => outcome = Failed(ResponseBufferTooSmall)
    BY <2>5 DEF OutcomeOf
  <2>8. value # Huge => outcome = IF client = ConsensusReport THEN WrapReport(Got(value))
                                  ELSE Got(value)
    BY <2>5, <2>6 DEF OutcomeOf
  <2>9. value = ShortReport /\ client = ConsensusReport => value # Huge /\ outcome.kind = "error"
    <3>1. Huge # ShortReport
      BY DEF Huge, ShortReport
    <3>2. WrapReport(Got(ShortReport)).kind = "error"
      BY DEF WrapReport, parseRawReport, Failed, Got
    <3>3. QED
      BY <2>8, <3>1, <3>2
  <2>10. value # Huge /\ ~(value = ShortReport /\ client = ConsensusReport) => outcome = answer
    <3>1. Got(value).kind = "value" /\ Got(value).value = value
      BY DEF Got
    <3>2. value # ShortReport => WrapReport(Got(value)) = Got(value)
      BY <3>1 DEF WrapReport, parseRawReport
    <3>3. QED
      BY <2>1, <2>8, <3>2
  <2> HIDE DEF outcome
  <2>11. Arrives(answer, client, outcome)
    BY <1>5, <2>7, <2>9, <2>10 DEF Arrives, value
  <2>12. QED
    BY <2>11 DEF outcome, reply, given
<1>6. QED
  BY <1>1, <1>3, <1>4, <1>5 DEF GoodAnswer

-----------------------------------------------------------------------------
(* The layers of a contract mock: a layer answers or passes the request on *)
(* to the one below, so the newest that does not pass it on answers.       *)

LEMMA MaxOf ==
  ASSUME NEW N \in Nat, NEW S \in SUBSET (1 .. N), S # {}
  PROVE  Max(S) \in S /\ \A j \in S : j <= Max(S)
<1> DEFINE above == {N - j : j \in S}
<1>1. above \in SUBSET Nat /\ above # {}
  <2>1. ASSUME NEW j \in S PROVE N - j \in Nat
    <3>1. j \in 1 .. N
      OBVIOUS
    <3>2. QED
      BY <3>1
  <2>2. PICK j \in S : TRUE
    OBVIOUS
  <2>3. N - j \in above
    BY <2>2
  <2>4. QED
    BY <2>1, <2>3
<1> HIDE DEF above
<1>2. PICK m \in above : \A k \in above : ~ (<<k, m>> \in OpToRel(<, Nat))
  BY <1>1, NatLessThanWellFounded, WFMin
<1>3. \A k \in above : m <= k
  <2>1. ASSUME NEW k \in above PROVE m <= k
    <3>1. m \in Nat /\ k \in Nat /\ ~ (k < m)
      BY <1>1, <1>2 DEF OpToRel
    <3>2. QED
      BY <3>1
  <2>2. QED
    BY <2>1
<1>4. PICK x \in S : m = N - x
  BY <1>2 DEF above
<1>5. \A y \in S : x >= y
  <2>1. ASSUME NEW y \in S PROVE x >= y
    <3>1. N - x <= N - y
      BY <1>3, <1>4 DEF above
    <3>2. x \in Nat /\ y \in Nat
      OBVIOUS
    <3>3. QED
      BY <3>1, <3>2
  <2>2. QED
    BY <2>1
<1>6. Max(S) \in S /\ \A y \in S : Max(S) >= y
  BY <1>4, <1>5 DEF Max
<1>7. \A y \in S : y \in Nat
  OBVIOUS
<1>8. QED
  BY <1>6, <1>7

\* The answer of the first n layers, in which those of the set pass requests on.
Newest(n, passes, base, own) ==
  LET stops == {j \in 1 .. n : j \notin passes}
  IN  IF stops = {} THEN base ELSE own[Max(stops)]

LEMMA NewestOf ==
  ASSUME NEW n \in Nat, NEW passes, NEW base, NEW own
  PROVE  /\ n = 0 => Newest(n, passes, base, own) = base
         /\ n # 0 /\ n \in passes =>
              Newest(n, passes, base, own) = Newest(n - 1, passes, base, own)
         /\ n # 0 /\ n \notin passes => Newest(n, passes, base, own) = own[n]
<1> DEFINE stops == {j \in 1 .. n : j \notin passes}
           below == {j \in 1 .. (n - 1) : j \notin passes}
<1>1. n = 0 => stops = {}
  OBVIOUS
<1>2. n # 0 /\ n \in passes => stops = below
  OBVIOUS
<1>3. CASE n # 0 /\ n \notin passes
  <2>1. n \in stops /\ stops \in SUBSET (1 .. n)
    BY <1>3
  <2> HIDE DEF stops
  <2>2. Max(stops) \in stops /\ n <= Max(stops)
    BY <2>1, MaxOf
  <2>3. Max(stops) \in 1 .. n
    BY <2>1, <2>2
  <2>4. Max(stops) = n
    BY <2>2, <2>3
  <2>5. QED
    BY <1>3, <2>1, <2>4 DEF Newest, stops
<1>4. CASE n # 0 /\ n \in passes
  BY <1>2, <1>4 DEF Newest
<1>5. CASE n = 0
  BY <1>1, <1>5 DEF Newest
<1>6. QED
  BY <1>3, <1>4, <1>5

Layered(w, N, passes, base, own) ==
  w = [n \in 0 .. N |-> IF n = 0 THEN base ELSE IF n \in passes THEN w[n - 1] ELSE own[n]]

LEMMA LayersAnswer ==
  ASSUME NEW N \in Nat, NEW passes, NEW base, NEW own
  PROVE  \E w : Layered(w, N, passes, base, own)
<1> DEFINE w == [n \in 0 .. N |-> Newest(n, passes, base, own)]
<1>1. ASSUME NEW n \in 0 .. N
      PROVE  w[n] = IF n = 0 THEN base ELSE IF n \in passes THEN w[n - 1] ELSE own[n]
  <2>1. w[n] = Newest(n, passes, base, own)
    OBVIOUS
  <2>2. n # 0 => n - 1 \in 0 .. N
    OBVIOUS
  <2>3. n # 0 => w[n - 1] = Newest(n - 1, passes, base, own)
    BY <2>2
  <2> HIDE DEF w
  <2>4. QED
    BY <2>1, <2>3, NewestOf
<1>2. w = [n \in 0 .. N |-> w[n]]
  OBVIOUS
<1> HIDE DEF w
<1>3. Layered(w, N, passes, base, own)
  BY <1>1, <1>2 DEF Layered
<1>4. QED
  BY <1>3

\* A least layer at which an answer is another is none.
LEMMA NewestAnswers ==
  ASSUME NEW N \in Nat, NEW passes, NEW base, NEW own, NEW w, Layered(w, N, passes, base, own)
  PROVE  w[N] = Newest(N, passes, base, own)
<1>0. \A n \in 0 .. N :
        w[n] = IF n = 0 THEN base ELSE IF n \in passes THEN w[n - 1] ELSE own[n]
  BY DEF Layered
<1> DEFINE bad == {n \in 0 .. N : w[n] # Newest(n, passes, base, own)}
<1>1. SUFFICES ASSUME bad # {} PROVE FALSE
  OBVIOUS
<1>2. bad \in SUBSET Nat
  OBVIOUS
<1>3. PICK n \in bad : \A k \in bad : ~ (<<k, n>> \in OpToRel(<, Nat))
  <2> HIDE DEF bad
  <2>1. QED
    BY <1>1, <1>2, NatLessThanWellFounded, WFMin
<1>4. n \in 0 .. N /\ w[n] # Newest(n, passes, base, own)
  BY <1>3
<1>5. n # 0
  BY <1>0, <1>4, NewestOf
<1>6. n - 1 \in 0 .. N /\ <<n - 1, n>> \in OpToRel(<, Nat)
  BY <1>4, <1>5 DEF OpToRel
<1>7. w[n - 1] = Newest(n - 1, passes, base, own)
  BY <1>3, <1>6
<1>8. QED
  BY <1>0, <1>4, <1>5, <1>7, NewestOf

\* Which layers pass a call on, and what the others return.
HasOriginal(stub, n) == n > 1 \/ stub.base # NoAnswer
CallsPassed(stub, input) ==
  {n \in 1 .. Len(stub.layers) :
     /\ HasOriginal(stub, n)
     /\ \/ input.to # stub.layers[n].address
        \/ input.data # TooShort /\ input.data \notin DOMAIN stub.layers[n].callContract}
CallAnswers(stub, input) ==
  [n \in 1 .. Len(stub.layers) |->
     IF input.to # stub.layers[n].address THEN ContractNotFound(stub.layers[n].address)
     ELSE IF input.data = TooShort THEN Failed(PlainError(<<TooShort>>))
     ELSE IF input.data \in DOMAIN stub.layers[n].callContract
       THEN stub.layers[n].callContract[input.data]
     ELSE Failed(PlainError(<<"method not implemented">>))]

LEMMA CallContractIs ==
  ASSUME NEW stub, Len(stub.layers) \in Nat, NEW input
  PROVE  CallContractMock(stub, input) =
           Newest(Len(stub.layers), CallsPassed(stub, input), stub.base,
                  CallAnswers(stub, input))
<1> DEFINE N == Len(stub.layers)
           base == stub.base
           passes == CallsPassed(stub, input)
           own == CallAnswers(stub, input)
           Body(w, n) ==
             IF n = 0 THEN stub.base
             ELSE LET layer == stub.layers[n]
                      hasOriginal == n > 1 \/ stub.base # NoAnswer
                  IN  CASE input.to # layer.address /\ hasOriginal -> w[n - 1]
                        [] input.to # layer.address /\ ~hasOriginal ->
                             ContractNotFound(layer.address)
                        [] input.to = layer.address /\ input.data = TooShort ->
                             Failed(PlainError(<<TooShort>>))
                        [] input.to = layer.address /\ input.data # TooShort ->
                             IF input.data \in DOMAIN layer.callContract
                               THEN layer.callContract[input.data]
                             ELSE IF hasOriginal THEN w[n - 1]
                             ELSE Failed(PlainError(<<"method not implemented">>))
           Sat(w) == w = [n \in 0 .. N |-> Body(w, n)]
           answer == CHOOSE w : Sat(w)
<1>1. CallContractMock(stub, input) = answer[N]
  BY DEF CallContractMock
<1>2. N \in Nat
  OBVIOUS
<1>3. ASSUME NEW w, NEW n \in 0 .. N
      PROVE  Body(w, n) = IF n = 0 THEN base ELSE IF n \in passes THEN w[n - 1] ELSE own[n]
  <2>1. CASE n = 0
    BY <2>1
  <2>2. CASE n # 0
    <3>1. n \in 1 .. N
      BY <2>2
    <3>2. n \in passes <=> /\ HasOriginal(stub, n)
                           /\ \/ input.to # stub.layers[n].address
                              \/ /\ input.data # TooShort
                                 /\ input.data \notin DOMAIN stub.layers[n].callContract
      BY <3>1 DEF CallsPassed
    <3>3. own[n] =
            IF input.to # stub.layers[n].address THEN ContractNotFound(stub.layers[n].address)
            ELSE IF input.data = TooShort THEN Failed(PlainError(<<TooShort>>))
            ELSE IF input.data \in DOMAIN stub.layers[n].callContract
              THEN stub.layers[n].callContract[input.data]
            ELSE Failed(PlainError(<<"method not implemented">>))
      BY <3>1 DEF CallAnswers
    <3> HIDE DEF passes, own
    <3>4. QED
      BY <2>2, <3>2, <3>3 DEF HasOriginal
  <2>3. QED
    BY <2>1, <2>2
<1> HIDE DEF passes, own, base, N, Body
<1>4. \E w : Sat(w)
  <2>1. PICK w : Layered(w, N, passes, base, own)
    BY <1>2, LayersAnswer
  <2>2. \A n \in 0 .. N : Body(w, n) =
          IF n = 0 THEN base ELSE IF n \in passes THEN w[n - 1] ELSE own[n]
    BY <1>3
  <2>3. Sat(w)
    BY <2>1, <2>2 DEF Layered
  <2>4. QED
    BY <2>3
<1> HIDE DEF Sat
<1>5. Sat(answer)
  BY <1>4
<1> HIDE DEF answer
<1>6. Layered(answer, N, passes, base, own)
  <2>1. answer = [n \in 0 .. N |-> Body(answer, n)]
    BY <1>5 DEF Sat
  <2>2. QED
    BY <1>3, <2>1 DEF Layered
<1>7. answer[N] = Newest(N, passes, base, own)
  BY <1>2, <1>6, NewestAnswers
<1>8. QED
  BY <1>1, <1>7 DEF N, passes, own, base

\* The same of reports.
ReportsPassed(stub, input) ==
  {n \in 1 .. Len(stub.layers) :
     HasOriginal(stub, n) /\ input.to # stub.layers[n].address}
ReportAnswers(stub, input) ==
  [n \in 1 .. Len(stub.layers) |->
     IF input.to # stub.layers[n].address THEN ContractNotFound(stub.layers[n].address)
     ELSE IF input.data = TooShort \/ stub.layers[n].writeReport = NoCallback THEN Panics
     ELSE stub.layers[n].writeReport]

LEMMA WriteReportIs ==
  ASSUME NEW stub, Len(stub.layers) \in Nat, NEW input
  PROVE  WriteReportMock(stub, input) =
           Newest(Len(stub.layers), ReportsPassed(stub, input), stub.base,
                  ReportAnswers(stub, input))
<1> DEFINE N == Len(stub.layers)
           base == stub.base
           passes == ReportsPassed(stub, input)
           own == ReportAnswers(stub, input)
           Body(w, n) ==
             IF n = 0 THEN stub.base
             ELSE LET layer == stub.layers[n]
                  IN  IF input.to = layer.address
                        THEN IF input.data = TooShort \/ layer.writeReport = NoCallback
                               THEN Panics ELSE layer.writeReport
                      ELSE IF n > 1 \/ stub.base # NoAnswer THEN w[n - 1]
                      ELSE ContractNotFound(layer.address)
           Sat(w) == w = [n \in 0 .. N |-> Body(w, n)]
           answer == CHOOSE w : Sat(w)
<1>1. WriteReportMock(stub, input) = answer[N]
  BY DEF WriteReportMock
<1>2. N \in Nat
  OBVIOUS
<1>3. ASSUME NEW w, NEW n \in 0 .. N
      PROVE  Body(w, n) = IF n = 0 THEN base ELSE IF n \in passes THEN w[n - 1] ELSE own[n]
  <2>1. CASE n = 0
    BY <2>1
  <2>2. CASE n # 0
    <3>1. n \in 1 .. N
      BY <2>2
    <3>2. n \in passes <=> HasOriginal(stub, n) /\ input.to # stub.layers[n].address
      BY <3>1 DEF ReportsPassed
    <3>3. own[n] =
            IF input.to # stub.layers[n].address THEN ContractNotFound(stub.layers[n].address)
            ELSE IF input.data = TooShort \/ stub.layers[n].writeReport = NoCallback THEN Panics
            ELSE stub.layers[n].writeReport
      BY <3>1 DEF ReportAnswers
    <3> HIDE DEF passes, own
    <3>4. QED
      BY <2>2, <3>2, <3>3 DEF HasOriginal
  <2>3. QED
    BY <2>1, <2>2
<1> HIDE DEF passes, own, base, N, Body
<1>4. \E w : Sat(w)
  <2>1. PICK w : Layered(w, N, passes, base, own)
    BY <1>2, LayersAnswer
  <2>2. \A n \in 0 .. N : Body(w, n) =
          IF n = 0 THEN base ELSE IF n \in passes THEN w[n - 1] ELSE own[n]
    BY <1>3
  <2>3. Sat(w)
    BY <2>1, <2>2 DEF Layered
  <2>4. QED
    BY <2>3
<1> HIDE DEF Sat
<1>5. Sat(answer)
  BY <1>4
<1> HIDE DEF answer
<1>6. Layered(answer, N, passes, base, own)
  <2>1. answer = [n \in 0 .. N |-> Body(answer, n)]
    BY <1>5 DEF Sat
  <2>2. QED
    BY <1>3, <2>1 DEF Layered
<1>7. answer[N] = Newest(N, passes, base, own)
  BY <1>2, <1>6, NewestAnswers
<1>8. QED
  BY <1>1, <1>7 DEF N, passes, own, base

LEMMA NewestIsGood ==
  ASSUME NEW N \in Nat, NEW passes, NEW base, NEW own, GoodAnswer(base),
         \A n \in 1 .. N : GoodAnswer(own[n])
  PROVE  GoodAnswer(Newest(N, passes, base, own))
<1> DEFINE stops == {j \in 1 .. N : j \notin passes}
<1>1. stops # {} => Max(stops) \in 1 .. N
  <2>1. stops \in SUBSET (1 .. N)
    OBVIOUS
  <2> HIDE DEF stops
  <2>2. QED
    BY <2>1, MaxOf
<1>2. QED
  BY <1>1 DEF Newest

\* Whatever a stub is, its answer is a good one.
LEMMA AnswerIsGood ==
  ASSUME NEW method, NEW stub, GoodStub(method, stub), NEW input
  PROVE  GoodAnswer(Answer(method, stub, input))
<1>1. CASE stub.base = Defaults
  <2>1. GoodAnswer(defaultSimpleConsensus(input))
    BY ValuesAreGood, OnePieceIsGood DEF defaultSimpleConsensus
  <2>2. GoodAnswer(defaultReport)
    BY ValuesAreGood DEF defaultReport
  <2>3. QED
    BY <1>1, <2>1, <2>2 DEF Answer
<1>2. CASE stub.base # Defaults
  <2>1. PossibleAnswer(stub.base)
    BY <1>2 DEF GoodStub, Function
  <2>2. GoodAnswer(stub.base) /\ GoodAnswer(Panics)
    BY <2>1, PossibleIsGood DEF GoodAnswer
  <2>3. Len(stub.layers) \in Nat /\ DOMAIN stub.layers = 1 .. Len(stub.layers)
    BY SequenceFacts DEF GoodStub
  <2>4. ASSUME NEW n \in 1 .. Len(stub.layers)
        PROVE  /\ GoodAnswer(stub.layers[n].writeReport)
               /\ \A data \in DOMAIN stub.layers[n].callContract :
                    GoodAnswer(stub.layers[n].callContract[data])
    BY <2>3, PossibleIsGood DEF GoodStub, PossibleLayer
  <2>5. \A address : GoodAnswer(ContractNotFound(address))
    <3>1. ASSUME NEW address PROVE GoodAnswer(ContractNotFound(address))
      <4>1. PICK piece : piece = "contract " \o address \o " not found"
        OBVIOUS
      <4>2. ContractNotFound(address) = Failed(PlainError(<<piece>>))
        BY <4>1 DEF ContractNotFound
      <4>3. QED
        BY <4>2, OnePieceIsGood
    <3>2. QED
      BY <3>1
  <2>6. GoodAnswer(CallContractMock(stub, input))
    <3>1. \A n \in 1 .. Len(stub.layers) : GoodAnswer(CallAnswers(stub, input)[n])
      BY <2>4, <2>5, OnePieceIsGood DEF CallAnswers
    <3>2. QED
      BY <2>2, <2>3, <3>1, CallContractIs, NewestIsGood
  <2>7. GoodAnswer(WriteReportMock(stub, input))
    <3>1. \A n \in 1 .. Len(stub.layers) : GoodAnswer(ReportAnswers(stub, input)[n])
      BY <2>2, <2>4, <2>5 DEF ReportAnswers
    <3>2. QED
      BY <2>2, <2>3, <3>1, WriteReportIs, NewestIsGood
  <2>8. GoodAnswer(StubAnswer(method, stub, input))
    BY <2>2, <2>6, <2>7 DEF StubAnswer
  <2>9. QED
    BY <1>2, <2>8 DEF Answer
<1>3. QED
  BY <1>1, <1>2

\* A call that found no function got no answer.
LEMMA UnsetAnswers == \A method, input : Answer(method, Unset, input) = NoAnswer
<1>1. Unset.base = NoAnswer /\ Unset.layers = <<>> /\ NoAnswer # Defaults
  BY DEF Unset, NoAnswer, Defaults
<1>2. QED
  BY <1>1 DEF Answer, StubAnswer

LEMMA RepliesArrive ==
  ASSUME NEW th \in Threads, NEW c, ServedCall(th, c), c.phase # "started"
  PROVE  Arrives(Returned(c), c.client, OutcomeOf(c.client, c.reply))
<1>1. Replied(th, c) /\ MockOf(c).id = c.client.id /\ SameOutput(MockOf(c), c.client)
  BY DEF ServedCall
<1>2. GoodAnswer(Returned(c)) /\ Returned(c) \notin {Hangs, Panics}
  BY <1>1, AnswerIsGood DEF Replied, Returned
<1>3. ~Meets(MockOf(c), c.client) => Returned(c) = NoAnswer
  BY <1>1, UnsetAnswers DEF Replied, Reaches, Meets, Returned
<1>4. c.reply = Invoke(MockOf(c), c.client,
                       IF Returned(c) = Blocks THEN Failed(ContextDone) ELSE Returned(c))
  BY <1>1 DEF Replied
<1>5. PICK mock, client, answer :
        mock = MockOf(c) /\ client = c.client /\ answer = Returned(c)
  OBVIOUS
<1>6. Arrives(answer, client,
              OutcomeOf(client, Invoke(mock, client,
                                       IF answer = Blocks THEN Failed(ContextDone)
                                       ELSE answer)))
  BY <1>1, <1>2, <1>3, <1>5, AnswersArrive
<1>7. QED
  BY <1>4, <1>5, <1>6

\* A call is one of a goroutine, and satisfies what holds of each.
LEMMA AllCallsGood ==
  ASSUME AllInv, NEW d \in AllCalls
  PROVE  /\ d[1] \in Threads /\ d[2] \in DOMAIN calls[d[1]]
         /\ GoodCall(d[1], calls[d[1]][d[2]])
<1>1. PICK th \in Threads : d \in {th} \X DOMAIN calls[th]
  BY DEF AllCalls
<1>2. d[1] = th /\ d[2] \in DOMAIN calls[th]
  BY <1>1
<1>3. QED
  BY <1>2 DEF AllInv, CallsInv

\* A settled promise holds what the function of the called method did, in the
\* mock that the caller's own test registered under the called id, as far as
\* the error's text carries it, or the end of that test
\* (testutils/runtime.go:30-36, 173-214, error_serialization.go:12-25).
THEOREM OutcomesCorrect == Spec => []OutcomesAreTheStubs
<1>1. AllInv => OutcomesAreTheStubs
  <2> SUFFICES ASSUME AllInv, NEW d \in AllCalls,
                      calls[d[1]][d[2]].served # None, calls[d[1]][d[2]].outcome # NotSettled
               PROVE  LET th == d[1]
                          call == calls[th][d[2]]
                      IN  /\ TestOf(call.served[1]) = TestOf(th)
                          /\ MockOf(call).id = call.client.id
                          /\ \/ call.outcome = Failed(ContextDone) /\ ended[TestOf(th)]
                             \/ /\ call.phase = "sent"
                                /\ call.served = Default(th) /\ Reaches(call) =>
                                     call.stub # Unset
                                /\ Arrives(Answer(call.client.method, call.stub, call.input),
                                           call.client, call.outcome)
    BY DEF OutcomesAreTheStubs
  <2>1. PICK th, c : th = d[1] /\ c = calls[th][d[2]]
    OBVIOUS
  <2>2. th \in Threads /\ d[2] \in DOMAIN calls[th]
    BY <2>1, AllCallsGood
  <2>3. GoodCall(th, c) /\ c.served # None /\ c.outcome # NotSettled
    BY <2>1, AllCallsGood
  <2>4. ServedCall(th, c)
    BY <2>3 DEF GoodCall
  <2>5. \/ c.outcome = Failed(ContextDone) /\ ended[TestOf(th)]
        \/ c.phase = "sent" /\ c.outcome = OutcomeOf(c.client, c.reply)
    BY <2>3, <2>4 DEF ServedCall
  <2>6. c.phase = "sent" => /\ Replied(th, c)
                            /\ Arrives(Returned(c), c.client, OutcomeOf(c.client, c.reply))
    BY <2>2, <2>4, RepliesArrive DEF ServedCall
  <2>7. /\ TestOf(c.served[1]) = TestOf(th)
        /\ MockOf(c).id = c.client.id
        /\ \/ c.outcome = Failed(ContextDone) /\ ended[TestOf(th)]
           \/ /\ c.phase = "sent"
              /\ c.served = Default(th) /\ Reaches(c) => c.stub # Unset
              /\ Arrives(Returned(c), c.client, c.outcome)
    BY <2>4, <2>5, <2>6 DEF ServedCall, Replied
  <2>8. QED
    BY <2>1, <2>7 DEF Returned
<1>2. QED
  BY <1>1, AllInvariant, PTL

-----------------------------------------------------------------------------
(* The newest contract answers.                                            *)

\* Layers of which those of a set answer, and the others but the first do not.
Stopping(N, passes, S) ==
  /\ S \in SUBSET (1 .. N) /\ S # {}
  /\ \A j \in S : j \notin passes
  /\ \A j \in 1 .. N : j \notin S /\ j # 1 => j \in passes

\* The newest of the set answers.
LEMMA NewestStop ==
  ASSUME NEW N \in Nat, NEW passes, NEW S, Stopping(N, passes, S)
  PROVE  Max(S) \in S /\ \A base, own : Newest(N, passes, base, own) = own[Max(S)]
<1> DEFINE stops == {j \in 1 .. N : j \notin passes}
<1>0. S \in SUBSET (1 .. N) /\ S # {}
  BY DEF Stopping
<1>1. stops \in SUBSET (1 .. N) /\ S \subseteq stops /\ stops # {}
  BY DEF Stopping
<1>2. \A j \in stops : j \in S \/ j = 1
  BY DEF Stopping
<1>3. \A base, own : Newest(N, passes, base, own) = own[Max(stops)]
  BY <1>1 DEF Newest
<1> HIDE DEF stops
<1>4. PICK a, b : a = Max(S) /\ b = Max(stops)
  OBVIOUS
<1>5. a \in S /\ (\A j \in S : j <= a) /\ b \in stops /\ (\A j \in stops : j <= b)
  BY <1>0, <1>1, <1>4, MaxOf
<1>6. a \in 1 .. N /\ b \in 1 .. N /\ a <= b
  BY <1>0, <1>1, <1>5
<1>7. b <= a
  BY <1>2, <1>5, <1>6
<1>8. a = b
  BY <1>6, <1>7
<1>9. QED
  BY <1>3, <1>4, <1>5, <1>8

\* Where all pass it on, the mock as it was before the first answers.
LEMMA NewestBase ==
  ASSUME NEW N \in Nat, NEW passes, NEW base, NEW own, \A j \in 1 .. N : j \in passes
  PROVE  Newest(N, passes, base, own) = base
<1>1. {j \in 1 .. N : j \notin passes} = {}
  OBVIOUS
<1>2. QED
  BY <1>1 DEF Newest

\* The layers for the address, and those that have the method.
Mine(stub, input) == {n \in DOMAIN stub.layers : stub.layers[n].address = input.to}
Able(stub, input) ==
  {n \in Mine(stub, input) : input.data \in DOMAIN stub.layers[n].callContract}

LEMMA NewestCall ==
  ASSUME NEW method, NEW stub, GoodStub(method, stub), stub.layers # <<>>, NEW input,
         NEW mine, mine = Mine(stub, input), NEW able, able = Able(stub, input),
         NEW answer, answer = CallContractMock(stub, input)
  PROVE  IF able # {} THEN answer = stub.layers[Max(able)].callContract[input.data]
         ELSE IF mine # {} /\ input.data = TooShort THEN answer.kind = "error"
         ELSE IF stub.base = NoAnswer THEN answer.kind = "error"
         ELSE answer = stub.base
<1> DEFINE N == Len(stub.layers)
           passes == CallsPassed(stub, input)
           own == CallAnswers(stub, input)
<1>1. N \in Nat /\ DOMAIN stub.layers = 1 .. N /\ 1 \in 1 .. N
  <2>1. PICK s : s = stub.layers /\ IsSequence(s)
    BY DEF GoodStub
  <2>2. PICK S : s \in Seq(S)
    BY <2>1 DEF IsSequence
  <2>3. Len(s) # 0
    BY <2>1, <2>2
  <2>4. QED
    BY <2>1, <2>2, <2>3
<1>2. answer = Newest(N, passes, stub.base, own)
  BY <1>1, CallContractIs
<1>3. /\ mine \in SUBSET (1 .. N) /\ able \in SUBSET mine
      /\ \A n \in 1 .. N : n \in mine <=> stub.layers[n].address = input.to
      /\ \A n \in 1 .. N :
           n \in able <=> n \in mine /\ input.data \in DOMAIN stub.layers[n].callContract
  BY <1>1 DEF Mine, Able
<1>4. \A n \in 1 .. N : TooShort \notin DOMAIN stub.layers[n].callContract
  BY <1>1 DEF GoodStub, PossibleLayer
<1>5. \A n \in 1 .. N :
        n \in passes <=> /\ HasOriginal(stub, n)
                         /\ n \notin mine \/ (input.data # TooShort /\ n \notin able)
  BY <1>3 DEF CallsPassed
<1>6. \A n \in 1 .. N : n # 1 => HasOriginal(stub, n)
  BY DEF HasOriginal
<1>7. \A n \in 1 .. N :
        /\ n \in able => own[n] = stub.layers[n].callContract[input.data]
        /\ n \notin able => own[n].kind = "error"
  <2>1. \A e : Failed(e).kind = "error"
    BY DEF Failed
  <2>2. \A address : ContractNotFound(address).kind = "error"
    BY <2>1 DEF ContractNotFound
  <2>3. QED
    BY <1>3, <1>4, <2>1, <2>2 DEF CallAnswers
<1> HIDE DEF N, passes, own
<1>8. CASE able # {}
  <2>1. input.data # TooShort
    BY <1>3, <1>4, <1>8
  <2>2. \A j \in able : j \notin passes
    BY <1>3, <1>5
  <2>3. \A j \in 1 .. N : j \notin able /\ j # 1 => j \in passes
    BY <1>5, <1>6, <2>1
  <2>4. Stopping(N, passes, able)
    BY <1>3, <1>8, <2>2, <2>3 DEF Stopping
  <2>5. Max(able) \in able /\ answer = own[Max(able)]
    <3>1. /\ Max(able) \in able
          /\ \A b, o : Newest(N, passes, b, o) = o[Max(able)]
      BY <1>1, <2>4, NewestStop
    <3>2. QED
      BY <1>2, <3>1
  <2>6. QED
    BY <1>3, <1>7, <1>8, <2>5
<1>9. CASE able = {} /\ mine # {} /\ input.data = TooShort
  <2>1. \A j \in mine : j \notin passes
    BY <1>3, <1>5, <1>9
  <2>2. \A j \in 1 .. N : j \notin mine /\ j # 1 => j \in passes
    BY <1>5, <1>6
  <2>3. Stopping(N, passes, mine)
    BY <1>3, <1>9, <2>1, <2>2 DEF Stopping
  <2>4. Max(mine) \in mine /\ answer = own[Max(mine)]
    <3>1. /\ Max(mine) \in mine
          /\ \A b, o : Newest(N, passes, b, o) = o[Max(mine)]
      BY <1>1, <2>3, NewestStop
    <3>2. QED
      BY <1>2, <3>1
  <2>5. QED
    BY <1>3, <1>7, <1>9, <2>4
<1>10. CASE able = {} /\ (mine = {} \/ input.data # TooShort)
  <2>1. \A j \in 1 .. N : j \in passes <=> HasOriginal(stub, j)
    BY <1>5, <1>10
  <2>2. CASE stub.base = NoAnswer
    <3>1. 1 \notin passes
      BY <1>1, <2>1, <2>2 DEF HasOriginal
    <3>2. \A j \in 1 .. N : j \notin {1} /\ j # 1 => j \in passes
      BY <1>6, <2>1
    <3>3. Stopping(N, passes, {1})
      BY <1>1, <3>1, <3>2 DEF Stopping
    <3>4. Max({1}) \in {1} /\ answer = own[Max({1})]
      <4>1. /\ Max({1}) \in {1}
            /\ \A b, o : Newest(N, passes, b, o) = o[Max({1})]
        BY <1>1, <3>3, NewestStop
      <4>2. QED
        BY <1>2, <4>1
    <3>5. QED
      BY <1>1, <1>7, <1>10, <2>2, <3>4
  <2>3. CASE stub.base # NoAnswer
    <3>1. \A j \in 1 .. N : j \in passes
      BY <2>1, <2>3 DEF HasOriginal
    <3>2. QED
      BY <1>1, <1>2, <1>10, <2>3, <3>1, NewestBase
  <2>4. QED
    BY <2>2, <2>3
<1>11. QED
  BY <1>8, <1>9, <1>10

LEMMA NewestReport ==
  ASSUME NEW method, NEW stub, GoodStub(method, stub), stub.layers # <<>>, NEW input,
         NEW mine, mine = Mine(stub, input),
         NEW answer, answer = WriteReportMock(stub, input), answer # Panics
  PROVE  IF mine # {} THEN answer = stub.layers[Max(mine)].writeReport
         ELSE IF stub.base = NoAnswer THEN answer.kind = "error"
         ELSE answer = stub.base
<1> DEFINE N == Len(stub.layers)
           passes == ReportsPassed(stub, input)
           own == ReportAnswers(stub, input)
<1>1. N \in Nat /\ DOMAIN stub.layers = 1 .. N /\ 1 \in 1 .. N
  <2>1. PICK s : s = stub.layers /\ IsSequence(s)
    BY DEF GoodStub
  <2>2. PICK S : s \in Seq(S)
    BY <2>1 DEF IsSequence
  <2>3. Len(s) # 0
    BY <2>1, <2>2
  <2>4. QED
    BY <2>1, <2>2, <2>3
<1>2. answer = Newest(N, passes, stub.base, own)
  BY <1>1, WriteReportIs
<1>3. /\ mine \in SUBSET (1 .. N)
      /\ \A n \in 1 .. N : n \in mine <=> stub.layers[n].address = input.to
  BY <1>1 DEF Mine
<1>4. \A n \in 1 .. N : n \in passes <=> HasOriginal(stub, n) /\ n \notin mine
  BY <1>3 DEF ReportsPassed
<1>5. \A n \in 1 .. N : n # 1 => HasOriginal(stub, n)
  BY DEF HasOriginal
<1>6. \A n \in 1 .. N :
        /\ n \in mine => own[n] \in {Panics, stub.layers[n].writeReport}
        /\ n \notin mine => own[n].kind = "error"
  BY <1>3 DEF ReportAnswers, ContractNotFound, Failed
<1> HIDE DEF N, passes, own
<1>7. CASE mine # {}
  <2>1. Stopping(N, passes, mine)
    BY <1>3, <1>4, <1>5, <1>7 DEF Stopping
  <2>2. Max(mine) \in mine /\ answer = own[Max(mine)]
    <3>1. /\ Max(mine) \in mine
          /\ \A b, o : Newest(N, passes, b, o) = o[Max(mine)]
      BY <1>1, <2>1, NewestStop
    <3>2. QED
      BY <1>2, <3>1
  <2>3. QED
    BY <1>3, <1>6, <1>7, <2>2
<1>8. CASE mine = {} /\ stub.base = NoAnswer
  <2>1. 1 \notin passes
    BY <1>1, <1>4, <1>8 DEF HasOriginal
  <2>2. \A j \in 1 .. N : j \notin {1} /\ j # 1 => j \in passes
    BY <1>4, <1>5, <1>8
  <2>3. Stopping(N, passes, {1})
    BY <1>1, <2>1, <2>2 DEF Stopping
  <2>4. Max({1}) \in {1} /\ answer = own[Max({1})]
    <3>1. /\ Max({1}) \in {1}
          /\ \A b, o : Newest(N, passes, b, o) = o[Max({1})]
      BY <1>1, <2>3, NewestStop
    <3>2. QED
      BY <1>2, <3>1
  <2>5. QED
    BY <1>1, <1>6, <1>8, <2>4
<1>9. CASE mine = {} /\ stub.base # NoAnswer
  <2>1. \A j \in 1 .. N : j \in passes
    BY <1>4, <1>9 DEF HasOriginal
  <2>2. QED
    BY <1>1, <1>2, <1>9, <2>1, NewestBase
<1>10. QED
  BY <1>7, <1>8, <1>9

\* An error reaches the caller as one, where the method is served.
LEMMA ErrorsReply ==
  ASSUME NEW mock, NEW client, NEW answer, answer.kind = "error"
  PROVE  Invoke(mock, client, answer).kind = "error"
<1>1. answer # NoAnswer
  BY DEF NoAnswer
<1>2. \A text : ErrorResponse(text).kind = "error"
  BY DEF ErrorResponse
<1>3. QED
  BY <1>1, <1>2 DEF Invoke

\* What is to be shown of a call that a layered function answered.
ByNewest(c) ==
  LET mine == Mine(c.stub, c.input)
      able == Able(c.stub, c.input)
      called(answer) ==
        c.reply = Invoke(MockOf(c), c.client,
                         IF answer = Blocks THEN Failed(ContextDone) ELSE answer)
      original == IF c.stub.base = NoAnswer THEN c.reply.kind = "error"
                  ELSE called(c.stub.base)
  IN  IF c.client.method = "CallContract"
        THEN CASE able # {} ->
                    called(c.stub.layers[Max(able)].callContract[c.input.data])
               [] able = {} /\ mine # {} /\ c.input.data = TooShort ->
                    c.reply.kind = "error"
               [] OTHER -> original
      ELSE IF mine # {} THEN called(c.stub.layers[Max(mine)].writeReport)
      ELSE original

LEMMA NewestReplies ==
  ASSUME NEW th \in Threads, NEW c, Replied(th, c), c.stub.layers # <<>>
  PROVE  ByNewest(c)
<1> DEFINE stub == c.stub
           answer == Returned(c)
           mine == Mine(stub, c.input)
           able == Able(stub, c.input)
<1>1. /\ GoodStub(c.client.method, stub) /\ stub.layers # <<>>
      /\ answer \notin {Hangs, Panics}
      /\ c.reply = Invoke(MockOf(c), c.client,
                          IF answer = Blocks THEN Failed(ContextDone) ELSE answer)
  BY DEF Replied
<1>2. stub.base # Defaults
  BY <1>1 DEF GoodStub, Function, PossibleAnswer, Defaults, NoAnswer, Blocks, Hangs, Panics
<1>3. answer = IF c.client.method = "CallContract" THEN CallContractMock(stub, c.input)
               ELSE WriteReportMock(stub, c.input)
  BY <1>1, <1>2 DEF Returned, Answer, StubAnswer
<1>4. answer.kind = "error" => c.reply.kind = "error"
  <2>1. answer.kind = "error" => answer # Blocks
    BY DEF Blocks
  <2> HIDE DEF answer
  <2>2. QED
    BY <1>1, <2>1, ErrorsReply
<1>5. CASE c.client.method = "CallContract"
  <2>1. IF able # {} THEN answer = stub.layers[Max(able)].callContract[c.input.data]
        ELSE IF mine # {} /\ c.input.data = TooShort THEN answer.kind = "error"
        ELSE IF stub.base = NoAnswer THEN answer.kind = "error"
        ELSE answer = stub.base
    <3>1. answer = CallContractMock(stub, c.input)
      BY <1>3, <1>5
    <3> HIDE DEF answer, mine, able
    <3>2. QED
      BY <1>1, <3>1, NewestCall DEF mine, able
  <2> HIDE DEF answer
  <2>2. QED
    BY <1>1, <1>4, <1>5, <2>1 DEF ByNewest
<1>6. CASE c.client.method # "CallContract"
  <2>1. IF mine # {} THEN answer = stub.layers[Max(mine)].writeReport
        ELSE IF stub.base = NoAnswer THEN answer.kind = "error"
        ELSE answer = stub.base
    <3>1. answer = WriteReportMock(stub, c.input) /\ answer # Panics
      BY <1>1, <1>3, <1>6
    <3> HIDE DEF answer, mine
    <3>2. QED
      BY <1>1, <3>1, NewestReport DEF mine
  <2> HIDE DEF answer
  <2>2. QED
    BY <1>1, <1>4, <1>6, <2>1 DEF ByNewest
<1>7. QED
  BY <1>5, <1>6

\* Of the contracts mocked on one evm mock, however many there are and in
\* whatever order they were added, the newest for the address that has the
\* method answers, and without one the mock as it was before the first
\* (mock/utils.go:15-69).
THEOREM NewestContracts == Spec => []NewestContractAnswers
<1>1. AllInv => NewestContractAnswers
  <2> SUFFICES ASSUME AllInv PROVE NewestContractAnswers
    OBVIOUS
  <2>1. ASSUME NEW d \in AllCalls, NEW c, c = calls[d[1]][d[2]],
               c.reply # None, c.stub.layers # <<>>
        PROVE  ByNewest(c)
    <3>1. PICK th : th = d[1]
      OBVIOUS
    <3>2. th \in Threads /\ GoodCall(th, c)
      BY <2>1, <3>1, AllCallsGood
    <3>3. c.served # None
      BY <2>1, <3>2 DEF GoodCall
    <3>4. ServedCall(th, c)
      BY <3>2, <3>3 DEF GoodCall
    <3>5. Replied(th, c)
      BY <2>1, <3>4 DEF ServedCall
    <3>6. QED
      BY <2>1, <3>2, <3>5, NewestReplies
  <2>2. \A d \in AllCalls : LET c == calls[d[1]][d[2]]
                            IN  c.reply # None /\ c.stub.layers # <<>> => ByNewest(c)
    BY <2>1
  <2>3. QED
    BY <2>2 DEF NewestContractAnswers, ByNewest, Mine, Able
<1>2. QED
  BY <1>1, AllInvariant, PTL
-----------------------------------------------------------------------------
(* What is generated apart: clients, their limiters and mocks.             *)

\* That the mock serves what the client asks for.
Answers(mock, client) ==
  /\ mock.id = client.id /\ client.method \in DOMAIN mock.methods
  /\ mock.methods[client.method].input = client.input
  /\ mock.methods[client.method].output = client.output
Together(client, limit) ==
  /\ limit.id = client.id /\ limit.method = client.method
  /\ \E m \in AllMocks : Answers(m, client)

LEMMA SelectorsApart == ChainsApart
BY DEF ChainsApart, EvmChains, SolanaChains

LEMMA ChainMethodsAgree ==
  ASSUME NEW s \in Selectors, NEW client, NEW limit, NEW n,
         <<client, limit>> \in LimitedChainMethods(s, n)
  PROVE  Together(client, limit)
<1>1. EvmMock(s) \in AllMocks /\ SolanaMock(s) \in AllMocks
  BY DEF AllMocks
<1>2. ASSUME NEW input, NEW output, NEW method \in DOMAIN EvmMockMethods,
             client = Client(EvmId(s), method, input, output),
             limit = MethodRestriction(EvmId(s), method, n),
             EvmMockMethods[method] = Serves(input, output)
      PROVE  Together(client, limit)
  <2>1. Answers(EvmMock(s), client)
    BY <1>2 DEF Answers, EvmMock, Mock, EvmMockId, EvmId, Client, Serves
  <2>2. limit.id = client.id /\ limit.method = client.method
    BY <1>2 DEF Client, MethodRestriction
  <2>3. QED
    BY <1>1, <2>1, <2>2 DEF Together
<1>3. CASE client = SolanaWriteReport(s) /\ limit = LimitSolanaWriteReport(s, n)
  <2>1. Answers(SolanaMock(s), client)
    BY <1>3 DEF Answers, SolanaMock, SolanaMockMethods, Mock, SolanaMockId, SolanaId, Client,
                Serves, SolanaWriteReport
  <2>2. limit.id = client.id /\ limit.method = client.method
    BY <1>3 DEF Client, MethodRestriction, SolanaWriteReport, LimitSolanaWriteReport
  <2>3. QED
    BY <1>1, <2>1, <2>2 DEF Together
<1>4. CASE client = EvmCallContract(s) /\ limit = LimitEvmCallContract(s, n)
  BY <1>2, <1>4 DEF EvmCallContract, LimitEvmCallContract, EvmMockMethods, Serves
<1>5. CASE client = EvmFilterLogs(s) /\ limit = LimitEvmFilterLogs(s, n)
  BY <1>2, <1>5 DEF EvmFilterLogs, LimitEvmFilterLogs, EvmMockMethods, Serves
<1>6. CASE client = EvmBalanceAt(s) /\ limit = LimitEvmBalanceAt(s, n)
  BY <1>2, <1>6 DEF EvmBalanceAt, LimitEvmBalanceAt, EvmMockMethods, Serves
<1>7. CASE client = EvmEstimateGas(s) /\ limit = LimitEvmEstimateGas(s, n)
  BY <1>2, <1>7 DEF EvmEstimateGas, LimitEvmEstimateGas, EvmMockMethods, Serves
<1>8. CASE client = EvmGetTransactionByHash(s) /\ limit = LimitEvmGetTransactionByHash(s, n)
  BY <1>2, <1>8 DEF EvmGetTransactionByHash, LimitEvmGetTransactionByHash, EvmMockMethods, Serves
<1>9. CASE client = EvmGetTransactionReceipt(s) /\ limit = LimitEvmGetTransactionReceipt(s, n)
  BY <1>2, <1>9 DEF EvmGetTransactionReceipt, LimitEvmGetTransactionReceipt, EvmMockMethods, Serves
<1>10. CASE client = EvmHeaderByNumber(s) /\ limit = LimitEvmHeaderByNumber(s, n)
  BY <1>2, <1>10 DEF EvmHeaderByNumber, LimitEvmHeaderByNumber, EvmMockMethods, Serves
<1>11. CASE client = EvmWriteReport(s) /\ limit = LimitEvmWriteReport(s, n)
  BY <1>2, <1>11 DEF EvmWriteReport, LimitEvmWriteReport, EvmMockMethods, Serves
<1>12. QED
  BY <1>3, <1>4, <1>5, <1>6, <1>7, <1>8, <1>9, <1>10, <1>11 DEF LimitedChainMethods

LEMMA MethodsAgree ==
  ASSUME NEW client, NEW limit, NEW n, <<client, limit>> \in LimitedMethods(n)
  PROVE  Together(client, limit)
<1>1. ASSUME NEW m \in AllMocks, Answers(m, client),
             limit.id = client.id, limit.method = client.method
      PROVE  Together(client, limit)
  BY <1>1 DEF Together
<1>2. CASE client = HttpSendRequest /\ limit = LimitHttpSendRequest(n)
  <2>1. HttpMock \in AllMocks
    BY DEF AllMocks
  <2>2. Answers(HttpMock, client) /\ limit.id = client.id /\ limit.method = client.method
    BY <1>2 DEF Answers, HttpMock, Mock, Serves, Client, MethodRestriction, HttpSendRequest,
                LimitHttpSendRequest
  <2>3. QED
    BY <1>1, <2>1, <2>2
<1>3. CASE client = ConfidentialSendRequest /\ limit = LimitConfidentialSendRequest(n)
  <2>1. ConfidentialMock \in AllMocks
    BY DEF AllMocks
  <2>2. Answers(ConfidentialMock, client) /\ limit.id = client.id /\ limit.method = client.method
    BY <1>3 DEF Answers, ConfidentialMock, Mock, Serves, Client, MethodRestriction, ConfidentialSendRequest,
                LimitConfidentialSendRequest
  <2>3. QED
    BY <1>1, <2>1, <2>2
<1>4. CASE client = ConsensusSimple /\ limit = LimitConsensusSimple(n)
  <2>1. ConsensusMock \in AllMocks
    BY DEF AllMocks
  <2>2. Answers(ConsensusMock, client) /\ limit.id = client.id /\ limit.method = client.method
    BY <1>4 DEF Answers, ConsensusMock, Mock, Serves, Client, MethodRestriction, ConsensusSimple,
                LimitConsensusSimple
  <2>3. QED
    BY <1>1, <2>1, <2>2
<1>5. CASE client = ConsensusReport /\ limit = LimitConsensusReport(n)
  <2>1. ConsensusMock \in AllMocks
    BY DEF AllMocks
  <2>2. Answers(ConsensusMock, client) /\ limit.id = client.id /\ limit.method = client.method
    BY <1>5 DEF Answers, ConsensusMock, Mock, Serves, Client, MethodRestriction, ConsensusReport,
                LimitConsensusReport
  <2>3. QED
    BY <1>1, <2>1, <2>2
<1>6. CASE client = BasicPerformAction /\ limit = LimitBasicPerformAction(n)
  <2>1. BasicActionMock \in AllMocks
    BY DEF AllMocks
  <2>2. Answers(BasicActionMock, client) /\ limit.id = client.id /\ limit.method = client.method
    BY <1>6 DEF Answers, BasicActionMock, Mock, Serves, Client, MethodRestriction, BasicPerformAction,
                LimitBasicPerformAction
  <2>3. QED
    BY <1>1, <2>1, <2>2
<1>7. CASE client = NodePerformAction /\ limit = LimitNodePerformAction(n)
  <2>1. NodeActionMock \in AllMocks
    BY DEF AllMocks
  <2>2. Answers(NodeActionMock, client) /\ limit.id = client.id /\ limit.method = client.method
    BY <1>7 DEF Answers, NodeActionMock, Mock, Serves, Client, MethodRestriction, NodePerformAction,
                LimitNodePerformAction
  <2>3. QED
    BY <1>1, <2>1, <2>2
<1>8. CASE client = ClashPerformAction /\ limit = LimitClashPerformAction(n)
  <2>1. ClashMock \in AllMocks
    BY DEF AllMocks
  <2>2. Answers(ClashMock, client) /\ limit.id = client.id /\ limit.method = client.method
    BY <1>8 DEF Answers, ClashMock, Mock, Serves, Client, MethodRestriction, ClashPerformAction,
                LimitClashPerformAction
  <2>3. QED
    BY <1>1, <2>1, <2>2
<1>9. CASE client = TriggerAction /\ limit = LimitTriggerAction(n)
  <2>1. TriggerActionMock \in AllMocks
    BY DEF AllMocks
  <2>2. Answers(TriggerActionMock, client) /\ limit.id = client.id /\ limit.method = client.method
    BY <1>9 DEF Answers, TriggerActionMock, Mock, Serves, Client, MethodRestriction, TriggerAction,
                LimitTriggerAction
  <2>3. QED
    BY <1>1, <2>1, <2>2
<1>10. QED
  BY <1>2, <1>3, <1>4, <1>5, <1>6, <1>7, <1>8, <1>9 DEF LimitedMethods

LEMMA LimitersAgree ==
  ASSUME NEW client, NEW limit, Restricts(limit, client)
  PROVE  Together(client, limit)
BY ChainMethodsAgree, MethodsAgree DEF Restricts

\* A mock that a call reached is a generated one.
LEMMA MocksAreGenerated ==
  ASSUME AllInv, NEW h \in Handles, Built(h)
  PROVE  mocks[h] \in AllMocks
<1>1. Made(h) /\ h[1] \in Threads /\ script \in Scripts
  BY HandleFacts DEF AllInv, MocksInv, ScriptInv
<1>2. \A j \in 1 .. next[h[1]] - 1 : j \in DOMAIN script[h[1]]
  BY <1>1, ScriptFacts DEF AllInv
<1>3. ConsensusMock \in AllMocks
  BY DEF AllMocks
<1>4. QED
  BY <1>1, <1>2, <1>3, GeneratedAssumption DEF Made

\* A request of a client, restricted by the limiter of its method, names the id
\* and the method the client calls, and reaches the mock of that id with the
\* types the client sends and expects, whatever the scripts: clients
\* (client_sdk_gen.go), limiters and mocks (client_mock_gen.go) agree.
THEOREM GeneratedAgree == Spec => []GeneratedPairsAgree
<1>1. AllInv => GeneratedPairsAgree
  <2> SUFFICES ASSUME AllInv PROVE GeneratedPairsAgree
    OBVIOUS
  <2>1. ASSUME NEW d \in AllCalls, NEW c, c = calls[d[1]][d[2]], c.limit # None
        PROVE  /\ c.limit.id = c.client.id /\ c.limit.method = c.client.method
               /\ c.served # None =>
                    /\ Reaches(c)
                    /\ MockOf(c).methods[c.client.method].output = c.client.output
    <3>1. PICK th : th = d[1]
      OBVIOUS
    <3>2. th \in Threads /\ GoodCall(th, c)
      BY <2>1, <3>1, AllCallsGood
    <3>3. Together(c.client, c.limit)
      BY <2>1, <3>2, LimitersAgree DEF GoodCall, Limited
    <3>4. ASSUME c.served # None
          PROVE  Answers(MockOf(c), c.client)
      <4>1. c.served \in Handles /\ Built(c.served) /\ MockOf(c).id = c.client.id
        BY <3>2, <3>4 DEF GoodCall, ServedCall
      <4>2. MockOf(c) \in AllMocks
        BY <4>1, MocksAreGenerated DEF MockOf
      <4>3. PICK m \in AllMocks : Answers(m, c.client)
        BY <3>3 DEF Together
      <4>4. m.id = c.client.id
        BY <4>3 DEF Answers
      <4>5. m = MockOf(c)
        BY <4>1, <4>2, <4>4, MockIdsAssumption
      <4>6. QED
        BY <4>3, <4>5
    <3>5. QED
      BY <3>3, <3>4 DEF Together, Answers, Reaches
  <2>2. QED
    BY <2>1, SelectorsApart DEF GeneratedPairsAgree
<1>2. QED
  BY <1>1, AllInvariant, PTL

-----------------------------------------------------------------------------
(* Nobody waits for what does not come.                                    *)

\* The lock is held by a goroutine that is at the map, as only those are that
\* are in GetRegistry.
HeldInv ==
  /\ lock # None => lock \in Threads /\ AtTheMap(lock)
  /\ \A th \in Threads : AtTheMap(th) => NeedsRegistry(th)

\* A step that is none of GetRegistry is one of a goroutine away from the map.
LEMMA AtTheMapOrNot ==
  ASSUME HeldInv, NEW th \in Threads, Step(th),
         ~LockRegistries(th), ~FindRegistry(th), ~MissRegistry(th), ~AddRegistry(th)
  PROVE  ~AtTheMap(th) /\ lock' = lock
<1>1. CASE NewMock(th) \/ ForceMock(th) \/ NewRuntime(th) \/ CallCapability(th) \/ SetDefaults(th)
  BY <1>1 DEF NewMock, ForceMock, NewRuntime, CallCapability, SetDefaults, AtTheMap,
              registryVars
<1>2. CASE \/ SetStub(th) \/ AddContractMock(th) \/ RefuseInput(th) \/ KeepSecret(th)
           \/ GetSecrets(th)
  BY <1>2 DEF SetStub, AddContractMock, RefuseInput, KeepSecret, GetSecrets, Doing,
              HeldInv, NeedsRegistry, registryVars
<1>3. CASE AwaitResponse(th) \/ AwaitSecrets(th) \/ AwaitContext(th) \/ AwaitSettled(th)
  BY <1>3 DEF AwaitResponse, AwaitSecrets, AwaitContext, AwaitSettled, Settle, Doing,
              HeldInv, NeedsRegistry, registryVars
<1>4. QED
  BY <1>1, <1>2, <1>3 DEF Step

LEMMA HeldStep ==
  ASSUME AllInv, HeldInv, [Next]_vars
  PROVE  HeldInv'
<1>1. phase \in [Threads -> Phases] /\ next \in [Threads -> Nat \ {0}]
  BY DEF AllInv, Inv, TypeInv, ScriptInv
<1>2. ASSUME NEW th \in Threads, NEW u \in Threads, u # th,
             script' = script, DoesOne(th) \/ DoesPart(th)
      PROVE  (AtTheMap(u)' <=> AtTheMap(u)) /\ (NeedsRegistry(u)' <=> NeedsRegistry(u))
  BY <1>1, <1>2 DEF DoesOne, DoesPart, AtTheMap, NeedsRegistry, Op
<1>3. ASSUME NEW th \in Threads, Step(th) PROVE HeldInv'
  <2>1. script' = script /\ (DoesOne(th) \/ DoesPart(th))
    BY <1>3, StepMoves DEF AllInv
  <2>2. CASE LockRegistries(th)
    <3>1. lock' = th /\ phase' = [phase EXCEPT ![th] = "lookup"] /\ next' = next
          /\ NeedsRegistry(th) /\ lock = None
      BY <2>2 DEF LockRegistries, Goto
    <3>2. AtTheMap(th)' /\ NeedsRegistry(th)'
      BY <1>1, <2>1, <3>1 DEF AtTheMap, NeedsRegistry, Op
    <3>3. QED
      BY <1>2, <2>1, <3>1, <3>2 DEF HeldInv
  <2>3. CASE MissRegistry(th)
    <3>1. lock' = lock /\ phase' = [phase EXCEPT ![th] = "insert"] /\ next' = next
          /\ AtTheMap(th)
      BY <2>3 DEF MissRegistry, Goto, registryVars, AtTheMap
    <3>2. AtTheMap(th)' /\ (NeedsRegistry(th)' <=> NeedsRegistry(th))
      BY <1>1, <2>1, <3>1 DEF AtTheMap, NeedsRegistry, Op
    <3>3. QED
      BY <1>2, <2>1, <3>1, <3>2 DEF HeldInv
  <2>4. CASE FindRegistry(th) \/ AddRegistry(th)
    <3>1. lock' = None /\ phase' = [phase EXCEPT ![th] = "registry"]
      BY <2>4 DEF FindRegistry, AddRegistry, Goto
    <3>2. ~AtTheMap(th)'
      BY <1>1, <3>1 DEF AtTheMap
    <3>3. QED
      BY <1>2, <2>1, <3>1, <3>2 DEF HeldInv
  <2>5. CASE /\ ~LockRegistries(th) /\ ~FindRegistry(th) /\ ~MissRegistry(th)
             /\ ~AddRegistry(th)
    <3>1. ~AtTheMap(th) /\ lock' = lock
      BY <1>3, <2>5, AtTheMapOrNot
    <3>2. DoesOne(th) => ~AtTheMap(th)'
      BY <1>1 DEF DoesOne, AtTheMap
    <3>3. DoesPart(th) => ~AtTheMap(th)'
      <4>1. CASE NewRuntime(th)
        BY <1>1, <4>1 DEF NewRuntime, Done, Goto, AtTheMap
      <4>2. CASE ~NewRuntime(th)
        <5>1. Done(th)
          BY <1>3, <2>5, <4>2 DEF Step, NewMock, ForceMock, SetStub, AddContractMock,
             SetDefaults, RefuseInput, CallCapability, KeepSecret, GetSecrets,
             AwaitResponse, AwaitSecrets, AwaitContext, AwaitSettled, Settle
        <5>2. QED
          BY <1>1, <5>1 DEF Done, AtTheMap
      <4>3. QED
        BY <4>1, <4>2
    <3>4. QED
      BY <1>2, <2>1, <3>1, <3>2, <3>3 DEF HeldInv
  <2>6. QED
    BY <2>2, <2>3, <2>4, <2>5
<1>4. CASE UNCHANGED <<script, next, phase, lock>>
  BY <1>4 DEF HeldInv, AtTheMap, NeedsRegistry, Op
<1>5. ASSUME NEW t \in Tests, Cleanup(t) PROVE UNCHANGED <<script, next, phase, lock>>
  BY <1>5 DEF Cleanup
<1>6. ASSUME \/ \E th \in Threads : Answering(th)
             \/ \E t \in Tests : EndTest(t)
             \/ UNCHANGED vars
      PROVE  UNCHANGED <<script, next, phase, lock>>
  <2>1. ASSUME NEW th \in Threads, Answering(th) PROVE UNCHANGED <<script, next, phase, lock>>
    BY <2>1 DEF Answering, InvokeMock, ReleaseMock, MockPanics, SendResponse, registryVars
  <2>2. QED
    BY <1>6, <2>1 DEF EndTest, vars, registryVars
<1>7. QED
  BY <1>3, <1>4, <1>5, <1>6 DEF Next, Finishing

\* Who waits, waits for what can go on.  registryLock is held only by a
\* goroutine that is in GetRegistry, where nothing holds it up.  The goroutine
\* of a call that has its answer finds room in the channel, awaited or not. And
\* a promise that is not settled waits for a function that has not returned, for
\* that goroutine, or for nothing: a response that was sent is in the channel
\* until its promise is settled.
NobodyIsForgotten ==
  /\ lock # None => lock \in Threads /\ AtTheMap(lock)
  /\ \A th \in Threads : \A k \in DOMAIN calls[th] :
       LET c == calls[th][k]
       IN  /\ c.phase = "answered" => Len(c.channel) < ChannelSize
           /\ c.outcome = NotSettled =>
                c.phase \in {"started", "answered"} \/ c.channel # <<>>

\* Of any tests, goroutines and scripts: no lock, full channel or lost response
\* stops a goroutine for ever (registry.go:15-28, runtime.go:173-214).
THEOREM NobodyWaitsForEver == Spec => []NobodyIsForgotten
<1>1. Init => HeldInv
  BY DEF Init, HeldInv, AtTheMap
<1>2. AllInv /\ HeldInv => NobodyIsForgotten
  <2> SUFFICES ASSUME AllInv, HeldInv PROVE NobodyIsForgotten
    OBVIOUS
  <2>1. ASSUME NEW th \in Threads, NEW k \in DOMAIN calls[th], NEW c, c = calls[th][k]
        PROVE  /\ c.phase = "answered" => Len(c.channel) < ChannelSize
               /\ c.outcome = NotSettled =>
                    c.phase \in {"started", "answered"} \/ c.channel # <<>>
    <3>1. GoodCall(th, c)
      BY <2>1 DEF AllInv, CallsInv
    <3>2. Len(<<>>) < ChannelSize
      BY DEF ChannelSize
    <3>3. c.phase = "answered" => Len(c.channel) < ChannelSize
      BY <3>1, <3>2 DEF GoodCall
    <3>4. QED
      BY <3>1, <3>3 DEF GoodCall, AnswerKept
  <2>2. QED
    BY <2>1 DEF NobodyIsForgotten, HeldInv
<1>3. AllInv /\ HeldInv /\ [Next]_vars => HeldInv'
  BY HeldStep
<1>4. QED
  BY <1>1, <1>2, <1>3, AllInvariant, PTL DEF Spec
=============================================================================
