----------------------- MODULE ReportVerificationProofs -----------------------
(***************************************************************************)
(* What a verification establishes, for any config, registries and         *)
(* reports: a verified report is a quorum of the list it was judged by, an *)
(* invalid one is a quorum of no list of its candidates, and a verified    *)
(* one stays verified.  The lists are followed from the registries, which  *)
(* change, through the two calls and the cache, to the verdict.            *)
(***************************************************************************)
EXTENDS VerifySigsProofs

Cached(c, e, d) == c[CacheKey(e, d)]

\* The registry of some environment of the chain held the entry.
FromChain(entry, c, d) ==
  \E e \in Environments : e.chain = c /\ ReadFrom(entry, e, d)

ChainInv ==
  /\ everDon \in [Environments -> [Dons -> SUBSET DonConfig]]
  /\ everKey \in [Environments -> [Nodes -> SUBSET Keys]]
  /\ \A e \in Environments, d \in Dons : don[e][d] \in everDon[e][d]
  /\ \A e \in Environments, n \in Nodes : key[e][n] \in everKey[e][n]

CacheInv ==
  \A c \in Chains, d \in Dons :
    cache[<<c, d>>] # NotCached => FromChain(cache[<<c, d>>], c, d)

ReadInv ==
  pc = "getNodesByP2PIds" =>
    /\ read \in everDon[Candidate][report.don] /\ read.nodes # {}
    /\ Cached(cache, Candidate, report.don) = NotCached

\* A list was read, and holds no quorum of the keys.
Refuted(c, e, d, keys) ==
  /\ Cached(c, e, d) # NotCached
  /\ Cardinality({k \in keys : Authorized(Cached(c, e, d).signers, k)})
       <= Cached(c, e, d).f

TriedInv ==
  pc # "idle" =>
    /\ candidates \subseteq CandidatesOf(config, report.don)
    /\ ~failed =>
         \A i \in CandidatesOf(config, report.don) \ candidates :
           Refuted(cache, Tried(config)[i], report.don, KeysOf(report.sigs))

InvalidInv ==
  verdict.result = "invalid" /\ pc = "idle" =>
    /\ verdict.config \in Configs /\ verdict.don \in Dons
    /\ \A i \in CandidatesOf(verdict.config, verdict.don) :
         Refuted(cache, Tried(verdict.config)[i], verdict.don, verdict.signers)

\* The candidate that verified the report is still to come while the report is
\* verified again with the same config.
VerifiedInv ==
  verdict.result = "verified" =>
    /\ report \in Reports /\ verdict.don = report.don
    /\ verdict.config \in Configs /\ verdict.entry \in Entry
    /\ Quorum(report.sigs, verdict.entry.f, verdict.entry.signers)
    /\ pc = "idle" =>
         \A i \in DOMAIN report.sigs :
           report.sigs[i].signer = verdict.entry.signers[report.sigs[i].key]
    /\ \E i \in CandidatesOf(verdict.config, report.don) :
         /\ Cached(cache, Tried(verdict.config)[i], report.don) = verdict.entry
         /\ pc # "idle" /\ config = verdict.config => i \in candidates

Inv ==
  /\ TypeOK /\ ChainInv /\ CacheInv /\ ReadInv /\ TriedInv
  /\ InvalidInv /\ VerifiedInv

\* What VerifiedStaysVerified says of a step.
Stays ==
  verdict.result = "verified" /\ ~parsing' /\ verdict'.result \notin {"verified", "none"}
    => verdict'.config # verdict.config

-----------------------------------------------------------------------------
(* Configs and candidates.                                                 *)

LEMMA ZoneType ==
  ASSUME NEW c \in Configs, NEW i \in DOMAIN c.zones
  PROVE  c.zones[i].environment \in Environments
<1>1. c.zones \in Seq(Zones)
  BY ConfigsAssumption
<1>2. c.zones[i] \in Zones
  BY <1>1
<1>3. QED
  BY <1>2 DEF Zones

LEMMA Joined ==
  ASSUME NEW S, NEW s \in Seq(S), NEW t \in Seq(S)
  PROVE  /\ DOMAIN (s \o t) = 1 .. Len(s) + Len(t)
         /\ \A i \in 1 .. Len(s) : (s \o t)[i] = s[i]
         /\ \A i \in Len(s) + 1 .. Len(s) + Len(t) : (s \o t)[i] = t[i - Len(s)]
<1>1. /\ Len(s) \in Nat /\ Len(t) \in Nat /\ s \o t \in Seq(S)
      /\ Len(s \o t) = Len(s) + Len(t)
  OBVIOUS
<1>2. DOMAIN (s \o t) = 1 .. Len(s) + Len(t)
  BY <1>1
<1>3. ASSUME NEW i \in 1 .. Len(s) PROVE (s \o t)[i] = s[i]
  BY <1>1
<1>4. ASSUME NEW i \in Len(s) + 1 .. Len(s) + Len(t) PROVE (s \o t)[i] = t[i - Len(s)]
  <2>1. i \in 1 .. Len(s) + Len(t) /\ i > Len(s)
    BY <1>1
  <2>2. QED
    BY <1>1, <2>1
<1>5. QED
  BY <1>2, <1>3, <1>4

LEMMA TriedType ==
  ASSUME NEW c \in Configs
  PROVE  /\ Tried(c) \in Seq(Environments) /\ DOMAIN Tried(c) \in SUBSET Nat
         /\ \A i \in DOMAIN Tried(c) : Tried(c)[i] \in Environments
<1> DEFINE z == [i \in DOMAIN c.zones |-> c.zones[i].environment]
<1>1. c.zones \in Seq(Zones) /\ c.environments \in Seq(Environments)
  BY ConfigsAssumption
<1>2. z \in Seq(Environments)
  <2>1. \A i \in DOMAIN c.zones : c.zones[i].environment \in Environments
    BY ZoneType
  <2>2. DOMAIN c.zones = 1 .. Len(c.zones) /\ Len(c.zones) \in Nat
    BY <1>1
  <2>3. z \in [1 .. Len(c.zones) -> Environments]
    BY <2>1, <2>2
  <2> HIDE DEF z
  <2>4. QED
    BY <2>2, <2>3
<1>3. Tried(c) = z \o c.environments
  BY DEF Tried
<1> HIDE DEF z
<1>4. Tried(c) \in Seq(Environments)
  BY <1>1, <1>2, <1>3
<1>5. QED
  BY <1>4

\* The candidates are the accepted environments.
LEMMA AcceptedAreCandidates ==
  ASSUME NEW c \in Configs, NEW d
  PROVE  Accepted(c, d) = {Tried(c)[i] : i \in CandidatesOf(c, d)}
<1> DEFINE z == [i \in DOMAIN c.zones |-> c.zones[i].environment]
           m == Len(c.zones)
           n == Len(c.environments)
<1>1. c.zones \in Seq(Zones) /\ c.environments \in Seq(Environments)
  BY ConfigsAssumption
<1>2. /\ m \in Nat /\ DOMAIN c.zones = 1 .. m
      /\ n \in Nat /\ DOMAIN c.environments = 1 .. n
  BY <1>1
<1>3. z \in Seq(Environments) /\ Len(z) = m
  <2>1. \A i \in DOMAIN c.zones : c.zones[i].environment \in Environments
    BY ZoneType
  <2>2. z \in [1 .. m -> Environments] /\ DOMAIN z = 1 .. m
    BY <1>2, <2>1
  <2> HIDE DEF z, m
  <2>3. QED
    BY <1>2, <2>2
<1>4. /\ DOMAIN Tried(c) = 1 .. m + n
      /\ \A i \in 1 .. m : Tried(c)[i] = c.zones[i].environment
      /\ \A i \in m + 1 .. m + n : Tried(c)[i] = c.environments[i - m]
  <2>1. Tried(c) = z \o c.environments
    BY DEF Tried
  <2>2. \A i \in 1 .. m : z[i] = c.zones[i].environment
    BY <1>2
  <2> HIDE DEF z
  <2> DEFINE t == c.environments
  <2>3. t \in Seq(Environments) /\ Len(t) = n
    BY <1>1
  <2> HIDE DEF t, n, m
  <2>4. /\ DOMAIN (z \o t) = 1 .. Len(z) + Len(t)
        /\ \A i \in 1 .. Len(z) : (z \o t)[i] = z[i]
        /\ \A i \in Len(z) + 1 .. Len(z) + Len(t) : (z \o t)[i] = t[i - Len(z)]
    BY <1>3, <2>3, Joined
  <2>5. QED
    BY <1>3, <2>1, <2>2, <2>3, <2>4 DEF t
<1>5. Accepted(c, d) =
        {c.zones[i].environment : i \in {i \in 1 .. m : c.zones[i].don = d}}
          \cup {c.environments[i] : i \in 1 .. n}
  BY <1>2 DEF Accepted, ToSet
<1>6. CandidatesOf(c, d) =
        {i \in 1 .. m + n : i \in 1 .. m => c.zones[i].don = d}
  BY <1>2, <1>4 DEF CandidatesOf, OfDon
<1> HIDE DEF m, n
<1>7. ASSUME NEW e \in Accepted(c, d) PROVE \E i \in CandidatesOf(c, d) : Tried(c)[i] = e
  <2>1. CASE \E i \in 1 .. m : c.zones[i].don = d /\ e = c.zones[i].environment
    <3>1. PICK i \in 1 .. m : c.zones[i].don = d /\ e = c.zones[i].environment
      BY <2>1
    <3>2. i \in 1 .. m + n
      BY <1>2
    <3>3. QED
      BY <3>1, <3>2, <1>4, <1>6
  <2>2. CASE \E i \in 1 .. n : e = c.environments[i]
    <3>1. PICK i \in 1 .. n : e = c.environments[i]
      BY <2>2
    <3>2. /\ m + i \in 1 .. m + n /\ m + i \in m + 1 .. m + n /\ (m + i) - m = i
          /\ m + i \notin 1 .. m
      BY <1>2
    <3>3. m + i \in CandidatesOf(c, d) /\ Tried(c)[m + i] = e
      BY <3>1, <3>2, <1>4, <1>6
    <3>4. QED
      BY <3>3
  <2>3. QED
    BY <1>5, <2>1, <2>2
<1>8. ASSUME NEW i \in CandidatesOf(c, d) PROVE Tried(c)[i] \in Accepted(c, d)
  <2>1. CASE i \in 1 .. m
    BY <2>1, <1>4, <1>5, <1>6
  <2>2. CASE i \notin 1 .. m
    <3>1. i \in m + 1 .. m + n /\ i - m \in 1 .. n
      BY <2>2, <1>2, <1>6
    <3>2. QED
      BY <3>1, <1>4, <1>5
  <2>3. QED
    BY <2>1, <2>2
<1>9. QED
  BY <1>7, <1>8

\* The candidate whose turn it is.
LEMMA PlaceType ==
  ASSUME TypeOK, pc # "idle"
  PROVE  /\ config \in Configs /\ report \in Reports /\ report.don \in Dons
         /\ report.sigs \in Seq(Signature)
         /\ candidates \in SUBSET Nat
         /\ Place \in candidates /\ \A j \in candidates : Place <= j
         /\ Candidate \in Environments
         /\ CacheKey(Candidate, report.don) \in Chains \X Dons
<1>1. /\ config \in Configs /\ report \in Reports
      /\ candidates # {} /\ candidates \subseteq DOMAIN Tried(config)
  BY DEF TypeOK
<1>2. candidates \in SUBSET Nat
  BY <1>1, TriedType
<1>3. \E m \in candidates : \A j \in candidates : m <= j
  BY <1>1, <1>2, Least
<1>4. Place \in candidates /\ \A j \in candidates : Place <= j
  BY <1>3 DEF Place
<1>5. Candidate \in Environments
  BY <1>1, <1>4, TriedType DEF Candidate
<1>6. QED
  BY <1>1, <1>2, <1>4, <1>5 DEF Reports, CacheKey, Environments

-----------------------------------------------------------------------------
(* What the two ends of a candidate do: the next one, or a verdict.        *)

\* The cache after a candidate: entries are added, and none is replaced.
Grown ==
  /\ cache' \in [Chains \X Dons -> Entry \cup {NotCached}]
  /\ CacheInv'
  /\ \A c \in Chains \X Dons : cache[c] # NotCached => cache'[c] = cache[c]

LEMMA GrownKeeps ==
  ASSUME Grown, NEW e \in Environments, NEW d \in Dons
  PROVE  /\ Cached(cache, e, d) # NotCached => Cached(cache', e, d) = Cached(cache, e, d)
         /\ \A keys : Refuted(cache, e, d, keys) => Refuted(cache', e, d, keys)
<1>1. CacheKey(e, d) \in Chains \X Dons
  BY DEF CacheKey, Environments
<1>2. Cached(cache, e, d) # NotCached => Cached(cache', e, d) = Cached(cache, e, d)
  BY <1>1 DEF Grown, Cached
<1>3. QED
  BY <1>2 DEF Refuted

\* The registries are the same before and after, and nothing is being read.
Between == UNCHANGED <<chainVars, parsing>> /\ read' = NoRead

LEMMA BetweenKeeps == ChainInv /\ Between => ChainInv'
BY DEF ChainInv, Between, chainVars

LEMMA WithSigs ==
  ASSUME NEW r \in Reports, NEW sigs \in Seq(Signature)
  PROVE  /\ [r EXCEPT !.sigs = sigs] \in Reports
         /\ [r EXCEPT !.sigs = sigs].sigs = sigs
         /\ [r EXCEPT !.sigs = sigs].don = r.don
BY DEF Reports

\* A verdict is given.
LEMMA EndKeeps ==
  ASSUME Inv, pc # "idle", Between, Grown,
         NEW result \in {"verified", "invalid", "unread"},
         NEW sigs \in Seq(Signature), NEW entry \in Entry \cup {NotCached},
         End(result, sigs, entry),
         result = "verified" =>
           /\ entry \in Entry /\ Quorum(sigs, entry.f, entry.signers)
           /\ \A i \in DOMAIN sigs : sigs[i].signer = entry.signers[sigs[i].key]
           /\ Cached(cache', Candidate, report.don) = entry,
         result = "invalid" =>
           \A i \in CandidatesOf(config, report.don) :
             Refuted(cache', Tried(config)[i], report.don, KeysOf(report.sigs))
  PROVE  Inv'
<1>1. /\ pc' = "idle" /\ candidates' = {} /\ failed' = FALSE /\ config' = None
      /\ verdict'.result = result /\ verdict'.don = report.don
      /\ verdict'.signers = KeysOf(report.sigs) /\ verdict'.entry = entry
      /\ verdict'.config = config
      /\ report' = IF parsing /\ result # "verified" THEN NoReport
                   ELSE [report EXCEPT !.sigs = sigs]
  BY DEF End, Verdict, SignersOf, KeysOf
<1>2. /\ config \in Configs /\ report \in Reports /\ report.don \in Dons
      /\ Place \in candidates /\ Candidate \in Environments
  BY PlaceType DEF Inv
<1>3. /\ [report EXCEPT !.sigs = sigs] \in Reports
      /\ [report EXCEPT !.sigs = sigs].sigs = sigs
      /\ [report EXCEPT !.sigs = sigs].don = report.don
  BY <1>2, WithSigs
<1>4. TypeOK'
  BY <1>1, <1>3 DEF Inv, TypeOK, Between, chainVars, Grown, Results
<1>5. ChainInv'
  BY BetweenKeeps DEF Inv
<1>6. CacheInv'
  BY DEF Grown
<1>7. ReadInv' /\ TriedInv'
  BY <1>1 DEF ReadInv, TriedInv
<1>8. InvalidInv'
  BY <1>1, <1>2 DEF InvalidInv
<1>9. VerifiedInv'
  <2> SUFFICES ASSUME result = "verified" PROVE VerifiedInv'
    BY <1>1 DEF VerifiedInv
  <2>1. report' \in Reports /\ report'.sigs = sigs /\ report'.don = report.don
    BY <1>1, <1>3
  <2>2. Place \in CandidatesOf(config, report.don)
    BY <1>2 DEF Inv, TriedInv
  <2>3. Cached(cache', Tried(config)[Place], report.don) = entry
    BY DEF Candidate
  <2>4. QED
    BY <1>1, <1>2, <2>1, <2>2, <2>3 DEF VerifiedInv
<1>10. QED
  BY <1>4, <1>5, <1>6, <1>7, <1>8, <1>9 DEF Inv

\* The candidate of this step is not the one that verified the report before.
NotTheOne ==
  verdict.result = "verified" /\ config = verdict.config =>
    Cached(cache, Candidate, report.don) # verdict.entry

\* The next candidate.
LEMMA GoOnKeeps ==
  ASSUME Inv, pc # "idle", Between, Grown, NotTheOne,
         NEW couldNotRead \in BOOLEAN,
         NEW sigs \in Seq(Signature), NEW entry \in Entry \cup {NotCached},
         GoOn(couldNotRead, sigs, entry),
         DOMAIN sigs = DOMAIN report.sigs,
         \A i \in DOMAIN sigs : sigs[i].key = report.sigs[i].key,
         ~couldNotRead =>
           ~failed /\ Refuted(cache', Candidate, report.don, KeysOf(report.sigs))
  PROVE  Inv' /\ Stays
<1>1. /\ config \in Configs /\ report \in Reports /\ report.don \in Dons
      /\ candidates \in SUBSET Nat
      /\ Place \in candidates /\ Candidate \in Environments
      /\ \A i \in CandidatesOf(config, report.don) : Tried(config)[i] \in Environments
  BY PlaceType, TriedType DEF Inv, CandidatesOf
<1>2. /\ [report EXCEPT !.sigs = sigs] \in Reports
      /\ [report EXCEPT !.sigs = sigs].sigs = sigs
      /\ [report EXCEPT !.sigs = sigs].don = report.don
  BY <1>1, WithSigs
<1>3. KeysOf(sigs) = KeysOf(report.sigs)
  BY DEF KeysOf
<1>4. ~couldNotRead =>
        \A i \in CandidatesOf(config, report.don) \ (candidates \ {Place}) :
          Refuted(cache', Tried(config)[i], report.don, KeysOf(report.sigs))
  <2> SUFFICES ASSUME ~couldNotRead,
                      NEW i \in CandidatesOf(config, report.don), i \notin candidates \ {Place}
               PROVE  Refuted(cache', Tried(config)[i], report.don, KeysOf(report.sigs))
    OBVIOUS
  <2>1. CASE i = Place
    BY <2>1 DEF Candidate
  <2>2. CASE i \notin candidates
    <3>1. Refuted(cache, Tried(config)[i], report.don, KeysOf(report.sigs))
      BY <2>2 DEF Inv, TriedInv
    <3>2. QED
      BY <1>1, <3>1, GrownKeeps
  <2>3. QED
    BY <2>1, <2>2
\* Where the report was verified before, that candidate is still to come.
<1>5. ASSUME verdict.result = "verified"
      PROVE  \E i \in CandidatesOf(verdict.config, report.don) :
               /\ Cached(cache', Tried(verdict.config)[i], report.don) = verdict.entry
               /\ config = verdict.config => i \in candidates /\ i # Place
  <2>1. /\ verdict.entry \in Entry /\ verdict.config \in Configs
        /\ \E i \in CandidatesOf(verdict.config, report.don) :
             /\ Cached(cache, Tried(verdict.config)[i], report.don) = verdict.entry
             /\ config = verdict.config => i \in candidates
    BY <1>5 DEF Inv, VerifiedInv
  <2>2. PICK i \in CandidatesOf(verdict.config, report.don) :
          /\ Cached(cache, Tried(verdict.config)[i], report.don) = verdict.entry
          /\ config = verdict.config => i \in candidates
    BY <2>1
  <2>3. Tried(verdict.config)[i] \in Environments
    BY <2>1, TriedType DEF CandidatesOf
  <2>4. Cached(cache', Tried(verdict.config)[i], report.don) = verdict.entry
    <3>1. Cached(cache, Tried(verdict.config)[i], report.don) # NotCached
      BY <2>1, <2>2, NamesAssumption DEF NotCached
    <3>2. QED
      BY <1>1, <2>2, <2>3, <3>1, GrownKeeps
  <2>5. config = verdict.config => i # Place
    BY <1>5, <2>2 DEF NotTheOne, Candidate
  <2>6. QED
    BY <2>2, <2>4, <2>5
<1>6. CASE candidates = {Place}
  <2>1. End(IF couldNotRead THEN "unread" ELSE "invalid", sigs, entry)
    BY <1>6 DEF GoOn
  <2>2. CandidatesOf(config, report.don) \ (candidates \ {Place}) = CandidatesOf(config, report.don)
    BY <1>6
  <2>3. Inv'
    <3>1. CASE couldNotRead
      BY <2>1, <3>1, EndKeeps
    <3>2. CASE ~couldNotRead
      BY <1>4, <2>1, <2>2, <3>2, EndKeeps
    <3>3. QED
      BY <3>1, <3>2
  <2>4. Stays
    <3>1. verdict'.config = config
      BY <2>1 DEF End, Verdict
    <3>2. verdict.result = "verified" => config # verdict.config
      BY <1>5, <1>6
    <3>3. QED
      BY <3>1, <3>2 DEF Stays
  <2>5. QED
    BY <2>3, <2>4
<1>7. CASE candidates # {Place}
  <2>1. /\ pc' = "lookup" /\ candidates' = candidates \ {Place}
        /\ failed' = couldNotRead /\ report' = [report EXCEPT !.sigs = sigs]
        /\ config' = config /\ verdict' = verdict
    BY <1>7 DEF GoOn
  <2>2. candidates' # {}
    BY <1>1, <1>7, <2>1
  <2>3. report' \in Reports /\ report'.sigs = sigs /\ report'.don = report.don
    BY <1>2, <2>1
  <2>4. TypeOK'
    BY <2>1, <2>2, <2>3 DEF Inv, TypeOK, Between, chainVars, Grown
  <2>5. ChainInv'
    BY BetweenKeeps DEF Inv
  <2>6. CacheInv' /\ ReadInv' /\ InvalidInv'
    BY <2>1 DEF Grown, ReadInv, InvalidInv
  <2>7. TriedInv'
    BY <1>3, <1>4, <2>1, <2>3 DEF Inv, TriedInv
  <2>8. VerifiedInv'
    <3> SUFFICES ASSUME verdict.result = "verified" PROVE VerifiedInv'
      BY <2>1 DEF VerifiedInv
    <3>1. /\ verdict.don = report.don /\ verdict.config \in Configs
          /\ verdict.entry \in Entry
          /\ Quorum(report.sigs, verdict.entry.f, verdict.entry.signers)
      BY DEF Inv, VerifiedInv
    <3>2. Quorum(sigs, verdict.entry.f, verdict.entry.signers)
      BY <3>1 DEF Quorum
    <3>3. QED
      BY <1>5, <2>1, <2>3, <3>1, <3>2 DEF VerifiedInv
  <2>9. Stays
    BY <2>1 DEF Stays
  <2>10. QED
    BY <2>4, <2>5, <2>6, <2>7, <2>8, <2>9 DEF Inv
<1>8. QED
  BY <1>6, <1>7

\* A candidate is judged by an entry of the cache, old or new.
LEMMA JudgeKeeps ==
  ASSUME Inv, pc # "idle", Between, Grown, NEW entry \in Entry,
         Cached(cache', Candidate, report.don) = entry,
         \/ Cached(cache, Candidate, report.don) = entry
         \/ Cached(cache, Candidate, report.don) = NotCached,
         Judge(entry)
  PROVE  Inv' /\ Stays
<1> DEFINE v == VerifySigs(report.sigs, entry.f, entry.signers)
<1>1. /\ config \in Configs /\ report \in Reports /\ report.sigs \in Seq(Signature)
      /\ report.don \in Dons
  BY PlaceType DEF Inv
<1>2. entry.f \in Nat /\ entry.signers \in Lists /\ entry # NotCached
  BY BoundsAssumption, NamesAssumption DEF Entry, Lists, NotCached
<1>3. IF v.ok THEN End("verified", v.sigs, entry) ELSE GoOn(failed, v.sigs, entry)
  BY DEF Judge
<1>4. CASE v.ok
  <2>1. /\ v.sigs \in Seq(Signature) /\ Len(v.sigs) = entry.f + 1
        /\ Quorum(v.sigs, entry.f, entry.signers)
        /\ \A i \in 1 .. entry.f + 1 : v.sigs[i].signer = entry.signers[v.sigs[i].key]
    BY <1>1, <1>2, <1>4, AcceptedSigs
  <2>2. DOMAIN v.sigs = 1 .. entry.f + 1
    BY <2>1 DEF Quorum
  <2>3. End("verified", v.sigs, entry)
    BY <1>3, <1>4
  <2> HIDE DEF v
  <2>4. Inv'
    BY <2>1, <2>2, <2>3, EndKeeps
  <2>5. verdict'.result = "verified"
    BY <2>3 DEF End, Verdict
  <2>6. QED
    BY <2>4, <2>5 DEF Stays
<1>5. CASE ~v.ok
  <2>1. /\ v.sigs \in Seq(Signature) /\ DOMAIN v.sigs = DOMAIN report.sigs
        /\ \A i \in DOMAIN report.sigs : v.sigs[i].key = report.sigs[i].key
    BY <1>1, <1>2, <1>5, RefusedSigs
  <2>2. Cardinality({k \in KeysOf(report.sigs) : Authorized(entry.signers, k)}) <= entry.f
    BY <1>1, <1>2, <1>5, NoQuorum
  <2>3. Refuted(cache', Candidate, report.don, KeysOf(report.sigs))
    BY <1>2, <2>2 DEF Refuted
  <2>4. NotTheOne
    <3> SUFFICES ASSUME verdict.result = "verified", config = verdict.config,
                        Cached(cache, Candidate, report.don) = verdict.entry
                 PROVE  FALSE
      BY DEF NotTheOne
    <3>1. /\ verdict.entry \in Entry
          /\ Quorum(report.sigs, verdict.entry.f, verdict.entry.signers)
      BY DEF Inv, VerifiedInv
    <3>2. verdict.entry = entry
      BY <3>1, NamesAssumption DEF NotCached
    <3>3. QED
      BY <1>1, <1>2, <1>5, <3>1, <3>2, QuorumIsAccepted
  <2>5. GoOn(failed, v.sigs, entry) /\ failed \in BOOLEAN
    BY <1>3, <1>5 DEF Inv, TypeOK
  <2> HIDE DEF v
  <2>6. QED
    BY <2>1, <2>3, <2>4, <2>5, GoOnKeeps
<1>6. QED
  BY <1>4, <1>5

\* A candidate cannot be read.
LEMMA FailureKeeps ==
  ASSUME Inv, pc # "idle", Between, UNCHANGED cache,
         Cached(cache, Candidate, report.don) = NotCached,
         GoOn(TRUE, report.sigs, NotCached)
  PROVE  Inv' /\ Stays
<1>1. report.sigs \in Seq(Signature)
  BY PlaceType DEF Inv
<1>2. Grown
  <2>1. CacheInv'
    BY DEF Inv, CacheInv, Between, chainVars, FromChain, ReadFrom
  <2>2. QED
    BY <2>1 DEF Inv, TypeOK, Grown
<1>3. NotTheOne
  BY NamesAssumption DEF Inv, VerifiedInv, NotTheOne, NotCached
<1>4. QED
  BY <1>1, <1>2, <1>3, GoOnKeeps

\* An entry is put in the cache.
LEMMA StoreGrows ==
  ASSUME Inv, pc # "idle", Between, NEW entry \in Entry,
         Cached(cache, Candidate, report.don) = NotCached,
         cache' = [cache EXCEPT ![CacheKey(Candidate, report.don)] = Store(@, entry)],
         ReadFrom(entry, Candidate, report.don)
  PROVE  Grown /\ Cached(cache', Candidate, report.don) = entry
<1> DEFINE k == CacheKey(Candidate, report.don)
<1>1. k \in Chains \X Dons /\ Candidate \in Environments /\ report.don \in Dons
  BY PlaceType DEF Inv
<1>2. k = <<Candidate.chain, report.don>>
  BY DEF CacheKey
<1>3. cache' = [cache EXCEPT ![k] = entry]
  BY DEF Store
<1>4. cache \in [Chains \X Dons -> Entry \cup {NotCached}]
  BY DEF Inv, TypeOK
<1> HIDE DEF k
<1>5. \A x \in Chains \X Dons : cache'[x] = IF x = k THEN entry ELSE cache[x]
  BY <1>3, <1>4
<1>6. cache' \in [Chains \X Dons -> Entry \cup {NotCached}]
  BY <1>3, <1>4
<1>7. CacheInv'
  <2> SUFFICES ASSUME NEW c \in Chains, NEW d \in Dons, cache'[<<c, d>>] # NotCached
               PROVE  FromChain(cache[<<c, d>>], c, d)'
    BY DEF CacheInv
  <2>1. UNCHANGED <<everDon, everKey>> /\ <<c, d>> \in Chains \X Dons
    BY DEF Between, chainVars
  <2>2. CASE <<c, d>> = k
    <3>1. c = Candidate.chain /\ d = report.don /\ cache'[<<c, d>>] = entry
      BY <1>1, <1>2, <1>5, <2>2
    <3>2. FromChain(entry, c, d)
      BY <1>1, <3>1 DEF FromChain
    <3>3. QED
      BY <2>1, <3>1, <3>2 DEF FromChain, ReadFrom
  <2>3. CASE <<c, d>> # k
    <3>1. cache'[<<c, d>>] = cache[<<c, d>>] /\ FromChain(cache[<<c, d>>], c, d)
      BY <1>5, <2>1, <2>3 DEF Inv, CacheInv
    <3>2. QED
      BY <2>1, <3>1 DEF FromChain, ReadFrom
  <2>4. QED
    BY <2>2, <2>3
<1>8. QED
  BY <1>1, <1>5, <1>6, <1>7 DEF Grown, Cached, k

-----------------------------------------------------------------------------
(* The steps.                                                              *)

LEMMA InvInit == Init => Inv
<1> SUFFICES ASSUME Init PROVE Inv
  OBVIOUS
<1>1. PICK s \in Deployments : don = s.don /\ key = s.key
  BY DEF Init
<1>2. /\ don \in [Environments -> [Dons -> DonConfig]]
      /\ key \in [Environments -> NodeKeys]
  BY <1>1, DeploymentsAssumption
<1>3. /\ \A e \in Environments, d \in Dons : don[e][d] \in DonConfig
      /\ \A e \in Environments, n \in Nodes : key[e][n] \in Keys
  BY <1>2 DEF NodeKeys
<1>4. TypeOK
  <2>1. changes \in 0 .. MaxChanges
    BY BoundsAssumption DEF Init
  <2>2. cache \in [Chains \X Dons -> Entry \cup {NotCached}]
    BY DEF Init
  <2>3. verdict.result \in Results /\ verdict.entry \in Entry \cup {NotCached}
    BY DEF Init, NoVerdict, Results
  <2>4. /\ report = NoReport /\ parsing \in BOOLEAN /\ pc = "idle" /\ config = None
        /\ candidates = {} /\ read = NoRead /\ failed \in BOOLEAN
    BY DEF Init
  <2>5. QED
    BY <1>2, <2>1, <2>2, <2>3, <2>4 DEF TypeOK
<1>5. ChainInv
  <2>1. everDon \in [Environments -> [Dons -> SUBSET DonConfig]]
    BY <1>3 DEF Init
  <2>2. everKey \in [Environments -> [Nodes -> SUBSET Keys]]
    BY <1>3 DEF Init
  <2>3. QED
    BY <2>1, <2>2 DEF Init, ChainInv
<1>6. CacheInv /\ ReadInv /\ TriedInv /\ InvalidInv /\ VerifiedInv
  BY DEF Init, CacheInv, ReadInv, TriedInv, InvalidInv, VerifiedInv, NoVerdict
<1>7. QED
  BY <1>4, <1>5, <1>6 DEF Inv

\* The registries, the cache and what was read stay as they are.
LEMMA RestKeeps ==
  ASSUME Inv, UNCHANGED <<chainVars, cache>>
  PROVE  ChainInv' /\ CacheInv'
<1>1. /\ don' = don /\ key' = key /\ changes' = changes
      /\ everDon' = everDon /\ everKey' = everKey /\ cache' = cache
  BY DEF chainVars
<1>2. ChainInv'
  BY <1>1 DEF Inv, ChainInv
<1>3. CacheInv'
  BY <1>1 DEF Inv, CacheInv, FromChain, ReadFrom
<1>4. QED
  BY <1>2, <1>3

LEMMA UseCacheKeeps == ASSUME Inv, UseCache PROVE Inv' /\ Stays
<1> DEFINE entry == cache[CacheKey(Candidate, report.don)]
<1>1. /\ pc = "lookup" /\ entry # NotCached /\ Judge(entry)
      /\ UNCHANGED <<chainVars, cache, parsing, read>>
  BY DEF UseCache
<1>2. CacheKey(Candidate, report.don) \in Chains \X Dons
  BY <1>1, PlaceType DEF Inv
<1>3. entry \in Entry
  BY <1>1, <1>2 DEF Inv, TypeOK
<1>4. read = NoRead
  BY <1>1 DEF Inv, TypeOK
<1>5. Between
  BY <1>1, <1>4 DEF Between
<1>6. Grown
  <2>1. CacheInv'
    BY <1>1, RestKeeps
  <2>2. QED
    BY <1>1, <2>1 DEF Inv, TypeOK, Grown
<1>7. Cached(cache, Candidate, report.don) = entry
  BY DEF Cached
<1>8. Cached(cache', Candidate, report.don) = entry
  BY <1>1 DEF Cached
<1> HIDE DEF entry
<1>9. QED
  BY <1>1, <1>3, <1>5, <1>6, <1>7, <1>8, JudgeKeeps

LEMMA GetDONKeeps == ASSUME Inv, GetDON PROVE Inv' /\ Stays
<1> DEFINE k == CacheKey(Candidate, report.don)
           now == don[Candidate][report.don]
           empty == [f |-> now.f, signers |-> NoList]
<1>1. /\ pc = "lookup" /\ cache[k] = NotCached /\ UNCHANGED <<chainVars, parsing>>
  BY DEF GetDON
<1>2. /\ Candidate \in Environments /\ report.don \in Dons /\ k \in Chains \X Dons
      /\ report.sigs \in Seq(Signature)
  BY <1>1, PlaceType DEF Inv
<1>3. now \in DonConfig /\ now.f \in 0 .. MaxF /\ now.nodes \in SUBSET Nodes
  BY <1>2 DEF Inv, TypeOK, DonConfig
<1>4. Cached(cache, Candidate, report.don) = NotCached
  BY <1>1 DEF Cached
<1>5. read = NoRead
  BY <1>1 DEF Inv, TypeOK
<1>6. CASE GoOn(TRUE, report.sigs, NotCached) /\ UNCHANGED <<cache, read>>
  BY <1>1, <1>4, <1>5, <1>6, FailureKeeps DEF Between
<1>7. CASE /\ now.nodes = {}
           /\ cache' = [cache EXCEPT ![k] = Store(@, empty)] /\ Judge(empty)
           /\ UNCHANGED read
  <2>1. empty \in Entry /\ empty.signers = NoList
    BY <1>3 DEF Entry
  <2>2. Between
    BY <1>1, <1>5, <1>7 DEF Between
  <2>3. now \in everDon[Candidate][report.don]
    BY <1>2 DEF Inv, ChainInv
  <2>4. ReadFrom(empty, Candidate, report.don)
    BY <1>7, <2>3 DEF ReadFrom
  <2> HIDE DEF empty
  <2>5. Grown /\ Cached(cache', Candidate, report.don) = empty
    BY <1>1, <1>4, <1>7, <2>1, <2>2, <2>4, StoreGrows
  <2>6. QED
    BY <1>1, <1>4, <1>7, <2>1, <2>2, <2>5, JudgeKeeps
<1>8. CASE /\ now.nodes # {} /\ read' = now /\ pc' = "getNodesByP2PIds"
           /\ UNCHANGED <<cache, config, candidates, failed, report, verdict>>
  <2>1. TypeOK'
    BY <1>1, <1>3, <1>8 DEF Inv, TypeOK, chainVars
  <2>2. ChainInv' /\ CacheInv'
    BY <1>1, <1>8, RestKeeps
  <2>3. ReadInv'
    <3>1. Candidate' = Candidate /\ report' = report /\ everDon' = everDon
      BY <1>1, <1>8 DEF Candidate, Place, chainVars
    <3>2. read' \in everDon[Candidate][report.don] /\ read'.nodes # {}
      BY <1>2, <1>8 DEF Inv, ChainInv
    <3>3. Cached(cache', Candidate, report.don) = NotCached
      BY <1>4, <1>8
    <3>4. QED
      BY <3>1, <3>2, <3>3 DEF ReadInv
  <2>4. TriedInv' /\ InvalidInv' /\ VerifiedInv'
    BY <1>1, <1>8 DEF Inv, TriedInv, InvalidInv, VerifiedInv
  <2>5. Stays
    BY <1>8 DEF Stays
  <2>6. QED
    BY <2>1, <2>2, <2>3, <2>4, <2>5 DEF Inv
<1>9. QED
  BY <1>6, <1>7, <1>8 DEF GetDON

LEMMA GetNodesKeeps == ASSUME Inv, GetNodesByP2PIds PROVE Inv' /\ Stays
<1> DEFINE k == CacheKey(Candidate, report.don)
           signersOf(decoded) ==
             [s \in {key[Candidate][n] : n \in decoded} |->
                CHOOSE n \in decoded : key[Candidate][n] = s]
           entryOf(decoded) == [f |-> read.f, signers |-> signersOf(decoded)]
<1>1. /\ pc = "getNodesByP2PIds" /\ read' = NoRead /\ UNCHANGED <<chainVars, parsing>>
      /\ \/ GoOn(TRUE, report.sigs, NotCached) /\ UNCHANGED cache
         \/ \E decoded \in SUBSET read.nodes :
              /\ cache' = [cache EXCEPT ![k] = Store(@, entryOf(decoded))]
              /\ Judge(entryOf(decoded))
  BY DEF GetNodesByP2PIds
<1>2. /\ Candidate \in Environments /\ report.don \in Dons /\ read \in DonConfig
      /\ Cached(cache, Candidate, report.don) = NotCached
      /\ read \in everDon[Candidate][report.don] /\ read.nodes # {}
  BY <1>1, PlaceType DEF Inv, TypeOK, ReadInv
<1>3. Between
  BY <1>1 DEF Between
<1>4. CASE GoOn(TRUE, report.sigs, NotCached) /\ UNCHANGED cache
  BY <1>1, <1>2, <1>3, <1>4, FailureKeeps
<1>5. ASSUME NEW decoded \in SUBSET read.nodes,
             cache' = [cache EXCEPT ![k] = Store(@, entryOf(decoded))],
             Judge(entryOf(decoded))
      PROVE  Inv' /\ Stays
  <2> DEFINE entry == entryOf(decoded)
             signers == signersOf(decoded)
             K == {key[Candidate][n] : n \in decoded}
  <2>1. \A n \in Nodes : key[Candidate][n] \in Keys /\ key[Candidate][n] \in everKey[Candidate][n]
    BY <1>2 DEF Inv, TypeOK, ChainInv, NodeKeys
  <2>2. decoded \subseteq Nodes
    BY <1>2 DEF DonConfig
  <2>3. K \subseteq Keys
    BY <2>1, <2>2
  <2>4. ASSUME NEW s \in K PROVE signers[s] \in decoded /\ key[Candidate][signers[s]] = s
    <3>1. \E n \in decoded : key[Candidate][n] = s
      OBVIOUS
    <3>2. signers[s] = CHOOSE n \in decoded : key[Candidate][n] = s
      OBVIOUS
    <3>3. QED
      BY <3>1, <3>2
  <2>5. DOMAIN signers = K /\ signers = [s \in K |-> signers[s]]
    OBVIOUS
  <2> HIDE DEF signers, K
  <2>6. signers \in SignerLists
    <3>1. signers \in [K -> Nodes]
      BY <2>2, <2>4, <2>5
    <3>2. QED
      BY <2>3, <3>1 DEF SignerLists
  <2>7. entry = [f |-> read.f, signers |-> signers]
    BY DEF signers
  <2> HIDE DEF entry
  <2>8. entry \in Entry /\ entry.f = read.f /\ entry.signers = signers
    BY <1>2, <2>6, <2>7 DEF Entry, DonConfig
  <2>9. ReadFrom(entry, Candidate, report.don)
    <3>1. signers # NoList
      BY <2>6, NamesAssumption DEF NoList
    <3>2. \A s \in DOMAIN signers :
            signers[s] \in read.nodes /\ s \in everKey[Candidate][signers[s]]
      BY <2>1, <2>2, <2>4, <2>5
    <3>3. QED
      BY <1>2, <2>8, <3>1, <3>2 DEF ReadFrom
  <2>10. cache' = [cache EXCEPT ![k] = Store(@, entry)] /\ Judge(entry)
    BY <1>5 DEF entry
  <2>11. Grown /\ Cached(cache', Candidate, report.don) = entry
    BY <1>1, <1>2, <1>3, <2>8, <2>9, <2>10, StoreGrows
  <2>12. QED
    BY <1>1, <1>2, <1>3, <2>8, <2>10, <2>11, JudgeKeeps
<1>6. QED
  BY <1>1, <1>4, <1>5

LEMMA FreshType ==
  ASSUME NEW raw \in RawReports
  PROVE  Fresh(raw) \in Reports
<1> DEFINE sigs == [i \in DOMAIN raw.keys |->
                      [key |-> raw.keys[i], signer |-> Unattributed]]
<1>1. raw.don \in Dons /\ raw.keys \in Seq(Keys \cup {Unrecoverable})
  BY RawReportsAssumption
<1>2. Len(raw.keys) \in Nat /\ DOMAIN raw.keys = 1 .. Len(raw.keys)
  BY <1>1
<1>3. ASSUME NEW i \in 1 .. Len(raw.keys)
      PROVE  [key |-> raw.keys[i], signer |-> Unattributed] \in Signature
  <2>1. raw.keys[i] \in Keys \cup {Unrecoverable}
    BY <1>1
  <2>2. QED
    BY <2>1 DEF Signature
<1>4. sigs \in [1 .. Len(raw.keys) -> Signature]
  BY <1>2, <1>3
<1>5. Fresh(raw) = [don |-> raw.don, sigs |-> sigs]
  BY DEF Fresh
<1> HIDE DEF sigs
<1>6. sigs \in Seq(Signature)
  BY <1>2, <1>4
<1>7. QED
  BY <1>1, <1>5, <1>6 DEF Reports

\* A verification begins: of a parsed report, or of the one the workflow holds.
LEMMA BeginKeeps ==
  ASSUME Inv, pc = "idle", NEW r \in Reports, NEW c \in Configs, Begin(r, c),
         parsing' \in BOOLEAN, ~parsing' => r = report
  PROVE  Inv' /\ Stays
<1> DEFINE tried == CandidatesOf(c, r.don)
<1>1. UNCHANGED <<chainVars, cache, read, failed>>
  BY DEF Begin
<1>2. ChainInv' /\ CacheInv'
  BY <1>1, RestKeeps
<1>3. /\ config = None /\ candidates = {} /\ read = NoRead /\ failed \in BOOLEAN
      /\ don' \in [Environments -> [Dons -> DonConfig]]
      /\ key' \in [Environments -> NodeKeys]
      /\ changes' \in 0 .. MaxChanges
      /\ cache' \in [Chains \X Dons -> Entry \cup {NotCached}]
      /\ verdict.result \in Results /\ verdict.entry \in Entry \cup {NotCached}
  BY <1>1 DEF Inv, TypeOK, chainVars
<1>4. CASE /\ tried = {}
           /\ verdict' = Verdict("notAccepted", r, NotCached, c)
           /\ report' = IF parsing' THEN NoReport ELSE r
           /\ UNCHANGED <<config, pc, candidates>>
  <2>1. verdict'.result = "notAccepted" /\ verdict'.entry = NotCached /\ verdict'.config = c
    BY <1>4 DEF Verdict
  <2>2. report' = NoReport \/ report' \in Reports
    BY <1>4
  <2>3. pc' = "idle" /\ config' = None /\ candidates' = {} /\ read' = NoRead
        /\ failed' \in BOOLEAN
    BY <1>1, <1>3, <1>4
  <2>4. TypeOK'
    BY <1>3, <2>1, <2>2, <2>3 DEF TypeOK, Results
  <2>5. ReadInv' /\ TriedInv' /\ InvalidInv' /\ VerifiedInv'
    BY <2>1, <2>3 DEF ReadInv, TriedInv, InvalidInv, VerifiedInv
  <2>6. Stays
    <3> SUFFICES ASSUME verdict.result = "verified", ~parsing', c = verdict.config
                 PROVE  FALSE
      BY <2>1 DEF Stays
    <3>1. CandidatesOf(verdict.config, report.don) # {}
      BY DEF Inv, VerifiedInv
    <3>2. QED
      BY <1>4, <3>1
  <2>7. QED
    BY <1>2, <2>4, <2>5, <2>6 DEF Inv
<1>5. CASE /\ tried # {}
           /\ pc' = "lookup"
           /\ candidates' = tried
           /\ config' = c
           /\ report' = r
           /\ verdict' = IF parsing' THEN NoVerdict ELSE verdict
  <2>1. NoVerdict.result = "none" /\ NoVerdict.entry = NotCached
    BY DEF NoVerdict
  <2>2. verdict'.result \in Results /\ verdict'.entry \in Entry \cup {NotCached}
    BY <1>3, <1>5, <2>1 DEF Results
  <2>3. candidates' # {} /\ candidates' \subseteq DOMAIN Tried(config')
    BY <1>5 DEF CandidatesOf
  <2>4. TypeOK'
    BY <1>1, <1>3, <1>5, <2>2, <2>3 DEF TypeOK
  <2>5. ReadInv' /\ InvalidInv'
    BY <1>5 DEF ReadInv, InvalidInv
  <2>6. candidates' = CandidatesOf(config', report'.don)
    BY <1>5
  <2>7. TriedInv'
    BY <2>6 DEF TriedInv
  <2>8. VerifiedInv'
    <3> SUFFICES ASSUME verdict'.result = "verified" PROVE VerifiedInv'
      BY DEF VerifiedInv
    <3>1. verdict' = verdict /\ report' = report /\ cache' = cache
      BY <1>1, <1>5, <2>1
    <3>2. /\ verdict.don = report.don
          /\ verdict.config \in Configs /\ verdict.entry \in Entry
          /\ Quorum(report.sigs, verdict.entry.f, verdict.entry.signers)
          /\ \E i \in CandidatesOf(verdict.config, report.don) :
               Cached(cache, Tried(verdict.config)[i], report.don) = verdict.entry
      BY <3>1 DEF Inv, VerifiedInv
    <3>3. config' = verdict.config => candidates' = CandidatesOf(verdict.config, report.don)
      BY <2>6, <3>1
    <3>4. report' \in Reports /\ pc' # "idle"
      BY <1>5
    <3>5. QED
      BY <3>1, <3>2, <3>3, <3>4 DEF VerifiedInv
  <2>9. Stays
    BY <1>5, <2>1 DEF Stays
  <2>10. QED
    BY <1>2, <2>4, <2>5, <2>7, <2>8, <2>9 DEF Inv
<1>6. QED
  BY <1>4, <1>5 DEF Begin

LEMMA ParseUnverifiedKeeps ==
  ASSUME Inv, NEW raw \in RawReports, ParseUnverified(raw)
  PROVE  Inv' /\ Stays
<1>1. /\ pc = "idle" /\ report' = Fresh(raw) /\ verdict' = NoVerdict
      /\ UNCHANGED <<chainVars, cache, parsing, config, pc, candidates, read, failed>>
  BY DEF ParseUnverified
<1>2. NoVerdict.result = "none" /\ NoVerdict.entry = NotCached
  BY DEF NoVerdict
<1>3. report' \in Reports
  BY <1>1, FreshType
<1>4. TypeOK'
  BY <1>1, <1>2, <1>3 DEF Inv, TypeOK, Results, chainVars
<1>5. ChainInv' /\ CacheInv'
  BY <1>1, RestKeeps
<1>6. ReadInv' /\ TriedInv' /\ InvalidInv' /\ VerifiedInv'
  BY <1>1, <1>2 DEF ReadInv, TriedInv, InvalidInv, VerifiedInv
<1>7. Stays
  BY <1>1, <1>2 DEF Stays
<1>8. QED
  BY <1>4, <1>5, <1>6, <1>7 DEF Inv

\* What a change of a registry leaves alone.
LEMMA ChangeKeeps ==
  ASSUME Inv,
         UNCHANGED <<cache, report, parsing, config, pc, candidates, read, failed, verdict>>,
         don' \in [Environments -> [Dons -> DonConfig]],
         key' \in [Environments -> NodeKeys],
         changes' \in 0 .. MaxChanges, ChainInv',
         \A e \in Environments, d \in Dons : everDon[e][d] \subseteq everDon'[e][d],
         \A e \in Environments, n \in Nodes : everKey[e][n] \subseteq everKey'[e][n]
  PROVE  Inv' /\ Stays
<1>1. TypeOK'
  BY DEF Inv, TypeOK
<1>2. CacheInv'
  <2> SUFFICES ASSUME NEW c \in Chains, NEW d \in Dons, cache[<<c, d>>] # NotCached
               PROVE  FromChain(cache[<<c, d>>], c, d)'
    BY DEF CacheInv
  <2>1. FromChain(cache[<<c, d>>], c, d)
    BY DEF Inv, CacheInv
  <2>2. <<c, d>> \in Chains \X Dons
    OBVIOUS
  <2>3. cache[<<c, d>>] \in Entry
    BY <2>2 DEF Inv, TypeOK
  <2>4. PICK e \in Environments : e.chain = c /\ ReadFrom(cache[<<c, d>>], e, d)
    BY <2>1 DEF FromChain
  <2> DEFINE entry == cache[<<c, d>>]
  <2>5. PICK held \in everDon[e][d] :
          /\ entry.f = held.f
          /\ IF held.nodes = {} THEN entry.signers = NoList
             ELSE /\ entry.signers # NoList
                  /\ \A k \in DOMAIN entry.signers :
                       entry.signers[k] \in held.nodes /\ k \in everKey[e][entry.signers[k]]
    BY <2>4 DEF ReadFrom
  <2>6. held \in everDon'[e][d] /\ held.nodes \in SUBSET Nodes
    BY <2>4 DEF Inv, ChainInv, DonConfig
  <2>7. cache'[<<c, d>>] = entry
    OBVIOUS
  <2> HIDE DEF entry
  <2>8. ReadFrom(entry, e, d)'
    <3>1. entry' = entry
      BY <2>7 DEF entry
    <3>2. held.nodes # {} =>
            \A k \in DOMAIN entry.signers :
              entry.signers[k] \in held.nodes /\ k \in everKey'[e][entry.signers[k]]
      BY <2>4, <2>5, <2>6
    <3>3. QED
      BY <2>5, <2>6, <3>1, <3>2 DEF ReadFrom
  <2>9. QED
    BY <2>4, <2>8 DEF FromChain, entry
<1>3. ReadInv'
  <2> SUFFICES ASSUME pc = "getNodesByP2PIds" PROVE ReadInv'
    BY DEF ReadInv
  <2>1. /\ read \in everDon[Candidate][report.don] /\ read.nodes # {}
        /\ Cached(cache, Candidate, report.don) = NotCached
        /\ Candidate \in Environments /\ report.don \in Dons
    BY PlaceType DEF Inv, ReadInv
  <2>2. Candidate' = Candidate
    BY DEF Candidate, Place
  <2>3. read \in everDon'[Candidate][report.don]
    BY <2>1
  <2>4. QED
    BY <2>1, <2>2, <2>3 DEF ReadInv
<1>4. TriedInv' /\ InvalidInv' /\ VerifiedInv'
  BY DEF Inv, TriedInv, InvalidInv, VerifiedInv
<1>5. Stays
  BY DEF Stays
<1>6. QED
  BY <1>1, <1>2, <1>3, <1>4, <1>5 DEF Inv

LEMMA ChangeDonKeeps ==
  ASSUME Inv, NEW e \in Environments, NEW d \in Dons, NEW new \in DonConfig,
         ChangeDon(e, d, new)
  PROVE  Inv' /\ Stays
<1>1. /\ don' = [don EXCEPT ![e][d] = new]
      /\ everDon' = [everDon EXCEPT ![e][d] = @ \cup {new}]
      /\ key' = key /\ everKey' = everKey
      /\ UNCHANGED <<cache, report, parsing, config, pc, candidates, read, failed,
                     verdict>>
  BY DEF ChangeDon
<1>2. /\ don \in [Environments -> [Dons -> DonConfig]]
      /\ key \in [Environments -> NodeKeys]
      /\ everDon \in [Environments -> [Dons -> SUBSET DonConfig]]
      /\ everKey \in [Environments -> [Nodes -> SUBSET Keys]]
  BY DEF Inv, TypeOK, ChainInv
<1>3. changes' \in 0 .. MaxChanges
  BY BoundsAssumption DEF Inv, TypeOK, ChangeDon
<1>5. don' \in [Environments -> [Dons -> DonConfig]]
  BY <1>1, <1>2
<1>6. everDon' \in [Environments -> [Dons -> SUBSET DonConfig]]
  BY <1>1, <1>2
<1>7. \A x \in Environments, y \in Dons :
        /\ don'[x][y] = IF x = e /\ y = d THEN new ELSE don[x][y]
        /\ everDon'[x][y] = IF x = e /\ y = d THEN everDon[x][y] \cup {new}
                            ELSE everDon[x][y]
  BY <1>1, <1>2
<1>8. \A x \in Environments, y \in Dons : everDon[x][y] \subseteq everDon'[x][y]
  BY <1>7
<1>9. ChainInv'
  BY <1>1, <1>2, <1>6, <1>7 DEF Inv, ChainInv
<1>10. key' \in [Environments -> NodeKeys]
  BY <1>1, <1>2
<1>11. \A x \in Environments, n \in Nodes : everKey[x][n] \subseteq everKey'[x][n]
  BY <1>1
<1>12. QED
  BY <1>1, <1>3, <1>5, <1>8, <1>9, <1>10, <1>11, ChangeKeeps

LEMMA ChangeKeyKeeps ==
  ASSUME Inv, NEW e \in Environments, NEW n \in Nodes, NEW s \in Keys,
         ChangeKey(e, n, s)
  PROVE  Inv' /\ Stays
<1>1. /\ s \notin {key[e][m] : m \in Nodes}
      /\ key' = [key EXCEPT ![e][n] = s]
      /\ everKey' = [everKey EXCEPT ![e][n] = @ \cup {s}]
      /\ don' = don /\ everDon' = everDon
      /\ UNCHANGED <<cache, report, parsing, config, pc, candidates, read, failed,
                     verdict>>
  BY DEF ChangeKey
<1>2. /\ don \in [Environments -> [Dons -> DonConfig]]
      /\ key \in [Environments -> NodeKeys]
      /\ everDon \in [Environments -> [Dons -> SUBSET DonConfig]]
      /\ everKey \in [Environments -> [Nodes -> SUBSET Keys]]
  BY DEF Inv, TypeOK, ChainInv
<1>3. changes' \in 0 .. MaxChanges
  BY BoundsAssumption DEF Inv, TypeOK, ChangeKey
<1>4. \A x \in Environments :
        /\ key[x] \in [Nodes -> Keys]
        /\ \A l, m \in Nodes : key[x][l] = key[x][m] => l = m
  BY <1>2 DEF NodeKeys
<1>5. key' = [key EXCEPT ![e] = [key[e] EXCEPT ![n] = s]]
  BY <1>1
<1> DEFINE keys == [key[e] EXCEPT ![n] = s]
<1>6. keys \in [Nodes -> Keys] /\ \A m \in Nodes : keys[m] = IF m = n THEN s ELSE key[e][m]
  BY <1>4
<1>7. keys \in NodeKeys
  <2> HIDE DEF keys
  <2>1. \A l, m \in Nodes : keys[l] = keys[m] => l = m
    BY <1>1, <1>4, <1>6
  <2>2. QED
    BY <1>6, <2>1 DEF NodeKeys
<1> HIDE DEF keys
<1>8. key' \in [Environments -> NodeKeys]
  BY <1>2, <1>5, <1>7 DEF keys
<1>9. everKey' \in [Environments -> [Nodes -> SUBSET Keys]]
  BY <1>1, <1>2
<1>10. \A x \in Environments, m \in Nodes :
         /\ key'[x][m] = IF x = e /\ m = n THEN s ELSE key[x][m]
         /\ everKey'[x][m] = IF x = e /\ m = n THEN everKey[x][m] \cup {s}
                             ELSE everKey[x][m]
  BY <1>1, <1>2, <1>4
<1>11. \A x \in Environments, m \in Nodes : everKey[x][m] \subseteq everKey'[x][m]
  BY <1>10
<1>12. ChainInv'
  BY <1>1, <1>2, <1>9, <1>10 DEF Inv, ChainInv
<1>13. don' \in [Environments -> [Dons -> DonConfig]]
  BY <1>1, <1>2
<1>14. \A x \in Environments, d \in Dons : everDon[x][d] \subseteq everDon'[x][d]
  BY <1>1
<1>15. QED
  BY <1>1, <1>3, <1>8, <1>11, <1>12, <1>13, <1>14, ChangeKeeps

LEMMA InvStep == ASSUME Inv, [Next]_vars PROVE Inv' /\ Stays
<1>1. ASSUME NEW raw \in RawReports, ParseUnverified(raw) PROVE Inv' /\ Stays
  BY <1>1, ParseUnverifiedKeeps
<1>2. ASSUME NEW raw \in RawReports, NEW c \in Configs, ParseReport(raw, c)
      PROVE  Inv' /\ Stays
  <2>1. pc = "idle" /\ parsing' = TRUE /\ Begin(Fresh(raw), c)
    BY <1>2 DEF ParseReport
  <2>2. QED
    BY <2>1, FreshType, BeginKeeps
<1>3. ASSUME NEW c \in Configs, VerifySignatures(c) PROVE Inv' /\ Stays
  <2>1. pc = "idle" /\ report # NoReport /\ parsing' = FALSE /\ Begin(report, c)
    BY <1>3 DEF VerifySignatures
  <2>2. report \in Reports
    BY <2>1 DEF Inv, TypeOK
  <2>3. QED
    BY <2>1, <2>2, BeginKeeps
<1>4. CASE UseCache
  BY <1>4, UseCacheKeeps
<1>5. CASE GetDON
  BY <1>5, GetDONKeeps
<1>6. CASE GetNodesByP2PIds
  BY <1>6, GetNodesKeeps
<1>7. ASSUME NEW e \in Environments, NEW d \in Dons, NEW new \in DonConfig,
             ChangeDon(e, d, new)
      PROVE  Inv' /\ Stays
  BY <1>7, ChangeDonKeeps
<1>8. ASSUME NEW e \in Environments, NEW n \in Nodes, NEW s \in Keys, ChangeKey(e, n, s)
      PROVE  Inv' /\ Stays
  BY <1>8, ChangeKeyKeeps
<1>9. CASE UNCHANGED vars
  <2>1. /\ UNCHANGED <<don, key, changes, everDon, everKey>>
        /\ UNCHANGED <<cache, report, parsing, config, pc, candidates, read, failed,
                       verdict>>
    BY <1>9 DEF vars, chainVars
  <2>2. /\ don' \in [Environments -> [Dons -> DonConfig]]
        /\ key' \in [Environments -> NodeKeys]
        /\ changes' \in 0 .. MaxChanges
    BY <2>1 DEF Inv, TypeOK
  <2>3. ChainInv'
    BY <2>1 DEF Inv, ChainInv
  <2>4. QED
    BY <2>1, <2>2, <2>3, ChangeKeeps
<1>10. QED
  BY <1>1, <1>2, <1>3, <1>4, <1>5, <1>6, <1>7, <1>8, <1>9 DEF Next

\* The inductive invariant of the verification, of every run.
THEOREM Invariant == Spec => []Inv
<1>1. Inv /\ [Next]_vars => Inv'
  BY InvStep
<1>2. QED
  BY InvInit, <1>1, PTL DEF Spec

-----------------------------------------------------------------------------
(* What the verification promises.                                         *)

\* The state of the verification is of its types: in particular there is a
\* candidate whenever one is being read, and what was read of it is a DON.
THEOREM ReportTypeCorrect == Spec => []TypeOK
<1>1. Inv => TypeOK
  BY DEF Inv
<1>2. QED
  BY Invariant, <1>1, PTL

\* An injective sequence has as many values as it is long.
LEMMA AsManyValues ==
  ASSUME NEW n \in Nat, NEW s, DOMAIN s = 1 .. n,
         \A i, j \in 1 .. n : s[i] = s[j] => i = j
  PROVE  Cardinality({s[i] : i \in 1 .. n}) = n
<1> DEFINE values == {s[i] : i \in 1 .. n}
           g == [i \in 1 .. n |-> s[i]]
<1>1. g \in [1 .. n -> values] /\ \A i \in 1 .. n : g[i] = s[i]
  OBVIOUS
<1>2. g \in Injection(1 .. n, values)
  BY <1>1 DEF Injection, IsInjective
<1>3. g \in Surjection(1 .. n, values)
  BY <1>1 DEF Surjection
<1>4. g \in Bijection(1 .. n, values)
  BY <1>2, <1>3 DEF Bijection
<1>5. IsFiniteSet(1 .. n) /\ Cardinality(1 .. n) = n
  BY FS_Interval
<1>6. ExistsBijection(1 .. n, values)
  BY <1>4 DEF ExistsBijection
<1> HIDE DEF g, values
<1>7. Cardinality(values) = Cardinality(1 .. n)
  BY <1>5, <1>6, FS_Bijection
<1>8. QED
  BY <1>5, <1>7 DEF values

\* A verified report is left with exactly f + 1 signatures of different signers
\* of the list it was judged by, each attributed to its node.
THEOREM VerifiedAreQuorums == Spec => []VerifiedIsQuorum
<1>1. ASSUME Inv PROVE VerifiedIsQuorum
  <2> SUFFICES ASSUME verdict.result = "verified", pc = "idle" PROVE VerifiedIsQuorum
    BY DEF VerifiedIsQuorum
  <2> DEFINE n == verdict.entry.f + 1
             sigs == report.sigs
             signerOf == [i \in 1 .. n |-> sigs[i].key]
  <2>1. /\ report \in Reports /\ verdict.entry \in Entry
        /\ Quorum(sigs, verdict.entry.f, verdict.entry.signers)
        /\ \A i \in DOMAIN sigs : sigs[i].signer = verdict.entry.signers[sigs[i].key]
    BY <1>1 DEF Inv, VerifiedInv
  <2>2. n \in Nat
    BY <2>1, BoundsAssumption DEF Entry
  <2>3. /\ DOMAIN sigs = 1 .. n
        /\ \A i, j \in 1 .. n : sigs[i].key = sigs[j].key => i = j
        /\ \A i \in 1 .. n : Authorized(verdict.entry.signers, sigs[i].key)
    BY <2>1 DEF Quorum
  <2>4. sigs \in Seq(Signature)
    BY <2>1 DEF Reports
  <2> HIDE DEF n
  <2>5. Len(sigs) = n
    BY <2>2, <2>3, <2>4
  <2>6. DOMAIN signerOf = 1 .. n /\ SignersOf(report) = {signerOf[i] : i \in 1 .. n}
    BY <2>3 DEF SignersOf
  <2>7. \A i, j \in 1 .. n : signerOf[i] = signerOf[j] => i = j
    BY <2>3
  <2> HIDE DEF signerOf
  <2>8. Cardinality(SignersOf(report)) = n
    BY <2>2, <2>6, <2>7, AsManyValues
  <2>9. QED
    BY <2>1, <2>3, <2>5, <2>8 DEF VerifiedIsQuorum, n
<1>2. QED
  BY Invariant, <1>1, PTL

\* A chain has one registry.
OneRegistry == \A r, s \in Registries : r = s

\* Then the entry that the cache holds for an environment is its own: what is
\* kept for its chain was read from its registry.
LEMMA CachedIsRead ==
  ASSUME OneRegistry, Inv, NEW e \in Environments, NEW d \in Dons,
         Cached(cache, e, d) # NotCached
  PROVE  ReadFrom(Cached(cache, e, d), e, d)
<1>1. e.chain \in Chains /\ e.registry \in Registries
  BY DEF Environments
<1>2. FromChain(Cached(cache, e, d), e.chain, d)
  BY <1>1 DEF Inv, CacheInv, Cached, CacheKey
<1>3. PICK x \in Environments :
        x.chain = e.chain /\ ReadFrom(Cached(cache, e, d), x, d)
  BY <1>2 DEF FromChain
<1>4. x = e
  BY <1>3 DEF OneRegistry, Environments
<1>5. QED
  BY <1>3, <1>4

\* Where a chain has one registry, a report is called invalid only when every
\* environment its config accepts for its DON was read, and no list of theirs
\* holds f + 1 of its signers.  With two registries it need not be so: the cache
\* does not tell them apart.
THEOREM InvalidAreNoQuorums == OneRegistry => (Spec => []InvalidIsNoQuorum)
<1> SUFFICES ASSUME OneRegistry PROVE Spec => []InvalidIsNoQuorum
  OBVIOUS
<1>1. ASSUME Inv PROVE InvalidIsNoQuorum
  <2> SUFFICES ASSUME verdict.result = "invalid", pc = "idle",
                      NEW e \in Accepted(verdict.config, verdict.don)
               PROVE  /\ Refuted(cache, e, verdict.don, verdict.signers)
                      /\ ReadFrom(Cached(cache, e, verdict.don), e, verdict.don)
    BY DEF InvalidIsNoQuorum, Refuted, Cached
  <2>1. /\ verdict.config \in Configs /\ verdict.don \in Dons
        /\ \A i \in CandidatesOf(verdict.config, verdict.don) :
             Refuted(cache, Tried(verdict.config)[i], verdict.don, verdict.signers)
    BY <1>1 DEF Inv, InvalidInv
  <2>2. PICK i \in CandidatesOf(verdict.config, verdict.don) : Tried(verdict.config)[i] = e
    BY <2>1, AcceptedAreCandidates
  <2>3. e \in Environments
    BY <2>1, <2>2, TriedType DEF CandidatesOf
  <2>4. Refuted(cache, e, verdict.don, verdict.signers)
    BY <2>1, <2>2
  <2>5. Cached(cache, e, verdict.don) # NotCached
    BY <2>4 DEF Refuted
  <2>6. QED
    BY <1>1, <2>1, <2>3, <2>4, <2>5, CachedIsRead
<1>2. QED
  BY Invariant, <1>1, PTL

\* Where a chain has one registry, a verified report was judged by what a
\* registry that its config accepts for its DON held for that DON, and all its
\* signers are on that list.
THEOREM SignersAreAccepted == OneRegistry => (Spec => []VerifiedByAcceptedRegistry)
<1> SUFFICES ASSUME OneRegistry PROVE Spec => []VerifiedByAcceptedRegistry
  OBVIOUS
<1>1. ASSUME Inv PROVE VerifiedByAcceptedRegistry
  <2> SUFFICES ASSUME verdict.result = "verified", pc = "idle"
               PROVE  VerifiedByAcceptedRegistry
    BY DEF VerifiedByAcceptedRegistry
  <2> DEFINE d == report.don
  <2>1. /\ report \in Reports /\ verdict.config \in Configs /\ verdict.entry \in Entry
        /\ Quorum(report.sigs, verdict.entry.f, verdict.entry.signers)
    BY <1>1 DEF Inv, VerifiedInv
  <2>2. PICK i \in CandidatesOf(verdict.config, d) :
          Cached(cache, Tried(verdict.config)[i], d) = verdict.entry
    BY <1>1 DEF Inv, VerifiedInv
  <2> DEFINE e == Tried(verdict.config)[i]
  <2>3. e \in Environments /\ e \in Accepted(verdict.config, d) /\ d \in Dons
    BY <2>1, <2>2, TriedType, AcceptedAreCandidates DEF CandidatesOf, Reports
  <2>4. verdict.entry # NotCached
    BY <2>1, NamesAssumption DEF NotCached
  <2> HIDE DEF e, d
  <2>5. ReadFrom(verdict.entry, e, d)
    <3>1. Cached(cache, e, d) = verdict.entry
      BY <2>2 DEF e
    <3>2. QED
      BY <1>1, <2>3, <2>4, <3>1, CachedIsRead
  <2>6. \A k \in SignersOf(report) : Authorized(verdict.entry.signers, k)
    BY <2>1 DEF Quorum, SignersOf
  <2>7. QED
    BY <2>3, <2>5, <2>6 DEF VerifiedByAcceptedRegistry, d
<1>2. QED
  BY Invariant, <1>1, PTL

\* A verified report that is verified again with the same config is verified,
\* whatever the registries did since and whichever candidates can be read now.
THEOREM VerifiedStay == Spec => VerifiedStaysVerified
<1>1. Inv /\ [Next]_vars => Stays
  BY InvStep
<1>2. Stays =>
        (verdict.result = "verified" /\ ~parsing' /\ verdict'.result \notin {"verified", "none"}
           => verdict'.config # verdict.config)
  BY DEF Stays
<1>3. QED
  BY Invariant, <1>1, <1>2, PTL DEF Spec, VerifiedStaysVerified

\* What is left of a verification: two contract calls for every candidate, and
\* one less while the second of the first candidate is being made.
WorkLeft ==
  IF pc = "idle" THEN 0
  ELSE 2 * Cardinality(candidates) - (IF pc = "getNodesByP2PIds" THEN 1 ELSE 0)
Verifying == UseCache \/ GetDON \/ GetNodesByP2PIds
Advances == IF Verifying THEN WorkLeft' < WorkLeft ELSE WorkLeft' = WorkLeft
VerificationsAdvance == [][pc # "idle" => Advances]_vars

LEMMA CandidatesCount ==
  ASSUME TypeOK, pc # "idle"
  PROVE  /\ Place \in candidates /\ IsFiniteSet(candidates)
         /\ Cardinality(candidates) \in Nat \ {0}
         /\ Cardinality(candidates \ {Place}) = Cardinality(candidates) - 1
<1>1. config \in Configs /\ Place \in candidates /\ candidates \subseteq DOMAIN Tried(config)
  BY PlaceType DEF TypeOK
<1>2. PICK n \in Nat : DOMAIN Tried(config) = 1 .. n
  <2>1. Tried(config) \in Seq(Environments)
    BY <1>1, TriedType
  <2>2. QED
    BY <2>1
<1>3. IsFiniteSet(candidates)
  BY <1>1, <1>2, FS_Interval, FS_Subset
<1>4. Cardinality(candidates) \in Nat /\ candidates # {}
  BY <1>1, <1>3, FS_CardinalityType
<1>5. Cardinality(candidates) # 0
  BY <1>3, <1>4, FS_EmptySet
<1>6. Cardinality(candidates \ {Place}) = Cardinality(candidates) - 1
  BY <1>1, <1>3, FS_RemoveElement
<1>7. QED
  BY <1>1, <1>3, <1>4, <1>5, <1>6

\* Done with a candidate, there is one less, or none.
LEMMA GoOnAdvances ==
  ASSUME TypeOK, pc # "idle", NEW couldNotRead, NEW sigs, NEW entry,
         GoOn(couldNotRead, sigs, entry) \/ End("verified", sigs, entry)
  PROVE  WorkLeft' < WorkLeft
<1>1. /\ Cardinality(candidates) \in Nat \ {0}
      /\ Cardinality(candidates \ {Place}) = Cardinality(candidates) - 1
  BY CandidatesCount
<1>2. WorkLeft >= 2 * Cardinality(candidates) - 1 /\ WorkLeft \in Int
  BY <1>1 DEF WorkLeft
<1>3. \/ pc' = "idle"
      \/ pc' = "lookup" /\ candidates' = candidates \ {Place}
  BY DEF GoOn, End
<1>4. CASE pc' = "idle"
  BY <1>1, <1>2, <1>4 DEF WorkLeft
<1>5. CASE pc' = "lookup" /\ candidates' = candidates \ {Place}
  <2>1. WorkLeft' = 2 * (Cardinality(candidates) - 1)
    BY <1>1, <1>5 DEF WorkLeft
  <2>2. QED
    BY <1>1, <1>2, <2>1
<1>6. QED
  BY <1>3, <1>4, <1>5

LEMMA JudgeAdvances ==
  ASSUME TypeOK, pc # "idle", NEW entry, Judge(entry)
  PROVE  WorkLeft' < WorkLeft
<1>1. PICK sigs : GoOn(failed, sigs, entry) \/ End("verified", sigs, entry)
  BY DEF Judge
<1>2. QED
  BY <1>1, GoOnAdvances

\* A verification makes two contract calls at most for each place that its
\* config accepts (report_verification.go:122-313): each of its steps leaves less
\* to do, and nothing gives it more, neither changes of the registries nor
\* another report.  Without a step it is not over, so this and a turn for the
\* goroutine make an end of it, whatever the calls answer.
THEOREM VerificationsAreBounded == Spec => VerificationsAdvance
<1>1. ASSUME TypeOK, [Next]_vars, pc # "idle" PROVE Advances
  <2>1. ASSUME UseCache PROVE WorkLeft' < WorkLeft
    BY <1>1, <2>1, JudgeAdvances DEF UseCache
  <2>2. ASSUME GetDON PROVE WorkLeft' < WorkLeft
    <3>1. CASE GoOn(TRUE, report.sigs, NotCached)
      BY <1>1, <3>1, GoOnAdvances
    <3>2. CASE \E entry : Judge(entry)
      BY <1>1, <3>2, JudgeAdvances
    <3>3. CASE pc = "lookup" /\ pc' = "getNodesByP2PIds" /\ UNCHANGED candidates
      BY <1>1, <3>3, CandidatesCount DEF WorkLeft
    <3>4. QED
      BY <2>2, <3>1, <3>2, <3>3 DEF GetDON
  <2>3. ASSUME GetNodesByP2PIds PROVE WorkLeft' < WorkLeft
    <3>1. CASE GoOn(TRUE, report.sigs, NotCached)
      BY <1>1, <3>1, GoOnAdvances
    <3>2. CASE \E entry : Judge(entry)
      BY <1>1, <3>2, JudgeAdvances
    <3>3. QED
      BY <2>3, <3>1, <3>2 DEF GetNodesByP2PIds
  <2>4. ASSUME ~Verifying PROVE WorkLeft' = WorkLeft
    <3>1. UNCHANGED <<pc, candidates>>
      BY <1>1, <2>4 DEF Next, vars, Verifying, ParseUnverified, ParseReport,
                        VerifySignatures, ChangeDon, ChangeKey
    <3>2. QED
      BY <3>1 DEF WorkLeft
  <2>5. QED
    BY <2>1, <2>2, <2>3, <2>4 DEF Advances, Verifying
<1>2. Inv => TypeOK
  BY DEF Inv
<1>3. QED
  BY Invariant, <1>1, <1>2, PTL DEF Spec, VerificationsAdvance

=============================================================================
