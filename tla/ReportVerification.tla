------------------------- MODULE ReportVerification -------------------------
(***************************************************************************)
(* Verification of a report's signatures (cre/report_verification.go): the *)
(* environments a config accepts are tried in order, each one's signers    *)
(* are read from its registry in two contract calls or taken from          *)
(* keyCache, and the first f + 1 authorized signatures of the report are   *)
(* kept.  The registry may change between any two calls; the cache is for  *)
(* the life of the process.                                                *)
(*                                                                         *)
(* A signature is the key it recovers to, or Unrecoverable when its length *)
(* or its recovery fails; a node stands for its p2p id and its operator.   *)
(***************************************************************************)
EXTENDS Integers, Sequences, FiniteSets, SequencesExt

CONSTANTS
  Chains, Registries,    \* chain selectors and registry addresses
  Dons, Nodes, Keys,
  Unrecoverable,         \* a signature from which no signer is recovered
  None,                  \* no report, list, entry or node
  RawReports,            \* what the workflow parses: [don, keys]
  Configs,               \* the configs it uses: [zones, environments]
  Deployments,           \* what the registries may hold at first: [don, key]
  MaxF,                  \* bound: the largest f of a DON
  MaxChanges             \* bound: how often the registries change

Environments == [chain : Chains, registry : Registries]
Zones == [environment : Environments, don : Dons]

\* What getDON returns, and the signing keys a registry holds for its nodes.
DonConfig == [f : 0 .. MaxF, nodes : SUBSET Nodes]
NodeKeys == {k \in [Nodes -> Keys] : \A m, n \in Nodes : k[m] = k[n] => m = n}

ASSUME BoundsAssumption == MaxF \in Nat /\ MaxChanges \in Nat
ASSUME RawReportsAssumption ==
  \A raw \in RawReports :
    raw.don \in Dons /\ raw.keys \in Seq(Keys \cup {Unrecoverable})
ASSUME ConfigsAssumption ==
  \A c \in Configs : c.zones \in Seq(Zones) /\ c.environments \in Seq(Environments)
ASSUME DeploymentsAssumption ==
  \A s \in Deployments :
    /\ s.don \in [Environments -> [Dons -> DonConfig]]
    /\ s.key \in [Environments -> NodeKeys]

Unattributed == None
NoList == None            \* the nil map that is kept for a DON without nodes
NotCached == None
NoReport == None
NoRead == None

Signature == [key : Keys \cup {Unrecoverable}, signer : Nodes \cup {Unattributed}]
SignerLists == UNION {[K -> Nodes] : K \in SUBSET Keys}
Entry == [f : 0 .. MaxF, signers : SignerLists \cup {NoList}]
Reports == [don : Dons, sigs : Seq(Signature)]
Results == {"none", "verified", "invalid", "unread", "notAccepted"}

ASSUME NamesAssumption ==
  /\ Unrecoverable \notin Keys
  /\ None \notin Nodes \cup SignerLists \cup Entry

VARIABLES
  don,        \* the DONs of every environment, as its registry has it now
  key,        \* the signing key of every node of every environment, likewise
  changes,    \* how often they changed
  cache,      \* keyCache: by chain and DON id
  report,     \* the Report the workflow holds: [don, sigs]
  parsing,    \* is it being parsed (it is dropped on an error)?
  config,     \* the config it is being verified with
  pc,         \* where VerifySignaturesWithConfig is
  candidates, \* the places of the environments that are left to try
  read,       \* what getDON returned for the first of them
  failed,     \* could one of them not be read?
  verdict,    \* history: how the last verification ended, of which report
  everDon,    \* history: what a registry ever held for a DON: [f, nodes]
  everKey     \* history: the keys that a node of an environment ever had

\* The environments a config names, in the order they are tried.
Tried(c) == [i \in DOMAIN c.zones |-> c.zones[i].environment] \o c.environments

chainVars == <<don, key, changes, everDon, everKey>>
vars == <<chainVars, cache, report, parsing, config, pc, candidates, read,
          failed, verdict>>

TypeOK ==
  /\ don \in [Environments -> [Dons -> DonConfig]]
  /\ key \in [Environments -> NodeKeys]
  /\ changes \in 0 .. MaxChanges
  /\ cache \in [Chains \X Dons -> Entry \cup {NotCached}]
  /\ report = NoReport \/ report \in Reports
  /\ parsing \in BOOLEAN
  /\ IF pc = "idle" THEN config = None ELSE config \in Configs
  /\ pc \in {"idle", "lookup", "getNodesByP2PIds"}
  /\ IF pc = "idle" THEN candidates = {}
     ELSE candidates # {} /\ candidates \subseteq DOMAIN Tried(config)
  /\ pc # "idle" => report \in Reports
  /\ IF pc = "getNodesByP2PIds" THEN read \in DonConfig ELSE read = NoRead
  /\ failed \in BOOLEAN
  /\ verdict.result \in Results /\ verdict.entry \in Entry \cup {NotCached}

NoVerdict ==
  [result |-> "none", don |-> None, signers |-> {}, entry |-> NotCached,
   config |-> None]

Init ==
  /\ \E s \in Deployments : don = s.don /\ key = s.key
  /\ changes = 0
  /\ cache = [c \in Chains \X Dons |-> NotCached]
  /\ report = NoReport
  /\ parsing = FALSE
  /\ config = None
  /\ pc = "idle"
  /\ candidates = {}
  /\ read = NoRead
  /\ failed = FALSE
  /\ verdict = NoVerdict
  /\ everDon = [e \in Environments |-> [d \in Dons |-> {don[e][d]}]]
  /\ everKey = [e \in Environments |-> [n \in Nodes |-> {key[e][n]}]]

-----------------------------------------------------------------------------
\* A signature counts when its signer is recovered and did not sign before,
\* authorized or not.
CountsAgain(sigs, i) == sigs[i].key \in Keys
Counts(sigs, i) ==
  sigs[i].key \in Keys /\ \A j \in 1 .. i - 1 : sigs[j].key # sigs[i].key

Authorized(signers, k) == signers # NoList /\ k \in DOMAIN signers

Acceptable(sigs, signers) ==
  {i \in DOMAIN sigs : Counts(sigs, i) /\ Authorized(signers, sigs[i].key)}

\* The n smallest members of S, in order.
FirstOf(S, n) ==
  {s \in [1 .. n -> S] :
     /\ \A j, k \in 1 .. n : j < k => s[j] < s[k]
     /\ \A i \in S : (\E k \in 1 .. n : s[k] = i) \/ (\A k \in 1 .. n : s[k] < i)}

AttributedToKey(sig, signers) == [sig EXCEPT !.signer = sig.key]
Attributed(sig, signers) == [sig EXCEPT !.signer = signers[sig.key]]

\* verifySigs walks the signatures until f + 1 are accepted, which are all that
\* is left then; when there are fewer, those stay attributed among the others.
Required(f) == f + 1

VerifySigs(sigs, f, signers) ==
  LET acceptable == Acceptable(sigs, signers)
      accepted == CHOOSE s \in FirstOf(acceptable, Required(f)) : TRUE
  IN  IF Len(sigs) < Required(f) THEN [ok |-> FALSE, sigs |-> sigs]
      ELSE IF Cardinality(acceptable) < Required(f)
           THEN [ok |-> FALSE,
                 sigs |-> [i \in DOMAIN sigs |->
                             IF i \in acceptable THEN Attributed(sigs[i], signers)
                             ELSE sigs[i]]]
      ELSE [ok |-> TRUE,
            sigs |-> [k \in 1 .. Required(f) |-> Attributed(sigs[accepted[k]], signers)]]

-----------------------------------------------------------------------------
\* The places to try: the accepted zones of the report's DON, then the accepted
\* environments.
OfDon(c, d, i) == i \in DOMAIN c.zones => c.zones[i].don = d

FirstZoneOnly(c, d) ==
  {i \in DOMAIN Tried(c) :
     OfDon(c, d, i) /\ \A j \in DOMAIN c.zones : OfDon(c, d, j) => i <= j}
CandidatesOf(c, d) == {i \in DOMAIN Tried(c) : OfDon(c, d, i)}

\* The candidate whose turn it is.
Place == CHOOSE i \in candidates : \A j \in candidates : i <= j
Candidate == Tried(config)[Place]

KeyOfDon(e, d) == <<CHOOSE c \in Chains : TRUE, d>>
CacheKey(e, d) == <<e.chain, d>>

SignersOf(r) == {r.sigs[i].key : i \in DOMAIN r.sigs}

Verdict(result, r, entry, c) ==
  [result |-> result, don |-> r.don, signers |-> SignersOf(r), entry |-> entry,
   config |-> c]

\* A verification ends: the workflow keeps a report it had, and one it parsed
\* only when that is verified.
End(result, sigs, entry) ==
  /\ pc' = "idle"
  /\ candidates' = {}
  /\ failed' = FALSE
  /\ config' = None
  /\ verdict' = Verdict(result, report, entry, config)
  /\ report' = IF parsing /\ result # "verified" THEN NoReport
               ELSE [report EXCEPT !.sigs = sigs]

GoOnRetrying(couldNotRead, sigs, entry) ==
  IF candidates # {Place}
  THEN /\ pc' = "lookup"
       /\ candidates' = IF couldNotRead THEN candidates ELSE candidates \ {Place}
       /\ failed' = couldNotRead
       /\ report' = [report EXCEPT !.sigs = sigs]
       /\ UNCHANGED <<config, verdict>>
  ELSE End(IF couldNotRead THEN "unread" ELSE "invalid", sigs, entry)

\* The first candidate is done with: the next one, or the error, in which a
\* candidate that could not be read hides what was wrong with the signatures.
GoOn(couldNotRead, sigs, entry) ==
  IF candidates # {Place}
  THEN /\ pc' = "lookup"
       /\ candidates' = candidates \ {Place}
       /\ failed' = couldNotRead
       /\ report' = [report EXCEPT !.sigs = sigs]
       /\ UNCHANGED <<config, verdict>>
  ELSE End(IF couldNotRead THEN "unread" ELSE "invalid", sigs, entry)

Judge(entry) ==
  LET v == VerifySigs(report.sigs, entry.f, entry.signers) IN
  IF v.ok THEN End("verified", v.sigs, entry) ELSE GoOn(failed, v.sigs, entry)

\* ParseReportWithConfig, or VerifySignaturesWithConfig of report r, up to the
\* first candidate.  A raw report without a full header is an error before
\* anything is done, which is no step.
Begin(r, c) ==
  LET tried == CandidatesOf(c, r.don) IN
  /\ \/ /\ tried = {}
        /\ verdict' = Verdict("notAccepted", r, NotCached, c)
        /\ report' = IF parsing' THEN NoReport ELSE r
        /\ UNCHANGED <<config, pc, candidates>>
     \/ /\ tried # {}
        /\ pc' = "lookup"
        /\ candidates' = tried
        /\ config' = c
        /\ report' = r
        /\ verdict' = IF parsing' THEN NoVerdict ELSE verdict
  /\ UNCHANGED <<chainVars, cache, read, failed>>

Fresh(raw) ==
  [don |-> raw.don,
   sigs |-> [i \in DOMAIN raw.keys |-> [key |-> raw.keys[i], signer |-> Unattributed]]]

ParseReport(raw, c) ==
  /\ pc = "idle"
  /\ parsing' = TRUE
  /\ Begin(Fresh(raw), c)

\* SkipSignatureVerification: the report is kept as it is.
ParseUnverified(raw) ==
  /\ pc = "idle"
  /\ report' = Fresh(raw)
  /\ verdict' = NoVerdict
  /\ UNCHANGED <<chainVars, cache, parsing, config, pc, candidates, read, failed>>

VerifySignatures(c) ==
  /\ pc = "idle"
  /\ report # NoReport
  /\ parsing' = FALSE
  /\ Begin(report, c)

\* The signers of the first candidate are in the cache.
UseCache ==
  LET entry == cache[CacheKey(Candidate, report.don)] IN
  /\ pc = "lookup"
  /\ entry # NotCached
  /\ Judge(entry)
  /\ UNCHANGED <<chainVars, cache, parsing, read>>

StoreNothing(cached, entry) == cached
Store(cached, entry) == entry

\* getDON: it fails (as it always does for an address that is not hexadecimal),
\* or tells f and the nodes of the DON, which may have none.
GetDON ==
  LET e == Candidate
      k == CacheKey(e, report.don)
      now == don[e][report.don] IN
  /\ pc = "lookup"
  /\ cache[k] = NotCached
  /\ \/ /\ GoOn(TRUE, report.sigs, NotCached)
        /\ UNCHANGED <<cache, read>>
     \/ /\ now.nodes = {}
        /\ LET entry == [f |-> now.f, signers |-> NoList] IN
           cache' = [cache EXCEPT ![k] = Store(@, entry)] /\ Judge(entry)
        /\ UNCHANGED read
     \/ /\ now.nodes # {}
        /\ read' = now
        /\ pc' = "getNodesByP2PIds"
        /\ UNCHANGED <<cache, config, candidates, failed, report, verdict>>
  /\ UNCHANGED <<chainVars, parsing>>

\* getNodesByP2PIds: it fails, or tells the signing keys of the nodes that were
\* read.  The list is decoded up to the first node the reply does not hold in
\* full: what was decoded is cached and used.
GetNodesByP2PIds ==
  LET e == Candidate
      k == CacheKey(e, report.don) IN
  /\ pc = "getNodesByP2PIds"
  /\ read' = NoRead
  /\ \/ GoOn(TRUE, report.sigs, NotCached) /\ UNCHANGED cache
     \/ \E decoded \in SUBSET read.nodes :
          LET entry == [f |-> read.f,
                        signers |-> [s \in {key[e][n] : n \in decoded} |->
                                       CHOOSE n \in decoded : key[e][n] = s]] IN
          cache' = [cache EXCEPT ![k] = Store(@, entry)] /\ Judge(entry)
  /\ UNCHANGED <<chainVars, parsing>>

\* The registry of an environment is changed by its operators (external).
ChangeDon(e, d, new) ==
  /\ changes < MaxChanges
  /\ changes' = changes + 1
  /\ don' = [don EXCEPT ![e][d] = new]
  /\ everDon' = [everDon EXCEPT ![e][d] = @ \cup {new}]
  /\ UNCHANGED <<key, everKey, cache, report, parsing, config, pc, candidates,
                 read, failed, verdict>>

ChangeKey(e, n, s) ==
  /\ changes < MaxChanges
  /\ s \notin {key[e][m] : m \in Nodes}
  /\ changes' = changes + 1
  /\ key' = [key EXCEPT ![e][n] = s]
  /\ everKey' = [everKey EXCEPT ![e][n] = @ \cup {s}]
  /\ UNCHANGED <<don, everDon, cache, report, parsing, config, pc, candidates,
                 read, failed, verdict>>

Next ==
  \/ \E raw \in RawReports :
       ParseUnverified(raw) \/ \E c \in Configs : ParseReport(raw, c)
  \/ \E c \in Configs : VerifySignatures(c)
  \/ UseCache
  \/ GetDON
  \/ GetNodesByP2PIds
  \/ \E e \in Environments, d \in Dons, new \in DonConfig : ChangeDon(e, d, new)
  \/ \E e \in Environments, n \in Nodes, s \in Keys : ChangeKey(e, n, s)

Spec == Init /\ [][Next]_vars

\* A contract call is answered or fails, and the loop over the candidates runs.
FairSpec == Spec /\ WF_vars(UseCache \/ GetDON \/ GetNodesByP2PIds)

-----------------------------------------------------------------------------
\* The environments that config c accepts for DON d.
Accepted(c, d) ==
  {z.environment : z \in {z \in ToSet(c.zones) : z.don = d}} \cup ToSet(c.environments)

\* An entry is what registry e held for DON d: f and the nodes of one time, and
\* keys that these nodes had at some time.
ReadFrom(entry, e, d) ==
  \E c \in everDon[e][d] :
    /\ entry.f = c.f
    /\ IF c.nodes = {} THEN entry.signers = NoList
       ELSE /\ entry.signers # NoList
            /\ \A k \in DOMAIN entry.signers :
                 LET n == entry.signers[k] IN n \in c.nodes /\ k \in everKey[e][n]

\* A verified report is left with exactly f + 1 signatures of different signers
\* that the list it was judged by holds, each attributed to its node, whatever
\* it held before, in whatever order, and whatever earlier candidates left in it.
VerifiedIsQuorum ==
  verdict.result = "verified" /\ pc = "idle" =>
    /\ Len(report.sigs) = verdict.entry.f + 1
    /\ Cardinality(SignersOf(report)) = verdict.entry.f + 1
    /\ \A i \in DOMAIN report.sigs :
         /\ Authorized(verdict.entry.signers, report.sigs[i].key)
         /\ report.sigs[i].signer = verdict.entry.signers[report.sigs[i].key]

\* A report is called invalid only when every environment its config accepts
\* for its DON was read, that one and no other registry, and none of their lists
\* holds f + 1 of its signers.
InvalidIsNoQuorum ==
  verdict.result = "invalid" /\ pc = "idle" =>
    \A e \in Accepted(verdict.config, verdict.don) :
      LET entry == cache[CacheKey(e, verdict.don)] IN
      /\ entry # NotCached
      /\ ReadFrom(entry, e, verdict.don)
      /\ Cardinality({k \in verdict.signers : Authorized(entry.signers, k)}) <= entry.f

\* A verified report was judged by what one registry, which its config accepts
\* for its DON, held for that DON: its f, and its signers, each a node that was
\* in the DON by then, with a key it had.
VerifiedByAcceptedRegistry ==
  verdict.result = "verified" /\ pc = "idle" =>
    \E e \in Accepted(verdict.config, report.don) :
      /\ ReadFrom(verdict.entry, e, report.don)
      /\ \A k \in SignersOf(report) : Authorized(verdict.entry.signers, k)

\* A verified report that is verified again with the same config is verified:
\* what the first verification took out of it, what the registries did since
\* and which of the earlier candidates can be read now make no difference.
VerifiedStaysVerified ==
  [][verdict.result = "verified" /\ ~parsing' /\ verdict'.result \notin {"verified", "none"}
       => verdict'.config # verdict.config]_vars

\* A verification ends.
VerificationEnds == pc # "idle" ~> pc = "idle"

-----------------------------------------------------------------------------
\* report_verification.go:416: when no signer list is available, f + 1 valid
\* unique signatures are what is required.
NoListTakesAnyQuorum ==
  verdict.result = "invalid" /\ verdict.entry # NotCached =>
    (verdict.entry.signers = NoList =>
       Cardinality(verdict.signers \cap Keys) <= verdict.entry.f)
=============================================================================
