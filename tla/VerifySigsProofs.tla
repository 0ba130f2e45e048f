--------------------------- MODULE VerifySigsProofs ---------------------------
(***************************************************************************)
(* What verifySigs accepts and leaves (report_verification.go:411-486),    *)
(* for any signatures, f and list of signers: f + 1 signatures of          *)
(* different listed signers, each attributed to its node, or the proof     *)
(* that there are no f + 1 of them.                                        *)
(***************************************************************************)
EXTENDS ReportVerification, FiniteSetTheorems, TLAPS

-----------------------------------------------------------------------------
(* Sets of numbers.                                                        *)

LEMMA Least ==
  ASSUME NEW S \in SUBSET Nat, S # {}
  PROVE  \E m \in S : \A j \in S : m <= j
<1>1. IsWellFoundedOn(OpToRel(<, Nat), Nat)
  BY NatLessThanWellFounded
<1>2. PICK m \in S : \A j \in S : ~ (<<j, m>> \in OpToRel(<, Nat))
  BY <1>1, WFMin
<1>3. ASSUME NEW j \in S PROVE m <= j
  <2>1. m \in Nat /\ j \in Nat /\ ~ (j < m)
    BY <1>2 DEF OpToRel
  <2>2. QED
    BY <2>1
<1>4. QED
  BY <1>3

\* A set with n members has n smallest ones.
LEMMA FirstExists ==
  ASSUME NEW S \in SUBSET Nat, IsFiniteSet(S), NEW n \in Nat, n <= Cardinality(S)
  PROVE  FirstOf(S, n) # {}
<1> DEFINE bad == {m \in Nat : m <= n /\ FirstOf(S, m) = {}}
<1> SUFFICES ASSUME FirstOf(S, n) = {} PROVE FALSE
  OBVIOUS
<1>1. PICK m \in bad : \A j \in bad : m <= j
  <2>1. bad \in SUBSET Nat /\ bad # {}
    OBVIOUS
  <2> HIDE DEF bad
  <2>2. QED
    BY <2>1, Least
<1>2. m # 0
  <2>1. [k \in 1 .. 0 |-> 0] \in FirstOf(S, 0)
    BY DEF FirstOf
  <2>2. QED
    BY <1>1, <2>1
<1>3. m - 1 \in Nat /\ m - 1 <= n /\ m - 1 \notin bad
  BY <1>1, <1>2
<1>4. PICK s : s \in FirstOf(S, m - 1)
  BY <1>3
<1> DEFINE R == {s[k] : k \in 1 .. m - 1}
           g == [k \in 1 .. m - 1 |-> s[k]]
<1>5. IsFiniteSet(R) /\ Cardinality(R) <= m - 1 /\ Cardinality(R) \in Nat
  <2>1. g \in Surjection(1 .. m - 1, R)
    BY DEF Surjection
  <2>2. IsFiniteSet(1 .. m - 1) /\ Cardinality(1 .. m - 1) = m - 1
    BY <1>3, FS_Interval
  <2> HIDE DEF g, R
  <2>3. QED
    BY <2>1, <2>2, FS_Surjection, FS_CardinalityType
<1>6. S \ R # {}
  <2> SUFFICES ASSUME S \subseteq R PROVE FALSE
    OBVIOUS
  <2> HIDE DEF R
  <2>1. Cardinality(S) <= Cardinality(R) /\ Cardinality(S) \in Nat
    BY <1>5, FS_Subset, FS_CardinalityType
  <2>2. QED
    BY <1>1, <1>3, <1>5, <2>1
<1>7. PICK next \in S \ R : \A j \in S \ R : next <= j
  <2>1. S \ R \in SUBSET Nat
    OBVIOUS
  <2> HIDE DEF R
  <2>2. QED
    BY <1>6, <2>1, Least
<1> DEFINE t == [k \in 1 .. m |-> IF k = m THEN next ELSE s[k]]
<1>8. /\ s \in [1 .. m - 1 -> S] /\ \A j, k \in 1 .. m - 1 : j < k => s[j] < s[k]
      /\ \A i \in S : (\E k \in 1 .. m - 1 : s[k] = i) \/ (\A k \in 1 .. m - 1 : s[k] < i)
  BY <1>4 DEF FirstOf
<1>9. t \in [1 .. m -> S]
  BY <1>3, <1>7, <1>8
<1>10. \A k \in 1 .. m - 1 : s[k] < next
  BY <1>7, <1>8
<1>11. ASSUME NEW j \in 1 .. m, NEW k \in 1 .. m, j < k PROVE t[j] < t[k]
  <2>1. j \in 1 .. m - 1 /\ t[j] = s[j]
    BY <1>3, <1>11
  <2>2. CASE k = m
    BY <2>1, <2>2, <1>10
  <2>3. CASE k # m
    BY <2>1, <2>3, <1>3, <1>8, <1>11
  <2>4. QED
    BY <2>2, <2>3
<1>12. ASSUME NEW i \in S, \A k \in 1 .. m : t[k] # i, NEW k \in 1 .. m PROVE t[k] < i
  <2>1. i \notin R
    <3> SUFFICES ASSUME NEW l \in 1 .. m - 1, s[l] = i PROVE FALSE
      OBVIOUS
    <3>1. l \in 1 .. m /\ t[l] = s[l]
      BY <1>3
    <3>2. QED
      BY <3>1, <1>12
  <2>2. t[m] = next /\ next # i /\ next <= i
    BY <1>3, <1>7, <1>12, <2>1
  <2>3. next < i /\ i \in Nat /\ next \in Nat
    BY <2>2, <1>7
  <2>4. CASE k = m
    BY <2>2, <2>3, <2>4
  <2>5. CASE k # m
    <3>1. k \in 1 .. m - 1 /\ t[k] = s[k]
      BY <1>3, <2>5
    <3>2. s[k] < next /\ s[k] \in Nat
      BY <3>1, <1>8, <1>10
    <3>3. QED
      BY <3>1, <3>2, <2>3
  <2>6. QED
    BY <2>4, <2>5
<1> HIDE DEF t
<1>13. t \in FirstOf(S, m)
  BY <1>9, <1>11, <1>12 DEF FirstOf
<1>14. QED
  BY <1>1, <1>13

-----------------------------------------------------------------------------
(* One signature, and the list of signers.                                 *)

Lists == SignerLists \cup {NoList}

LEMMA ListType ==
  ASSUME NEW signers \in Lists, NEW k, Authorized(signers, k)
  PROVE  k \in Keys /\ signers[k] \in Nodes
BY DEF Lists, SignerLists, Authorized

LEMMA AttributedType ==
  ASSUME NEW signers \in Lists, NEW sig \in Signature, Authorized(signers, sig.key)
  PROVE  /\ Attributed(sig, signers) \in Signature
         /\ Attributed(sig, signers).key = sig.key
         /\ Attributed(sig, signers).signer = signers[sig.key]
<1>1. signers[sig.key] \in Nodes
  BY ListType
<1>2. QED
  BY <1>1 DEF Signature, Attributed

\* f + 1 signatures of different signers in the list.
Quorum(sigs, f, signers) ==
  /\ DOMAIN sigs = 1 .. f + 1
  /\ \A i, j \in 1 .. f + 1 : sigs[i].key = sigs[j].key => i = j
  /\ \A i \in 1 .. f + 1 : Authorized(signers, sigs[i].key)

KeysOf(sigs) == {sigs[i].key : i \in DOMAIN sigs}

-----------------------------------------------------------------------------
(* verifySigs.                                                             *)

LEMMA AcceptableType ==
  ASSUME NEW sigs \in Seq(Signature), NEW signers \in Lists
  PROVE  /\ Acceptable(sigs, signers) \in SUBSET Nat
         /\ Acceptable(sigs, signers) \subseteq 1 .. Len(sigs)
         /\ IsFiniteSet(Acceptable(sigs, signers))
         /\ Cardinality(Acceptable(sigs, signers)) \in Nat
         /\ Len(sigs) \in Nat /\ DOMAIN sigs = 1 .. Len(sigs)
         /\ \A i \in DOMAIN sigs : sigs[i] \in Signature
<1> DEFINE S == Acceptable(sigs, signers)
<1>1. /\ Len(sigs) \in Nat /\ DOMAIN sigs = 1 .. Len(sigs)
      /\ \A i \in DOMAIN sigs : sigs[i] \in Signature
  OBVIOUS
<1>2. S \subseteq 1 .. Len(sigs) /\ S \in SUBSET Nat
  BY <1>1 DEF Acceptable
<1>3. IsFiniteSet(1 .. Len(sigs))
  BY <1>1, FS_Interval
<1> HIDE DEF S
<1>4. IsFiniteSet(S) /\ Cardinality(S) \in Nat
  BY <1>2, <1>3, FS_Subset, FS_CardinalityType
<1>5. QED
  BY <1>1, <1>2, <1>4 DEF S

\* What verifySigs accepts is f + 1 signatures of different signers of the list,
\* each attributed to its node (report_verification.go:467-485).
THEOREM AcceptedSigs ==
  ASSUME NEW sigs \in Seq(Signature), NEW f \in Nat, NEW signers \in Lists,
         NEW v, v = VerifySigs(sigs, f, signers), v.ok
  PROVE  /\ v.sigs \in Seq(Signature) /\ Len(v.sigs) = f + 1
         /\ Quorum(v.sigs, f, signers)
         /\ \A i \in 1 .. f + 1 : v.sigs[i].signer = signers[v.sigs[i].key]
         /\ KeysOf(v.sigs) \subseteq KeysOf(sigs)
<1> DEFINE S == Acceptable(sigs, signers)
           s == CHOOSE s \in FirstOf(S, Required(f)) : TRUE
<1>1. /\ S \in SUBSET Nat /\ IsFiniteSet(S) /\ Cardinality(S) \in Nat
      /\ S \subseteq 1 .. Len(sigs)
      /\ Len(sigs) \in Nat /\ DOMAIN sigs = 1 .. Len(sigs)
      /\ \A i \in DOMAIN sigs : sigs[i] \in Signature
  BY AcceptableType
<1>2. /\ ~(Len(sigs) < Required(f)) /\ ~(Cardinality(S) < Required(f))
      /\ v.sigs = [k \in 1 .. Required(f) |-> Attributed(sigs[s[k]], signers)]
  BY DEF VerifySigs
<1>3. Required(f) = f + 1 /\ f + 1 \in Nat /\ f + 1 <= Cardinality(S)
  BY <1>1, <1>2 DEF Required
<1>4. s \in FirstOf(S, f + 1)
  <2> HIDE DEF S
  <2>1. FirstOf(S, f + 1) # {}
    BY <1>1, <1>3, FirstExists
  <2>2. QED
    BY <1>3, <2>1
<1> HIDE DEF s
<1>5. s \in [1 .. f + 1 -> S] /\ \A j, k \in 1 .. f + 1 : j < k => s[j] < s[k]
  BY <1>4 DEF FirstOf
<1>6. ASSUME NEW k \in 1 .. f + 1
      PROVE  /\ s[k] \in S /\ s[k] \in DOMAIN sigs /\ sigs[s[k]] \in Signature
             /\ Counts(sigs, s[k]) /\ Authorized(signers, sigs[s[k]].key)
  <2>1. s[k] \in S
    BY <1>5
  <2>2. QED
    BY <2>1, <1>1 DEF Acceptable
<1>7. ASSUME NEW k \in 1 .. f + 1
      PROVE  /\ v.sigs[k] \in Signature /\ v.sigs[k].key = sigs[s[k]].key
             /\ v.sigs[k].signer = signers[sigs[s[k]].key]
  <2>1. v.sigs[k] = Attributed(sigs[s[k]], signers)
    BY <1>2, <1>3
  <2>2. QED
    BY <2>1, <1>6, AttributedType
<1>8. DOMAIN v.sigs = 1 .. f + 1 /\ v.sigs \in Seq(Signature) /\ Len(v.sigs) = f + 1
  <2>1. DOMAIN v.sigs = 1 .. f + 1 /\ v.sigs = [k \in 1 .. f + 1 |-> v.sigs[k]]
    BY <1>2, <1>3
  <2>2. v.sigs \in [1 .. f + 1 -> Signature]
    BY <2>1, <1>7
  <2>3. QED
    BY <2>1, <2>2, <1>3
<1>9. ASSUME NEW j \in 1 .. f + 1, NEW k \in 1 .. f + 1, j < k
      PROVE  v.sigs[j].key # v.sigs[k].key
  <2>1. s[j] < s[k] /\ s[j] \in 1 .. Len(sigs) /\ s[k] \in 1 .. Len(sigs)
    BY <1>1, <1>5, <1>9
  <2>2. s[j] \in 1 .. s[k] - 1
    BY <2>1
  <2>3. sigs[s[j]].key # sigs[s[k]].key
    BY <2>2, <1>6 DEF Counts
  <2>4. QED
    BY <2>3, <1>7
<1>10. \A j, k \in 1 .. f + 1 : v.sigs[j].key = v.sigs[k].key => j = k
  <2> SUFFICES ASSUME NEW j \in 1 .. f + 1, NEW k \in 1 .. f + 1,
                      v.sigs[j].key = v.sigs[k].key, j # k
               PROVE  FALSE
    OBVIOUS
  <2>1. j < k \/ k < j
    OBVIOUS
  <2>2. QED
    BY <2>1, <1>9
<1>11. KeysOf(v.sigs) \subseteq KeysOf(sigs)
  <2>1. \A k \in 1 .. f + 1 : s[k] \in DOMAIN sigs /\ v.sigs[k].key = sigs[s[k]].key
    BY <1>6, <1>7
  <2>2. \A k \in 1 .. f + 1 : v.sigs[k].key \in KeysOf(sigs)
    BY <2>1 DEF KeysOf
  <2>3. KeysOf(v.sigs) = {v.sigs[k].key : k \in 1 .. f + 1}
    BY <1>8 DEF KeysOf
  <2>4. QED
    BY <2>2, <2>3
<1>12. QED
  BY <1>6, <1>7, <1>8, <1>10, <1>11 DEF Quorum

\* When it does not accept, the signatures keep their places and signers, ...
LEMMA RefusedSigs ==
  ASSUME NEW sigs \in Seq(Signature), NEW f \in Nat, NEW signers \in Lists,
         NEW v, v = VerifySigs(sigs, f, signers), ~v.ok
  PROVE  /\ v.sigs \in Seq(Signature) /\ DOMAIN v.sigs = DOMAIN sigs
         /\ \A i \in DOMAIN sigs : v.sigs[i].key = sigs[i].key
<1> DEFINE S == Acceptable(sigs, signers)
           left == [i \in DOMAIN sigs |->
                      IF i \in S THEN Attributed(sigs[i], signers) ELSE sigs[i]]
<1>1. /\ Len(sigs) \in Nat /\ DOMAIN sigs = 1 .. Len(sigs)
      /\ \A i \in DOMAIN sigs : sigs[i] \in Signature
  BY AcceptableType
<1>2. v.sigs = sigs \/ v.sigs = left
  BY DEF VerifySigs
<1>3. ASSUME NEW i \in DOMAIN sigs PROVE left[i] \in Signature /\ left[i].key = sigs[i].key
  <2>1. CASE i \in S
    <3>1. Authorized(signers, sigs[i].key) /\ sigs[i] \in Signature
      BY <2>1, <1>1 DEF Acceptable
    <3>2. left[i] = Attributed(sigs[i], signers)
      BY <2>1
    <3>3. QED
      BY <3>1, <3>2, AttributedType
  <2>2. CASE i \notin S
    BY <2>2, <1>1
  <2>3. QED
    BY <2>1, <2>2
<1>4. DOMAIN left = 1 .. Len(sigs) /\ left = [i \in 1 .. Len(sigs) |-> left[i]]
  BY <1>1
<1> HIDE DEF left
<1>5. left \in [1 .. Len(sigs) -> Signature]
  BY <1>1, <1>3, <1>4
<1>6. left \in Seq(Signature)
  BY <1>1, <1>5
<1>7. QED
  BY <1>1, <1>2, <1>3, <1>4, <1>6

\* When verifySigs refuses, fewer than f + 1 of the signers are in the list
\* (report_verification.go:419-421 and 476-481).
THEOREM NoQuorum ==
  ASSUME NEW sigs \in Seq(Signature), NEW f \in Nat, NEW signers \in Lists,
         ~VerifySigs(sigs, f, signers).ok
  PROVE  Cardinality({k \in KeysOf(sigs) : Authorized(signers, k)}) <= f
<1> DEFINE S == Acceptable(sigs, signers)
           K == {k \in KeysOf(sigs) : Authorized(signers, k)}
           n == Len(sigs)
<1>1. /\ S \in SUBSET Nat /\ S \subseteq 1 .. n
      /\ IsFiniteSet(S) /\ Cardinality(S) \in Nat
      /\ n \in Nat /\ DOMAIN sigs = 1 .. n
  BY AcceptableType
<1>2. n < f + 1 \/ Cardinality(S) < f + 1
  BY DEF VerifySigs, Required
<1> DEFINE h == [i \in S |-> sigs[i].key]
<1>3. h \in Surjection(S, K)
  <2>1. h \in [S -> K]
    BY DEF Acceptable, KeysOf
  <2>2. ASSUME NEW k \in K PROVE \E i \in S : h[i] = k
    <3> DEFINE at == {i \in 1 .. n : sigs[i].key = k}
    <3>1. at \in SUBSET Nat /\ at # {}
      BY <1>1 DEF KeysOf
    <3>2. PICK i \in at : \A j \in at : i <= j
      <4> HIDE DEF at
      <4>1. QED
        BY <3>1, Least
    <3>3. i \in DOMAIN sigs /\ sigs[i].key = k /\ i \in Nat
      BY <3>2, <1>1
    <3>4. k \in Keys /\ Authorized(signers, k)
      BY ListType
    <3>5. \A j \in 1 .. i - 1 : sigs[j].key # k
      <4> SUFFICES ASSUME NEW j \in 1 .. i - 1, sigs[j].key = k PROVE FALSE
        OBVIOUS
      <4>1. j \in 1 .. n /\ j < i
        BY <3>3, <1>1
      <4>2. j \in at
        BY <4>1
      <4>3. QED
        BY <3>2, <4>1, <4>2
    <3>6. i \in S
      BY <3>3, <3>4, <3>5 DEF Acceptable, Counts
    <3>7. QED
      BY <3>3, <3>6
  <2>3. QED
    BY <2>1, <2>2 DEF Surjection
<1>4. Cardinality(S) <= n
  <2>1. n \in Nat /\ S \in SUBSET (1 .. n) /\ Cardinality(S) \in Nat
    BY <1>1
  <2> HIDE DEF S, K, h, n
  <2>2. 1 \in Int /\ n \in Int
    BY <2>1
  <2>3. IsFiniteSet(1 .. n) /\ Cardinality(1 .. n) = IF 1 > n THEN 0 ELSE n - 1 + 1
    BY <2>2, FS_Interval
  <2>4. Cardinality(1 .. n) = n
    BY <2>1, <2>3
  <2>5. QED
    BY <2>1, <2>3, <2>4, FS_Subset
<1> HIDE DEF S, K, h, n
<1>5. IsFiniteSet(K) /\ Cardinality(K) <= Cardinality(S)
  BY <1>1, <1>3, FS_Surjection
<1>6. Cardinality(K) \in Nat
  BY <1>5, FS_CardinalityType
<1>7. Cardinality(K) <= f
  BY <1>1, <1>2, <1>4, <1>5, <1>6
<1>8. QED
  BY <1>7 DEF K

\* A quorum is accepted.
LEMMA QuorumIsAccepted ==
  ASSUME NEW sigs \in Seq(Signature), NEW f \in Nat, NEW signers \in Lists,
         Quorum(sigs, f, signers)
  PROVE  VerifySigs(sigs, f, signers).ok
<1>1. Len(sigs) = f + 1 /\ DOMAIN sigs = 1 .. f + 1 /\ Len(sigs) \in Nat
  <2> DEFINE n == Len(sigs)
  <2>1. n \in Nat /\ DOMAIN sigs = 1 .. n /\ DOMAIN sigs = 1 .. f + 1
    BY DEF Quorum
  <2> HIDE DEF n
  <2>2. 1 .. n = 1 .. f + 1
    BY <2>1
  <2>3. n = f + 1
    BY <2>1, <2>2
  <2>4. QED
    BY <2>1, <2>3 DEF n
<1>2. Acceptable(sigs, signers) = 1 .. f + 1
  <2>1. ASSUME NEW i \in 1 .. f + 1 PROVE Counts(sigs, i)
    <3>1. sigs[i].key \in Keys
      BY ListType DEF Quorum
    <3>2. ASSUME NEW j \in 1 .. i - 1 PROVE sigs[j].key # sigs[i].key
      <4>1. j \in 1 .. f + 1 /\ j # i
        OBVIOUS
      <4>2. QED
        BY <4>1 DEF Quorum
    <3>3. QED
      BY <3>1, <3>2 DEF Counts
  <2>2. QED
    BY <1>1, <2>1 DEF Acceptable, Quorum
<1>3. Cardinality(1 .. f + 1) = f + 1
  BY FS_Interval
<1>4. QED
  BY <1>1, <1>2, <1>3 DEF VerifySigs, Required

=============================================================================
