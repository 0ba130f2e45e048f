------------------------- MODULE ConsensusTagsProofs -------------------------
(***************************************************************************)
(* What ConsensusTags computes, for every graph of Go types and every      *)
(* depth: the recursions over the depth have the values their definitions  *)
(* say, and a type that leads back to itself has no descriptor.            *)
(***************************************************************************)
EXTENDS ConsensusTags, NaturalsInduction, WellFoundedInduction, TLAPS

\* A set of natural numbers that is not empty has a least.
LEMMA LeastOf ==
  ASSUME NEW S \in SUBSET Nat, S # {}
  PROVE  \E m \in S : \A j \in S : m <= j
<1>1. PICK m \in S : \A j \in S : ~ (<<j, m>> \in OpToRel(<, Nat))
  BY NatLessThanWellFounded, WFMin
<1>2. ASSUME NEW j \in S PROVE m <= j
  <2>1. m \in Nat /\ j \in Nat /\ ~ (j < m)
    BY <1>1 DEF OpToRel
  <2>2. QED
    BY <2>1
<1>3. QED
  BY <1>2

\* A value for the greatest depth and a step to the next smaller make a value
\* for every depth.
LEMMA ByDepth ==
  ASSUME NEW S, NEW base \in S, NEW F \in [S -> S]
  PROVE  \E w \in [0 .. MaxDepth -> S] :
           w = [d \in 0 .. MaxDepth |-> IF d = MaxDepth THEN base ELSE F[w[d + 1]]]
<1> DEFINE Down(n) == (MaxDepth - n) .. MaxDepth
           From(n, w) == /\ w \in [Down(n) -> S]
                         /\ \A d \in Down(n) :
                              w[d] = IF d = MaxDepth THEN base ELSE F[w[d + 1]]
           bad == {n \in 0 .. MaxDepth : ~ \E w : From(n, w)}
<1>1. SUFFICES bad = {}
  <2>1. MaxDepth \in 0 .. MaxDepth /\ MaxDepth - MaxDepth = 0
    BY DepthAssumption
  <2>2. PICK w : From(MaxDepth, w)
    BY <1>1, <2>1
  <2>3. Down(MaxDepth) = 0 .. MaxDepth
    BY <2>1
  <2>4. w \in [0 .. MaxDepth -> S]
    BY <2>2, <2>3
  <2>5. w = [d \in 0 .. MaxDepth |-> IF d = MaxDepth THEN base ELSE F[w[d + 1]]]
    BY <2>2, <2>3, <2>4
  <2>6. QED
    BY <2>4, <2>5
<1>2. SUFFICES ASSUME bad # {} PROVE FALSE
  OBVIOUS
<1>3. PICK n \in bad : \A j \in bad : n <= j
  <2>1. bad \in SUBSET Nat
    OBVIOUS
  <2> HIDE DEF bad
  <2>2. QED
    BY <1>2, <2>1, LeastOf
<1>4. n \in 0 .. MaxDepth /\ ~ \E w : From(n, w)
  BY <1>3
<1>5. n # 0
  <2>1. Down(0) = {MaxDepth}
    BY DepthAssumption
  <2> DEFINE w == [d \in {MaxDepth} |-> base]
  <2>2. From(0, w)
    BY <2>1
  <2>3. QED
    BY <1>4, <2>2
<1>6. n - 1 \in 0 .. MaxDepth /\ ~ (n <= n - 1)
  BY <1>4, <1>5, DepthAssumption
<1>7. PICK w : From(n - 1, w)
  BY <1>3, <1>6
<1> DEFINE first == MaxDepth - n
           v == [d \in Down(n) |-> IF d = first THEN F[w[first + 1]] ELSE w[d]]
<1>8. /\ first \in Int /\ first # MaxDepth
      /\ first + 1 \in Down(n - 1)
      /\ \A d \in Down(n) : d # first => d \in Down(n - 1)
      /\ \A d \in Down(n) : d # MaxDepth => d + 1 \in Down(n) /\ d + 1 # first
  BY <1>4, <1>5, DepthAssumption
<1> HIDE DEF first
<1>9. v \in [Down(n) -> S]
  <2>1. \A d \in Down(n - 1) : w[d] \in S
    BY <1>7
  <2>2. F[w[first + 1]] \in S
    BY <2>1, <1>8
  <2>3. QED
    BY <2>1, <2>2, <1>8
<1>10. ASSUME NEW d \in Down(n)
       PROVE  v[d] = IF d = MaxDepth THEN base ELSE F[v[d + 1]]
  <2>1. d # MaxDepth => v[d + 1] = w[d + 1]
    BY <1>8
  <2>2. CASE d = first
    BY <2>1, <2>2, <1>8
  <2>3. CASE d # first
    <3>1. d \in Down(n - 1)
      BY <1>8, <2>3
    <3>2. w[d] = IF d = MaxDepth THEN base ELSE F[w[d + 1]]
      BY <1>7, <3>1
    <3>3. v[d] = w[d]
      BY <2>3
    <3>4. QED
      BY <2>1, <3>2, <3>3
  <2>4. QED
    BY <2>2, <2>3
<1>11. From(n, v)
  BY <1>9, <1>10
<1>12. QED
  BY <1>4, <1>11
-----------------------------------------------------------------------------
\* What is identical a level up, given what is below.
IdenticalOver(deeper) ==
  {t \in TypeNames :
     \/ Kind(t) \in {"text", "number", "bigInt"}
     \/ Kind(t) \in {"slice", "map"} /\ Elem(t) \in deeper
     \/ /\ IsStruct(t)
        /\ \A i \in DOMAIN Fields(t) : Fields(t)[i].exported => Fields(t)[i].type \in deeper
     \/ /\ Kind(t) = "pointer"
        /\ Kind(Elem(t)) \notin {"pointer", "bigInt"}
        /\ Elem(t) \in deeper}

\* The recursion of isIdenticalTypeDepth.
LEMMA IdenticalUnfolds ==
  ASSUME NEW d \in 0 .. MaxDepth
  PROVE  /\ IdenticalAt[d] \subseteq TypeNames
         /\ IdenticalAt[d] = IF d = MaxDepth THEN {} ELSE IdenticalOver(IdenticalAt[d + 1])
<1> DEFINE S == SUBSET TypeNames
           F == [s \in S |-> IdenticalOver(s)]
<1>1. F \in [S -> S]
  BY DEF IdenticalOver
<1>2. {} \in S
  OBVIOUS
<1> HIDE DEF F, S
<1>3. PICK w \in [0 .. MaxDepth -> S] :
        w = [e \in 0 .. MaxDepth |-> IF e = MaxDepth THEN {} ELSE F[w[e + 1]]]
  BY <1>1, <1>2, ByDepth
<1>4. ASSUME NEW e \in 0 .. MaxDepth
      PROVE  w[e] = IF e = MaxDepth THEN {} ELSE IdenticalOver(w[e + 1])
  <2>1. w[e] = IF e = MaxDepth THEN {} ELSE F[w[e + 1]]
    BY <1>3
  <2>2. e # MaxDepth => w[e + 1] \in S
    <3>1. e # MaxDepth => e + 1 \in 0 .. MaxDepth
      BY DepthAssumption
    <3>2. QED
      BY <1>3, <3>1
  <2>3. QED
    BY <2>1, <2>2 DEF F
<1>5. w = [e \in 0 .. MaxDepth |-> IF e = MaxDepth THEN {} ELSE IdenticalOver(w[e + 1])]
  BY <1>3, <1>4
<1>6. IdenticalAt =
        [e \in 0 .. MaxDepth |->
           IF e = MaxDepth THEN {} ELSE IdenticalOver(IdenticalAt[e + 1])]
  <2> DEFINE Sat(g) == g = [e \in 0 .. MaxDepth |->
                              IF e = MaxDepth THEN {} ELSE IdenticalOver(g[e + 1])]
  <2>1. IdenticalAt = CHOOSE g : Sat(g)
    BY DEF IdenticalAt, IdenticalOver
  <2>2. Sat(w)
    BY <1>5
  <2> HIDE DEF Sat
  <2>3. Sat(IdenticalAt)
    BY <2>1, <2>2
  <2>4. QED
    BY <2>3 DEF Sat
<1>7. QED
  <2>1. IdenticalAt[d] = IF d = MaxDepth THEN {} ELSE IdenticalOver(IdenticalAt[d + 1])
    BY <1>6
  <2>2. QED
    BY <2>1 DEF IdenticalOver
-----------------------------------------------------------------------------
\* Pointees each of which leads on to another of them.
LeadOn(types) ==
  /\ types \subseteq {Pointee(t) : t \in TypeNames}
  /\ \A t \in types : Targets(t) \cap types # {}

\* A type that leads on is not a pointer, has fields or elements, and one of
\* them is where it leads.
LEMMA LeadsOn ==
  ASSUME NEW types, LeadOn(types), NEW t \in types
  PROVE  /\ t \in TypeNames /\ Kind(t) \in {"struct", "slice", "map"}
         /\ Pointee(t) = t
         /\ Kind(t) \in {"slice", "map"} =>
              Elem(t) \in TypeNames /\ Pointee(Elem(t)) \in types
         /\ Kind(t) = "struct" =>
              \E i \in DOMAIN Fields(t) :
                /\ Fields(t)[i] \in FieldDefs
                /\ Fields(t)[i].exported /\ Fields(t)[i].tag # "ignore"
                /\ Pointee(Fields(t)[i].type) \in types
<1>1. t \in TypeNames
  <2>1. PICK u \in TypeNames : t = Pointee(u)
    BY DEF LeadOn
  <2>2. QED
    BY <2>1, TypesAssumption DEF Pointee
<1>2. PICK q \in types : q \in Targets(t)
  BY DEF LeadOn
<1>3. Fields(t) \in Seq(FieldDefs) /\ (Kind(t) # "struct" => DOMAIN Fields(t) = {})
  BY <1>1, TypesAssumption
<1>4. CASE Kind(t) \in {"slice", "map"}
  <2>1. q = Pointee(Elem(t))
    BY <1>2, <1>3, <1>4 DEF Targets
  <2>2. QED
    BY <1>1, <1>2, <1>4, <2>1, TypesAssumption DEF Pointee
<1>5. CASE Kind(t) \notin {"slice", "map"}
  <2>1. PICK i \in DOMAIN Fields(t) :
          /\ Fields(t)[i].exported /\ Fields(t)[i].tag # "ignore"
          /\ q = Pointee(Fields(t)[i].type)
    BY <1>2, <1>5 DEF Targets
  <2>2. Fields(t)[i] \in FieldDefs
    BY <1>3
  <2>3. Kind(t) = "struct"
    BY <1>3, <2>1
  <2>4. QED
    BY <1>1, <1>2, <2>1, <2>2, <2>3 DEF Pointee
<1>6. QED
  BY <1>4, <1>5

\* Types that lead on are identical at no depth: isIdenticalTypeDepth follows
\* them to the depth where it gives up.
LEMMA EndlessNotIdentical ==
  ASSUME NEW types, LeadOn(types), NEW d \in 0 .. MaxDepth,
         NEW t \in TypeNames, Pointee(t) \in types
  PROVE  t \notin IdenticalAt[d]
<1> DEFINE Leads == {u \in TypeNames : Pointee(u) \in types}
           bad == {n \in 0 .. MaxDepth : IdenticalAt[MaxDepth - n] \cap Leads # {}}
<1>1. SUFFICES bad = {}
  <2>1. MaxDepth - d \in 0 .. MaxDepth /\ MaxDepth - (MaxDepth - d) = d
    BY DepthAssumption
  <2>2. QED
    BY <1>1, <2>1
<1>2. SUFFICES ASSUME bad # {} PROVE FALSE
  OBVIOUS
<1>3. PICK n \in bad : \A j \in bad : n <= j
  <2>1. bad \in SUBSET Nat
    OBVIOUS
  <2> HIDE DEF bad
  <2>2. QED
    BY <1>2, <2>1, LeastOf
<1> DEFINE e == MaxDepth - n
<1>4. e \in 0 .. MaxDepth
  BY <1>3, DepthAssumption
<1>5. PICK u \in Leads : u \in IdenticalAt[e]
  BY <1>3
<1>6. e # MaxDepth /\ u \in IdenticalOver(IdenticalAt[e + 1])
  BY <1>4, <1>5, IdenticalUnfolds
<1>7. IdenticalAt[e + 1] \cap Leads = {}
  <2>1. n - 1 \in 0 .. MaxDepth /\ ~ (n <= n - 1) /\ MaxDepth - (n - 1) = e + 1
    BY <1>3, <1>6, DepthAssumption
  <2>2. n - 1 \notin bad
    BY <1>3, <2>1
  <2>3. QED
    BY <2>1, <2>2
<1> HIDE DEF e, bad
<1>8. CASE Kind(u) = "pointer"
  <2>1. Kind(Elem(u)) # "pointer" /\ Elem(u) \in IdenticalAt[e + 1]
    BY <1>6, <1>8 DEF IdenticalOver, IsStruct
  <2>2. Elem(u) \in TypeNames
    BY <1>8, TypesAssumption
  <2>3. Pointee(u) = Elem(u) /\ Pointee(Elem(u)) = Elem(u)
    BY <1>8, <2>1 DEF Pointee
  <2>4. QED
    BY <1>7, <2>1, <2>2, <2>3
<1>9. CASE Kind(u) # "pointer"
  <2>1. u \in types
    BY <1>9 DEF Pointee
  <2>2. CASE Kind(u) \in {"slice", "map"}
    <3>1. Elem(u) \in Leads
      BY <2>1, <2>2, LeadsOn
    <3>2. Elem(u) \in IdenticalAt[e + 1]
      BY <1>6, <2>2 DEF IdenticalOver, IsStruct
    <3>3. QED
      BY <1>7, <3>1, <3>2
  <2>3. CASE Kind(u) = "struct"
    <3>1. PICK i \in DOMAIN Fields(u) :
            /\ Fields(u)[i] \in FieldDefs
            /\ Fields(u)[i].exported
            /\ Pointee(Fields(u)[i].type) \in types
      BY <2>1, <2>3, LeadsOn
    <3>2. Fields(u)[i].type \in TypeNames
      BY <3>1 DEF FieldDefs
    <3>3. Fields(u)[i].type \in IdenticalAt[e + 1]
      BY <1>6, <2>3, <3>1 DEF IdenticalOver, IsStruct
    <3>4. QED
      BY <1>7, <3>1, <3>2, <3>3
  <2>4. QED
    BY <2>1, <2>2, <2>3, LeadsOn
<1>10. QED
  BY <1>8, <1>9
-----------------------------------------------------------------------------
\* The nodes a descriptor can have (no prover knows that "fields" is a string).
DescriptorNodes == [path : Seq(STRING), agg : STRING \cup {"fields"}]
Descriptors == [ok : BOOLEAN, nodes : SUBSET DescriptorNodes]

\* The sequences that paths start from.
LEMMA ShortSequences ==
  ASSUME NEW T
  PROVE  <<>> \in Seq(T) /\ \A x \in T : <<x>> \in Seq(T)
OBVIOUS

\* A field adds a descriptor's nodes to its struct's.
LEMMA FieldDescriptorType ==
  ASSUME NEW f \in FieldDefs, NEW below \in Descriptors
  PROVE  FieldDescriptor(f, below) \in Descriptors
<1>1. \A name \in STRING : <<name>> \in Seq(STRING)
  BY ShortSequences
<1>2. TagFits(f.tag, f.type) \in BOOLEAN
  BY DEF TagFits
<1>3. \A name \in STRING : Under(name, below.nodes) \subseteq DescriptorNodes
  <2>1. SUFFICES ASSUME NEW name \in STRING, NEW e \in below.nodes
                 PROVE  [e EXCEPT !.path = <<name>> \o @] \in DescriptorNodes
    BY DEF Under
  <2>2. e \in DescriptorNodes
    BY DEF Descriptors
  <2>3. <<name>> \o e.path \in Seq(STRING)
    BY <1>1, <2>2 DEF DescriptorNodes
  <2>4. QED
    BY <2>2, <2>3 DEF DescriptorNodes
<1>4. f.name \in STRING /\ f.tag \in STRING
  BY DEF FieldDefs
<1>5. Leaf(<<f.name>>, f.tag) \in DescriptorNodes
  BY <1>1, <1>4 DEF Leaf, DescriptorNodes
<1>6. below.ok \in BOOLEAN /\ below.nodes \subseteq DescriptorNodes
  BY DEF Descriptors
<1>7. QED
  BY <1>2, <1>3, <1>4, <1>5, <1>6 DEF FieldDescriptor, Descriptors, NoDescriptor

\* What the fields of a struct add up to is a descriptor.
LEMMA StructDescriptorType ==
  ASSUME NEW fields, \A i \in DOMAIN fields : fields[i] \in Descriptors
  PROVE  StructDescriptor(fields) \in Descriptors
<1>1. LastOfName(fields) \subseteq DescriptorNodes
  BY DEF LastOfName, Descriptors
<1>2. <<>> \in Seq(STRING)
  BY ShortSequences
<1>3. Top \in DescriptorNodes
  BY <1>2 DEF Top, Leaf, DescriptorNodes
<1>4. {Top} \cup LastOfName(fields) \subseteq DescriptorNodes
  BY <1>1, <1>3
<1>5. QED
  BY <1>4 DEF StructDescriptor, NoDescriptor, Descriptors

\* What a type is parsed to, given what its fields are parsed to.
StructOver(t, deeper) ==
  LET fields == Fields(Pointee(t)) IN
    StructDescriptor([i \in DOMAIN fields |->
      FieldDescriptor(fields[i], deeper[fields[i].type])])
ParsedOver(deeper) ==
  [t \in TypeNames |->
     IF ~HasFields(t) THEN NoDescriptor ELSE StructOver(t, deeper)]

\* The step of parseConsensusTagDepth makes descriptors of descriptors.
LEMMA ParsedOverType ==
  ASSUME NEW deeper \in [TypeNames -> Descriptors]
  PROVE  ParsedOver(deeper) \in [TypeNames -> Descriptors]
<1>1. SUFFICES ASSUME NEW t \in TypeNames, HasFields(t)
               PROVE  StructOver(t, deeper) \in Descriptors
  BY DEF ParsedOver, NoDescriptor, Descriptors
<1> DEFINE fields == Fields(Pointee(t))
           g == [i \in DOMAIN fields |-> FieldDescriptor(fields[i], deeper[fields[i].type])]
<1>2. Pointee(t) \in TypeNames
  BY TypesAssumption DEF Pointee
<1>3. fields \in Seq(FieldDefs)
  BY <1>2, TypesAssumption
<1>4. ASSUME NEW i \in DOMAIN fields PROVE g[i] \in Descriptors
  <2>1. fields[i] \in FieldDefs
    BY <1>3
  <2>2. deeper[fields[i].type] \in Descriptors
    BY <2>1 DEF FieldDefs
  <2>3. FieldDescriptor(fields[i], deeper[fields[i].type]) \in Descriptors
    BY <2>1, <2>2, FieldDescriptorType
  <2>4. QED
    BY <2>3
<1>5. DOMAIN g = DOMAIN fields
  OBVIOUS
<1>6. StructOver(t, deeper) = StructDescriptor(g)
  BY DEF StructOver
<1> HIDE DEF g
<1>7. QED
  BY <1>4, <1>5, <1>6, StructDescriptorType

\* The recursion of parseConsensusTagDepth.
LEMMA ParsedUnfolds ==
  ASSUME NEW d \in 0 .. MaxDepth
  PROVE  ParsedAt[d] = IF d = MaxDepth THEN [t \in TypeNames |-> NoDescriptor]
                       ELSE ParsedOver(ParsedAt[d + 1])
<1> DEFINE S == [TypeNames -> Descriptors]
           F == [s \in S |-> ParsedOver(s)]
           base == [t \in TypeNames |-> NoDescriptor]
           Sat(g) == g = [e \in 0 .. MaxDepth |->
                            IF e = MaxDepth THEN base ELSE ParsedOver(g[e + 1])]
<1>1. F \in [S -> S]
  BY ParsedOverType
<1>2. base \in S
  BY DEF NoDescriptor, Descriptors
<1> HIDE DEF F, S, base
<1>3. PICK w \in [0 .. MaxDepth -> S] :
        w = [e \in 0 .. MaxDepth |-> IF e = MaxDepth THEN base ELSE F[w[e + 1]]]
  BY <1>1, <1>2, ByDepth
<1>4. ASSUME NEW e \in 0 .. MaxDepth
      PROVE  w[e] = IF e = MaxDepth THEN base ELSE ParsedOver(w[e + 1])
  <2>1. w[e] = IF e = MaxDepth THEN base ELSE F[w[e + 1]]
    BY <1>3
  <2>2. e # MaxDepth => w[e + 1] \in S
    <3>1. e # MaxDepth => e + 1 \in 0 .. MaxDepth
      BY DepthAssumption
    <3>2. QED
      BY <1>3, <3>1
  <2>3. QED
    BY <2>1, <2>2 DEF F
<1>5. Sat(w)
  BY <1>3, <1>4
<1>6. ParsedAt = CHOOSE g : Sat(g)
  BY DEF ParsedAt, ParsedOver, StructOver, base
<1>7. Sat(ParsedAt)
  <2> HIDE DEF Sat
  <2>1. QED
    BY <1>5, <1>6
<1>8. ASSUME NEW e \in 0 .. MaxDepth
      PROVE  ParsedAt[e] = IF e = MaxDepth THEN base ELSE ParsedOver(ParsedAt[e + 1])
  BY <1>7
<1>9. QED
  BY <1>8 DEF base
-----------------------------------------------------------------------------
\* A tag that looks at the type of its field does not fit one that leads on.
LEMMA EndlessFitsNoTag ==
  ASSUME NEW types, LeadOn(types), NEW u \in TypeNames, Pointee(u) \in types, NEW tag
  PROVE  ~ TagFits(tag, u)
<1> DEFINE q == Pointee(u)
<1>1. /\ q \in TypeNames /\ Kind(q) \in {"struct", "slice", "map"} /\ Pointee(q) = q
      /\ Kind(q) = "slice" => Elem(q) \in TypeNames /\ Pointee(Elem(q)) \in types
  BY LeadsOn
<1>2. 0 \in 0 .. MaxDepth
  BY DepthAssumption
<1>3. ~ IsIdentical(q)
  BY <1>1, <1>2, EndlessNotIdentical DEF IsIdentical
<1>4. ~ IsIdenticalSlice(q)
  BY <1>1, <1>2, EndlessNotIdentical DEF IsIdentical, IsIdenticalSlice
<1>5. CASE IsNumeric(q)
  <2>1. Kind(q) = "instant"
    BY <1>1, <1>5 DEF IsNumeric
  <2>2. QED
    BY <1>1, <2>1
<1>6. CASE ~ IsNumeric(q)
  <2>1. ~ IsIdenticalSlice(u)
    <3>1. Kind(u) = "slice" => q = u
      BY DEF Pointee
    <3>2. QED
      BY <1>4, <3>1 DEF IsIdenticalSlice
  <2>2. QED
    BY <1>3, <1>4, <1>6, <2>1 DEF TagFits
<1>7. QED
  BY <1>5, <1>6

\* Types that lead on are parsed at no depth: parseConsensusTagDepth follows
\* them until a tag does not fit or it gives up, and either is an error for all
\* of them.
LEMMA EndlessNotParsed ==
  ASSUME NEW types, LeadOn(types), NEW d \in 0 .. MaxDepth,
         NEW t \in TypeNames, Pointee(t) \in types
  PROVE  ~ ParsedAt[d][t].ok
<1> DEFINE Leads == {u \in TypeNames : Pointee(u) \in types}
           bad == {n \in 0 .. MaxDepth : \E u \in Leads : ParsedAt[MaxDepth - n][u].ok}
<1>1. SUFFICES bad = {}
  <2>1. MaxDepth - d \in 0 .. MaxDepth /\ MaxDepth - (MaxDepth - d) = d
    BY DepthAssumption
  <2>2. QED
    BY <1>1, <2>1
<1>2. SUFFICES ASSUME bad # {} PROVE FALSE
  OBVIOUS
<1>3. PICK n \in bad : \A j \in bad : n <= j
  <2>1. bad \in SUBSET Nat
    OBVIOUS
  <2> HIDE DEF bad
  <2>2. QED
    BY <1>2, <2>1, LeastOf
<1> DEFINE e == MaxDepth - n
           deeper == ParsedAt[e + 1]
<1>4. e \in 0 .. MaxDepth
  BY <1>3, DepthAssumption
<1>5. PICK u \in Leads : ParsedAt[e][u].ok
  BY <1>3
<1>6. e # MaxDepth
  BY <1>4, <1>5, ParsedUnfolds DEF NoDescriptor
<1>7. \A v \in Leads : ~ deeper[v].ok
  <2>1. n - 1 \in 0 .. MaxDepth /\ ~ (n <= n - 1) /\ MaxDepth - (n - 1) = e + 1
    BY <1>3, <1>6, DepthAssumption
  <2>2. n - 1 \notin bad
    BY <1>3, <2>1
  <2>3. QED
    BY <2>1, <2>2
<1>8. ParsedAt[e] = ParsedOver(deeper)
  BY <1>4, <1>6, ParsedUnfolds
<1> HIDE DEF e, bad, deeper
<1> DEFINE fields == Fields(Pointee(u))
<1>9. IsStruct(Pointee(u)) /\ StructOver(u, deeper).ok
  <2>1. HasFields(u) /\ StructOver(u, deeper).ok
    BY <1>5, <1>8 DEF ParsedOver, NoDescriptor
  <2>2. Kind(u) # "bigInt"
    BY <1>5, LeadsOn DEF Pointee
  <2>3. QED
    BY <2>1, <2>2 DEF HasFields
<1>10. PICK i \in DOMAIN fields :
         /\ fields[i] \in FieldDefs
         /\ fields[i].exported /\ fields[i].tag # "ignore"
         /\ Pointee(fields[i].type) \in types
  BY <1>9, LeadsOn DEF IsStruct
<1>11. FieldDescriptor(fields[i], deeper[fields[i].type]).ok
  <2> DEFINE g == [j \in DOMAIN fields |-> FieldDescriptor(fields[j], deeper[fields[j].type])]
  <2>1. StructDescriptor(g).ok
    BY <1>9 DEF StructOver
  <2>2. g[i] = FieldDescriptor(fields[i], deeper[fields[i].type]) /\ i \in DOMAIN g
    OBVIOUS
  <2> HIDE DEF g
  <2>3. \A j \in DOMAIN g : g[j].ok
    BY <2>1 DEF StructDescriptor, NoDescriptor
  <2>4. QED
    BY <2>2, <2>3
<1>12. fields[i].type \in TypeNames
  BY <1>10 DEF FieldDefs
<1>13. ~ deeper[fields[i].type].ok /\ ~ TagFits(fields[i].tag, fields[i].type)
  BY <1>7, <1>10, <1>12, EndlessFitsNoTag
<1>14. QED
  BY <1>10, <1>11, <1>13 DEF FieldDescriptor, Skipped, NoDescriptor

\* ConsensusAggregationFromTags refuses every type that leads back to itself,
\* however the types are connected and wherever maxConsensusDepth lies.
THEOREM SelfReferenceHasNoDescriptor ==
  \A t \in TypeNames : SelfReferential(t) => ~ Descriptor("tags", t).ok
<1>1. SUFFICES ASSUME NEW t \in TypeNames, SelfReferential(t)
               PROVE  ~ ParsedAt[0][t].ok
  BY DEF Descriptor, Parsed
<1>2. PICK types \in SUBSET {Pointee(u) : u \in TypeNames} :
        /\ \A u \in types : Targets(u) \cap types # {}
        /\ Pointee(t) \in types
  BY <1>1 DEF SelfReferential, Endless
<1>3. LeadOn(types)
  BY <1>2 DEF LeadOn
<1>4. 0 \in 0 .. MaxDepth
  BY DepthAssumption
<1>5. QED
  BY <1>1, <1>2, <1>3, <1>4, EndlessNotParsed
=============================================================================
