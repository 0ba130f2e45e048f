---------------------------- MODULE ConsensusTags ----------------------------
(***************************************************************************)
(* How the fields of a Go value meet in consensus                          *)
(* (cre/consensus_aggregators.go, clearIgnoredFields of cre/runtime.go):   *)
(* the descriptor that is read off the tags of a struct type, and what the *)
(* descriptor leaves of a value.                                           *)
(*                                                                         *)
(* TypeDef is a finite graph of Go types; pointers, slices and fields may  *)
(* lead back to a type.  A descriptor is the set of its nodes, each with   *)
(* the path of names that leads to it; so is a value, with what is at the  *)
(* end of each path.                                                       *)
(***************************************************************************)
EXTENDS Integers, Sequences, FiniteSets

CONSTANTS
  TypeDef,    \* Go types by name: [kind, elem, fields]
  MaxDepth    \* maxConsensusDepth

TypeNames == DOMAIN TypeDef
Types == [t \in TypeNames |-> TypeDef[t]]
Kind(t) == Types[t].kind
Elem(t) == Types[t].elem

\* "bigInt" is *big.Int, "instant" is time.Time and decimal.Decimal: structs
\* with no exported field.  "map" has string keys.
Kinds == {"text", "number", "bigInt", "instant", "struct", "slice", "map",
          "pointer", "other"}

IsStruct(t) == Kind(t) \in {"struct", "instant"}
IsNumeric(t) == Kind(t) \in {"number", "bigInt", "instant"}
Fields(t) == Types[t].fields     \* [name, exported, tag, squash, type]

ASSUME DepthAssumption == MaxDepth \in Nat \ {0}

\* What Go types there can be.
FieldDefs ==
  [name : STRING, exported : BOOLEAN, tag : STRING, squash : BOOLEAN, type : TypeNames]
ASSUME TypesAssumption ==
  \A t \in TypeNames :
    /\ Kind(t) \in Kinds
    /\ Kind(t) \in {"slice", "map", "pointer"} => Elem(t) \in TypeNames
    /\ Fields(t) \in Seq(FieldDefs)
    /\ Kind(t) # "struct" => Fields(t) = <<>>
-----------------------------------------------------------------------------
\* isIdenticalTypeDepth, by depth: what is too deep is not identical.
IdenticalAt[d \in 0 .. MaxDepth] ==
  IF d = MaxDepth THEN {}
  ELSE LET deeper == IdenticalAt[d + 1] IN
    {t \in TypeNames :
       \/ Kind(t) \in {"text", "number", "bigInt"}
       \/ Kind(t) \in {"slice", "map"} /\ Elem(t) \in deeper
       \/ /\ IsStruct(t)
          /\ \A i \in DOMAIN Fields(t) : Fields(t)[i].exported => Fields(t)[i].type \in deeper
       \/ /\ Kind(t) = "pointer"
          /\ Kind(Elem(t)) \notin {"pointer", "bigInt"}
          /\ Elem(t) \in deeper}

\* The same with the depth taken for an answer.
IdenticalUnlessDeep[d \in 0 .. MaxDepth] ==
  IF d = MaxDepth THEN TypeNames
  ELSE LET deeper == IdenticalUnlessDeep[d + 1] IN
    {t \in TypeNames :
       \/ Kind(t) \in {"text", "number", "bigInt"}
       \/ Kind(t) \in {"slice", "map", "pointer"} /\ Elem(t) \in deeper
       \/ /\ IsStruct(t)
          /\ \A i \in DOMAIN Fields(t) : Fields(t)[i].exported => Fields(t)[i].type \in deeper}

IsIdenticalUnlessDeep(t) == t \in IdenticalUnlessDeep[0]
IsIdentical(t) == t \in IdenticalAt[0]

IsIdenticalSlice(t) == Kind(t) = "slice" /\ IsIdentical(Elem(t))

Pointee(t) == IF Kind(t) = "pointer" THEN Elem(t) ELSE t

\* May a field of this type carry this tag?  The suffix goes by the type as
\* declared, the others look through a pointer.
TagFits(tag, t) ==
  \/ tag = "median" /\ IsNumeric(Pointee(t))
  \/ tag = "identical" /\ IsIdentical(Pointee(t))
  \/ tag = "common_prefix" /\ IsIdenticalSlice(Pointee(t))
  \/ tag = "common_suffix" /\ IsIdenticalSlice(t)

\* Fields that the descriptor passes over.
Skipped(f) == f.tag = "ignore" \/ (f.tag = "" /\ ~f.exported)

NoDescriptor == [ok |-> FALSE, nodes |-> {}]
Leaf(path, agg) == [path |-> path, agg |-> agg]
Top == Leaf(<<>>, "fields")
Under(name, nodes) == {[e EXCEPT !.path = <<name>> \o @] : e \in nodes}

\* What a field adds to its struct's descriptor; below is what parsing its own
\* type one level down gives.
FieldDescriptor(f, below) ==
  IF Skipped(f) THEN [ok |-> TRUE, nodes |-> {}]
  ELSE IF ~f.exported \/ f.tag = "" THEN NoDescriptor
  ELSE IF f.squash THEN [ok |-> below.ok, nodes |-> below.nodes \ {Top}]
  ELSE IF f.tag = "nested" THEN [ok |-> below.ok, nodes |-> Under(f.name, below.nodes)]
  ELSE [ok |-> TagFits(f.tag, f.type), nodes |-> {Leaf(<<f.name>>, f.tag)}]

\* A later field of one name replaces the earlier: each name goes to the last
\* that has it.
HasName(field, name) == \E e \in field.nodes : e.path[1] = name
LastOfName(fields) ==
  UNION {{e \in fields[i].nodes :
            \A j \in DOMAIN fields : j > i => ~HasName(fields[j], e.path[1])} :
          i \in DOMAIN fields}

StructDescriptor(fields) ==
  IF \A i \in DOMAIN fields : fields[i].ok
  THEN [ok |-> TRUE, nodes |-> {Top} \cup LastOfName(fields)]
  ELSE NoDescriptor

\* Is this a struct or a pointer to one, as *big.Int is?
HasFields(t) == IsStruct(Pointee(t)) \/ Kind(t) = "bigInt"

\* parseConsensusTagDepth, by depth.
ParsedAt[d \in 0 .. MaxDepth] ==
  IF d = MaxDepth THEN [t \in TypeNames |-> NoDescriptor]
  ELSE LET deeper == ParsedAt[d + 1] IN
    [t \in TypeNames |->
       IF ~HasFields(t) THEN NoDescriptor
       ELSE LET fields == Fields(Pointee(t)) IN
            StructDescriptor([i \in DOMAIN fields |->
              FieldDescriptor(fields[i], deeper[fields[i].type])])]
Parsed(t) == ParsedAt[0][t]

\* ConsensusAggregationFromTags, ConsensusMedianAggregation (the compiler sees
\* to its type) and the other constructors of a ConsensusAggregation.
Descriptor(agg, t) ==
  IF agg = "tags" THEN Parsed(t)
  ELSE [ok |-> \/ agg = "median"
               \/ agg = "identical" /\ IsIdentical(t)
               \/ agg \in {"common_prefix", "common_suffix"} /\ IsIdenticalSlice(t),
        nodes |-> {Leaf(<<>>, agg)}]
-----------------------------------------------------------------------------
\* values.Wrap (external): every exported field under its name.  Only the
\* fields that consensus ignores are told from those that take part.
Place(path, ignored) == [path |-> path, ignored |-> ignored]
FieldPlaces(f, below) ==
  IF ~f.exported THEN {}
  ELSE IF f.tag = "ignore" THEN {Place(<<f.name>>, TRUE)}
  ELSE IF f.squash THEN below
  ELSE IF f.tag = "nested" THEN Under(f.name, below)
  ELSE {Place(<<f.name>>, FALSE)}
WrappedAt[d \in 0 .. MaxDepth] ==
  LET deeper == WrappedAt[d + 1] IN
  [t \in TypeNames |->
     IF Kind(Pointee(t)) # "struct" \/ d = MaxDepth THEN {Place(<<>>, FALSE)}
     ELSE UNION {FieldPlaces(f, deeper[f.type]) :
                   f \in {Fields(Pointee(t))[i] : i \in DOMAIN Fields(Pointee(t))}}]

Shape(t) == WrappedAt[0][t]

\* A value of that shape, with kept in the fields that take part in consensus
\* and other in those that do not.
ValueOf(shape, kept, other) ==
  {[path |-> v.path, holds |-> IF v.ignored THEN other ELSE kept] : v \in shape}

IsPrefix(q, p) == Len(q) <= Len(p) /\ SubSeq(p, 1, Len(q)) = q

\* clearIgnoredFields: what is under a name that a map of fields does not have
\* is deleted, at every level; below an aggregated name nothing is.
ClearTopLevel(value, nodes) ==
  {v \in value : \E e \in nodes :
     e.path # <<>> /\ v.path # <<>> /\ e.path[1] = v.path[1]}
Covered(path, nodes) ==
  \E e \in nodes : e.path = path \/ (e.agg # "fields" /\ IsPrefix(e.path, path))
ClearIgnoredFields(value, nodes) == {v \in value : Covered(v.path, nodes)}
-----------------------------------------------------------------------------
\* The types whose values a value of a type contains, ignored fields apart.
Targets(t) ==
  {Pointee(u) : u \in
     {Fields(t)[i].type : i \in {j \in DOMAIN Fields(t) :
                                   Fields(t)[j].exported /\ Fields(t)[j].tag # "ignore"}}
       \cup (IF Kind(t) \in {"slice", "map"} THEN {Elem(t)} ELSE {})}

\* The types that lead from one to another for ever: there are only so many of
\* them, so that they lead back to themselves.
Endless == UNION {types \in SUBSET {Pointee(t) : t \in TypeNames} :
                    \A t \in types : Targets(t) \cap types # {}}
SelfReferential(t) == Pointee(t) \in Endless
=============================================================================
