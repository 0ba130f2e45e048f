--------------------------- MODULE TeeConstraints ---------------------------
(***************************************************************************)
(* The TEEs a handler accepts (cre/tee_constraints.go): the constraints a  *)
(* program writes, the JSON a config writes, what of it is refused, and    *)
(* the requirements the host is given.  A place is a TEE in a region.      *)
(*                                                                         *)
(* A JSON value is what a parser of JSON makes of it: an object is the     *)
(* function from its field names to their values, and none has two         *)
(* spellings of one field.                                                 *)
(***************************************************************************)
EXTENDS Integers, Sequences

CONSTANTS
  Regions,      \* the regions there are, the unset one ("") not among them
  AwsRegions    \* those the SDK knows: of Region, and of NitroRegion

ASSUME RegionsAssumption ==
  /\ AwsRegions \subseteq Regions
  /\ "" \notin Regions

TeeTypes == {"TEE_TYPE_AWS_NITRO", "another TEE"}
Places == TeeTypes \X Regions

Null == [json |-> "null"]
Text(s) == [json |-> "string", text |-> s]
List(items) == [json |-> "array", items |-> items]
Object(fields) == [json |-> "object", fields |-> fields]

\* What a function that may fail returns.
Ok(value) == [ok |-> TRUE, value |-> value]
Err == [ok |-> FALSE]

-----------------------------------------------------------------------------
(* The constraints, and their requirements.                                *)

AnyTee == [kind |-> "AnyTee"]
AnyTeeInRegions(regions) == [kind |-> "AnyTeeInRegions", regions |-> regions]
OneOfTees(bindings) == [kind |-> "OneOfTees", bindings |-> bindings]
Nitro(regions) == [type |-> "TEE_TYPE_AWS_NITRO", regions |-> regions]

AnyRegions(regions) == [item |-> "AnyRegions", regions |-> regions]
TeeTypesAndRegions(types) == [item |-> "TeeTypesAndRegions", types |-> types]

toRequirements(constraint) ==
  CASE constraint.kind = "AnyTee" -> AnyRegions(<<>>)
    [] constraint.kind = "AnyTeeInRegions" -> AnyRegions(constraint.regions)
    [] constraint.kind = "OneOfTees" -> TeeTypesAndRegions(constraint.bindings)

\* The host's side (external): no regions are all regions.
InRegions(region, regions) ==
  regions = <<>> \/ \E k \in DOMAIN regions : regions[k] = region
Admits(requirements) ==
  IF requirements.item = "AnyRegions"
    THEN {p \in Places : InRegions(p[2], requirements.regions)}
  ELSE {p \in Places :
          \E k \in DOMAIN requirements.types :
            /\ requirements.types[k].type = p[1]
            /\ InRegions(p[2], requirements.types[k].regions)}

-----------------------------------------------------------------------------
(* The JSON.                                                               *)

\* A field of a struct is found under any spelling, a key of a map is not.
Spelling == [tee |-> {"tee", "TEE"}, regions |-> {"regions", "REGIONS"}]
Field(doc, name) == {f \in DOMAIN doc.fields : f \in Spelling[name]}
HasField(doc, name) == doc.json = "object" /\ Field(doc, name) # {}
FieldOf(doc, name) == doc.fields[CHOOSE f \in Field(doc, name) : TRUE]

\* UnmarshalText is not asked about an element that is null: it stays unset.
IsRegion(doc) == doc = Null \/ \E r \in AwsRegions : doc = Text(r)
RegionOf(doc) == IF doc = Null THEN "" ELSE doc.text

UnmarshalRegions(doc) ==
  IF doc = Null THEN Ok(<<>>)
  ELSE IF doc.json = "array" /\ \A k \in DOMAIN doc.items : IsRegion(doc.items[k])
    THEN Ok([k \in DOMAIN doc.items |-> RegionOf(doc.items[k])])
  ELSE Err

\* A mutant: without the check for an empty list.
PossiblyEmptyRegions(doc) == UnmarshalRegions(doc)

NonEmptyRegions(doc) ==
  IF UnmarshalRegions(doc) = Ok(<<>>) THEN Err ELSE UnmarshalRegions(doc)

\* Nitro.UnmarshalJSON: unknown fields are refused, no regions are all regions.
UnmarshalNitro(doc) ==
  IF DOMAIN doc.fields \ (Spelling.tee \cup Spelling.regions) # {} THEN Err
  ELSE IF ~HasField(doc, "regions") THEN Ok(Nitro(<<>>))
  ELSE IF NonEmptyRegions(FieldOf(doc, "regions")).ok
    THEN Ok(Nitro(NonEmptyRegions(FieldOf(doc, "regions")).value))
  ELSE Err

\* The "tee" field chooses the binding, and there is one: "nitro".
unmarshalBinding(doc) ==
  IF HasField(doc, "tee") /\ FieldOf(doc, "tee") = Text("nitro")
    THEN UnmarshalNitro(doc)
  ELSE Err

decodeArray(doc) ==
  IF doc.items # <<>> /\ \A k \in DOMAIN doc.items : unmarshalBinding(doc.items[k]).ok
    THEN Ok(OneOfTees([k \in DOMAIN doc.items |-> unmarshalBinding(doc.items[k]).value]))
  ELSE Err

decodeObject(doc) ==
  IF DOMAIN doc.fields = {} THEN Ok(AnyTee)
  ELSE IF DOMAIN doc.fields = {"regions"} /\ NonEmptyRegions(doc.fields["regions"]).ok
    THEN Ok(AnyTeeInRegions(NonEmptyRegions(doc.fields["regions"]).value))
  ELSE Err

\* Tees.UnmarshalJSON, for null and for every shape.
UnmarshalTees(doc) ==
  CASE doc.json = "array" -> decodeArray(doc)
    [] doc.json = "object" -> decodeObject(doc)
    [] OTHER -> Err

-----------------------------------------------------------------------------
(* What a reader of the JSON takes it to say, from the comments on Tees,   *)
(* AnyTee, AnyTeeInRegions and OneOfTees.                                  *)

Listed(region, doc) ==
  doc.json = "array" /\ \E k \in DOMAIN doc.items : doc.items[k] = Text(region)

Names(doc, place) ==
  IF doc.json = "object"
    THEN DOMAIN doc.fields = {} \/ Listed(place[2], doc.fields["regions"])
  ELSE \E k \in DOMAIN doc.items :
         LET binding == doc.items[k]
         IN  /\ place[1] = "TEE_TYPE_AWS_NITRO"
             /\ FieldOf(binding, "tee") = Text("nitro")
             /\ HasField(binding, "regions") =>
                  Listed(place[2], FieldOf(binding, "regions"))
=============================================================================
