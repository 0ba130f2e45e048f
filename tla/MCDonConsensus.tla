---------------------------- MODULE MCDonConsensus ----------------------------
(***************************************************************************)
(* Go types and workflows on which DonConsensus and ConsensusTags are      *)
(* checked.                                                                *)
(***************************************************************************)
EXTENDS DonConsensus, TLC

Field(name, tag, type) ==
  [name |-> name, exported |-> TRUE, tag |-> tag, squash |-> FALSE, type |-> type]
Squashed(name, type) == [Field(name, "nested", type) EXCEPT !.squash = TRUE]
Unexported(name, tag, type) == [Field(name, tag, type) EXCEPT !.exported = FALSE]

Basic(kind) == [kind |-> kind, elem |-> "", fields |-> <<>>]
Of(kind, elem) == [kind |-> kind, elem |-> elem, fields |-> <<>>]
Struct(fields) == [kind |-> "struct", elem |-> "", fields |-> fields]

\* Quote is accepted; Chain, Ring and Tree lead back to themselves.
MCTypeDef ==
  "num" :> Basic("number") @@ "str" :> Basic("text") @@ "time" :> Basic("instant") @@
  "nums" :> Of("slice", "num") @@ "trees" :> Of("slice", "Tree") @@
  "Meta" :> Struct(<<Field("src", "identical", "str"), Field("seq", "ignore", "num"),
                     Unexported("cache", "", "str")>>) @@
  "Ids" :> Struct(<<Field("feed", "identical", "str"), Field("nonce", "ignore", "num")>>) @@
  "*Ids" :> Of("pointer", "Ids") @@
  "Quote" :> Struct(<<Field("price", "median", "num"), Field("log", "common_prefix", "nums"),
                      Field("note", "ignore", "str"), Field("meta", "nested", "Meta"),
                      Squashed("ids", "*Ids")>>) @@
  "Bare" :> Struct(<<Field("price", "", "num")>>) @@
  "Hidden" :> Struct(<<Unexported("price", "median", "num")>>) @@
  "Wrong" :> Struct(<<Field("price", "median", "str")>>) @@
  "Chain" :> Struct(<<Field("val", "median", "num"), Field("next", "nested", "*Chain")>>) @@
  "*Chain" :> Of("pointer", "Chain") @@
  "Ring" :> Struct(<<Field("val", "median", "num"), Squashed("next", "*Ring")>>) @@
  "*Ring" :> Of("pointer", "Ring") @@
  "Tree" :> Struct(<<Field("label", "identical", "str"), Field("below", "identical", "trees")>>)

NodeStep(agg, type, kept, default) ==
  [op |-> "node", kept |-> kept, shape |-> Shape(type), descriptor |-> Descriptor(agg, type),
   default |-> default]
Step(op) == [op |-> op]

AgreesOnQuotes == <<Step("call"), NodeStep("tags", "Quote", Kept, "given")>>

\* The function of the first step fails on every node: what goes wrong there
\* meets the requests of the other step.
AgreesAfterErrors ==
  <<NodeStep("identical", "str", {}, "given"), Step("rand"),
    NodeStep("tags", "Quote", {CHOOSE k \in Kept : TRUE}, "none")>>

\* The type has no descriptor; the default cannot be wrapped.
HasNoDescriptor == <<NodeStep("tags", "Chain", Kept, "given"), Step("secrets")>>
HasNoDefault == <<Step("secrets"), NodeStep("identical", "str", Kept, "unwrappable")>>

MCWorkflows == {AgreesOnQuotes, AgreesAfterErrors, HasNoDescriptor, HasNoDefault}
=============================================================================
