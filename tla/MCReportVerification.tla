------------------------ MODULE MCReportVerification ------------------------
(***************************************************************************)
(* Small instances of ReportVerification: which configs a workflow uses    *)
(* and what the registries hold at first.                                  *)
(***************************************************************************)
EXTENDS ReportVerification, TLC

CONSTANTS c1, c2, r1, r2, d1, d2, n1, n2, k1, k2, k3

Env(c, r) == [chain |-> c, registry |-> r]
Zone(c, r, d) == [environment |-> Env(c, r), don |-> d]

Config(zones, environments) == [zones |-> zones, environments |-> environments]

\* Two chains with a registry each: a config of environments in order, one of
\* zones of the same and of another DON.
TwoChains ==
  {Config(<<>>, <<Env(c1, r1), Env(c2, r1)>>),
   Config(<<Zone(c2, r1, d1), Zone(c1, r1, d1), Zone(c1, r1, d2)>>, <<>>)}

\* A config of two chains, and one of the first alone.
OneOfTwoChains ==
  {Config(<<>>, <<Env(c1, r1), Env(c2, r1)>>), Config(<<Zone(c1, r1, d1)>>, <<>>)}

\* Two registries of one chain.
TwoRegistries == {Config(<<>>, <<Env(c1, r1)>>), Config(<<>>, <<Env(c1, r2)>>)}

Raw(d, keys) == [don |-> d, keys |-> keys]

\* Up to three signatures: too few, duplicates, unknown signers before known
\* ones, more than are needed.
ManyReports ==
  {Raw(d1, l) : l \in UNION {[1 .. n -> Keys] : n \in 1 .. 3}}
    \cup {Raw(d1, <<Unrecoverable, k2, k1>>), Raw(d2, <<k2>>)}

FewReports ==
  {Raw(d1, <<k1>>), Raw(d1, <<k3, k2>>), Raw(d1, <<k2, k1, k3>>), Raw(d2, <<k2>>)}

\* Each environment has the DON with another f; the second knows the nodes by
\* another key.
MCDeployments ==
  LET first == CHOOSE e \in Environments : TRUE
      keys(e) == IF e = first THEN n1 :> k1 @@ n2 :> k2 ELSE n1 :> k3 @@ n2 :> k2
      dons(e) ==
        [d \in Dons |->
           IF d = d2 THEN [f |-> 0, nodes |-> {}]
           ELSE [f |-> IF e = first THEN 1 ELSE 0, nodes |-> Nodes]]
  IN  {[don |-> [e \in Environments |-> dons(e)],
        key |-> [e \in Environments |-> keys(e)]]}
=============================================================================
