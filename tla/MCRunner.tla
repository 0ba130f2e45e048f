------------------------------ MODULE MCRunner ------------------------------
(***************************************************************************)
(* Workflows and configs for Runner: every kind of handler, constraints    *)
(* from the program and from the config, and JSON of every shape.          *)
(***************************************************************************)
EXTENDS Runner, ChainNames, TLC

Ethereum == ChainSelectorFromName(EvmChains, "ethereum-mainnet")
Sepolia == ChainSelectorFromName(EvmChains, "ethereum-testnet-sepolia")
MCChainSelectors == {Ethereum, Sepolia}

MCHandlers ==
  {Handler(CronTrigger), Handler(LogTrigger(Ethereum)),
   HandlerWithPreHook(LogTrigger(Sepolia)),
   HandlerInTee(HttpTrigger, OneOfTees(<<Nitro(<<"us-west-2">>)>>)),
   HandlerInTee(BasicTrigger, ConfigTees),
   HandlerInTeeWithPreHook(BasicActionTrigger, ConfigTees)}
MCWorkflows == {<<>>} \cup [1 .. 1 -> MCHandlers] \cup [1 .. 2 -> MCHandlers]

West == Text("us-west-2")
East == Text("eu-central-1")
Number == [json |-> "number"]

RegionLists == {Null, West, List(<<>>), List(<<West>>), List(<<East>>), List(<<Null>>),
                List(<<West, Null>>), List(<<West, East>>)}
Bindings ==
  {Null, Text("nitro"), Object([tee |-> Text("nitro")]), Object([TEE |-> Text("nitro")]),
   Object([tee |-> Null]), Object([tee |-> Number]), Object([tee |-> Text("sgx")]),
   Object([tee |-> Text("nitro"), extra |-> Number]), Object([regions |-> List(<<West>>)])}
    \cup {Object([tee |-> Text("nitro"), regions |-> r]) : r \in RegionLists}
    \cup {Object([tee |-> Text("nitro"), REGIONS |-> List(<<West>>)])}

MCConfigs ==
  {Absent, Null, West, Number, Object(<<>>), Object([extra |-> Number]),
   Object([regions |-> List(<<West>>), extra |-> Number]),
   Object([REGIONS |-> List(<<West>>)]), List(<<>>),
   List(<<Object([tee |-> Text("nitro")]), Null>>),
   List(<<Object([tee |-> Text("nitro"), regions |-> List(<<West>>)]),
          Object([tee |-> Text("nitro")])>>)}
    \cup {Object([regions |-> r]) : r \in RegionLists}
    \cup {List(<<b>>) : b \in Bindings}

\* Every config that says something.
MCWrittenConfigs == MCConfigs \ {Absent}
=============================================================================
