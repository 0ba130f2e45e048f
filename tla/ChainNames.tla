----------------------------- MODULE ChainNames -----------------------------
(***************************************************************************)
(* The chains the generated clients name: pairs of a chain name and the    *)
(* chain selector it stands for.  A selector is a uint64 that is never     *)
(* computed with: it is the text of its decimal digits, as in the ids.     *)
(***************************************************************************)

EvmChains ==
  {<<"adi-mainnet", "4059281736450291836">>,
   <<"adi-testnet", "9418205736192840573">>,
   <<"apechain-testnet-curtis", "9900119385908781505">>,
   <<"arc-testnet", "3034092155422581607">>,
   <<"avalanche-mainnet", "6433500567565415381">>,
   <<"avalanche-testnet-fuji", "14767482510784806043">>,
   <<"binance_smart_chain-mainnet", "11344663589394136015">>,
   <<"binance_smart_chain-testnet", "13264668187771770619">>,
   <<"celo-mainnet", "1346049177634351622">>,
   <<"celo-sepolia", "3761762704474186180">>,
   <<"cronos-testnet", "2995292832068775165">>,
   <<"dtcc-mainnet-appchain", "13879014182901017172">>,
   <<"dtcc-testnet-andesite", "15513093881969820114">>,
   <<"ethereum-mainnet", "5009297550715157269">>,
   <<"ethereum-mainnet-arbitrum-1", "4949039107694359620">>,
   <<"ethereum-mainnet-base-1", "15971525489660198786">>,
   <<"ethereum-mainnet-ink-1", "3461204551265785888">>,
   <<"ethereum-mainnet-linea-1", "4627098889531055414">>,
   <<"ethereum-mainnet-mantle-1", "1556008542357238666">>,
   <<"ethereum-mainnet-optimism-1", "3734403246176062136">>,
   <<"ethereum-mainnet-scroll-1", "13204309965629103672">>,
   <<"ethereum-mainnet-worldchain-1", "2049429975587534727">>,
   <<"ethereum-mainnet-xlayer-1", "3016212468291539606">>,
   <<"ethereum-mainnet-zksync-1", "1562403441176082196">>,
   <<"ethereum-testnet-sepolia", "16015286601757825753">>,
   <<"ethereum-testnet-sepolia-arbitrum-1", "3478487238524512106">>,
   <<"ethereum-testnet-sepolia-base-1", "10344971235874465080">>,
   <<"ethereum-testnet-sepolia-linea-1", "5719461335882077547">>,
   <<"ethereum-testnet-sepolia-mantle-1", "8236463271206331221">>,
   <<"ethereum-testnet-sepolia-optimism-1", "5224473277236331295">>,
   <<"ethereum-testnet-sepolia-scroll-1", "2279865765895943307">>,
   <<"ethereum-testnet-sepolia-unichain-1", "14135854469784514356">>,
   <<"ethereum-testnet-sepolia-worldchain-1", "5299555114858065850">>,
   <<"ethereum-testnet-sepolia-zksync-1", "6898391096552792247">>,
   <<"gnosis_chain-mainnet", "465200170687744372">>,
   <<"gnosis_chain-testnet-chiado", "8871595565390010547">>,
   <<"hyperliquid-mainnet", "2442541497099098535">>,
   <<"hyperliquid-testnet", "4286062357653186312">>,
   <<"ink-testnet-sepolia", "9763904284804119144">>,
   <<"jovay-mainnet", "1523760397290643893">>,
   <<"jovay-testnet", "945045181441419236">>,
   <<"megaeth-mainnet", "6093540873831549674">>,
   <<"megaeth-testnet-2", "18241817625092392675">>,
   <<"monad-mainnet", "8481857512324358265">>,
   <<"pharos-atlantic-testnet", "16098325658947243212">>,
   <<"pharos-mainnet", "7801139999541420232">>,
   <<"plasma-mainnet", "9335212494177455608">>,
   <<"plasma-testnet", "3967220077692964309">>,
   <<"polygon-mainnet", "4051577828743386545">>,
   <<"polygon-testnet-amoy", "16281711391670634445">>,
   <<"private-testnet-andesite", "6915682381028791124">>,
   <<"private-testnet-pumice", "1564738277398880633">>,
   <<"private-testnet-quartzite", "4175996748267305081">>,
   <<"private-testnet-rhyolite", "604447335222770945">>,
   <<"sonic-mainnet", "1673871237479749969">>,
   <<"sonic-testnet", "1763698235108410440">>,
   <<"tac-testnet", "9488606126177218005">>,
   <<"xlayer-testnet", "10212741611335999305">>}

SolanaChains ==
  {<<"solana-devnet", "16423721717087811551">>,
   <<"solana-mainnet", "124615329519749607">>}

\* ChainSelectorFromName, of the names of one client.
UnknownChain == [kind |-> "unknown chain"]
ChainSelectorFromName(chains, name) ==
  IF \E c \in chains : c[1] = name THEN (CHOOSE c \in chains : c[1] = name)[2]
  ELSE UnknownChain
=============================================================================
