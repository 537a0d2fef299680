------------------------------- MODULE Trading --------------------------------
(***************************************************************************)
(* The unified routes under /trading: which connector a request goes to,   *)
(* with which pool and for which wallet.  What the connector does with it  *)
(* is in EvmRoutes, SolanaRoutes and QuoteExecution.                       *)
(***************************************************************************)
EXTENDS PoolList, Wallets

VARIABLES
  sent,    \* the call of a connector that each request came to
  seen     \* the pools that were on the list while it was under way, if it looks for one

tradeVars == <<sent, seen>>

NotSent == [to |-> "nowhere", network |-> "none", pools |-> {}, wallet |-> NoWallet]

SwapOps == {"quote", "execute"}
ClmmWrites ==
  {"clmm open", "clmm add", "clmm remove", "clmm collect", "clmm close", "clmm create"}
ClmmViews == {"clmm pool", "clmm position", "clmm owned", "clmm quote"}
AmmWrites == {"amm add", "amm remove", "amm create", "amm swap"}
AmmViews == {"amm pool", "amm position", "amm owned", "amm quote swap", "amm quote liquidity"}
TradeOps == SwapOps \cup ClmmWrites \cup ClmmViews \cup AmmWrites \cup AmmViews

\* A chain-network parameter is a chain, that is supported or not, and a network, that is
\* told by the chain that has it; or there is no "-" in it.
ChainNames == {"solana", "ethereum", "other", "malformed"}
Networks == {"solana", "ethereum", "other"}

ClmmOn == [c \in {"solana", "ethereum"} |->
  IF c = "solana" THEN {"meteora", "raydium", "orca", "pancakeswap-sol"} ELSE {"uniswap", "pancakeswap"}]
ClmmConnectors == ClmmOn["solana"] \cup ClmmOn["ethereum"]
AmmConnectors == {"meteora", "raydium", "uniswap", "pancakeswap"}

\* The swap providers: those that need a pool, and the routers.
PoolProviders == [c \in {"solana", "ethereum"} |->
  IF c = "solana" THEN {"raydium/amm", "raydium/clmm", "meteora/clmm", "pancakeswap-sol/clmm", "orca/clmm"}
  ELSE {"uniswap/amm", "uniswap/clmm", "pancakeswap/amm", "pancakeswap/clmm"}]
Routers == [c \in {"solana", "ethereum"} |->
  IF c = "solana" THEN {"jupiter/router", "dflow/router", "okx/router", "titan/router"}
  ELSE {"uniswap/router", "pancakeswap/router", "0x/router"}]
ProvidersOf(c) == PoolProviders[c] \cup Routers[c]
AllProviders == ProvidersOf("solana") \cup ProvidersOf("ethereum")

\* "whole" is whether the request has the optional values that its route insists on;
\* "" leaves the provider to the configuration of the network.
TradeArgs == [chain : ChainNames, network : Networks, to : AllProviders \cup ClmmConnectors \cup {"", "other"},
              pair : Pairs, wallet : KeyFiles \cup {NoWallet}, whole : BOOLEAN]

\* A connector looks for the network on its own chain, and throws when that has none of the
\* name; no two chains have networks of one name.
ChainOf(to) == IF to \in ClmmOn["solana"] \cup ProvidersOf("solana") THEN "solana" ELSE "ethereum"

ConnectorReplies(to, network) == IF ChainOf(to) = network THEN {"ok"} ELSE {"not_found", "error"}

\* The default wallet is part of the schemas, which are made when Gateway starts; it is
\* the default of Solana.
WalletOf(r) == IF arg[r].wallet = NoWallet THEN startDefault ELSE arg[r].wallet

\* The connector is called, and what it answers is the answer.
Dispatch(r, to, pools) ==
  /\ \E reply \in ConnectorReplies(to, arg[r].network) : Return(r, reply)
  /\ sent' = [sent EXCEPT ![r] = [to |-> to, network |-> arg[r].network, pools |-> pools, wallet |-> WalletOf(r)]]

Fails(r, status) == Return(r, status) /\ UNCHANGED sent

\* FAULT: the pools of the template are the pools of the list.
TemplatePools(r, l) == SamePair(Template, arg[r])

\* PoolService.getPool, for tokens in either order.
PoolsFor(r, l) == SamePair(l, arg[r])

-----------------------------------------------------------------------------
\* Swaps: the provider that is asked for or configured; AMMs and CLMMs with a pool of
\* the list.
Provider(r) == IF arg[r].to = "" THEN ProvidersOf(arg[r].chain) ELSE {arg[r].to}
NeedsPool(to) == to \in PoolProviders["solana"] \cup PoolProviders["ethereum"]

RouteTo(r, to, providers) ==
  IF ~NeedsPool(to)
  THEN /\ ~HasRead(r)
       /\ IF to \in providers THEN Dispatch(r, to, {}) ELSE Fails(r, "refused")
  ELSE \/ LoadPools(r, "error") /\ UNCHANGED sent
       \/ Loaded(r) /\ PoolsFor(r, ThePools(r)) = {} /\ Fails(r, "not_found")
       \/ /\ Loaded(r) /\ PoolsFor(r, ThePools(r)) # {}
          /\ IF to \in providers THEN \E p \in PoolsFor(r, ThePools(r)) : Dispatch(r, to, {p})
             ELSE Fails(r, "refused")

\* get...NetworkConfig throws for a network that the chain has not.
Route(r, providers) ==
  \/ arg[r].network # arg[r].chain /\ Fails(r, "not_found")
  \/ /\ arg[r].network = arg[r].chain
     /\ \E to \in Provider(r) : RouteTo(r, to, providers)

QuoteSolanaSwap(r) == arg[r].chain = "solana" /\ Route(r, ProvidersOf("solana"))
QuoteEthereumSwap(r) == arg[r].chain = "ethereum" /\ Route(r, ProvidersOf("ethereum"))
ExecuteSolanaSwap(r) == arg[r].chain = "solana" /\ Route(r, ProvidersOf("solana"))
ExecuteEthereumSwap(r) == arg[r].chain = "ethereum" /\ Route(r, ProvidersOf("ethereum"))

\* A chain-network without a "-" is an error of the client where a quote is asked for, and
\* one of the server elsewhere; an unknown chain is one of the client.
Unparsed(r) == arg[r].chain = "malformed" /\ Fails(r, IF op[r] = "quote" THEN "refused" ELSE "error")
UnknownChain(r) == arg[r].chain = "other" /\ Fails(r, "refused")

QuoteSwap(r) ==
  /\ Starts(r, "quote")
  /\ Unparsed(r) \/ UnknownChain(r) \/ QuoteSolanaSwap(r) \/ QuoteEthereumSwap(r)
ExecuteSwap(r) ==
  /\ Starts(r, "execute")
  /\ Unparsed(r) \/ UnknownChain(r) \/ ExecuteSolanaSwap(r) \/ ExecuteEthereumSwap(r)

-----------------------------------------------------------------------------
\* The CLMM routes that only read go by the chain, ...
OfChain(r, c) ==
  /\ arg[r].chain = c
  /\ IF arg[r].to \in ClmmOn[c] THEN Dispatch(r, arg[r].to, {}) ELSE Fails(r, "refused")
ByChain(r, o) ==
  /\ Starts(r, o)
  /\ Unparsed(r) \/ UnknownChain(r) \/ \E c \in DOMAIN ClmmOn : OfChain(r, c)

ClmmPoolInfo(r) == ByChain(r, "clmm pool")
ClmmPositionInfo(r) == ByChain(r, "clmm position")
ClmmPositionsOwned(r) == ByChain(r, "clmm owned")

SolanaQuotePosition(r) == OfChain(r, "solana")
EthereumQuotePosition(r) == OfChain(r, "ethereum")
ClmmQuotePosition(r) ==
  /\ Starts(r, "clmm quote")
  /\ Unparsed(r) \/ UnknownChain(r) \/ SolanaQuotePosition(r) \/ EthereumQuotePosition(r)

\* ... those that send and all of the AMM's by the connector alone.
ByConnector(r, o, connectors) ==
  /\ Starts(r, o)
  /\ \/ Unparsed(r)
     \/ /\ arg[r].chain # "malformed"
        /\ IF arg[r].to \in connectors THEN Dispatch(r, arg[r].to, {}) ELSE Fails(r, "refused")

OpenPosition(r) == ByConnector(r, "clmm open", ClmmConnectors)
RemovePosition(r) == ByConnector(r, "clmm remove", ClmmConnectors)
CollectFees(r) == ByConnector(r, "clmm collect", ClmmConnectors)
ClosePosition(r) == ByConnector(r, "clmm close", ClmmConnectors)
CreateClmmPool(r) == ByConnector(r, "clmm create", ClmmConnectors)

\* Not without an amount.
AddToPosition(r) ==
  /\ Starts(r, "clmm add")
  /\ IF arg[r].whole \/ arg[r].chain = "malformed" THEN ByConnector(r, "clmm add", ClmmConnectors)
     ELSE Fails(r, "refused")

AmmAddLiquidity(r) == ByConnector(r, "amm add", AmmConnectors)
AmmCreatePool(r) == ByConnector(r, "amm create", AmmConnectors)
AmmExecuteSwap(r) == ByConnector(r, "amm swap", AmmConnectors)
AmmPoolInfo(r) == ByConnector(r, "amm pool", AmmConnectors)
AmmPositionInfo(r) == ByConnector(r, "amm position", AmmConnectors)
AmmQuoteSwap(r) == ByConnector(r, "amm quote swap", AmmConnectors)
AmmQuoteLiquidity(r) == ByConnector(r, "amm quote liquidity", AmmConnectors)

\* Only the positions of Meteora are NFTs that can be listed, and have to be named.
AmmPositionsOwned(r) == ByConnector(r, "amm owned", {"meteora"})
AmmRemoveLiquidity(r) ==
  ByConnector(r, "amm remove", IF arg[r].whole THEN AmmConnectors ELSE AmmConnectors \ {"meteora"})

-----------------------------------------------------------------------------
\* What was on the list at some moment since the request began.
Watch ==
  seen' = [r \in Requests |-> IF op[r] \in SwapOps /\ pc'[r] # "done" /\ (pc'[r] # "start" \/ held'[r] # Nothing)
                              THEN seen[r] \cup expected'["pools"] ELSE {}]

\* Looking for a pool may save the template.
SaveTemplate(r) ==
  /\ op[r] \in SwapOps /\ UNCHANGED sent
  /\ Open(r) \/ Write(r) \/ Rename(r, FALSE, "error") \/ WriteFails(r, FALSE, "error")

TradeStep(r) ==
  \/ QuoteSwap(r) \/ ExecuteSwap(r) \/ SaveTemplate(r)
  \/ OpenPosition(r) \/ AddToPosition(r) \/ RemovePosition(r) \/ CollectFees(r) \/ ClosePosition(r)
  \/ CreateClmmPool(r)
  \/ ClmmPoolInfo(r) \/ ClmmPositionInfo(r) \/ ClmmPositionsOwned(r) \/ ClmmQuotePosition(r)
  \/ AmmAddLiquidity(r) \/ AmmRemoveLiquidity(r) \/ AmmCreatePool(r) \/ AmmExecuteSwap(r)
  \/ AmmPoolInfo(r) \/ AmmPositionInfo(r) \/ AmmPositionsOwned(r) \/ AmmQuoteSwap(r) \/ AmmQuoteLiquidity(r)
=============================================================================
