------------------------------- MODULE MCGateway ------------------------------
(***************************************************************************)
(* Instances of GatewayState for TLC: two requests, two symbols, pairs and *)
(* addresses, two wallets, one write that fails or one crash.              *)
(***************************************************************************)
EXTENDS GatewayState, TLC

CONSTANTS r1, r2, a1, a2

PoolsToken == [symbol |-> "s1", address |-> "x1"]
MCTokensOf(pair) == << PoolsToken >>
MCTemplate == { [pair |-> "p1", address |-> "x1"] }

Symmetry == Permutations(Requests) \cup Permutations(KeyFiles)

\* What the requests of an instance are about: one thing; a swap and its pools; a token
\* and the pool that brings its tokens along; any other trade, which meets nothing.
PoolViews == {"get pool", "list pools", "find pools", "pool info"}
Families == {TokenOps, PoolOps \ PoolViews, WalletOps \ {"list wallets"}, InstanceOps, FeeOps, RpcOps, LedgerOps}
Pairing(p, q) ==
  \/ \E family \in Families : {p, q} \subseteq family
  \/ p \in PoolViews /\ q = "remove pool"
  \/ p = "quote" /\ q = "add pool"
  \/ p = "execute" /\ q = "remove pool"
  \/ p = "find and save pool" /\ q = "add token"
  \/ p \in TradeOps \ SwapOps /\ q = "list wallets"

\* All of the chain stand for "": a provider that is asked for by name is one with a
\* pool of each chain, or none that there is.
AskedProviders == {"orca/clmm", "uniswap/clmm", "other"}

Meets(ops) == \E r \in Requests : op[r] \in ops

\* What a request does not look at is fixed.
Some(S) == CHOOSE x \in S : TRUE
SwapArgs ==
  {a \in TradeArgs : /\ a.to \in {""} \cup AskedProviders
                     /\ a.chain \in {"other", "malformed"} => a.to = ""
                     /\ a.chain = "malformed" => a.network = "other"
                     /\ a.network = a.chain \/ a.to = ""
                     /\ a.pair = Some(Pairs) /\ a.wallet = NoWallet /\ a.whole}
MCArgsOf(o) ==
  CASE o = "add token" -> {t \in Tokens : Meets(PoolOps) => t = [PoolsToken EXCEPT !.symbol = "s2"]}
    [] o \in {"get token", "find and save token"} -> Tokens
    [] o \in TokenOps -> {t \in Tokens : t.symbol = Some(Symbols)}
    [] o = "add pool" -> {p \in Pools : Meets(SwapOps \cup {"find and save pool"}) => p.pair = Some(Pairs)}
    [] o \in {"remove pool", "find and save pool"} -> {p \in Pools : p.pair = Some(Pairs)}
    [] o \in PoolOps -> {p \in Pools : p.address = Some(Addresses)}
    [] o \in {"add wallet", "add hardware"} -> {a \in WalletArgs : a.value = "true"}
    [] o = "update config" ->
         {a \in WalletArgs : a.wallet = Some(KeyFiles) /\ ~a.default /\ (Meets(WalletChanges) => a.value = "true")}
    [] o \in WalletOps -> {a \in WalletArgs : a.value = "true" /\ ~a.default}
    [] o = "quote" -> {a \in SwapArgs : a.chain \in Chains => a.to # ""}
    [] o = "execute" -> SwapArgs
    [] o \in TradeOps ->
         {a \in TradeArgs : /\ a.to \in ClmmConnectors \cup {"other"}
                            /\ a.chain = "malformed" => a.network = "other"
                            /\ a.whole \/ o \in {"clmm add", "amm remove"}
                            /\ a.pair = Some(Pairs) /\ a.wallet = NoWallet}
    [] o = "ledger add" -> LedgerArgs
    [] o = "ledger sign" -> {a \in LedgerArgs : a.index = 1}
    [] OTHER -> {a \in FeeArgs : a.price <= 1}

\* A configured price of one stands for any.
SmallConfigs == {g \in GasConfigs : g.base <= 1 /\ g.gasPrice <= 1}

\* The lists of pools of the initial states have at most one element.
SmallLists ==
  {l \in PoolLists : Cardinality(l) <= 1
                      /\ (Meets({"find and save pool"}) => \A p \in l : p.address = Some(Addresses))}

\* Files that the requests do not look at are empty.
When(ops, values) == IF Meets(ops) THEN values ELSE {{}}

\* Some of the states of Init: what none of the requests looks at has one value.
MCInit ==
  /\ op \in [Requests -> Ops]
  /\ \E p, q \in Requests : p # q /\ Pairing(op[p], op[q])
  /\ \E a \in [Requests -> UNION {MCArgsOf(op[r]) : r \in Requests}] :
       (\A r \in Requests : a[r] \in MCArgsOf(op[r])) /\ arg = a
  /\ \E tokens \in IF Meets({"find and save pool"}) THEN {l \in SUBSET {PoolsToken} : Meets({"add pool", "remove pool"}) => l # {}}
                    ELSE When(TokenOps, TokenLists),
        pools \in When(PoolOps \cup SwapOps, SmallLists),
        hardware \in When(WalletChanges \ {"add wallet"}, SUBSET {HardwareEntry(a) : a \in KeyFiles}),
        keys \in [KeyFiles -> When(WalletChanges \ {"add hardware"}, {{}, Hardened}) \cup When({"use wallet"}, {{}, Legacy, Hardened})],
        missing \in SUBSET {"pools"} :
       /\ "pools" \in missing => pools = {} /\ Meets(PoolOps \cup SwapOps)
       /\ \A h \in hardware : keys[h.wallet] = {}
       /\ ConfInit(tokens, pools, hardware, keys, {"tokens", "pools", "hardware"} \ missing)
  /\ (\A r \in Requests : op[r] = "find and save pool") => \E r \in Requests : arg[r].address = Some(Addresses)
  /\ config \in {c \in Configs : ~c.option /\ (Meets(WalletChanges) <=> c.wallet # NoWallet)}
  /\ provider \in IF Meets(InstanceOps) THEN Providers ELSE {[name |-> "url", keyed |-> FALSE]}
  /\ gasConfig \in IF Meets(FeeOps) THEN SmallConfigs ELSE {[eip1559 |-> TRUE, base |-> 0, tip |-> 0, gasPrice |-> 0]}
  /\ MemoryInit

MCSpec == MCInit /\ [][Next]_vars
=============================================================================
