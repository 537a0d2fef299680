------------------------------ MODULE Instances -------------------------------
(***************************************************************************)
(* The singletons of one network, made by the first request that needs     *)
(* them: chains and connectors, of which some are registered before and    *)
(* some after they are initialised, and the pool objects of Meteora.       *)
(***************************************************************************)
EXTENDS Files

VARIABLES
  registered,   \* the instance in the map of each class
  ready,        \* the instances whose init() has ended
  got,          \* the instances each request works with
  dlmm,         \* Meteora's object of a pool: none, loading, or loaded
  provider,     \* rpcProvider of the configuration, and whether its API key is valid
  node,         \* the node that each instance of a chain is connected to
  kept          \* the node that the connector made by each request keeps

nodeVars == <<provider, node, kept>>
instanceVars == <<registered, ready, got, dlmm, nodeVars>>

OnSolana == {"raydium", "meteora", "orca", "pancakeswap-sol", "jupiter", "titan", "dflow", "okx"}
OnEthereum == {"uniswap", "pancakeswap", "0x"}
Connectors == OnSolana \cup OnEthereum
Kinds == {"solana", "ethereum"} \cup Connectors

InstanceOps == Kinds \cup {"dlmm pool"}
InstanceSteps == {"chain", "initChain", "initConnector", "loading", "awaiting"}

\* An instance is named after the request that made it.
NoOne == "no one"
ASSUME InstancesAssumption == NoOne \notin Requests
Instance == [kind : Kinds, by : Requests]

Chains == {"solana", "ethereum"}
Nodes == {"url", "helius", "infura", "chainstack"}
Providers == [name : Nodes, keyed : BOOLEAN]

InstancesTypeOK ==
  /\ registered \in [Kinds -> Requests \cup {NoOne}]
  /\ ready \subseteq Instance
  /\ got \in [Requests -> SUBSET Instance]
  /\ dlmm \in {"none", "loading", "loaded"}
  /\ provider \in Providers
  /\ node \in [Chains -> [Requests -> Nodes \cup {"none"}]]
  /\ kept \in [Requests -> Nodes \cup {"none"}]

InstancesInit ==
  /\ provider \in Providers
  /\ node = [k \in Chains |-> [r \in Requests |-> "none"]]
  /\ kept = [r \in Requests |-> "none"]
  /\ registered = [k \in Kinds |-> NoOne]
  /\ ready = {}
  /\ got = [r \in Requests |-> {}]
  /\ dlmm = "none"

ChainKind(r) == IF op[r] \in OnEthereum \cup {"ethereum"} THEN "ethereum" ELSE "solana"

\* FAULT: all are registered at once.
AtOnce(k) == TRUE

\* Who is in the map before init() has ended.
RegistersFirst(k) == k \in {"solana", "uniswap", "pancakeswap"}

\* What getInstance returns is what is in the map then.
Of(k, map) == [kind |-> k, by |-> map[k]]

Ends(r, instances) == Return(r, "ok") /\ got' = [got EXCEPT ![r] = instances] /\ UNCHANGED dlmm
Moves(r, step) == GoTo(r, step, Nothing) /\ UNCHANGED <<got, dlmm>>
GetsNone(r) == Return(r, "error") /\ UNCHANGED <<got, dlmm>>

First(k, r) == IF RegistersFirst(k) THEN [registered EXCEPT ![k] = r] ELSE registered
AfterInit(k, r) == IF RegistersFirst(k) THEN registered ELSE [registered EXCEPT ![k] = r]
Made(k, r) == [kind |-> k, by |-> r]

\* The constructor of a chain: the node of its provider if that has a key and the
\* provider knows the network, the configured node otherwise.
HeliusNode == IF provider.keyed THEN {"helius", "url"} ELSE {"url"}
InfuraNode == IF provider.keyed THEN {"infura", "url"} ELSE {"url"}
SolanaNodes == IF provider.name = "helius" THEN HeliusNode ELSE {"url"}
EthereumNodes == IF provider.name = "infura" THEN InfuraNode ELSE {"url"}
FirstNodes(k) == IF k = "solana" THEN SolanaNodes ELSE EthereumNodes

\* Chainstack has to be asked for its node, in init(), if it has a key: it tells one if
\* it has one of this network that is running.
AsksChainstack == provider = [name |-> "chainstack", keyed |-> TRUE]
ChainstackTells == {"none", "chainstack"}
Discovered(first) == IF AsksChainstack THEN {IF n = "none" THEN first ELSE n : n \in ChainstackTells} ELSE {first}

-----------------------------------------------------------------------------
\* getInstance of a connector up to init()'s first await, its chain.
GetInstance(r, k) ==
  /\ Starts(r, k) /\ UNCHANGED <<ready, nodeVars>>
  /\ IF registered[k] # NoOne
     THEN Ends(r, {Of(k, registered)}) /\ UNCHANGED registered
     ELSE registered' = First(k, r) /\ Moves(r, "chain")

GetUniswap(r) == GetInstance(r, "uniswap")
GetPancakeswap(r) == GetInstance(r, "pancakeswap")
GetZeroX(r) == GetInstance(r, "0x")
GetRaydium(r) == GetInstance(r, "raydium")
GetMeteora(r) == GetInstance(r, "meteora")
GetOrca(r) == GetInstance(r, "orca")
GetPancakeswapSol(r) == GetInstance(r, "pancakeswap-sol")
GetJupiter(r) == GetInstance(r, "jupiter")
GetTitan(r) == GetInstance(r, "titan")
GetDFlow(r) == GetInstance(r, "dflow")

\* Not without its keys.
GetOkx(r) ==
  \/ GetInstance(r, "okx")
  \/ Starts(r, "okx") /\ registered["okx"] = NoOne /\ GetsNone(r) /\ UNCHANGED <<registered, ready, nodeVars>>

GetConnector(r) ==
  \/ GetUniswap(r) \/ GetPancakeswap(r) \/ GetZeroX(r) \/ GetRaydium(r) \/ GetMeteora(r) \/ GetOrca(r)
  \/ GetPancakeswapSol(r) \/ GetJupiter(r) \/ GetTitan(r) \/ GetDFlow(r) \/ GetOkx(r)

\* init() of a connector goes on with the chain that it got.  The SDK of Raydium is
\* loaded; of the others, which need no more await, some have no addresses for the
\* network, or no key.  Some keep the node that the chain is connected to then; the
\* others ask the chain whenever they need it.  `map', `done' and `nodes' are what is
\* registered, initialised and connected by now.
MayFail == {"uniswap", "pancakeswap", "0x", "orca"}
KeepsNode == {"uniswap", "pancakeswap", "orca"}
GoesOn(r, map, done, nodes) ==
  LET k == op[r]
      c == ChainKind(r)
      all == IF RegistersFirst(k) THEN map ELSE [map EXCEPT ![k] = r] IN
  IF k = "raydium" THEN Moves(r, "initConnector") /\ registered' = map /\ ready' = done /\ UNCHANGED kept
  ELSE \/ /\ Ends(r, {Of(k, all), Of(c, all)})
          /\ registered' = all /\ ready' = done \cup {Made(k, r)}
          /\ kept' = IF k \in KeepsNode THEN [kept EXCEPT ![r] = nodes[c][map[c]]] ELSE kept
       \/ k \in MayFail /\ GetsNone(r) /\ registered' = map /\ ready' = done /\ UNCHANGED kept

\* Solana.getInstance and Ethereum.getInstance, for a connector or for a route.
GetChain(r, k) ==
  /\ ChainKind(r) = k /\ (Starts(r, k) \/ At(r, "chain")) /\ UNCHANGED provider
  /\ IF registered[k] = NoOne
     THEN /\ registered' = First(k, r) /\ Moves(r, "initChain") /\ UNCHANGED <<ready, kept>>
          /\ \E n \in FirstNodes(k) : node' = [node EXCEPT ![k][r] = n]
     ELSE /\ UNCHANGED node
          /\ IF op[r] \in Connectors THEN GoesOn(r, registered, ready, node)
             ELSE Ends(r, {Of(k, registered)}) /\ UNCHANGED <<registered, ready, kept>>

GetSolana(r) == GetChain(r, "solana")
GetEthereum(r) == GetChain(r, "ethereum")

\* init() of a chain: with the node that Chainstack tells, if there is one that
\* is running.  What fails is swallowed.
InitChain(r, k) ==
  LET map == AfterInit(k, r)
      done == ready \cup {Made(k, r)} IN
  /\ At(r, "initChain") /\ ChainKind(r) = k /\ UNCHANGED provider
  /\ \E n \in Discovered(node[k][r]) : node' = [node EXCEPT ![k][r] = n]
  /\ IF op[r] \in Connectors THEN GoesOn(r, map, done, node')
     ELSE Ends(r, {Of(k, map)}) /\ registered' = map /\ ready' = done /\ UNCHANGED kept

InitSolana(r) == InitChain(r, "solana")
InitEthereum(r) == InitChain(r, "ethereum")

\* RaydiumSDK.load
InitRaydium(r) ==
  /\ At(r, "initConnector") /\ UNCHANGED nodeVars
  /\ \/ /\ Ends(r, {Of("raydium", AfterInit("raydium", r))})
        /\ registered' = AfterInit("raydium", r)
        /\ ready' = ready \cup {Made("raydium", r)}
     \/ GetsNone(r) /\ UNCHANGED <<registered, ready>>

-----------------------------------------------------------------------------
MustLoad == dlmm = "none"

\* Meteora.getDlmmPool: requests for a pool that is being loaded share the promise.
GetDlmmPool(r) ==
  /\ Starts(r, "dlmm pool") /\ UNCHANGED <<registered, ready, got, nodeVars>>
  /\ \/ MustLoad /\ dlmm' = "loading" /\ GoTo(r, "loading", Nothing)
     \/ dlmm = "loading" /\ ~MustLoad /\ GoTo(r, "awaiting", Nothing) /\ UNCHANGED dlmm
     \/ dlmm = "loaded" /\ Return(r, "ok") /\ UNCHANGED dlmm

\* DLMM.create and refetchStates; what fails is forgotten.  All that await the promise
\* get its outcome.
LoadDlmmPool(r) ==
  /\ At(r, "loading") /\ UNCHANGED <<registered, ready, got, nodeVars>>
  /\ \E status \in {"ok", "refused"} :
       /\ dlmm' = IF status = "ok" THEN "loaded" ELSE "none"
       /\ pc' = [q \in Requests |-> IF q = r \/ pc[q] = "awaiting" THEN "done" ELSE pc[q]]
       /\ answer' = [q \in Requests |-> IF q = r \/ pc[q] = "awaiting" THEN status ELSE answer[q]]
  /\ UNCHANGED <<op, arg, held, target, list, next, fd, fileVars, faultVars>>

\* The next process makes its own.
CrashInstances ==
  /\ registered' = [k \in Kinds |-> NoOne] /\ ready' = {}
  /\ got' = [r \in Requests |-> {}] /\ dlmm' = "none"
  /\ node' = [k \in Chains |-> [r \in Requests |-> "none"]]
  /\ kept' = [r \in Requests |-> "none"]
  /\ UNCHANGED provider

InstanceStep(r) ==
  \/ GetConnector(r) \/ GetSolana(r) \/ GetEthereum(r) \/ InitSolana(r) \/ InitEthereum(r) \/ InitRaydium(r)
  \/ GetDlmmPool(r) \/ LoadDlmmPool(r)
=============================================================================
