--------------------------------- MODULE Fees ---------------------------------
(***************************************************************************)
(* The fee estimates of one network: gas prices of an EVM network and      *)
(* priority fees of Solana, cached for ten seconds and shared by all       *)
(* requests; and the calls of a node that throttles.  Amounts are small    *)
(* numbers, 0 is none.                                                     *)
(***************************************************************************)
EXTENDS Files

CONSTANTS
  MinFee, MaxFee,   \* minPriorityFeePerCU, maxPriorityFeePerCU
  MaxGas,           \* bound on the gas prices, their bases and tips
  ReadRetries       \* READ_RETRY_ATTEMPTS

ASSUME FeesAssumption ==
  /\ MinFee \in Nat /\ MaxFee \in Nat /\ MinFee <= MaxFee
  /\ MaxGas \in Nat \ {0} /\ ReadRetries \in Nat

VARIABLES
  gasConfig,   \* what is configured for the network
  estimate,    \* the cached estimates
  used,        \* the estimate each request used
  executed     \* how often the node executed the call of a request

feeVars == <<gasConfig, estimate, used, executed>>

FeeOps == {"estimate gas", "prepare gas", "priority fee", "solana gas"}
RpcOps == {"rpc read", "rpc write"}
FeeSteps == {"network", "legacy", "helius", "calls", "sleeps"}
GasAmounts == 0..MaxGas
GasConfigs == [eip1559 : BOOLEAN, base : GasAmounts, tip : GasAmounts, gasPrice : GasAmounts]
FeeArgs == [price : GasAmounts]

Amounts == 0..(2 * MaxFee)
Estimate == [kind : {"none", "eip1559", "legacy", "priority"}, fee : Nat, tip : Nat, fresh : BOOLEAN]
NoEstimate == [kind |-> "none", fee |-> 0, tip |-> 0, fresh |-> TRUE]
Caches == {"gas", "priority"}

FeesTypeOK ==
  /\ \A c \in Caches : estimate[c] \in Estimate
  /\ \A r \in Requests : used[r] \in Estimate
  /\ \A r \in Requests : executed[r] \in 0..(ReadRetries + 1)

FeesInit ==
  /\ gasConfig \in GasConfigs
  /\ estimate = [c \in Caches |-> NoEstimate]
  /\ used = [r \in Requests |-> NoEstimate]
  /\ executed = [r \in Requests |-> 0]

\* FAULT: the time of an estimate is not looked at.
AnyAge(c) == estimate[c].kind # "none"

\* In the cache, for less than ten seconds.
Usable(c) == estimate[c].kind # "none" /\ estimate[c].fresh

\* Ten seconds pass.
Expire(c) ==
  /\ estimate[c].fresh /\ estimate[c].kind # "none"
  /\ estimate' = [estimate EXCEPT ![c].fresh = FALSE]
  /\ UNCHANGED <<requestVars, fileVars, faultVars, gasConfig, used, executed>>

Uses(r, e) == used' = [used EXCEPT ![r] = e] /\ Return(r, "ok") /\ UNCHANGED <<gasConfig, executed>>
Awaits(r, step) == GoTo(r, step, Nothing) /\ UNCHANGED feeVars
NoFee(r) == Return(r, "error") /\ UNCHANGED feeVars
Caching(c, e) == estimate' = [estimate EXCEPT ![c] = e]

-----------------------------------------------------------------------------
\* estimateGasPrice: the cache, or the network if it has EIP-1559, or the legacy price.
EstimateGasPrice(r) ==
  IF Usable("gas") THEN Uses(r, estimate["gas"]) /\ UNCHANGED estimate
  ELSE Awaits(r, IF gasConfig.eip1559 THEN "network" ELSE "legacy")

\* prepareGasOptions: cached values of the right kind, a price of the client, ...
Provided(r) ==
  [ kind |-> IF gasConfig.eip1559 THEN "eip1559" ELSE "legacy", fee |-> arg[r].price,
    tip |-> IF gasConfig.eip1559 THEN gasConfig.tip ELSE 0, fresh |-> TRUE ]

PrepareGasOptions(r) ==
  IF gasConfig.eip1559 /\ arg[r].price = 0 /\ Usable("gas") /\ estimate["gas"].kind = "eip1559"
  THEN Uses(r, estimate["gas"]) /\ UNCHANGED estimate
  ELSE IF arg[r].price # 0 THEN Uses(r, Provided(r)) /\ UNCHANGED estimate
  ELSE EstimateGasPrice(r)

GasRequest(r) ==
  \/ Starts(r, "estimate gas") /\ EstimateGasPrice(r)
  \/ Starts(r, "prepare gas") /\ PrepareGasOptions(r)

\* Configured values go before those of Etherscan or of the node, which may have none.
Or(configured, network) == IF configured # 0 THEN configured ELSE network

\* (baseFee * baseFeeMultiplier) + priorityFee, for a multiplier of two.
FeeOf(base, tip) == 2 * base + tip

Eip1559(base, tip) == [kind |-> "eip1559", fee |-> FeeOf(base, tip), tip |-> tip, fresh |-> TRUE]

\* What Etherscan recommends leaves room for the base fee to double; estimateGasPrice
\* gets the base fee back from that.
RecommendedGasPrices(base, tip) == [max |-> base * 2 + tip, tip |-> tip]
FromEtherscan(g) == [base |-> (g.max - g.tip) \div 2, tip |-> g.tip]
FromNode(base, tip) == [base |-> base, tip |-> tip]

\* Etherscan's API, or getFeeData and getBlock: with their values, or without.
NetworkFees(r) ==
  /\ At(r, "network")
  /\ \E base, tip \in GasAmounts : \E n \in {FromEtherscan(RecommendedGasPrices(base, tip)), FromNode(base, tip)} :
       IF base = 0 /\ tip = 0 /\ gasConfig.base = 0 /\ gasConfig.tip = 0 THEN Awaits(r, "legacy")
       ELSE LET e == Eip1559(Or(gasConfig.base, n.base), Or(gasConfig.tip, n.tip)) IN
            Uses(r, e) /\ Caching("gas", e)

\* The configured gas price or the node's; without it, prepareGasOptions and the route
\* fail.
LegacyPrice(r) ==
  /\ At(r, "legacy")
  /\ \/ \E price \in IF gasConfig.gasPrice # 0 THEN {gasConfig.gasPrice} ELSE GasAmounts \ {0} :
          LET e == [kind |-> "legacy", fee |-> price, tip |-> 0, fresh |-> TRUE] IN
          Uses(r, e) /\ Caching("gas", e)
     \/ gasConfig.gasPrice = 0 /\ NoFee(r)

-----------------------------------------------------------------------------
Priority(fee) == [kind |-> "priority", fee |-> fee, tip |-> 0, fresh |-> TRUE]

\* FAULT: only the minimum is enforced.
AtLeast(fee) == IF fee < MinFee THEN MinFee ELSE fee

Clamped(fee) == IF fee < MinFee THEN MinFee ELSE IF fee > MaxFee THEN MaxFee ELSE fee

\* estimatePriorityFeeDetailed: whatever goes wrong, the minimum is cached.
PriorityFee(r) ==
  IF Usable("priority") THEN Uses(r, estimate["priority"]) /\ UNCHANGED estimate
  ELSE \/ Awaits(r, "helius")
       \/ Uses(r, Priority(MinFee)) /\ Caching("priority", Priority(MinFee))

\* For a transaction, or for GET /chains/solana/estimate-gas, which tells the minimum if
\* the chain could not be used at first.
EstimateGasSolana(r) ==
  \/ PriorityFee(r)
  \/ Uses(r, Priority(MinFee)) /\ UNCHANGED estimate
  \/ NoFee(r)

PriorityRequest(r) ==
  \/ Starts(r, "priority fee") /\ PriorityFee(r)
  \/ Starts(r, "solana gas") /\ EstimateGasSolana(r)

HeliusFee(r) ==
  /\ At(r, "helius")
  /\ \E fee \in {MinFee} \cup {Clamped(f) : f \in Amounts} :
       Uses(r, Priority(fee)) /\ Caching("priority", Priority(fee))

-----------------------------------------------------------------------------
\* FAULT: every method is retried.
AnyMethod(o) == TRUE

\* isRetryableReadMethod: get... and call.
IsRead(o) == o = "rpc read"

\* FAULT: one attempt more.
OneMore(o) == IF IsRead(o) THEN ReadRetries + 2 ELSE 1

MaxAttempts(o) == IF IsRead(o) THEN ReadRetries + 1 ELSE 1

Call(r) ==
  /\ \E o \in RpcOps : Starts(r, o)
  /\ GoTo(r, "calls", Nothing) /\ UNCHANGED feeVars

\* One attempt.  A throttling gateway may have passed it on.
Attempt(r) ==
  /\ At(r, "calls") /\ op[r] \in RpcOps
  /\ executed' = [executed EXCEPT ![r] = @ + 1]
  /\ UNCHANGED <<gasConfig, estimate, used>>
  /\ \/ Return(r, "ok")
     \/ Return(r, "error")
     \/ IF executed'[r] < MaxAttempts(op[r]) THEN GoTo(r, "sleeps", Nothing) ELSE Return(r, "refused")

Awake(r) == At(r, "sleeps") /\ GoTo(r, "calls", Nothing) /\ UNCHANGED feeVars

CrashFees ==
  /\ estimate' = [c \in Caches |-> NoEstimate]
  /\ UNCHANGED <<gasConfig, used, executed>>

FeeStep(r) ==
  \/ GasRequest(r) \/ NetworkFees(r) \/ LegacyPrice(r) \/ PriorityRequest(r) \/ HeliusFee(r)
  \/ Call(r) \/ Attempt(r) \/ Awake(r)
=============================================================================
