------------------------------ MODULE EvmRoutes -------------------------------
(***************************************************************************)
(* The routes of the EVM connectors together: requests that overlap, each  *)
(* to a CLMM route, an AMM route, or wrap and unwrap.                      *)
(***************************************************************************)
EXTENDS EvmClmm, EvmAmm

-----------------------------------------------------------------------------
(***************************************************************************)
(* wrapEthereum and unwrapEthereum,                                        *)
(* src/src/chains/ethereum/routes/wrap.ts and unwrap.ts.                   *)
(***************************************************************************)
CONSTANT MaxWeth     \* bound on the WETH the wallet starts with

ASSUME WrapAssumption == MaxWeth \in Nat

WrapOps == {"wrap", "unwrap"}

VARIABLE wethBalance

WrapTypeOK == wethBalance \in 0..MaxWeth + Cardinality(Requests)

WrapInit == wethBalance \in 0..MaxWeth

\* An error whose message has "timeout" in it is a 408.
WrapTable == [FundsAreClients(StatusOfReceipt) EXCEPT !["timeout"] = "timeout"]

\* wrapEthereum: the chain checks the ETH balance when it takes the transaction.
WrapEthereum(r) == Proceed(r) /\ UNCHANGED wethBalance

WrapAnswer == WrapTable

\* FAULT: the balance is not read.
UnwrapUnchecked(r) == Proceed(r) /\ UNCHANGED wethBalance

\* unwrapEthereum: one unit; the WETH balance is read first, on both branches.
UnwrapEthereum(r) ==
  /\ IF wethBalance >= 1 THEN Proceed(r) ELSE Refuse(r)
  /\ UNCHANGED wethBalance

UnwrapAnswer == WrapTable

WrapStep(r) ==
  LET table == IF op[r] = "wrap" THEN WrapAnswer ELSE UnwrapAnswer IN
  /\ op[r] \in WrapOps
  /\ \/ Starts(r, "wrap") /\ WrapEthereum(r)
     \/ Starts(r, "unwrap") /\ UnwrapEthereum(r)
     \/ /\ Interrupted(r) \/ Broadcast(r, table) \/ Answered(r, table)
        /\ UNCHANGED wethBalance

\* WETH9 (external): withdraw needs the balance.
WrapObstacle(r) == IF op[r] = "unwrap" /\ wethBalance = 0 THEN "stale" ELSE "none"

WrapExecutes(r) ==
  /\ op[r] \in WrapOps
  /\ WrapObstacle(r) = "none"
  /\ Executes(r)
  /\ wethBalance' = IF op[r] = "wrap" THEN wethBalance + 1 ELSE wethBalance - 1

\* Out of gas counts as a price limit here.
WrapFails(r) ==
  /\ op[r] \in WrapOps
  /\ Reverts(r, WrapObstacle(r)) \/ Dropped(r)
  /\ UNCHANGED wethBalance

-----------------------------------------------------------------------------
(***************************************************************************)
(* All of the routes.                                                      *)
(***************************************************************************)
vars == <<routeVars, clmmVars, ammVars, wethBalance>>

Ops == ClmmOps \cup AmmOps \cup WrapOps

Swaps(o) == AmmSwaps(o) \/ o \in {"uniswap swap", "pancakeswap swap"}

Init ==
  /\ RouteInit
  /\ op \in [Requests -> Ops]
  /\ ClmmInit
  /\ AmmInit
  /\ WrapInit

\* Fees that no request can come by any more are left out.
Matters == \E r \in Requests : op[r] \in ClmmOps /\ (tx[r] = "pending" \/ (tx[r] = "unsent" /\ pc[r] # "done"))

ClmmNext ==
  /\ \/ \E r \in Requests : ClmmStep(r) \/ ClmmExecutes(r) \/ ClmmFails(r)
     \/ Matters /\ Accrue(at)
  /\ UNCHANGED <<ammVars, wethBalance>>

AmmNext ==
  /\ \E r \in Requests : AmmStep(r) \/ AmmExecutes(r) \/ AmmFails(r)
  /\ UNCHANGED <<clmmVars, wethBalance>>

WrapNext ==
  /\ \E r \in Requests : WrapStep(r) \/ WrapExecutes(r) \/ WrapFails(r)
  /\ UNCHANGED <<clmmVars, ammVars>>

Next == ClmmNext \/ AmmNext \/ WrapNext

Spec == Init /\ [][Next]_vars

TypeOK == RouteTypeOK /\ ClmmTypeOK /\ AmmTypeOK /\ WrapTypeOK

-----------------------------------------------------------------------------
\* The checks of a route are worth their reads: a transaction that nothing
\* overtook is never reverted for an allowance, an owner or a stale amount.
\* But addLiquidity of a CLMM checks no allowance for WETH, and
\* removeLiquidity of an AMM sends a share that rounds down to nothing.
NoBlindRevert ==
  \A r \in Requests : alone[r] /\ tx[r] = "reverted" =>
    \/ why[r] = "price"
    \/ why[r] = "allowance" /\ Adds(op[r]) /\ weth \in held[r].uses
    \/ why[r] = "zero" /\ AmmRemoves(op[r])

\* "Insufficient funds" is told for a transaction that was never sent, so it
\* costs nothing to send it again: true of every route but the swaps.
FundsErrorIsUnsent ==
  \A r \in Requests : answer[r] = "funds_error" /\ ~Swaps(op[r]) => tx[r] = "unsent"

\* What the status of an answer says of the transaction is true: a client may rely on 1,
\* and may correct and repeat what was refused.
AnswersAreTrue == ConfirmedIsExecuted /\ ClientErrorIsFinal /\ FundsErrorIsUnsent

\* What its other fields say is true as well: the position is closed, the amounts were
\* paid, the pool has the price.
ToldIsTrue == ClosedIsGone /\ PaidAsTold /\ PoolPriceAsTold /\ AmmPriceAsTold

\* The swaps, whose 400 says "Insufficient funds for transaction. Please
\* ensure you have enough ETH to cover gas costs."
SwapFundsErrorIsUnsent ==
  \A r \in Requests : answer[r] = "funds_error" => tx[r] = "unsent"
=============================================================================
