---------------------------- MODULE RaydiumRoutes -----------------------------
(***************************************************************************)
(* The routes of Raydium: src/src/connectors/raydium/clmm-routes and       *)
(* amm-routes.  All requests share one Raydium object.  Each loads its SDK *)
(* anew for the wallet of the request, reads, and builds a transaction     *)
(* with the SDK as it then is, which may be loaded for another wallet.     *)
(***************************************************************************)
EXTENDS SolanaRoute

RaydiumClmmOps ==
  { "raydium open", "raydium add", "raydium remove", "raydium collect", "raydium close",
    "raydium create", "raydium swap" }
RaydiumAmmOps == {"raydium amm add", "raydium amm remove", "raydium amm create", "raydium amm swap"}
RaydiumOps == RaydiumClmmOps \cup RaydiumAmmOps

\* What a load for wallet w does to the requests that are between theirs and the
\* building of their transactions.
Reloads(w) == [q \in Requests |-> reloaded[q] \/ (pc[q] = "read" /\ wallet[q] # w)]

\* FAULT: the SDK is loaded for the first wallet only.
SetOwnerOnce(r) ==
  /\ pc[r] = "start"
  /\ pc' = [pc EXCEPT ![r] = "read"]
  /\ sdkOwner' = IF sdkOwner = Nobody THEN wallet[r] ELSE sdkOwner
  /\ reloaded' = Reloads(sdkOwner')
  /\ UNCHANGED <<chainVars, op, wallet, plan, builtFor, remembered, tx, fresh, why, moved, last, told, answer>>

\* setOwner
SetOwner(r) ==
  /\ pc[r] = "start"
  /\ pc' = [pc EXCEPT ![r] = "read"]
  /\ sdkOwner' = wallet[r]
  /\ reloaded' = Reloads(wallet[r])
  /\ UNCHANGED <<chainVars, op, wallet, plan, builtFor, remembered, tx, fresh, why, moved, last, told, answer>>

\* The transaction names the owner that the SDK has by now.
Build(r, transaction) == PrepareFor(r, sdkOwner, <<transaction>>, Nothing)

\* decreaseLiquidity pays the fees out with the liquidity.
Decreasing(n) == Claiming(Taking(n))
OnePercent == IF liquidity > 1 THEN 1 ELSE 0

\* openPosition
RaydiumOpen(r) == Build(r, [Elsewhere EXCEPT !.put = 1])
RaydiumOpenAnswer == StatusOfLookup

\* addLiquidity: anybody's position, but it must be there.
RaydiumAdd(r) == IF Exists THEN Build(r, Putting) ELSE Break(r)
RaydiumAddAnswer == StatusOfLookup

\* removeLiquidity
RaydiumRemove(r) ==
  IF Exists /\ liquidity > 0 THEN \E n \in Half : Build(r, Decreasing(n)) ELSE Break(r)
RaydiumRemoveAnswer == StatusOfLookup

\* collectFees removes one percent of the liquidity.
RaydiumCollect(r) ==
  CASE ~Exists -> Refuse(r)
    [] liquidity = 0 -> Break(r)
    [] OTHER -> Build(r, Decreasing(OnePercent))
RaydiumCollectAnswer == StatusOfLookup

\* What is left of the balance change of the transaction when the amounts that
\* removeLiquidity told are taken off, which are that very balance change.
RaydiumCollectTells(r) == [x \in Replies |-> [liquidity |-> 0, fees |-> Total(last[r]) - Total(last[r])]]

\* closePosition of a position with liquidity is removeLiquidity of all of it, with
\* the close in the same transaction; an empty one is closed here.
RaydiumClose(r) ==
  CASE ~Exists -> Break(r)
    [] liquidity > 0 -> Build(r, Closing(Decreasing(liquidity)))
    [] OTHER -> Build(r, Closing(OnPosition))

\* removeLiquidity hands its status 0 on, the close of an empty position throws
\* 'Transaction failed to confirm'.
RaydiumCloseAnswer(r) == IF Current(r).take > 0 THEN StatusOfLookup ELSE NullIsError

RaydiumCloseTells(r) ==
  [x \in Replies |-> [liquidity |-> Total(last[r]), fees |-> Total(last[r]) - Total(last[r])]]

\* createPool: an existing pool is left to the simulation.
RaydiumCreate(r) == \E p \in 1..2 : Build(r, CreatingAt(p))
RaydiumCreateAnswer == StatusOfLookup

\* executeSwap
RaydiumSwap(r) == Build(r, Elsewhere)
RaydiumSwapAnswer == StatusOfLookup

-----------------------------------------------------------------------------
\* addLiquidity of an AMM: LP tokens for this wallet.
RaydiumAmmAdd(r) ==
  Build(r, IF Mine(r) THEN [Putting EXCEPT !.opens = "if_missing"] ELSE [Elsewhere EXCEPT !.put = 1])
RaydiumAmmAddAnswer == StatusOfLookup

\* calculateLpAmountToRemove: a share of the LP tokens of this wallet.
LpToRemove(r) == IF Mine(r) /\ Exists THEN Half ELSE {}

\* removeLiquidity of an AMM: no LP tokens is an error without a status code.
RaydiumAmmRemove(r) ==
  IF LpToRemove(r) # {} THEN \E n \in LpToRemove(r) : Build(r, Taking(n)) ELSE Break(r)
RaydiumAmmRemoveAnswer == StatusOfLookup

\* createPool of a CPMM pool.
RaydiumAmmCreate(r) == \E p \in 1..2 : Build(r, [CreatingAt(p) EXCEPT !.put = 1])
RaydiumAmmCreateAnswer == StatusOfLookup

\* executeSwap of an AMM.
RaydiumAmmSwap(r) == Build(r, Elsewhere)
RaydiumAmmSwapAnswer == StatusOfLookup

-----------------------------------------------------------------------------
RaydiumChecks(r) ==
  \/ Continues(r, "raydium open") /\ RaydiumOpen(r)
  \/ Continues(r, "raydium add") /\ RaydiumAdd(r)
  \/ Continues(r, "raydium remove") /\ RaydiumRemove(r)
  \/ Continues(r, "raydium collect") /\ RaydiumCollect(r)
  \/ Continues(r, "raydium close") /\ RaydiumClose(r)
  \/ Continues(r, "raydium create") /\ RaydiumCreate(r)
  \/ Continues(r, "raydium swap") /\ RaydiumSwap(r)
  \/ Continues(r, "raydium amm add") /\ RaydiumAmmAdd(r)
  \/ Continues(r, "raydium amm remove") /\ RaydiumAmmRemove(r)
  \/ Continues(r, "raydium amm create") /\ RaydiumAmmCreate(r)
  \/ Continues(r, "raydium amm swap") /\ RaydiumAmmSwap(r)

RaydiumTable(r) ==
  CASE op[r] = "raydium open" -> RaydiumOpenAnswer
    [] op[r] = "raydium add" -> RaydiumAddAnswer
    [] op[r] = "raydium remove" -> RaydiumRemoveAnswer
    [] op[r] = "raydium collect" -> RaydiumCollectAnswer
    [] op[r] = "raydium close" -> RaydiumCloseAnswer(r)
    [] op[r] = "raydium create" -> RaydiumCreateAnswer
    [] op[r] = "raydium swap" -> RaydiumSwapAnswer
    [] op[r] = "raydium amm add" -> RaydiumAmmAddAnswer
    [] op[r] = "raydium amm remove" -> RaydiumAmmRemoveAnswer
    [] op[r] = "raydium amm create" -> RaydiumAmmCreateAnswer
    [] op[r] = "raydium amm swap" -> RaydiumAmmSwapAnswer

RaydiumTells(r) ==
  CASE op[r] = "raydium collect" -> RaydiumCollectTells(r)
    [] op[r] = "raydium close" -> RaydiumCloseTells(r)
    [] OTHER -> AsLiquidity(r)

RaydiumStep(r) ==
  /\ op[r] \in RaydiumOps
  /\ \/ SetOwner(r)
     \/ RaydiumChecks(r)
     \/ Broadcast(r, RaydiumTable(r))
     \/ Answered(r, WalletReplies(r), RaydiumTable(r), RaydiumTells(r))
=============================================================================
