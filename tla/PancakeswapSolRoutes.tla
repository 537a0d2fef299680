------------------------- MODULE PancakeswapSolRoutes -------------------------
(***************************************************************************)
(* The routes that send in the raw way: those of PancakeSwap on Solana,    *)
(* src/src/connectors/pancakeswap-sol/clmm-routes, and wrap and unwrap,    *)
(* src/src/chains/solana/routes.  They sign with the wallet's own key,     *)
(* simulate, and answer 0 for whatever is not known to be confirmed.       *)
(***************************************************************************)
EXTENDS SolanaRoute

PancakeswapSolOps ==
  { "pancakeswap-sol open", "pancakeswap-sol add", "pancakeswap-sol remove", "pancakeswap-sol collect",
    "pancakeswap-sol close", "pancakeswap-sol create", "pancakeswap-sol swap" }
SolWrapOps == {"solana wrap", "solana unwrap"}
RawOps == PancakeswapSolOps \cup SolWrapOps

\* openPosition
PancakeswapSolOpen(r) == Prepare(r, [Elsewhere EXCEPT !.put = 1])
PancakeswapSolOpenAnswer == StatusOfRaw

\* addLiquidity: anybody's position, but it must be there.
PancakeswapSolAdd(r) == IF Exists THEN Prepare(r, Putting) ELSE Refuse(r)
PancakeswapSolAddAnswer == StatusOfRaw

\* removeLiquidity, of nothing too; the fees are paid out with it.
PancakeswapSolRemove(r) ==
  IF Exists
  THEN \E n \in Half \cup {0} : Prepare(r, Claiming(Taking(n)))
  ELSE Refuse(r)
PancakeswapSolRemoveAnswer == StatusOfRaw

\* collectFees is removeLiquidity of one percent, and tells all of it as fees.
PancakeswapSolCollect(r) ==
  IF Exists THEN Prepare(r, Claiming(Taking(IF liquidity > 1 THEN 1 ELSE 0))) ELSE Refuse(r)
PancakeswapSolCollectAnswer == StatusOfRaw

\* closePosition: takes what it read of the liquidity and closes, in one
\* transaction.
PancakeswapSolClose(r) ==
  CASE ~Exists -> Refuse(r)
    [] liquidity > 0 -> Prepare(r, Closing(Claiming(Taking(liquidity))))
    [] OTHER -> Prepare(r, Closing(OnPosition))
PancakeswapSolCloseAnswer == StatusOfRaw

\* createPool
PancakeswapSolCreate(r) == IF price = 0 THEN \E p \in 1..2 : Prepare(r, CreatingAt(p)) ELSE Refuse(r)
PancakeswapSolCreateAnswer == StatusOfRaw

\* executeSwap
PancakeswapSolSwap(r) == Prepare(r, Elsewhere)
PancakeswapSolSwapAnswer == StatusOfRaw

-----------------------------------------------------------------------------
\* wrapSOL: opens the account if it read that there is none.
WrapSolana(r) == Prepare(r, [Putting EXCEPT !.opens = IF Exists THEN "no" ELSE "new"])

\* handleSolanaTransactionError: an error without a status code that speaks of
\* funds or of the Ledger is the client's, as a rejection is.
WrapSolanaAnswer == StatusOfRaw

\* unwrapSolana closes the whole account, whatever amount is asked for, and tells
\* the balance it read.
UnwrapSolana(r) ==
  IF Exists /\ liquidity > 0
  THEN PrepareFor(r, wallet[r], <<[OnPosition EXCEPT !.close = "any"]>>, [liquidity |-> liquidity, fees |-> 0])
  ELSE Refuse(r)
UnwrapSolanaAnswer == StatusOfRaw

UnwrapTells(r) == [x \in Replies |-> remembered[r]]

-----------------------------------------------------------------------------
RawChecks(r) ==
  \/ Starts(r, "pancakeswap-sol open") /\ PancakeswapSolOpen(r)
  \/ Starts(r, "pancakeswap-sol add") /\ PancakeswapSolAdd(r)
  \/ Starts(r, "pancakeswap-sol remove") /\ PancakeswapSolRemove(r)
  \/ Starts(r, "pancakeswap-sol collect") /\ PancakeswapSolCollect(r)
  \/ Starts(r, "pancakeswap-sol close") /\ PancakeswapSolClose(r)
  \/ Starts(r, "pancakeswap-sol create") /\ PancakeswapSolCreate(r)
  \/ Starts(r, "pancakeswap-sol swap") /\ PancakeswapSolSwap(r)
  \/ Starts(r, "solana wrap") /\ WrapSolana(r)
  \/ Starts(r, "solana unwrap") /\ UnwrapSolana(r)

RawTable(r) ==
  CASE op[r] = "pancakeswap-sol open" -> PancakeswapSolOpenAnswer
    [] op[r] = "pancakeswap-sol add" -> PancakeswapSolAddAnswer
    [] op[r] = "pancakeswap-sol remove" -> PancakeswapSolRemoveAnswer
    [] op[r] = "pancakeswap-sol collect" -> PancakeswapSolCollectAnswer
    [] op[r] = "pancakeswap-sol close" -> PancakeswapSolCloseAnswer
    [] op[r] = "pancakeswap-sol create" -> PancakeswapSolCreateAnswer
    [] op[r] = "pancakeswap-sol swap" -> PancakeswapSolSwapAnswer
    [] op[r] = "solana wrap" -> WrapSolanaAnswer
    [] op[r] = "solana unwrap" -> UnwrapSolanaAnswer

RawTells(r) ==
  CASE op[r] = "pancakeswap-sol collect" -> AsFees(r)
    [] op[r] = "solana unwrap" -> UnwrapTells(r)
    [] OTHER -> AsLiquidity(r)

RawStep(r) ==
  /\ op[r] \in RawOps
  /\ \/ RawChecks(r)
     \/ Broadcast(r, RawTable(r))
     \/ Answered(r, RawReplies(r), RawTable(r), RawTells(r))
=============================================================================
