---------------------------- MODULE MeteoraRoutes -----------------------------
(***************************************************************************)
(* The routes of Meteora: src/src/connectors/meteora/clmm-routes (DLMM     *)
(* positions) and amm-routes (DAMM v2).  The SDK splits what it does to a  *)
(* wide position into several transactions, which removeLiquidity,         *)
(* closePosition and collectFees send one after the other; all that they   *)
(* tell comes from the last one.                                           *)
(***************************************************************************)
EXTENDS SolanaRoute

MeteoraClmmOps ==
  { "meteora open", "meteora add", "meteora remove", "meteora collect", "meteora close",
    "meteora create", "meteora swap" }
MeteoraAmmOps == {"damm add", "damm remove", "damm create", "damm swap"}

\* getRawPosition, getUserPositions: among the positions of this wallet.
Found(r) == Mine(r) /\ Exists

\* The SDK removes a share of every bin, of what is there when it executes; the
\* bins of a wide position are in two transactions.
Part(n) == [Taking(n) EXCEPT !.upTo = TRUE]
Chunks(n) == {<<Part(n)>>} \cup (IF n > 1 THEN {<<Part(1), Part(n - 1)>>} ELSE {})

\* openPosition: the transaction is about a new position.
MeteoraOpen(r) == Prepare(r, [Elsewhere EXCEPT !.put = 1])

MeteoraOpenAnswer == StatusOfLookup

\* addLiquidity
MeteoraAdd(r) == IF Found(r) THEN Prepare(r, Putting) ELSE Refuse(r)
MeteoraAddAnswer == StatusOfLookup

\* removeLiquidity
MeteoraRemove(r) ==
  IF Found(r)
  THEN \E n \in Half : \E transactions \in Chunks(n) : PrepareFor(r, wallet[r], transactions, Nothing)
  ELSE Refuse(r)
MeteoraRemoveAnswer == StatusOfLookup

\* collectFees: with one transaction, or with two of which the first finds the fees.
MeteoraCollect(r) ==
  IF Found(r)
  THEN \E transactions \in {<<Claiming(OnPosition)>>, <<Claiming(OnPosition), OnPosition>>} :
         PrepareFor(r, wallet[r], transactions, Nothing)
  ELSE Refuse(r)
MeteoraCollectAnswer == StatusOfLookup

\* The last transaction of closePosition closes the position, the first one
\* claims the fees.
AndClose(t) == [t EXCEPT !.close = "if_empty"]
ClosingChunks(n) ==
  {<<AndClose(Claiming(Part(n)))>>} \cup
  (IF n > 1 THEN {<<Claiming(Part(1)), AndClose(Part(n - 1))>>} ELSE {})

\* closePosition: the fees it will tell are the ones it reads now.
MeteoraClose(r) ==
  IF Found(r)
  THEN \E transactions \in ClosingChunks(liquidity) :
         PrepareFor(r, wallet[r], transactions, [liquidity |-> 0, fees |-> owed])
  ELSE Refuse(r)
MeteoraCloseAnswer == StatusOfLookup

\* Of the balance change, what exceeds the fees that were read is liquidity.
MeteoraCloseTells(r) ==
  LET fees == remembered[r].fees
      total == Total(last[r]) IN
  [x \in Replies |-> [liquidity |-> IF total > fees THEN total - fees ELSE 0, fees |-> fees]]

\* createPool
MeteoraCreate(r) == IF price = 0 THEN \E p \in 1..2 : Prepare(r, CreatingAt(p)) ELSE Refuse(r)
MeteoraCreateAnswer == StatusOfLookup

\* executeSwap
MeteoraSwap(r) == Prepare(r, Elsewhere)
MeteoraSwapAnswer == StatusOfLookup

-----------------------------------------------------------------------------
\* addLiquidity of an AMM opens a new position unless it is given one.
DammAdd(r) ==
  \/ Prepare(r, [Elsewhere EXCEPT !.put = 1])
  \/ IF Found(r) THEN Prepare(r, Putting) ELSE Refuse(r)
DammAddAnswer == StatusOfLookup

\* removeLiquidity: the amount is fixed here, from the liquidity read.
DammRemove(r) ==
  IF Found(r) /\ liquidity > 0 THEN \E n \in Half : Prepare(r, Taking(n)) ELSE Refuse(r)
DammRemoveAnswer == StatusOfLookup

\* createPool: with the first liquidity.
DammCreate(r) ==
  IF price = 0 THEN \E p \in 1..2 : Prepare(r, [CreatingAt(p) EXCEPT !.put = 1]) ELSE Refuse(r)
DammCreateAnswer == StatusOfLookup

\* executeSwap
DammSwap(r) == Prepare(r, Elsewhere)
DammSwapAnswer == StatusOfLookup

-----------------------------------------------------------------------------
MeteoraChecks(r) ==
  \/ Starts(r, "meteora open") /\ MeteoraOpen(r)
  \/ Starts(r, "meteora add") /\ MeteoraAdd(r)
  \/ Starts(r, "meteora remove") /\ MeteoraRemove(r)
  \/ Starts(r, "meteora collect") /\ MeteoraCollect(r)
  \/ Starts(r, "meteora close") /\ MeteoraClose(r)
  \/ Starts(r, "meteora create") /\ MeteoraCreate(r)
  \/ Starts(r, "meteora swap") /\ MeteoraSwap(r)
  \/ Starts(r, "damm add") /\ DammAdd(r)
  \/ Starts(r, "damm remove") /\ DammRemove(r)
  \/ Starts(r, "damm create") /\ DammCreate(r)
  \/ Starts(r, "damm swap") /\ DammSwap(r)

MeteoraTable(r) ==
  CASE op[r] = "meteora open" -> MeteoraOpenAnswer
    [] op[r] = "meteora add" -> MeteoraAddAnswer
    [] op[r] = "meteora remove" -> MeteoraRemoveAnswer
    [] op[r] = "meteora collect" -> MeteoraCollectAnswer
    [] op[r] = "meteora close" -> MeteoraCloseAnswer
    [] op[r] = "meteora create" -> MeteoraCreateAnswer
    [] op[r] = "meteora swap" -> MeteoraSwapAnswer
    [] op[r] = "damm add" -> DammAddAnswer
    [] op[r] = "damm remove" -> DammRemoveAnswer
    [] op[r] = "damm create" -> DammCreateAnswer
    [] op[r] = "damm swap" -> DammSwapAnswer

MeteoraTells(r) ==
  CASE op[r] = "meteora close" -> MeteoraCloseTells(r)
    [] op[r] = "meteora collect" -> AsFees(r)
    [] OTHER -> AsLiquidity(r)

MeteoraStep(r) ==
  /\ op[r] \in MeteoraClmmOps \cup MeteoraAmmOps
  /\ \/ MeteoraChecks(r)
     \/ Broadcast(r, MeteoraTable(r))
     \/ Answered(r, WalletReplies(r), MeteoraTable(r), MeteoraTells(r))
     \/ SendsNext(r)
=============================================================================
