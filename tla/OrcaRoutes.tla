------------------------------ MODULE OrcaRoutes ------------------------------
(***************************************************************************)
(* The routes of Orca: src/src/connectors/orca/clmm-routes.  The SDK reads *)
(* the position once more to build its instructions; what the route itself *)
(* read before is used to tell the amounts.                                *)
(***************************************************************************)
EXTENDS SolanaRoute

OrcaOps ==
  {"orca open", "orca add", "orca remove", "orca collect", "orca close", "orca create", "orca swap"}

\* The quote of a swap, or of a new position, estimates what will be moved: less,
\* as much, or more.
Estimating(r) ==
  \E estimate \in 0..2 :
    PrepareFor(r, wallet[r], <<[Elsewhere EXCEPT !.put = 1]>>, [liquidity |-> estimate, fees |-> 0])

Estimates(r) == [x \in Replies |-> remembered[r]]

\* openPosition tells the estimates when there is no trace of the transaction, and
\* when the second look-up shows no transfers.
OrcaOpen(r) == Estimating(r)
OrcaOpenAnswer == ConfirmedBySend

OrcaOpenTells(r) == {Estimates(r), [AsLiquidity(r) EXCEPT !["null"] = remembered[r]]}

\* addLiquidity: fetchPosition throws when there is none.
OrcaAdd(r) == IF Exists THEN Prepare(r, Putting) ELSE Break(r)

\* addLiquidity, removeLiquidity and collectFees do not ask getTransaction, but
\* extractBalanceChangesAndFee throws when it finds no trace.
OrcaAddAnswer == NullIsError

\* removeLiquidity: the fees stay.
OrcaRemove(r) ==
  CASE ~Exists -> Break(r)
    [] liquidity = 0 -> Refuse(r)
    [] OTHER -> \E n \in Half : Prepare(r, Taking(n))
OrcaRemoveAnswer == NullIsError

\* collectFees
OrcaCollect(r) == IF Exists THEN Prepare(r, Claiming(OnPosition)) ELSE Break(r)
OrcaCollectAnswer == NullIsError

\* closePosition: fetchMaybePosition, hasLiquidity.
OrcaCloseReads(r) ==
  IF ~Exists THEN Refuse(r)
  ELSE /\ pc' = [pc EXCEPT ![r] = "read"]
       /\ remembered' = [remembered EXCEPT ![r] = [liquidity |-> IF liquidity > 0 THEN 1 ELSE 0, fees |-> 0]]
       /\ ReadsOnly /\ UNCHANGED <<plan, builtFor, told, answer>>

\* closePositionInstructions: decreases, collects and closes, by its own reading.
OrcaCloseBuilds(r) ==
  IF Exists
  THEN PrepareFor(r, wallet[r], <<[Closing(Taking(liquidity)) EXCEPT !.claim = owed = 1]>>, remembered[r])
  ELSE Break(r)

OrcaCloseAnswer == ConfirmedBySend

TwoGroups(amounts) == amounts.liquidity > 0 /\ amounts.fees > 0

\* FAULT: a single group is taken for both.
OrcaCloseTellsTwice(r) ==
  LET l == last[r] IN
  [ x \in Replies |->
      CASE x = "null" -> Nothing
        [] x # "null" /\ TwoGroups(l) -> l
        [] OTHER -> [liquidity |-> Total(l), fees |-> Total(l)] ]

\* extractInnerTransferAmounts: one group of transfers per instruction.  Two
\* groups are the liquidity and the fees; one is taken for liquidity if the route
\* saw any.  Without a trace there are none, and all amounts stay 0.
OrcaCloseTells(r) ==
  LET l == last[r] IN
  [ x \in Replies |->
      CASE x = "null" -> Nothing
        [] x # "null" /\ TwoGroups(l) -> l
        [] x # "null" /\ ~TwoGroups(l) /\ remembered[r].liquidity > 0 -> [liquidity |-> Total(l), fees |-> 0]
        [] OTHER -> [liquidity |-> 0, fees |-> Total(l)] ]

\* createPool: the existence of the pool is checked after the instructions are built.
OrcaCreate(r) == IF price = 0 THEN \E p \in 1..2 : Prepare(r, CreatingAt(p)) ELSE Refuse(r)
OrcaCreateAnswer == StatusOfLookup

\* executeSwap looks nothing up: it tells the estimates of its quote.
OrcaSwap(r) == Estimating(r)
OrcaSwapTells(r) == Estimates(r)
OrcaSwapAnswer == [ConfirmedBySend EXCEPT !["lookup_error"] = "confirmed"]

-----------------------------------------------------------------------------
OrcaChecks(r) ==
  \/ Starts(r, "orca open") /\ OrcaOpen(r)
  \/ Starts(r, "orca add") /\ OrcaAdd(r)
  \/ Starts(r, "orca remove") /\ OrcaRemove(r)
  \/ Starts(r, "orca collect") /\ OrcaCollect(r)
  \/ Starts(r, "orca close") /\ OrcaCloseReads(r)
  \/ Continues(r, "orca close") /\ OrcaCloseBuilds(r)
  \/ Starts(r, "orca create") /\ OrcaCreate(r)
  \/ Starts(r, "orca swap") /\ OrcaSwap(r)

OrcaTable(r) ==
  CASE op[r] = "orca open" -> OrcaOpenAnswer
    [] op[r] = "orca add" -> OrcaAddAnswer
    [] op[r] = "orca remove" -> OrcaRemoveAnswer
    [] op[r] = "orca collect" -> OrcaCollectAnswer
    [] op[r] = "orca close" -> OrcaCloseAnswer
    [] op[r] = "orca create" -> OrcaCreateAnswer
    [] op[r] = "orca swap" -> OrcaSwapAnswer

OrcaTells(r) ==
  CASE op[r] = "orca open" -> OrcaOpenTells(r)
    [] op[r] = "orca close" -> {OrcaCloseTells(r)}
    [] op[r] = "orca collect" -> {AsFees(r)}
    [] op[r] = "orca swap" -> {OrcaSwapTells(r)}
    [] OTHER -> {AsLiquidity(r)}

OrcaStep(r) ==
  /\ op[r] \in OrcaOps
  /\ \/ OrcaChecks(r)
     \/ Broadcast(r, OrcaTable(r))
     \/ \E tells \in OrcaTells(r) : Answered(r, WalletReplies(r), OrcaTable(r), tells)
=============================================================================
