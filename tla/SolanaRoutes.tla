---------------------------- MODULE SolanaRoutes ------------------------------
(***************************************************************************)
(* The routes of the Solana connectors together: requests that overlap, of *)
(* two wallets, about one position and one pool.                           *)
(***************************************************************************)
EXTENDS MeteoraRoutes, RaydiumRoutes, OrcaRoutes, PancakeswapSolRoutes

vars == routeVars

\* The requests of an instance are to routes of one family.
Families ==
  {MeteoraClmmOps, MeteoraAmmOps, RaydiumClmmOps, RaydiumAmmOps, OrcaOps, PancakeswapSolOps, SolWrapOps}

Creates ==
  { "meteora create", "damm create", "raydium create", "raydium amm create", "orca create",
    "pancakeswap-sol create" }
NotAbout ==
  { "meteora open", "raydium open", "orca open", "pancakeswap-sol open", "meteora swap", "damm swap",
    "raydium swap", "raydium amm swap", "orca swap", "pancakeswap-sol swap" }

\* Fees are of interest to CLMM positions only.
EarnsFees(o) == o \in MeteoraClmmOps \cup RaydiumClmmOps \cup OrcaOps \cup PancakeswapSolOps

\* What none of the requests looks at has one value, and a wrapped SOL account is
\* of one wallet.
Init ==
  /\ RouteInit
  /\ \E family \in Families : op \in [Requests -> family]
  /\ (\E r \in Requests : op[r] \in Creates) \/ price = 0
  /\ (\E r \in Requests : EarnsFees(op[r])) \/ owed = 0
  /\ (\A r \in Requests : op[r] \in Creates \cup NotAbout) => liquidity = None
  /\ \A r \in Requests : op[r] \in SolWrapOps \cup (NotAbout \ {"raydium open", "raydium swap"}) => Mine(r)

Next ==
  \/ \E r \in Requests :
       \/ Interrupted(r)
       \/ MeteoraStep(r) \/ RaydiumStep(r) \/ OrcaStep(r) \/ RawStep(r)
       \/ Lands(r) \/ Fails(r) \/ Dropped(r)
  \/ (\E r \in Requests : EarnsFees(op[r])) /\ Accrue

Spec == Init /\ [][Next]_vars

TypeOK == RouteTypeOK

-----------------------------------------------------------------------------
\* A status 1 is told of a request all of whose transactions landed: by every
\* route, whichever way it sends, however many transactions it takes.
ConfirmedIsLanded ==
  \A r \in Requests : answer[r] = "confirmed" => tx[r] = "landed" /\ Len(plan[r]) = 1

\* The status 0 of a route that sends with sendAndConfirmTransactionForWallet is
\* a success without a trace; only the raw way of sending tells it of anything
\* that is not confirmed, a failure on chain included.
PendingIsLanded ==
  \A r \in Requests : answer[r] = "status0" /\ op[r] \notin RawOps => tx[r] = "landed"

\* A client whose request was refused may correct it and send it again: nothing
\* of the refused one was or will be executed.  Not so where Meteora needs several
\* transactions: the first may have landed when the second is refused.
ClientErrorIsFinal ==
  \A r \in Requests : answer[r] = "client_error" =>
    /\ tx[r] \in {"unsent", "failed"}
    /\ op[r] \notin {"meteora remove", "meteora collect", "meteora close"} => moved[r] = Nothing

\* A request that is answered with an error of the server, before its transaction
\* was out or after it landed, is never still under way: only a timeout, a
\* throttled wait, and the 0 of the raw way of sending leave a transaction pending.
ErrorIsSettled ==
  \A r \in Requests : answer[r] = "server_error" => tx[r] \in {"unsent", "landed"}

\* All requests share one Raydium SDK, which each loads for its wallet.  Only when
\* another wallet's request loads it in between is a transaction built for a wallet
\* other than the request's, to be refused by the signer: requests of one wallet, and
\* requests that do not overlap, never fail so.
ForeignWasReloaded ==
  \A r \in Requests : builtFor[r] \notin {Nobody, wallet[r]} => reloaded[r]

\* A close that is told, as confirmed or (PendingIsLanded) as pending, has closed
\* the position for good, liquidity that was added meanwhile included.  What the
\* close of Meteora does with that is up to its SDK.
ClosedIsGone ==
  \A r \in Requests :
    /\ op[r] \in {"raydium close", "orca close", "pancakeswap-sol close"}
    /\ answer[r] = "confirmed" \/ (answer[r] = "status0" /\ op[r] = "raydium close")
    => ~Exists

\* The routes that tell what they read, or estimated, before the transaction, and
\* another request may have overtaken: Meteora's close tells the fees, unwrap the
\* balance, Orca's open and swap the amounts of their quotes.
TellRead == {"meteora close", "solana unwrap", "orca open", "orca swap"}

\* No other answer tells more than was moved, although Orca's close tells by what it
\* read before and Raydium subtracts.
ToldWasMoved ==
  \A r \in Requests :
    answer[r] = "confirmed" /\ op[r] \notin TellRead => Total(told[r]) <= Total(moved[r])

\* What the status of an answer says of the transactions is true, in all the ways that the
\* four connectors send and look up.
AnswersAreTrue == ConfirmedIsLanded /\ PendingIsLanded /\ ClientErrorIsFinal /\ ErrorIsSettled

\* And so is what its other fields say of the position and of the amounts.
ToldIsTrue == ClosedIsGone /\ ToldWasMoved

\* The simulation right before the broadcast is worth it: what fails on chain for
\* another reason than the price was overtaken by something in between.
FailedWasOvertaken ==
  \A r \in Requests : fresh[r] => why[r] \in {"none", "price"}
=============================================================================
