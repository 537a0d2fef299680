-------------------------------- MODULE Quoting --------------------------------
(***************************************************************************)
(* How the seven routers quote a swap, and what becomes of the quotes in   *)
(* QuoteExecution: the quoteSwap of each connector, the approximation of a *)
(* BUY by two exact-in quotes, throttling, and the one-shot executeSwap,   *)
(* which quotes and then executes the quote it got.                        *)
(*                                                                         *)
(* The requests are of one wallet, "own"; quotes are made for it, for      *)
(* another one, or for nobody.  The routers' services are external.        *)
(***************************************************************************)
EXTENDS QuoteExecution

CONSTANT RateLimitAttempts    \* RATE_LIMIT_MAX_ATTEMPTS

ASSUME QuotingAssumption == RateLimitAttempts \in Nat \ {0}

VARIABLES
  ask,        \* what each quote is asked for
  oneshot,    \* the requests that are an executeSwap: their quote is their own
  stage,      \* how far the quoting is
  tries,      \* how often the service throttled its last call in a row
  told,       \* the HTTP answer
  terms       \* what the quote promises, as it was told

quotingVars == <<ask, oneshot, stage, tries, told, terms>>

\* "equivalent" is ETH for WETH and the like, "indicative" a price of 0x without a quote.
Ask == [via : Connectors, side : {"BUY", "SELL"}, wallet : {"own", "other", "nobody"},
        approximate : BOOLEAN, kind : {"firm", "indicative", "equivalent"},
        slippage : {"configured", "tighter"}]

\* What a router looks at, after its defaults: 0x and Titan have a default wallet, Titan's
\* may be missing, and the other Solana routers quote for no wallet in particular; 0x has
\* indicative prices, and Uniswap is the one to tell equivalent tokens apart.
Asks ==
  {a \in Ask :
     /\ a.via \notin {"uniswap", "pancakeswap", "0x", "titan"} => a.wallet = "own"
     /\ a.via = "0x" => a.wallet # "nobody"
     /\ a.via \in EvmRouters \/ a.side = "SELL" => ~a.approximate
     /\ a.kind = "indicative" => a.via = "0x"
     /\ a.kind = "equivalent" => a.via = "uniswap" /\ a.side = "SELL"}

\* mode: how it is executed; slips: the amount that slippage applies to; bound: the slippage
\* the transaction allows; approximation: told to be one; pays: who gets the tokens.
NoTerms ==
  [mode |-> "none", slips |-> "none", bound |-> "none", approximation |-> FALSE, pays |-> "none"]
Terms ==
  [mode : {"exactIn", "exactOut", "none"}, slips : {"in", "out", "none"},
   bound : {"configured", "tighter", "none"}, approximation : BOOLEAN,
   pays : {"own", "other", "placeholder", "executor", "none"}]

QuotingTypeOK ==
  /\ TypeOK
  /\ ask \in [Quotes -> Ask]
  /\ oneshot \subseteq Requests
  /\ stage \in [Quotes -> {"new", "route", "sell leg", "forward leg", "done"}]
  /\ tries \in [Quotes -> 0..RateLimitAttempts]
  /\ told \in [Quotes -> {"none", "quote", "refused", "not_found", "no_route", "rate_limited", "error"}]
  /\ terms \in [Quotes -> Terms]

\* executeSwap quotes for its wallet and by its connector, firmly, and tells nobody the id.
QuotingInit ==
  /\ Init
  /\ ask \in [Quotes -> Asks]
  /\ oneshot \in SUBSET Requests
  /\ \A r \in oneshot :
       /\ ask[quote[r]].via = via[r] /\ ask[quote[r]].wallet = "own" /\ ask[quote[r]].kind # "indicative"
       /\ \A s \in Requests \ {r} : quote[s] # quote[r]
  /\ stage = [q \in Quotes |-> "new"]
  /\ tries = [q \in Quotes |-> 0]
  /\ told = [q \in Quotes |-> "none"]
  /\ terms = [q \in Quotes |-> NoTerms]

-----------------------------------------------------------------------------
Tells(q, a) ==
  /\ stage' = [stage EXCEPT ![q] = "done"]
  /\ told' = [told EXCEPT ![q] = a]
  /\ UNCHANGED <<cache, made, terms, tries>>

Asking(q, s) ==
  /\ stage' = [stage EXCEPT ![q] = s]
  /\ tries' = [tries EXCEPT ![q] = 0]
  /\ UNCHANGED <<cache, made, told, terms>>

\* FAULT: a new quote replaces the others.
OnlyThis(q) == {q}

\* quoteCache.set
With(q) == cache \cup {q}

Caches(q, t) ==
  /\ cache' = With(q)
  /\ made' = [made EXCEPT ![q] = ask[q].via]
  /\ terms' = [terms EXCEPT ![q] = t]
  /\ stage' = [stage EXCEPT ![q] = "done"]
  /\ told' = [told EXCEPT ![q] = "quote"]
  /\ tries' = [tries EXCEPT ![q] = 0]

ByAsked(q, v, s) == ask[q].via = v /\ stage[q] = s
Throttled(q) == tries' = [tries EXCEPT ![q] = @ + 1] /\ UNCHANGED <<cache, made, terms>>
Ends(q, a) == stage' = [stage EXCEPT ![q] = "done"] /\ told' = [told EXCEPT ![q] = a]

\* A service fails: it throttles, or it has no route, or no answer.
FailsWith(q, a) == (Throttled(q) /\ Ends(q, a)) \/ Tells(q, a)

ExactBySide(a) == IF a.side = "BUY" THEN "exactOut" ELSE "exactIn"
SlipsBySide(a) == IF a.side = "SELL" THEN "out" ELSE "in"

\* slippagePct, or the one of the configuration.
SlippageOf(a) == a.slippage

-----------------------------------------------------------------------------
\* The universal routers: the calldata of the quote pays the wallet of the quote, or a
\* placeholder.
Recipient(a) == IF a.wallet = "nobody" THEN "placeholder" ELSE a.wallet

UniversalTerms(a) ==
  [mode |-> ExactBySide(a), slips |-> SlipsBySide(a), bound |-> SlippageOf(a),
   approximation |-> FALSE, pays |-> Recipient(a)]

\* Equivalent tokens get an id that is not cached.
QuoteUniswap(q) ==
  \/ ByAsked(q, "uniswap", "new") /\ ask[q].kind = "equivalent" /\ Tells(q, "quote")
  \/ /\ ByAsked(q, "uniswap", "new") /\ ask[q].kind # "equivalent"
     /\ Tells(q, "not_found") \/ Asking(q, "route")
  \/ /\ ByAsked(q, "uniswap", "route")
     /\ Caches(q, UniversalTerms(ask[q])) \/ FailsWith(q, "error")

\* PancakeSwap tells the amounts of the slippage asked for, its calldata has the configured one.
PancakeswapTerms(a) == [UniversalTerms(a) EXCEPT !.bound = "configured"]

QuotePancakeswap(q) ==
  \/ ByAsked(q, "pancakeswap", "new") /\ (Tells(q, "not_found") \/ Asking(q, "route"))
  \/ /\ ByAsked(q, "pancakeswap", "route")
     /\ Caches(q, PancakeswapTerms(ask[q])) \/ FailsWith(q, "error")

\* 0x: only firm quotes have an id of their own and are cached.
IsFirm(a) == a.kind = "firm"

ZeroXTerms(a) == [UniversalTerms(a) EXCEPT !.pays = a.wallet]

QuoteZeroX(q) ==
  \/ ByAsked(q, "0x", "new") /\ (Tells(q, "refused") \/ Asking(q, "route"))
  \/ /\ ByAsked(q, "0x", "route")
     /\ \/ IsFirm(ask[q]) /\ Caches(q, ZeroXTerms(ask[q]))
        \/ ~IsFirm(ask[q]) /\ Tells(q, "quote")
        \/ FailsWith(q, "refused") \/ FailsWith(q, "error")

-----------------------------------------------------------------------------
\* The Solana routers.  The transaction is built for the wallet that executes, Titan's when
\* it is quoted.
Approximated(a) ==
  [mode |-> "exactIn", slips |-> "out", bound |-> SlippageOf(a), approximation |-> TRUE,
   pays |-> "executor"]
AsAsked(a) ==
  [Approximated(a) EXCEPT !.mode = ExactBySide(a), !.slips = SlipsBySide(a), !.approximation = FALSE]

\* FAULT: a BUY is approximated whether that was allowed or not.
AnyBuy(a) == a.side = "BUY"

MayApproximate(a) == a.side = "BUY" /\ a.approximate

InLeg(q, v) == ByAsked(q, v, "sell leg") \/ ByAsked(q, v, "forward leg")

\* approximateBuyViaSellLeg, as far as it succeeds: what selling the amount yields, then
\* what that buys.
ApproximateBuy(q, v, t) ==
  \/ ByAsked(q, v, "sell leg") /\ Asking(q, "forward leg")
  \/ ByAsked(q, v, "forward leg") /\ Caches(q, t)

\* Titan, DFlow and OKX tell a leg that fails as an error, one without output as a bad request.
Legs(q, v, t) ==
  \/ ApproximateBuy(q, v, t)
  \/ InLeg(q, v) /\ (FailsWith(q, "error") \/ Tells(q, "refused"))

\* "Propagate the 429 as-is".
AfterThrottling == "rate_limited"

\* FAULT: one attempt more.
OneAttemptMore == RateLimitAttempts + 1

\* RATE_LIMIT_MAX_ATTEMPTS
MaxAttempts == RateLimitAttempts

\* withRateLimitRetry: a throttled call is made again, a number of times; `a' is what comes
\* of it then.
JupiterThrottled(q, a) ==
  /\ Throttled(q)
  /\ IF tries[q] + 1 < MaxAttempts THEN UNCHANGED <<stage, told>> ELSE Ends(q, a)

\* Of the route, any other failure may be approximated; of the legs, all are no route.
QuoteJupiter(q) ==
  \/ ByAsked(q, "jupiter", "new") /\ (Tells(q, "refused") \/ Asking(q, "route"))
  \/ /\ ByAsked(q, "jupiter", "route")
     /\ \/ Caches(q, AsAsked(ask[q]))
        \/ JupiterThrottled(q, AfterThrottling)
        \/ MayApproximate(ask[q]) /\ Asking(q, "sell leg")
        \/ ~MayApproximate(ask[q]) /\ Tells(q, "no_route")
  \/ ApproximateBuy(q, "jupiter", Approximated(ask[q]))
  \/ InLeg(q, "jupiter") /\ (JupiterThrottled(q, "no_route") \/ Tells(q, "no_route"))

\* Exact-in only: a BUY is approximated or refused.
ExactInOnly(q, v, t) ==
  \/ /\ ByAsked(q, v, "new") /\ ask[q].side = "SELL" /\ Asking(q, "route")
  \/ /\ ByAsked(q, v, "new") /\ MayApproximate(ask[q]) /\ Asking(q, "sell leg")
  \/ /\ ByAsked(q, v, "route")
     /\ Caches(q, [t EXCEPT !.approximation = FALSE]) \/ FailsWith(q, "no_route")
  \/ Legs(q, v, t)

\* Without a wallet there is no quote of Titan.
QuoteTitan(q) ==
  \/ ByAsked(q, "titan", "new") /\ Tells(q, "refused")
  \/ ask[q].wallet # "nobody" /\ ExactInOnly(q, "titan", [Approximated(ask[q]) EXCEPT !.pays = ask[q].wallet])

QuoteDFlow(q) ==
  \/ ByAsked(q, "dflow", "new") /\ Tells(q, "refused")
  \/ ExactInOnly(q, "dflow", Approximated(ask[q]))

\* OKX approximates whatever failed.
QuoteOkx(q) ==
  \/ ByAsked(q, "okx", "new") /\ (Tells(q, "refused") \/ Asking(q, "route"))
  \/ /\ ByAsked(q, "okx", "route")
     /\ \/ Caches(q, AsAsked(ask[q]))
        \/ MayApproximate(ask[q]) /\ Asking(q, "sell leg")
        \/ ~MayApproximate(ask[q]) /\ FailsWith(q, "no_route")
  \/ Legs(q, "okx", Approximated(ask[q]))

-----------------------------------------------------------------------------
\* FAULT: Titan's quotes are anybody's.
NoOnesWallet(r) == FALSE

\* Titan's executeQuote compares the wallets.
WrongWallet(r) == via[r] = "titan" /\ ask[quote[r]].wallet # "own"

\* executeSwap awaits its own quote, then executes it.
ExecuteSwap(r) ==
  /\ r \in oneshot => stage[quote[r]] = "done"
  /\ ExecuteQuote(r)

BuildSwap(r) == Build(r) /\ (WrongWallet(r) => answer'[r] = "error")

QuotingNext ==
  \/ /\ \E q \in Quotes :
          \/ QuoteUniswap(q) \/ QuotePancakeswap(q) \/ QuoteZeroX(q)
          \/ QuoteJupiter(q) \/ QuoteTitan(q) \/ QuoteDFlow(q) \/ QuoteOkx(q)
     /\ UNCHANGED <<pc, quote, via, ledger, reply, answer, ask, oneshot>>
  \/ /\ \E r \in Requests :
          ExecuteSwap(r) \/ BuildSwap(r) \/ Send(r) \/ Decide(r) \/ SendEnds(r) \/ LookUp(r)
     /\ UNCHANGED quotingVars

QuotingSpec == QuotingInit /\ [][QuotingNext]_<<vars, quotingVars>>

-----------------------------------------------------------------------------
\* However a quote came about, to its execution it is the one step QuoteExecution has of it:
\* what is shown there of quotes that are just there holds of those the connectors make.
QuotesAreOneStep == Spec

Confirmed(r) == answer[r] = "confirmed"

\* A transaction is only sent for a quote that was told as a quote, and made for execution:
\* the indicative prices of 0x and the one-to-one answers of Uniswap have ids as well.
SentWasQuoted ==
  \A r \in Requests :
    ledger[r] # "absent" => told[quote[r]] = "quote" /\ ask[quote[r]].kind = "firm"

\* "BUY ... approximated": a BUY is only executed as the spending of a fixed amount when its
\* client allowed that; it was then told so, and the amount it gets is what slippage bounds.
BoughtAsAllowed ==
  \A r \in Requests :
    LET a == ask[quote[r]]
        t == terms[quote[r]]
    IN  ledger[r] = "success" /\ a.side = "BUY" /\ t.mode = "exactIn"
        => a.approximate /\ t.approximation /\ t.slips = "out"

\* A swap is confirmed within the slippage its client asked for, PancakeSwap's excepted: the
\* bounds it was told come from the slippage asked for, the transaction's from elsewhere.
SlippageIsKept ==
  \A r \in Requests :
    ledger[r] = "success" /\ made[quote[r]] # "pancakeswap"
    => terms[quote[r]].bound = ask[quote[r]].slippage

\* So what is executed is what was asked for and told.
SwapsAsAsked == SentWasQuoted /\ BoughtAsAllowed /\ SlippageIsKept

\* The tokens of a confirmed swap are its wallet's, when it is quoted and executed in one go,
\* and on Solana whoever it was quoted for.
PaidToWhoSwaps ==
  \A r \in Requests :
    Confirmed(r) /\ (r \in oneshot \/ via[r] \in SolanaRouters)
    => terms[quote[r]].pays \in {"own", "executor"}

\* The same of every confirmed swap: "Wallet address that will execute the swap"
\* (router-schema.ts:92), "Actual amount of tokenOut received" (router-schema.ts:175).
ReceivedByExecutor ==
  \A r \in Requests : Confirmed(r) => terms[quote[r]].pays \in {"own", "executor"}
=============================================================================
