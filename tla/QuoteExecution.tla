---------------------------- MODULE QuoteExecution ----------------------------
(***************************************************************************)
(* Executing cached router quotes: src/src/services/quote-cache.ts and the *)
(* quoteSwap and executeQuote of the seven router connectors.  A quote     *)
(* stays in the cache while its transaction is sent and waited for, so     *)
(* requests for one quote overlap.                                         *)
(*                                                                         *)
(* A send is what SolanaSend and EvmSend are shown to implement, the       *)
(* contract SendOutcome, for each request: `ledger' and `reply' are its    *)
(* two variables, the reply told apart as far as the routes do.            *)
(***************************************************************************)
EXTENDS Integers

CONSTANTS
  Quotes,       \* quote ids
  Requests,     \* executeQuote requests
  Connectors    \* the router connectors in play

SolanaRouters == {"jupiter", "titan", "dflow", "okx"}
EvmRouters    == {"uniswap", "pancakeswap", "0x"}

ASSUME QuoteAssumption == Connectors \subseteq SolanaRouters \cup EvmRouters

VARIABLES
  cache,    \* quote ids in the cache
  made,     \* the connector that made a quote, or "none"
  pc,       \* where each request is
  quote,    \* the quote a request executes
  via,      \* the connector whose route it called
  ledger,   \* per request, what the chain holds of its transaction
  reply,    \* per request, how the send ended
  answer    \* per request, the HTTP answer

vars == <<cache, made, pc, quote, via, ledger, reply, answer>>

Answers == {"none", "confirmed", "pending", "failed", "reverted_error", "error"}

TypeOK ==
  /\ cache \subseteq Quotes
  /\ made \in [Quotes -> Connectors \cup {"none"}]
  /\ pc \in [Requests -> {"new", "build", "send", "sending", "lookup", "done"}]
  /\ quote \in [Requests -> Quotes]
  /\ via \in [Requests -> Connectors]
  /\ ledger \in [Requests -> {"absent", "possible", "success", "failure", "impossible"}]
  /\ reply \in [Requests -> {"none", "success", "failure", "null", "throws"}]
  /\ answer \in [Requests -> Answers]
  /\ \A q \in cache : made[q] # "none"

\* Each request comes with the quote id and the route it will call.
Init ==
  /\ cache = {}
  /\ made = [q \in Quotes |-> "none"]
  /\ pc = [r \in Requests |-> "new"]
  /\ quote \in [Requests -> Quotes]
  /\ via \in [Requests -> Connectors]
  /\ ledger = [r \in Requests |-> "absent"]
  /\ reply = [r \in Requests |-> "none"]
  /\ answer = [r \in Requests |-> "none"]

-----------------------------------------------------------------------------
Goto(r, p) == pc' = [pc EXCEPT ![r] = p] /\ UNCHANGED answer

Return(r, a) ==
  /\ pc' = [pc EXCEPT ![r] = "done"]
  /\ answer' = [answer EXCEPT ![r] = a]

Keep == UNCHANGED cache

\* FAULT: the quote is not removed.
Retain(q) == UNCHANGED cache

\* quoteCache.delete
Delete(q) == cache' = cache \ {q}

-----------------------------------------------------------------------------
\* quoteSwap: a fresh id, put into the cache.
QuoteSwap(q) ==
  /\ made[q] = "none"
  /\ \E c \in Connectors : made' = [made EXCEPT ![q] = c]
  /\ cache' = cache \cup {q}
  /\ UNCHANGED <<pc, quote, via, ledger, reply, answer>>

\* The routes that look at the connector of the cached quote.
ChecksConnector == {"titan", "dflow", "okx"}

\* executeQuote up to its first await.
ExecuteQuote(r) ==
  /\ pc[r] = "new"
  /\ IF quote[r] \in cache /\ (via[r] \in ChecksConnector => made[quote[r]] = via[r])
     THEN Goto(r, "build")
     ELSE Return(r, "error")
  /\ UNCHANGED <<cache, made, quote, via, ledger, reply>>

\* Only the two Universal Router connectors cache quotes of one shape.
UniversalRouters == {"uniswap", "pancakeswap"}
Usable(r) ==
  \/ made[quote[r]] = via[r]
  \/ {made[quote[r]], via[r]} \subseteq UniversalRouters

\* Tokens, allowances, wallet, building the transaction: all before the send.
Build(r) ==
  /\ pc[r] = "build"
  /\ \/ Usable(r) /\ Goto(r, "send")
     \/ Return(r, "error")
  /\ UNCHANGED <<cache, made, quote, via, ledger, reply>>

Send(r) ==
  /\ pc[r] = "send"
  /\ ledger' = [ledger EXCEPT ![r] = "possible"]
  /\ Goto(r, "sending")
  /\ UNCHANGED <<cache, made, quote, via, reply>>

\* The chain decides, before or after the send ended.
Decide(r) ==
  /\ ledger[r] = "possible"
  /\ \E l \in {"success", "failure", "impossible"} : ledger' = [ledger EXCEPT ![r] = l]
  /\ UNCHANGED <<cache, made, pc, quote, via, reply, answer>>

\* The ends of a send that are true now: on Solana only a confirmed success is
\* returned, everything else is thrown; on EVM chains a receipt or null.
Replies(r) ==
  {"throws"}
    \cup (IF ledger[r] = "success" THEN {"success"} ELSE {})
    \cup (IF via[r] \in EvmRouters
          THEN {"null"} \cup (IF ledger[r] = "failure" THEN {"failure"} ELSE {})
          ELSE {})

-----------------------------------------------------------------------------
(* What each route makes of the end of the send.                           *)

\* FAULT: a missing transaction counts as confirmed.
NullConfirmed == "confirmed"

\* The status of a transaction without a receipt or without data.
NullStatus == "pending"

\* pancakeswap: 0 is taken for failed, and -1 falls through to the success.
PancakeswapResult(r, s) ==
  CASE s = "success" -> Delete(quote[r]) /\ Return(r, "confirmed")
    [] s = "failure" -> Delete(quote[r]) /\ Return(r, "failed")
    [] s = "null"    -> Keep /\ Return(r, "reverted_error")

\* uniswap: 1 confirmed, 0 pending, -1 failed.
UniswapResult(r, s) ==
  CASE s = "success" -> Delete(quote[r]) /\ Return(r, "confirmed")
    [] s = "failure" -> Keep /\ Return(r, "reverted_error")
    [] s = "null"    -> Keep /\ Return(r, NullStatus)

\* 0x looks its tokens up once more before it looks at the receipt, and may
\* throw there.
ZeroXResult(r) ==
  \/ Keep /\ Return(r, "error")
  \/ UniswapResult(r, reply[r])

\* The Solana routes fetch the transaction once more: it may not be found, and
\* the fetch or the reading of its balance changes may throw.
SolanaResult(r) ==
  \/ Keep /\ Return(r, "error")
  \/ Keep /\ Return(r, NullStatus)
  \/ Delete(quote[r]) /\ Return(r, "confirmed")

SendEnds(r) ==
  /\ pc[r] = "sending"
  /\ \E s \in Replies(r) :
       /\ reply' = [reply EXCEPT ![r] = s]
       /\ CASE s = "throws" -> Keep /\ Return(r, "error")
            [] s # "throws" /\ via[r] = "uniswap" -> UniswapResult(r, s)
            [] s # "throws" /\ via[r] = "pancakeswap" -> PancakeswapResult(r, s)
            [] s # "throws" /\ via[r] \notin UniversalRouters -> Keep /\ Goto(r, "lookup")
  /\ UNCHANGED <<made, quote, via, ledger>>

LookUp(r) ==
  /\ pc[r] = "lookup"
  /\ IF via[r] = "0x" THEN ZeroXResult(r) ELSE SolanaResult(r)
  /\ UNCHANGED <<made, quote, via, ledger, reply>>

Next ==
  \/ \E q \in Quotes : QuoteSwap(q)
  \/ \E r \in Requests :
       ExecuteQuote(r) \/ Build(r) \/ Send(r) \/ Decide(r) \/ SendEnds(r) \/ LookUp(r)

Spec == Init /\ [][Next]_vars

-----------------------------------------------------------------------------
\* Status 1 is only answered for a swap that was executed by this request, not
\* by another one for the same quote.
ConfirmedIsExecuted ==
  \A r \in Requests : answer[r] = "confirmed" => ledger[r] = "success"

\* "Remove quote from cache only after successful execution (confirmed)", says
\* each route: a quote is never lost to its client without having been executed.
\* PancakeSwap's also drops it after a reverted swap.
RemovedWasExecuted ==
  \A q \in Quotes : made[q] # "none" /\ q \notin cache =>
    \E r \in Requests :
      /\ quote[r] = q
      /\ ledger[r] = "success" \/ (via[r] = "pancakeswap" /\ ledger[r] = "failure")

\* Once a request for a quote was answered with status 1, no later request for
\* that quote sends anything, in whatever order the overlapping ones end.
NoSendAfterConfirmed ==
  [][\A r, s \in Requests :
       /\ pc[r] = "new" /\ pc'[r] = "build"
       /\ quote[s] = quote[r]
       => answer[s] # "confirmed"]_vars

\* The error "Transaction reverted on-chain" is only raised for a transaction
\* that was mined and reverted, PancakeSwap's excepted: its client may quote and
\* swap again.
RevertedIsReverted ==
  \A r \in Requests :
    answer[r] = "reverted_error" /\ via[r] # "pancakeswap" => ledger[r] = "failure"

\* So what a client is told of its swap is true, and the cache agrees.
OutcomesAreTrue == ConfirmedIsExecuted /\ RemovedWasExecuted /\ RevertedIsReverted
=============================================================================
