----------------------------- MODULE SolanaSend ------------------------------
(***************************************************************************)
(* Sending one Solana transaction and deciding what became of it:          *)
(* src/src/chains/solana/solana.ts, sendAndConfirmTransactionForWallet,    *)
(* sendAndConfirmTransaction, sendAndConfirmRawTransaction and the helpers *)
(* they share.  Every step ends at an await; the chain moves in between.   *)
(***************************************************************************)
EXTENDS SolanaChain

CONSTANTS
  ConfirmRetryCount,  \* config: the least number of status polls
  MaxPollAttempts,    \* MAX_POLL_ATTEMPTS, the cap on status polls
  DataRetries,        \* tries to fetch the data of a confirmed transaction (5)
  FinalRetries,       \* tries of the look-up made before giving up (2)
  Monitoring          \* the RPC provider can monitor over a WebSocket

ASSUME SendAssumption ==
  /\ ConfirmRetryCount \in Nat
  /\ MaxPollAttempts \in Nat /\ MaxPollAttempts >= ConfirmRetryCount
  /\ DataRetries \in Nat \ {0}
  /\ FinalRetries \in Nat \ {0}
  /\ Monitoring \in BOOLEAN

VARIABLES
  entry,        \* "wallet" or "raw": the public method that was called
  pc,           \* the await the call is suspended at
  lastValid,    \* lastValidBlockHeight, read just before the broadcast
  signature,    \* the signature is known, i.e. the broadcast was acknowledged
  attempts,     \* status polls made
  sawExpired,   \* sawExpiredBlockhash: the grace poll has been granted
  fetch,        \* _fetchTransactionWithRetry: whom it serves, tries left
  confirmed, txData,   \* the result of the confirmation phase
  outcome,      \* what the caller of the Gateway is told
  ended         \* history: why status polling stopped

callVars == <<entry, pc, lastValid, signature, attempts, sawExpired, fetch,
              confirmed, txData, outcome, ended>>
vars == <<chainVars, callVars>>

Outcomes == {"none", "rejected", "rate_limited", "send_failed", "timeout",
             "pending", "success", "failed_onchain"}
Fetchers == {"none", "ws_confirmed", "ws_timeout", "poll_confirmed", "final"}

TypeOK ==
  /\ ChainTypeOK
  /\ entry \in {"wallet", "raw"}
  /\ pc \in {"simulate", "prepare", "window", "send", "monitor", "poll",
             "height", "fetch", "conclude", "check", "done"}
  /\ lastValid \in Nat
  /\ signature \in BOOLEAN
  /\ attempts \in 0..MaxPollAttempts
  /\ sawExpired \in BOOLEAN
  /\ fetch \in [for: Fetchers, left: Nat]
  /\ confirmed \in BOOLEAN
  /\ txData \in Final \cup {"null"}
  /\ outcome \in Outcomes
  /\ ended \in {"none", "expired", "capped", "error_status"}

Init ==
  /\ ChainInit
  /\ entry \in {"wallet", "raw"}
  /\ pc = "simulate"
  /\ lastValid = 0
  /\ signature = FALSE
  /\ attempts = 0
  /\ sawExpired = FALSE
  /\ fetch = [for |-> "none", left |-> 0]
  /\ confirmed = FALSE
  /\ txData = "null"
  /\ outcome = "none"
  /\ ended = "none"

-----------------------------------------------------------------------------
(* Pieces the steps are made of.                                           *)

\* Answer the caller, with a response or by throwing.
Return(o) == pc' = "done" /\ outcome' = o

\* Await the next step.
Goto(p) == pc' = p /\ UNCHANGED outcome

\* The confirmation phase resolves to {confirmed, txData}.
Resolve(c, d) == Goto("conclude") /\ confirmed' = c /\ txData' = d
Unresolved == UNCHANGED <<confirmed, txData>>

\* Enter _fetchTransactionWithRetry.
StartFetch(for, tries) ==
  Goto("fetch") /\ fetch' = [for |-> for, left |-> tries]

\* FAULT: one poll too many.
MorePollsInclusive(n) == n <= MaxPollAttempts

\* The poll loop's test.
MorePolls(n) == n < MaxPollAttempts

\* Another status poll, or the final look-up.
NextPoll(n) ==
  IF MorePolls(n)
  THEN Goto("poll") /\ UNCHANGED <<fetch, ended>>
  ELSE StartFetch("final", FinalRetries) /\ ended' = "capped"

-----------------------------------------------------------------------------
(* Before the broadcast: whatever throws here leaves nothing on the chain. *)

\* simulateWithErrorHandling turns every error into a 4xx of its own.
Simulate ==
  /\ pc = "simulate"
  /\ Goto("prepare") \/ Return("rejected")
  /\ UNCHANGED <<chainVars, entry, lastValid, signature, attempts, sawExpired,
                 fetch, confirmed, txData, ended>>

\* A legacy transaction sent for a wallet gets a fresh blockhash (prepareTx), a
\* raw legacy one only if it has none; a versioned one keeps the blockhash its
\* connector built it with.
Prepare ==
  /\ pc = "prepare"
  /\ \/ \E h \in HeightReads : expiry' = h + Validity /\ Goto("window")
     \/ Goto("window") /\ UNCHANGED expiry
     \/ "rpc_error" \in Errors /\ Return("rejected") /\ UNCHANGED expiry
     \/ "rate_limit" \in Errors /\ Return("rate_limited") /\ UNCHANGED expiry
  /\ UNCHANGED <<height, tx, fork, reliable, entry, lastValid, signature, attempts,
                 sawExpired, fetch, confirmed, txData, ended>>

\* getLatestBlockhash: the window in which the transaction is polled for.
FetchWindow ==
  /\ pc = "window"
  /\ \/ \E h \in HeightReads : lastValid' = h + Validity /\ Goto("send")
     \/ /\ "rpc_error" \in Errors /\ Return("rejected") /\ UNCHANGED lastValid
     \/ /\ "rate_limit" \in Errors /\ Return("rate_limited") /\ UNCHANGED lastValid
  /\ UNCHANGED <<chainVars, entry, signature, attempts, sawExpired, fetch,
                 confirmed, txData, ended>>

-----------------------------------------------------------------------------
\* The broadcast threw: reported as unconfirmed, without a signature.
LostAnswer == Resolve(FALSE, "null")

\* The broadcast.  A write is never retried; when its answer is lost the
\* transaction may be out although the call threw.
Send ==
  /\ pc = "send"
  /\ \/ Broadcast /\ signature' = TRUE /\ Goto("monitor") /\ Unresolved
     \/ /\ "rpc_error" \in Errors
        /\ Broadcast \/ UNCHANGED tx
        /\ LostAnswer /\ UNCHANGED signature
     \/ /\ "rate_limit" \in Errors
        /\ Return("rate_limited")
        /\ UNCHANGED <<tx, signature>> /\ Unresolved
  /\ UNCHANGED <<height, expiry, fork, reliable, entry, lastValid, attempts, sawExpired,
                 fetch, ended>>

\* _confirmViaWebSocket up to the monitor's answer.  No monitoring, no
\* connection or a closed socket: fall back to polling.
Monitor ==
  /\ pc = "monitor"
  /\ \/ NextPoll(attempts)
     \/ /\ Monitoring /\ tx = "landed"
        /\ StartFetch("ws_confirmed", DataRetries)
        /\ UNCHANGED ended
     \/ /\ Monitoring
        /\ StartFetch("ws_timeout", FinalRetries) /\ UNCHANGED ended
  /\ UNCHANGED <<chainVars, entry, lastValid, signature, attempts, sawExpired,
                 confirmed, txData>>

\* FAULT: turns of the loop are not counted.
CountNothing == UNCHANGED attempts

CountPoll == attempts' = attempts + 1

\* One turn of the loop of _confirmViaPolling, up to the status.
Poll ==
  /\ pc = "poll"
  /\ CountPoll
  /\ \/ \E s \in StatusReads :
          \/ /\ s = "failed"
             /\ Resolve(FALSE, "null")
             /\ ended' = "error_status" /\ UNCHANGED fetch
          \/ /\ s = "landed"
             /\ StartFetch("poll_confirmed", DataRetries)
             /\ Unresolved /\ UNCHANGED ended
          \/ /\ s = "null"
             /\ Goto("height") /\ Unresolved /\ UNCHANGED <<fetch, ended>>
     \/ /\ "rpc_error" \in Errors
        /\ NextPoll(attempts') /\ Unresolved
     \/ /\ "rate_limit" \in Errors
        /\ Return("rate_limited") /\ Unresolved /\ UNCHANGED <<fetch, ended>>
  /\ UNCHANGED <<chainVars, entry, lastValid, signature, sawExpired>>

\* FAULT: giving up after a fixed number of polls.
ExpiredByCount(h) == attempts >= ConfirmRetryCount

BlockhashExpired(h) == h > lastValid /\ attempts >= ConfirmRetryCount

\* The second half of the turn: has the blockhash expired?
PollHeight ==
  /\ pc = "height"
  /\ \/ \E h \in HeightReads :
          IF BlockhashExpired(h) /\ sawExpired
          THEN /\ StartFetch("final", FinalRetries)
               /\ ended' = "expired" /\ UNCHANGED sawExpired
          ELSE /\ NextPoll(attempts)
               /\ sawExpired' = (sawExpired \/ BlockhashExpired(h))
     \/ "rpc_error" \in Errors /\ NextPoll(attempts) /\ UNCHANGED sawExpired
     \/ /\ "rate_limit" \in Errors
        /\ Return("rate_limited") /\ UNCHANGED <<sawExpired, fetch, ended>>
  /\ UNCHANGED <<chainVars, entry, lastValid, signature, attempts, confirmed,
                 txData>>

-----------------------------------------------------------------------------
\* FAULT: data found on chain is taken for a success.
SucceededIfFound(d) == d # "null"

\* meta.err of the data
Succeeded(d) == d = "landed"

\* What the caller of _fetchTransactionWithRetry makes of its result.  The
\* two that just saw a confirmation do not look at the error in the data.
Fetched(d) ==
  IF fetch.for = "ws_timeout" /\ d = "null"
  THEN NextPoll(attempts) /\ Unresolved
  ELSE /\ Resolve(fetch.for \in {"ws_confirmed", "poll_confirmed"} \/ Succeeded(d), d)
       /\ UNCHANGED <<fetch, ended>>

\* ... and of its exception.
FetchFailed(e) ==
  CASE fetch.for \in {"ws_confirmed", "ws_timeout"} ->
         NextPoll(attempts) /\ Unresolved
    [] fetch.for \in {"poll_confirmed", "final"} /\ e = "rate_limit" ->
         Return("rate_limited") /\ Unresolved /\ UNCHANGED <<fetch, ended>>
    [] fetch.for = "poll_confirmed" /\ e = "rpc_error" ->
         NextPoll(attempts) /\ Unresolved
    [] fetch.for = "final" /\ e = "rpc_error" ->
         Resolve(FALSE, "null") /\ UNCHANGED <<fetch, ended>>

\* One try of _fetchTransactionWithRetry.
FetchData ==
  /\ pc = "fetch"
  /\ \/ \E d \in TxReads :
          IF d = "null" /\ fetch.left > 1
          THEN /\ StartFetch(fetch.for, fetch.left - 1)
               /\ Unresolved /\ UNCHANGED ended
          ELSE Fetched(d)
     \/ \E e \in Errors : FetchFailed(e)
  /\ UNCHANGED <<chainVars, entry, lastValid, signature, attempts, sawExpired>>

-----------------------------------------------------------------------------
\* FAULT: a broadcast that threw is reported as a rejected request.
NoSignatureRejects == Return("rejected")

\* confirmationTimeoutError('')
NoSignature == Return("send_failed")

\* The entry point reads {confirmed, signature, txData}.
Conclude ==
  /\ pc = "conclude"
  /\ IF confirmed /\ txData # "null" THEN Return("success")
     ELSE IF entry = "raw" THEN Return("pending")
     ELSE IF signature THEN Goto("check")
     ELSE NoSignature
  /\ UNCHANGED <<chainVars, entry, lastValid, signature, attempts, sawExpired,
                 fetch, confirmed, txData, ended>>

LandedAnswer(d) == IF d = "failed" THEN "failed_onchain" ELSE "timeout"

\* throwIfLandedWithError, then confirmationTimeoutError.
CheckLanded ==
  /\ pc = "check"
  /\ \/ \E d \in TxReads : Return(LandedAnswer(d))
     \/ Errors # {} /\ Return("timeout")
  /\ UNCHANGED <<chainVars, entry, lastValid, signature, attempts, sawExpired,
                 fetch, confirmed, txData, ended>>

CallStep ==
  \/ Simulate \/ Prepare \/ FetchWindow \/ Send \/ Monitor
  \/ Poll \/ PollHeight \/ FetchData \/ Conclude \/ CheckLanded

Next == CallStep \/ (ChainStep /\ UNCHANGED callVars)

\* Awaited RPC calls settle and timers fire: the Gateway keeps moving.  The
\* chain owes nothing.
Spec == Init /\ [][Next]_vars /\ WF_vars(CallStep)

-----------------------------------------------------------------------------
\* A send answered with success is on chain and succeeded: no lagging read, no
\* fork and no WebSocket timeout makes a failed transaction a success.
SuccessIsReal == outcome = "success" => tx = "landed"

\* A send answered with "landed on-chain but failed" (throwIfLandedWithError)
\* did land, and did fail: a client that resends does not execute twice.
FailureIsReal == outcome = "failed_onchain" => tx = "failed"

\* A request rejected with any other error than 429 and 504 put nothing on the
\* wire, and nothing will land later.
RejectedIsUnsent == outcome = "rejected" => tx = "unsent"

\* So every answer that commits itself is true of the chain, and stays true.
AnswersAreTrue == SuccessIsReal /\ FailureIsReal /\ RejectedIsUnsent

\* Why _confirmViaPolling polls until lastValidBlockHeight and grants a grace
\* poll: with reliable reads, an answer "unconfirmed" given because the
\* blockhash expired cannot be overtaken by the transaction succeeding, even in
\* the last valid block.
NoLateLanding ==
  reliable /\ ended = "expired" =>
    /\ outcome = "timeout" => tx = "expired"
    /\ outcome = "pending" => tx \in {"expired", "failed"}

\* MAX_POLL_ATTEMPTS: every call is answered, though reads lag or throw for ever.
Returns == <>(outcome # "none")

\* What the ledger holds of the send, and what its caller learnt.
LedgerView ==
  CASE tx = "unsent"   -> "absent"
    [] tx = "inflight" -> "possible"
    [] tx = "landed"   -> "success"
    [] tx = "failed"   -> "failure"
    [] tx = "expired"  -> "impossible"

AnswerView ==
  CASE outcome = "none"           -> "none"
    [] outcome = "success"        -> "success"
    [] outcome = "failed_onchain" -> "failure"
    [] outcome = "rejected"       -> "not_sent"
    [] outcome \in {"rate_limited", "send_failed", "timeout", "pending"} -> "unknown"

Abstract == INSTANCE SendOutcome WITH ledger <- LedgerView, answer <- AnswerView

\* One broadcast at most, one answer, and the answer stays true of the chain.
KeepsContract == Abstract!Spec
=============================================================================
