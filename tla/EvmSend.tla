------------------------------- MODULE EvmSend --------------------------------
(***************************************************************************)
(* Sending EVM transactions from one wallet and waiting for each:          *)
(* src/src/chains/ethereum/ethereum.ts, handleTransactionExecution, and    *)
(* what its callers do before it (approveERC20, wrapNativeToken, the swap  *)
(* routes): read the nonce, sign, broadcast.  Requests overlap freely:     *)
(* nothing in the Gateway orders the sends of a wallet.                    *)
(***************************************************************************)
EXTENDS EvmChain

CONSTANTS
  Latest,     \* requests that set the nonce from getTransactionCount(.., 'latest');
              \* the others leave it to ethers, which asks for 'pending'
  MaxPolls    \* receipt polls that fit in the extended window (90 s by 5 s)

ASSUME EvmSendAssumption ==
  /\ Latest \subseteq Requests
  /\ MaxPolls \in Nat \ {0}

VARIABLES
  pc,         \* the await each request is suspended at
  polls,      \* receipt polls made
  answer      \* how the wait ended: a receipt's status, null or an exception

sendVars == <<pc, polls, answer>>
vars == <<chainVars, sendVars>>

Answers == {"none", "receipt_success", "receipt_reverted", "null", "error"}

TypeOK ==
  /\ ChainTypeOK
  /\ pc \in [Requests -> {"nonce", "send", "wait", "poll", "done"}]
  /\ polls \in [Requests -> 0..MaxPolls]
  /\ answer \in [Requests -> Answers]

Init ==
  /\ ChainInit
  /\ pc = [r \in Requests |-> "nonce"]
  /\ polls = [r \in Requests |-> 0]
  /\ answer = [r \in Requests |-> "none"]

-----------------------------------------------------------------------------
Goto(r, p) == pc' = [pc EXCEPT ![r] = p] /\ UNCHANGED answer

Return(r, a) ==
  /\ pc' = [pc EXCEPT ![r] = "done"]
  /\ answer' = [answer EXCEPT ![r] = a]

Receipt(result) ==
  IF result = "success" THEN "receipt_success" ELSE "receipt_reverted"

-----------------------------------------------------------------------------
\* FAULT: the nonce is counted locally, one per request sent.
CountedNonce(r) ==
  {mined + Cardinality({q \in Requests : tx[q] # "unsent"})}

NonceReads(r) == IF r \in Latest THEN LatestReads ELSE PendingReads

\* Gas options and nonce, each an RPC call, then the signature.
ReadNonce(r) ==
  /\ pc[r] = "nonce"
  /\ \/ \E n \in NonceReads(r) : nonce' = [nonce EXCEPT ![r] = n]
        /\ Goto(r, "send")
     \/ Failing /\ Return(r, "error") /\ UNCHANGED nonce
  /\ UNCHANGED <<mined, tx, polls>>

\* The broadcast.  A node refuses a used nonce, or a rival that does not pay
\* more; when its answer is lost, the transaction may be out although the call
\* threw.
Send(r) ==
  /\ pc[r] = "send"
  /\ \/ Accept(r) /\ Goto(r, "wait")
     \/ /\ Failing \/ nonce[r] < mined \/ Rivals(r) # {}
        /\ UNCHANGED tx /\ Return(r, "error")
     \/ Failing /\ Accept(r) /\ Return(r, "error")
  /\ UNCHANGED <<mined, nonce, polls>>

\* FAULT: only the receipt ends the race.
NoTimeout(r) == FALSE

TimeoutFires(r) == Goto(r, "poll")

\* The race of tx.wait(1) with transactionExecutionTimeoutMs.  ethers' wait
\* throws when the transaction was reverted or replaced.
Wait(r) ==
  /\ pc[r] = "wait"
  /\ \/ tx[r] = "success" /\ Return(r, "receipt_success")
     \/ tx[r] \in {"reverted", "replaced"} /\ Return(r, "error")
     \/ TimeoutFires(r)
  /\ UNCHANGED <<chainVars, polls>>

\* FAULT: a receipt with status 0 stands for a transaction still pending.
FakeReceipt == "receipt_reverted"

StillPending == "null"

\* Whether a further poll starts: the 90 s hold MaxPolls polls, fewer when the
\* reads are slow.
BeforeDeadline(n) == IF n < MaxPolls THEN BOOLEAN ELSE {FALSE}

CountPoll(r) == polls' = [polls EXCEPT ![r] = @ + 1]

\* One turn of the extended poll.  An exception of the read ends the wait.
PollReceipt(r) ==
  /\ pc[r] = "poll"
  /\ \/ \E found \in ReceiptReads(r) :
          IF found # "null"
          THEN Return(r, Receipt(found)) /\ UNCHANGED polls
          ELSE /\ CountPoll(r)
               /\ \E more \in BeforeDeadline(polls[r] + 1) :
                    IF more THEN Goto(r, "poll") ELSE Return(r, StillPending)
     \/ Failing /\ Return(r, "error") /\ UNCHANGED polls
  /\ UNCHANGED chainVars

Step(r) == ReadNonce(r) \/ Send(r) \/ Wait(r) \/ PollReceipt(r)

Next ==
  \/ \E r \in Requests : Step(r)
  \/ \E r \in Requests : Mine(r) /\ UNCHANGED sendVars

\* Calls settle and timers fire; the chain owes nothing.
Spec == Init /\ [][Next]_vars /\ \A r \in Requests : WF_vars(Step(r))

-----------------------------------------------------------------------------
LedgerView(r) ==
  CASE tx[r] = "unsent"   -> "absent"
    [] tx[r] = "pool"     -> "possible"
    [] tx[r] = "success"  -> "success"
    [] tx[r] = "reverted" -> "failure"
    [] tx[r] = "replaced" -> "impossible"

AnswerView(r) ==
  CASE answer[r] = "none"             -> "none"
    [] answer[r] = "receipt_success"  -> "success"
    [] answer[r] = "receipt_reverted" -> "failure"
    [] answer[r] \in {"null", "error"} -> "unknown"

Contract(r) == INSTANCE SendOutcome WITH ledger <- LedgerView(r), answer <- AnswerView(r)

\* Each of the overlapping sends keeps the contract a Solana send keeps: one
\* broadcast, one answer, and a receipt that stays true of the chain, although
\* rivals with the same nonce replace each other.
KeepsContract ==
  /\ \A r \in Requests : Contract(r)!Init
  /\ [][\A r \in Requests : [Contract(r)!Next]_<<LedgerView(r), AnswerView(r)>>]_vars

\* No send is stranded behind a nonce nobody uses: all nonces below that of a
\* transaction in the pool are mined or in the pool themselves.
NoNonceGap ==
  \A r \in Requests : tx[r] = "pool" =>
    \A n \in mined..nonce[r] : Waiting(n)

\* The wait ends for every request, mined or not.
Returns == \A r \in Requests : <>(answer[r] # "none")
=============================================================================
