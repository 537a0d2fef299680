------------------------------- MODULE EvmPoll --------------------------------
(***************************************************************************)
(* The poll route, src/src/chains/ethereum/routes/poll.ts, beside the      *)
(* sends it is asked about: a client that was told "pending", or that lost *)
(* the answer, polls the signature to learn what became of it.             *)
(***************************************************************************)
EXTENDS EvmSend

CONSTANT MaxRetries     \* MAX_RETRIES: further look-ups of a missing transaction

ASSUME EvmPollAssumption == MaxRetries \in Nat

VARIABLES
  route,      \* per request, the await the poll of its transaction is at
  retries,    \* look-ups repeated
  txStatus    \* the answer: txStatus by name, or the route's exception

pollVars == <<route, retries, txStatus>>
allVars == <<vars, pollVars>>

\* 1, 0, -1, and the two shades of pending, 2 and 3
Statuses == {"confirmed", "pending", "failed", "likely", "stuck"}

PollTypeOK ==
  /\ TypeOK
  /\ route \in [Requests -> {"idle", "find", "receipt", "price", "done"}]
  /\ retries \in [Requests -> 0..MaxRetries]
  /\ txStatus \in [Requests -> Statuses \cup {"none", "error"}]

PollInit ==
  /\ Init
  /\ route = [r \in Requests |-> "idle"]
  /\ retries = [r \in Requests |-> 0]
  /\ txStatus = [r \in Requests |-> "none"]

\* getTransaction(hash): nodes know it while it is in the pool or mined
KnownReads(r) ==
  {tx[r] \in Mined \cup {"pool"}} \cup (IF Lagging THEN {FALSE} ELSE {})

-----------------------------------------------------------------------------
Go(r, p) == route' = [route EXCEPT ![r] = p] /\ UNCHANGED txStatus

Answer(r, s) ==
  /\ route' = [route EXCEPT ![r] = "done"]
  /\ txStatus' = [txStatus EXCEPT ![r] = s]

\* getCurrentBlockNumber comes first, and may throw.
StartPoll(r) ==
  /\ route[r] = "idle"
  /\ tx[r] # "unsent"
  /\ \/ Go(r, "find")
     \/ Failing /\ Answer(r, "error")
  /\ UNCHANGED retries

\* FAULT: one look-up too many.
RetryOnceMore(n) == n <= MaxRetries

\* Look again while the transaction is not known.
RetryAgain(n) == n < MaxRetries

\* FAULT: a poll that found nothing starts over.
StartOver(r) == Go(r, "idle")

NotFound(r) == Answer(r, "failed")

FindTransaction(r) ==
  /\ route[r] = "find"
  /\ \/ \E known \in KnownReads(r) :
          IF known
          THEN Go(r, "receipt") /\ UNCHANGED retries
          ELSE IF RetryAgain(retries[r])
               THEN /\ retries' = [retries EXCEPT ![r] = @ + 1]
                    /\ Go(r, "find")
               ELSE NotFound(r) /\ UNCHANGED retries
     \/ Failing /\ Answer(r, "error") /\ UNCHANGED retries

\* FAULT: no receipt means that the transaction failed.
NoReceiptFailed(r) == Answer(r, "failed")

\* No receipt: it is in the mempool; the price decides between 0, 2 and 3.
InMempool(r) == Go(r, "price")

\* typeof txReceipt.status === 'number' ? 1 : -1, whatever the number says.
ReceiptStatus(result) == "confirmed"

ReadReceipt(r) ==
  /\ route[r] = "receipt"
  /\ \/ \E found \in ReceiptReads(r) :
          IF found = "null" THEN InMempool(r) ELSE Answer(r, ReceiptStatus(found))
     \/ Failing /\ Answer(r, "error")
  /\ UNCHANGED retries

ComparePrice(r) ==
  /\ route[r] = "price"
  /\ \/ \E s \in {"pending", "likely", "stuck"} : Answer(r, s)
     \/ Failing /\ Answer(r, "error")
  /\ UNCHANGED retries

PollStep(r) == StartPoll(r) \/ FindTransaction(r) \/ ReadReceipt(r) \/ ComparePrice(r)

PollNext ==
  \/ Next /\ UNCHANGED pollVars
  \/ \E r \in Requests : PollStep(r) /\ UNCHANGED vars

PollSpec ==
  /\ PollInit /\ [][PollNext]_allVars
  /\ \A r \in Requests : WF_allVars(PollStep(r) /\ UNCHANGED vars)

-----------------------------------------------------------------------------
ReliableReads == ~Lagging

\* chain-schema.ts:102 gives -1 the meaning "failed".  With reads that do not lag,
\* a client may send again on -1: the transaction it asked about was reverted, or is
\* dead for good, also when it lost its nonce to a rival while the poll ran.
FailedIsFinal ==
  ReliableReads => \A r \in Requests : txStatus[r] = "failed" => tx[r] \in {"reverted", "replaced"}

\* A confirmation is of a mined transaction, and is never taken from a rival
\* with the same nonce.
ConfirmedIsMined ==
  \A r \in Requests : txStatus[r] = "confirmed" => tx[r] \in Mined

\* "1 = confirmed, 0 = pending, -1 = failed" (chain-schema.ts:102): 1 is not told of
\* a transaction that failed on chain.
ConfirmedHasNotFailed ==
  \A r \in Requests : txStatus[r] = "confirmed" => tx[r] # "reverted"

\* So both of the statuses that a client stops polling at are true of its transaction.
PolledIsTrue == FailedIsFinal /\ ConfirmedIsMined

\* Every poll is answered, also for transactions no node knows.
PollAnswers ==
  \A r \in Requests : route[r] # "idle" ~> txStatus[r] # "none"
=============================================================================
