------------------------------- MODULE EvmRoute -------------------------------
(***************************************************************************)
(* The life of a request to a route of an EVM connector that sends one     *)
(* transaction: it reads and checks, broadcasts, waits in                  *)
(* Ethereum.handleTransactionExecution (EvmSend), and answers.  Each route *)
(* brings its own checks and its own table from what the send replied to   *)
(* the HTTP answer: EvmClmm, EvmAmm and, for wrapping, EvmRoutes.          *)
(***************************************************************************)
EXTENDS Integers, FiniteSets

CONSTANT Requests

VARIABLES
  op,        \* the route each request calls
  pc,        \* where each request is
  tx,        \* what became of its transaction
  answer,    \* its HTTP answer
  executed,  \* number of transactions executed
  since,     \* `executed' when a request read the chain
  alone,     \* nothing executed between its reads and its decision
  why        \* why its transaction was reverted

routeVars == <<op, pc, tx, answer, executed, since, alone, why>>

\* "status0" is a 200 whose status is 0; "funds_error" is the 400 that asks for
\* more funds, "client_error" any other; "timeout" is a 408.
Answers == {"none", "confirmed", "status0", "client_error", "funds_error", "timeout", "server_error"}

RouteTypeOK ==
  /\ pc \in [Requests -> {"start", "send", "wait", "done"}]
  /\ tx \in [Requests -> {"unsent", "pending", "success", "reverted", "dropped"}]
  /\ answer \in [Requests -> Answers]
  /\ executed \in 0..Cardinality(Requests)
  /\ since \in [Requests -> 0..Cardinality(Requests)]
  /\ alone \in [Requests -> BOOLEAN]
  /\ why \in [Requests -> {"none", "price", "allowance", "stale", "owner", "zero"}]

RouteInit ==
  /\ pc = [r \in Requests |-> "start"]
  /\ tx = [r \in Requests |-> "unsent"]
  /\ answer = [r \in Requests |-> "none"]
  /\ executed = 0
  /\ since = [r \in Requests |-> 0]
  /\ alone = [r \in Requests |-> TRUE]
  /\ why = [r \in Requests |-> "none"]

Starts(r, o) == pc[r] = "start" /\ op[r] = o

Return(r, a) ==
  /\ pc' = [pc EXCEPT ![r] = "done"]
  /\ answer' = [answer EXCEPT ![r] = a]
  /\ UNCHANGED <<op, tx, executed, since, alone, why>>

\* badRequest, notFound
Refuse(r) == Return(r, "client_error")

\* internalServerError, or an error without a status code
Break(r) == Return(r, "server_error")

\* On to the broadcast, with what was read so far.
Proceed(r) ==
  /\ pc' = [pc EXCEPT ![r] = "send"]
  /\ since' = [since EXCEPT ![r] = executed]
  /\ UNCHANGED <<op, tx, answer, executed, alone, why>>

-----------------------------------------------------------------------------
\* What handleTransactionExecution and the broadcast come back with: a receipt
\* of either status, null for a transaction still pending, or an exception.
Replies == {"success", "reverted", "null", "call_exception", "no_funds", "timeout", "error"}

\* The ends of the wait that the state of the transaction allows: tx.wait(1)
\* throws CALL_EXCEPTION for a reverted transaction, the extended poll returns
\* its receipt instead; a node that lags shows no receipt yet.
RepliesNow(r) ==
  {"error", "timeout", "null"} \cup
  CASE tx[r] = "success"  -> {"success"}
    [] tx[r] = "reverted" -> {"reverted", "call_exception"}
    [] OTHER              -> {}

\* A table that hands the receipt's status on, and dereferences the receipt
\* without looking whether there is one: null ends in a TypeError, so in a 500.
StatusOfReceipt ==
  [x \in Replies |->
     CASE x = "success"  -> "confirmed"
       [] x = "reverted" -> "status0"
       [] OTHER          -> "server_error"]

\* A table that asks `receipt && receipt.status === 1' and answers 0 for
\* everything else that has a receipt, or none.
ConfirmedOrPending == [StatusOfReceipt EXCEPT !["null"] = "status0"]

\* Missing funds are turned into a 400.
FundsAreClients(table) == [table EXCEPT !["no_funds"] = "funds_error"]

\* The swaps throw "Transaction reverted on-chain ..., insufficient funds, ..."
\* for a receipt of status 0, inside the try whose catch takes any message with
\* "insufficient funds" for missing gas.
SwapTable == [FundsAreClients(StatusOfReceipt) EXCEPT !["reverted"] = "funds_error"]

-----------------------------------------------------------------------------
\* An exception in front of the broadcast: a failed read, a missing wallet or
\* parameter, a locked device.  The reads of a request leave no trace, so one at
\* its start stands for them all.
Interrupted(r) == pc[r] = "start" /\ (Refuse(r) \/ Break(r))

\* The broadcast.  When its answer is lost, the transaction may be out although
\* the call threw.
Broadcast(r, table) ==
  /\ pc[r] = "send"
  /\ \/ /\ tx' = [tx EXCEPT ![r] = "pending"]
        /\ pc' = [pc EXCEPT ![r] = "wait"]
        /\ UNCHANGED <<op, answer, executed, since, alone, why>>
     \/ \E x \in {"no_funds", "error"} : Return(r, table[x])
     \/ /\ tx' = [tx EXCEPT ![r] = "pending"]
        /\ pc' = [pc EXCEPT ![r] = "done"]
        /\ answer' = [answer EXCEPT ![r] = table["error"]]
        /\ UNCHANGED <<op, executed, since, alone, why>>

\* The end of the wait, and the answer.
Answered(r, table) ==
  /\ pc[r] = "wait"
  /\ \E x \in RepliesNow(r) : Return(r, table[x])

\* What the chain makes of a pending transaction.
Executes(r) ==
  /\ tx[r] = "pending"
  /\ tx' = [tx EXCEPT ![r] = "success"]
  /\ executed' = executed + 1
  /\ alone' = [alone EXCEPT ![r] = executed = since[r]]
  /\ UNCHANGED <<op, pc, answer, since, why>>

\* Reverted by a price limit, or by what stands in its way.
Reverts(r, obstacle) ==
  /\ tx[r] = "pending"
  /\ tx' = [tx EXCEPT ![r] = "reverted"]
  /\ alone' = [alone EXCEPT ![r] = executed = since[r]]
  /\ \E w \in {obstacle, "price"} \ {"none"} : why' = [why EXCEPT ![r] = w]
  /\ UNCHANGED <<op, pc, answer, executed, since>>

Dropped(r) ==
  /\ tx[r] = "pending"
  /\ tx' = [tx EXCEPT ![r] = "dropped"]
  /\ UNCHANGED <<op, pc, answer, executed, since, alone, why>>

-----------------------------------------------------------------------------
\* A status 1 is given for an executed transaction only, by every route.
ConfirmedIsExecuted ==
  \A r \in Requests : answer[r] = "confirmed" => tx[r] = "success"

\* A client that is told its request was at fault may correct it and send it
\* again: the transaction of the refused one did not and will not execute.
ClientErrorIsFinal ==
  \A r \in Requests :
    answer[r] \in {"client_error", "funds_error"} => tx[r] \in {"unsent", "reverted"}
=============================================================================
