------------------------------ MODULE EvmApprove ------------------------------
(***************************************************************************)
(* approveEthereumToken, src/src/chains/ethereum/routes/approve.ts: one    *)
(* token approval, or for the Universal Router two in a row (token to      *)
(* Permit2, then Permit2 to the router), each left out when the chain      *)
(* already holds it.  Requests of one wallet and token overlap.            *)
(*                                                                         *)
(* Each step is a send that meets the contract SendOutcome: `tokenTx' and  *)
(* `routerTx' are its ledgers.  Amounts are numbers up to MaxUint256, what *)
(* an empty amount asks for; Permit2 holds no more than MaxUint160.  What  *)
(* swaps spend of an allowance is not part of this module.                 *)
(***************************************************************************)
EXTENDS Integers

CONSTANTS
  Requests,
  Amounts,      \* what the requests may ask for
  Kinds,        \* what the requests may be for, of {"plain", "universal"}
  Hardware,     \* whether the wallet may be on a hardware device
  MaxUint160, MaxUint256

ASSUME ApproveAssumption ==
  /\ MaxUint160 \in Nat /\ MaxUint256 \in Nat /\ MaxUint160 < MaxUint256
  /\ Amounts \subseteq 0..MaxUint256
  /\ Kinds \subseteq {"plain", "universal"} /\ Hardware \subseteq BOOLEAN

VARIABLES
  token,      \* allowance of Permit2 on the token; a plain spender's is never read
  permit,     \* allowance of the router on Permit2 ...
  live,       \* ... and whether it has not expired
  amount, kind,   \* the requests
  hardware,   \* whether their wallet is on a device
  pc,         \* the await each request is suspended at
  skipToken,  \* skipERC20Approval
  tokenTx,    \* per request, what the chain holds of its first step
  routerTx,   \* ... and of its second
  answer,     \* the HTTP answer: the TransactionStatus, or an error
  lowToken,   \* history: the lowest amount approved since the first step of a
              \* request was mined, its own included; 0 before
  lowPermit   \* ... and since its second step

chain == <<token, permit, live>>
inputs == <<amount, kind, hardware>>
lows == <<lowToken, lowPermit>>
vars == <<chain, inputs, pc, skipToken, tokenTx, routerTx, answer, lows>>

Ledgers == {"absent", "possible", "success", "failure", "impossible"}

TypeOK ==
  /\ token \in 0..MaxUint256
  /\ permit \in 0..MaxUint160
  /\ live \in BOOLEAN
  /\ amount \in [Requests -> Amounts]
  /\ kind \in [Requests -> Kinds]
  /\ hardware \in Hardware
  /\ pc \in [Requests -> {"new", "permit", "approve", "wait", "router", "wait2", "done"}]
  /\ skipToken \in [Requests -> BOOLEAN]
  /\ tokenTx \in [Requests -> Ledgers]
  /\ routerTx \in [Requests -> Ledgers]
  /\ answer \in [Requests -> {"none", "confirmed", "pending", "failed", "error"}]
  /\ lowToken \in [Requests -> 0..MaxUint256]
  /\ lowPermit \in [Requests -> 0..MaxUint160]

\* Any allowance may be left from before; the first one may have expired.
Init ==
  /\ token \in 0..MaxUint256
  /\ permit \in 0..MaxUint160
  /\ live \in BOOLEAN
  /\ amount \in [Requests -> Amounts]
  /\ kind \in [Requests -> Kinds]
  /\ hardware \in Hardware
  /\ pc = [r \in Requests |-> "new"]
  /\ skipToken = [r \in Requests |-> FALSE]
  /\ tokenTx = [r \in Requests |-> "absent"]
  /\ routerTx = [r \in Requests |-> "absent"]
  /\ answer = [r \in Requests |-> "none"]
  /\ lowToken = [r \in Requests |-> 0]
  /\ lowPermit = [r \in Requests |-> 0]

-----------------------------------------------------------------------------
Goto(r, p) == pc' = [pc EXCEPT ![r] = p] /\ UNCHANGED answer

Return(r, a) ==
  /\ pc' = [pc EXCEPT ![r] = "done"]
  /\ answer' = [answer EXCEPT ![r] = a]

\* Every throw of the handler ends as an HTTP error.
Throw(r) == Return(r, "error")

-----------------------------------------------------------------------------
(* The chain: approvals replace the allowance, in the order they are mined. *)

PermitAmount(a) == IF a > MaxUint160 THEN MaxUint160 ELSE a

\* What `low' becomes when r's approval of a is mined.
Lowered(low, mined, r, a) ==
  [s \in Requests |-> CASE s = r -> a
                        [] s # r /\ s \in mined /\ low[s] > a -> a
                        [] OTHER -> low[s]]

\* The requests whose first step set the allowance that the router uses.
MinedToken == {s \in Requests : kind[s] = "universal" /\ tokenTx[s] = "success"}
MinedRouter == {s \in Requests : routerTx[s] = "success"}

DecideToken(r) ==
  /\ tokenTx[r] = "possible"
  /\ \/ /\ tokenTx' = [tokenTx EXCEPT ![r] = "success"]
        /\ token' = IF kind[r] = "universal" THEN amount[r] ELSE token
        /\ lowToken' = IF kind[r] = "universal"
                       THEN Lowered(lowToken, MinedToken, r, amount[r]) ELSE lowToken
     \/ /\ \E l \in {"failure", "impossible"} : tokenTx' = [tokenTx EXCEPT ![r] = l]
        /\ UNCHANGED <<token, lowToken>>
  /\ UNCHANGED <<permit, live, inputs, pc, skipToken, routerTx, answer, lowPermit>>

\* The Permit2 approval never expires (MAX_UINT48).
DecideRouter(r) ==
  /\ routerTx[r] = "possible"
  /\ \/ /\ routerTx' = [routerTx EXCEPT ![r] = "success"]
        /\ permit' = PermitAmount(amount[r]) /\ live' = TRUE
        /\ lowPermit' = Lowered(lowPermit, MinedRouter, r, PermitAmount(amount[r]))
     \/ /\ \E l \in {"failure", "impossible"} : routerTx' = [routerTx EXCEPT ![r] = l]
        /\ UNCHANGED <<permit, live, lowPermit>>
  /\ UNCHANGED <<token, inputs, pc, skipToken, tokenTx, answer, lowToken>>

\* How a send and the wait for it end: a receipt that is true now, null after
\* the extended poll, or an exception.  A receipt of a reverted transaction is
\* returned by the extended poll only; tx.wait throws for one.
Ends(l) ==
  {"null", "throws"} \cup (IF l \in {"success", "failure"} THEN {l} ELSE {})

-----------------------------------------------------------------------------
\* FAULT: what is there already is not looked at.
NoAllowance(held, a) == FALSE

\* erc20Allowance.gte(amount), permit2Allowance.gte(amount)
Sufficient(held, a) == held >= a

\* Spender, wallet kind and token, and for the router the token allowance.
Start(r) ==
  /\ pc[r] = "new"
  /\ \/ Throw(r) /\ UNCHANGED skipToken
     \/ IF kind[r] = "universal" /\ Sufficient(token, amount[r])
        THEN Goto(r, "permit") /\ skipToken' = [skipToken EXCEPT ![r] = TRUE]
        ELSE Goto(r, "approve") /\ UNCHANGED skipToken
  /\ UNCHANGED <<chain, inputs, tokenTx, routerTx, lows>>

\* The Permit2 allowance is only read when the token's is sufficient.
ReadPermit(r) ==
  /\ pc[r] = "permit"
  /\ \/ Throw(r)
     \/ IF Sufficient(permit, amount[r]) /\ live
        THEN Return(r, "confirmed")
        ELSE Goto(r, "router")
  /\ UNCHANGED <<chain, inputs, skipToken, tokenTx, routerTx, lows>>

\* Nonce, gas, signature and broadcast; any of them may throw, the last after
\* the transaction went out.
SendToken(r) ==
  /\ pc[r] = "approve"
  /\ \/ Throw(r) /\ UNCHANGED tokenTx
     \/ /\ tokenTx' = [tokenTx EXCEPT ![r] = "possible"]
        /\ Goto(r, "wait") \/ Throw(r)
  /\ UNCHANGED <<chain, inputs, skipToken, routerTx, lows>>

\* A receipt's status is 1, or 0 for a reverted transaction, which is PENDING in
\* the TransactionStatus enum.
ReceiptStatus(r, s) == IF s = "success" THEN "confirmed" ELSE "pending"

\* FAULT: what is reported is always success.
AlwaysConfirmed(r) == "confirmed"

\* approval.status ?? -1.  A skipped approval has status 1, a Ledger's has none.
Status(r) ==
  CASE skipToken[r] -> "confirmed"
    [] ~skipToken[r] /\ hardware -> "failed"
    [] ~skipToken[r] /\ ~hardware -> ReceiptStatus(r, tokenTx[r])

\* FAULT: a transaction without a receipt is no error.
NoError(s) == s # "throws"

\* `!receipt || receipt.status === -1': no receipt has the status -1.
HasReceipt(s) == s \in {"success", "failure"}

TokenWaitEnds(r) ==
  /\ pc[r] = "wait"
  /\ \E s \in Ends(tokenTx[r]) :
       CASE ~HasReceipt(s) -> Throw(r)
         [] HasReceipt(s) /\ kind[r] = "universal" -> Goto(r, "router")
         [] HasReceipt(s) /\ kind[r] = "plain" -> Return(r, Status(r))
  /\ UNCHANGED <<chain, inputs, skipToken, tokenTx, routerTx, lows>>

\* Step 2: Permit2.approve.
SendRouter(r) ==
  /\ pc[r] = "router"
  /\ \/ Throw(r) /\ UNCHANGED routerTx
     \/ /\ routerTx' = [routerTx EXCEPT ![r] = "possible"]
        /\ Goto(r, "wait2") \/ Throw(r)
  /\ UNCHANGED <<chain, inputs, skipToken, tokenTx, lows>>

\* The status of the second receipt is not looked at: the answer is the first
\* step's.
RouterWaitEnds(r) ==
  /\ pc[r] = "wait2"
  /\ \E s \in Ends(routerTx[r]) :
       IF HasReceipt(s) THEN Return(r, Status(r)) ELSE Throw(r)
  /\ UNCHANGED <<chain, inputs, skipToken, tokenTx, routerTx, lows>>

Next ==
  \E r \in Requests :
    \/ Start(r) \/ ReadPermit(r)
    \/ SendToken(r) \/ TokenWaitEnds(r)
    \/ SendRouter(r) \/ RouterWaitEnds(r)
    \/ DecideToken(r) \/ DecideRouter(r)

Spec == Init /\ [][Next]_vars

-----------------------------------------------------------------------------
\* Status 1 says at least that the token step is done: its transaction
\* succeeded, or the chain held a sufficient allowance.  And neither step is
\* still undecided then.
ConfirmedIsDecided ==
  \A r \in Requests : answer[r] = "confirmed" =>
    /\ skipToken[r] \/ tokenTx[r] = "success"
    /\ routerTx[r] \in {"absent", "success", "failure"}

\* The nonce of the second step is read after the first one was mined: the two
\* transactions of a request never compete.
OneInFlight ==
  \A r \in Requests : routerTx[r] # "absent" => tokenTx[r] \in {"absent", "success", "failure"}

\* Repeating an approval, after an error or a lost answer, resumes it: once the
\* token step of any request for the router was mined, no request that starts
\* sends it again unless it asks for more than was approved then or, by a request
\* that overlapped, has been since; and likewise the second step, by a request
\* that leaves out the first.
RepeatResumes ==
  [][\A r, s \in Requests : kind[r] = "universal" /\ kind[s] = "universal" =>
       /\ pc[r] = "new" /\ pc'[r] = "approve" /\ tokenTx[s] = "success"
            => amount[r] > lowToken[s]
       /\ pc[r] = "permit" /\ pc'[r] = "router" /\ routerTx[s] = "success"
            => amount[r] > lowPermit[s]]_vars
=============================================================================
