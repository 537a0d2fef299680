------------------------------- MODULE EvmChain -------------------------------
(***************************************************************************)
(* An EVM chain as seen by the Gateway, reduced to the transactions of ONE *)
(* account.  The chain is not part of the repository; this is what         *)
(* src/src/chains/ethereum relies on:                                      *)
(*                                                                         *)
(*   - transactions of an account are mined in the order of their nonces,  *)
(*     one per nonce; when one is mined, rivals with its nonce are dead;   *)
(*   - a mined transaction has succeeded or was reverted;                  *)
(*   - a transaction may stay in the pool for ever;                        *)
(*   - reads may lag, and any call may throw.                              *)
(***************************************************************************)
EXTENDS Integers, FiniteSets

CONSTANTS
  Requests,   \* sends by the account, each of one transaction
  Lagging,    \* TRUE: reads may be answered from an older view
  Failing     \* TRUE: RPC calls may throw

ASSUME EvmChainAssumption == Lagging \in BOOLEAN /\ Failing \in BOOLEAN

VARIABLES
  mined,      \* the account's nonce: how many transactions are mined
  tx,         \* per request, where its transaction is
  nonce       \* per request, the nonce it was signed with

chainVars == <<mined, tx, nonce>>

TxStates == {"unsent", "pool", "success", "reverted", "replaced"}
Mined    == {"success", "reverted"}

ChainTypeOK ==
  /\ mined \in Nat
  /\ tx \in [Requests -> TxStates]
  /\ nonce \in [Requests -> Nat]

ChainInit ==
  /\ mined = 0
  /\ tx = [r \in Requests |-> "unsent"]
  /\ nonce = [r \in Requests |-> 0]

Rivals(r) == {q \in Requests : tx[q] = "pool" /\ nonce[q] = nonce[r] /\ q # r}

Mine(r) ==
  /\ tx[r] = "pool"
  /\ nonce[r] = mined
  /\ mined' = mined + 1
  /\ \E result \in Mined :
       tx' = [q \in Requests |-> IF q = r THEN result
                                 ELSE IF q \in Rivals(r) THEN "replaced"
                                 ELSE tx[q]]
  /\ UNCHANGED nonce

-----------------------------------------------------------------------------
(* What ethers' calls return, as sets of possible answers.                 *)

\* getTransactionCount(address, 'latest')
LatestReads == IF Lagging THEN 0..mined ELSE {mined}

\* getTransactionCount(address, 'pending'): what a Wallet uses by default
Waiting(n) == \E r \in Requests : tx[r] = "pool" /\ nonce[r] = n
PendingReads ==
  {n \in mined..(mined + Cardinality(Requests)) : ~Waiting(n) /\ \A m \in mined..(n - 1) : Waiting(m)}
    \cup (IF Lagging THEN LatestReads ELSE {})

\* getTransactionReceipt(hash): the result, or null
ReceiptReads(r) ==
  (IF tx[r] \in Mined THEN {tx[r]} ELSE {"null"})
    \cup (IF Lagging THEN {"null"} ELSE {})

\* A node takes the transaction.  With a nonce already used it can never be mined.
Accept(r) ==
  tx' = [tx EXCEPT ![r] = IF nonce[r] >= mined THEN "pool" ELSE "replaced"]
=============================================================================
