----------------------------- MODULE SolanaChain -----------------------------
(***************************************************************************)
(* The Solana cluster as the Gateway sees it, reduced to the life of ONE   *)
(* transaction.  The cluster is not part of the repository: what is kept   *)
(* here is what src/src/chains/solana/solana.ts relies on.                 *)
(*                                                                         *)
(*   - a transaction carries a blockhash and can enter a block only up to  *)
(*     the last valid block height of that blockhash (`expiry');           *)
(*   - a node first reports a transaction as `processed' on the fork it    *)
(*     follows; the fork may be abandoned and the transaction executed     *)
(*     again, with another result, on the fork that is confirmed;          *)
(*   - reads are served by nodes that may lag, and calls may fail, unless   *)
(*     the whole behaviour is one of `reliable' nodes.                     *)
(***************************************************************************)
EXTENDS Integers

CONSTANTS
  MaxHeight,    \* bound: the last block of the model
  Validity      \* blocks for which a fresh blockhash stays valid (150 on Solana)

ASSUME ChainAssumption ==
  /\ MaxHeight \in Nat
  /\ Validity \in Nat

VARIABLES
  height,       \* height of the confirmed chain
  expiry,       \* last height at which the transaction's blockhash is valid
  tx,           \* where the transaction is
  fork,         \* its result in a processed, not yet confirmed, block
  reliable      \* TRUE: reads neither lag nor fail, throughout

chainVars == <<height, expiry, tx, fork, reliable>>

TxStates == {"unsent", "inflight", "landed", "failed", "expired"}
Final    == {"landed", "failed"}

ChainTypeOK ==
  /\ height \in 0..MaxHeight
  /\ expiry \in Nat
  /\ tx \in TxStates
  /\ fork \in Final \cup {"none"}
  /\ reliable \in BOOLEAN

\* The connector built the transaction with the blockhash of block 0.
ChainInit ==
  /\ height = 0
  /\ expiry = Validity
  /\ tx = "unsent"
  /\ fork = "none"
  /\ reliable \in BOOLEAN

-----------------------------------------------------------------------------
\* The transaction is executed in a block that is not confirmed yet.
Process ==
  /\ tx = "inflight"
  /\ fork = "none"
  /\ height < expiry
  /\ fork' \in Final
  /\ UNCHANGED <<height, expiry, tx, reliable>>

\* That block is abandoned.
Rollback ==
  /\ fork # "none"
  /\ fork' = "none"
  /\ UNCHANGED <<height, expiry, tx, reliable>>

\* One more block is confirmed: with the transaction in it, or without it.
Advance ==
  /\ height < MaxHeight
  /\ height' = height + 1
  /\ \/ /\ fork # "none"
        /\ height' <= expiry
        /\ tx' = fork
        /\ fork' = "none"
     \/ IF tx = "inflight" /\ height' >= expiry
        THEN tx' = "expired" /\ fork' = "none"
        ELSE UNCHANGED <<tx, fork>>
  /\ UNCHANGED <<expiry, reliable>>

ChainStep == Process \/ Rollback \/ Advance

-----------------------------------------------------------------------------
(* What the RPC calls of @solana/web3.js return, each with the set of      *)
(* answers the cluster may give in the current state.                      *)

\* the ways in which a call may throw
Errors == IF reliable THEN {} ELSE {"rpc_error", "rate_limit"}

\* what a node that lags answers
Stale == IF reliable THEN {} ELSE {"null"}

\* getBlockHeight, and the height under getLatestBlockhash
HeightReads == IF reliable THEN {height} ELSE 0..height

\* getTransaction(signature, {commitment: 'confirmed'}): the result, or null
TxReads == (IF tx \in Final THEN {tx} ELSE {"null"}) \cup Stale

\* getSignatureStatuses([signature]): an error status is reported as soon as
\* the transaction is processed; a success counts once it is confirmed
StatusReads ==
  (IF tx \in Final THEN {tx} ELSE IF fork = "failed" THEN {fork} ELSE {"null"})
    \cup Stale

\* A sent transaction that can no longer enter a block is lost at once.
Broadcast == tx' = IF height < expiry THEN "inflight" ELSE "expired"
=============================================================================
