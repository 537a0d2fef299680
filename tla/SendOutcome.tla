----------------------------- MODULE SendOutcome -----------------------------
(***************************************************************************)
(* What a caller of sendAndConfirmTransactionForWallet or                  *)
(* sendAndConfirmRawTransaction (src/src/chains/solana/solana.ts) may      *)
(* conclude from the answer it gets, whatever the interleaving with the    *)
(* chain:                                                                  *)
(*                                                                         *)
(*   "success"  the transaction is on chain and succeeded;                 *)
(*   "failure"  the transaction is on chain and failed;                    *)
(*   "not_sent" nothing was broadcast, and nothing will be;                *)
(*   "unknown"  nothing: the caller has to look the signature up.          *)
(*                                                                         *)
(* The caller gets one answer, and the answer stays true afterwards.       *)
(***************************************************************************)
VARIABLES ledger, answer

TypeOK ==
  /\ ledger \in {"absent", "possible", "success", "failure", "impossible"}
  /\ answer \in {"none", "success", "failure", "not_sent", "unknown"}

Init == ledger = "absent" /\ answer = "none"

\* The one broadcast: only before the answer.
Broadcast ==
  /\ ledger = "absent"
  /\ answer = "none"
  /\ ledger' \in {"possible", "impossible"}
  /\ answer' \in {"none", "unknown"}

\* The chain decides.
Decide ==
  /\ ledger = "possible"
  /\ ledger' \in {"success", "failure", "impossible"}
  /\ UNCHANGED answer

Answer ==
  /\ answer = "none"
  /\ answer' \in {"unknown"} \cup
       (IF ledger \in {"success", "failure"} THEN {ledger} ELSE {}) \cup
       (IF ledger = "absent" THEN {"not_sent"} ELSE {})
  /\ UNCHANGED ledger

Next == Broadcast \/ Decide \/ Answer

Spec == Init /\ [][Next]_<<ledger, answer>>
=============================================================================
