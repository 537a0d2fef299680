----------------------------- MODULE MCEvmApprove -----------------------------
(***************************************************************************)
(* The instance of EvmApprove for TLC: its requests are alike.             *)
(***************************************************************************)
EXTENDS EvmApprove, TLC

Symmetry == Permutations(Requests)
=============================================================================
