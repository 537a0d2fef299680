---------------------------- MODULE MCSolanaRoutes ----------------------------
(***************************************************************************)
(* Instances of SolanaRoutes for TLC: two requests of two wallets.         *)
(***************************************************************************)
EXTENDS SolanaRoutes, TLC

CONSTANTS r1, r2, w1, w2

Symmetry == Permutations(Requests)
=============================================================================
