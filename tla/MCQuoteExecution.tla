--------------------------- MODULE MCQuoteExecution ---------------------------
(***************************************************************************)
(* Instances of Quoting for TLC: two quotes and two requests, which may    *)
(* name the same quote and any connector's route.  Requests that call      *)
(* another connector's route than made their quote have plain quotes, and  *)
(* one quote is plain in any case: what a quote was asked for matters to   *)
(* the requests of that quote only.  A quote that no request names is      *)
(* another plain one of the same connector.  A slippage of one's own is    *)
(* asked for by simple quotes only.                                        *)
(***************************************************************************)
EXTENDS Quoting, TLC

CONSTANTS q1, q2, r1, r2

Simple == {a \in Asks : a.side = "SELL" /\ a.wallet = "own" /\ a.kind = "firm"}
Plain  == {a \in Simple : a.slippage = "configured"}

Family(c) == IF c \in UniversalRouters THEN UniversalRouters ELSE {c}

Paired ==
  /\ \A q \in Quotes : ask[q].slippage = "configured" \/ ask[q] \in Simple
  /\ \A p, q \in Quotes : p = q \/ ask[p] \in Plain \/ ask[q] \in Plain
  /\ \/ \A q \in Quotes : ask[q] \in Plain
     \/ \A r \in Requests : via[r] \in Family(ask[quote[r]].via)
  /\ \A q \in Quotes : (\A r \in Requests : quote[r] # q) =>
       ask[q] \in Plain /\ \A r \in Requests : ask[q].via = ask[quote[r]].via

MCInit == QuotingInit /\ Paired

MCSpec == MCInit /\ [][QuotingNext]_<<vars, quotingVars>>

Symmetry == Permutations(Quotes) \cup Permutations(Requests)
=============================================================================
