----------------------------- MODULE MCEvmRoutes ------------------------------
(***************************************************************************)
(* Instances of EvmRoutes for TLC: two requests, one position and two ids  *)
(* to be minted.                                                           *)
(***************************************************************************)
EXTENDS EvmRoutes, TLC

CONSTANTS r1, r2, p1, p2, p3

Symmetry == Permutations(Requests)

\* The requests of an instance are to routes of one family.
Families == {UniswapOps, PancakeswapOps, AmmOps, WrapOps}

Calls(ops) == \E r \in Requests : op[r] \in ops

\* What meets only the tokens of a position, if anything: it is enough that it meets one.
Apart(o) == Opens(o) \/ Creates(o) \/ o \in {"uniswap swap", "pancakeswap swap"}

\* Some of the states of Init: what none of the requests looks at has one value.
MCInit ==
  /\ RouteInit
  /\ \E family \in Families : op \in [Requests -> family]
  /\ ClmmInit
  /\ \/ \E r \in Requests : Opens(op[r]) \/ Adds(op[r])
     \/ weth = "none" /\ (allowance["token0"] <=> allowance["swap"])
  /\ \/ \E r \in Requests : Opens(op[r]) \/ Adds(op[r]) \/ Swaps(op[r])
     \/ allowance["swap"]
  /\ \/ \E r \in Requests : Adds(op[r]) \/ TakesOut(op[r])
     \/ mine = {} /\ owed[at] = 0 /\ liquidity[at] = 0
  /\ (\E r \in Requests : Adds(op[r]) \/ TakesOut(op[r])) /\ (\E r \in Requests : Apart(op[r])) =>
       mine = {at} /\ owed[at] = 1 /\ liquidity[at] = MaxLiquidity
  /\ (\E r \in Requests : Creates(op[r])) \/ price = 0
  /\ AmmInit
  /\ Calls(AmmOps) \/ (native = "none" /\ approved = {} /\ ~lpApproved /\ reserves = 0)
  /\ WrapInit
  /\ Calls(WrapOps) \/ wethBalance = 0

MCSpec == MCInit /\ [][Next]_vars
=============================================================================
