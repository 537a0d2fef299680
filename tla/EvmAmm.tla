-------------------------------- MODULE EvmAmm --------------------------------
(***************************************************************************)
(* The AMM routes of Uniswap V2 and PancakeSwap V2:                        *)
(* src/src/connectors/uniswap/amm-routes and pancakeswap/amm-routes.  A    *)
(* position is the wallet's balance of the pool's LP token.  The router    *)
(* and the pair are external.                                              *)
(***************************************************************************)
EXTENDS EvmRoute

CONSTANT MaxLp       \* bound on the LP balance the wallet starts with

ASSUME AmmAssumption == MaxLp \in Nat \ {0}

Sides == {"base", "quote"}
AmmOps ==
  { "uniswap-v2 add", "uniswap-v2 remove", "uniswap-v2 create", "uniswap-v2 swap",
    "pancakeswap-v2 add", "pancakeswap-v2 remove", "pancakeswap-v2 create",
    "pancakeswap-v2 swap" }

VARIABLES
  native,       \* the side that is WETH, or "none": it is paid in ETH
  approved,     \* sides the router may spend
  lpApproved,   \* whether the router may spend the LP token
  lp,           \* LP balance of the wallet
  reserves,     \* price of the pool, 0 while it has no reserves
  ammHeld       \* per request: what it took into its transaction

ammVars == <<native, approved, lpApproved, lp, reserves, ammHeld>>

MostLp == MaxLp + Cardinality(Requests)

\* uses: sides that are transferred; lp: to burn; price: of the new pool;
\* limit: whether the minimum amounts bind the price.
AmmEmpty == [uses |-> {}, lp |-> 0, price |-> 0, limit |-> FALSE]

AmmTypeOK ==
  /\ native \in Sides \cup {"none"}
  /\ approved \subseteq Sides
  /\ lpApproved \in BOOLEAN
  /\ lp \in 0..MostLp
  /\ reserves \in 0..2
  /\ ammHeld \in [Requests -> [uses : SUBSET Sides, lp : 0..MostLp, price : 0..2, limit : BOOLEAN]]

AmmInit ==
  /\ native \in Sides \cup {"none"}
  /\ approved \in {{}, {"base"}, Sides}
  /\ lpApproved \in BOOLEAN
  /\ reserves \in 0..1
  /\ lp \in IF reserves = 0 THEN {0} ELSE 0..MaxLp
  /\ ammHeld = [r \in Requests |-> AmmEmpty]

-----------------------------------------------------------------------------
AmmPrepare(r, h) == Proceed(r) /\ ammHeld' = [ammHeld EXCEPT ![r] = h]
AmmReject(r) == Refuse(r) /\ UNCHANGED ammHeld
AmmFault(r)  == Break(r) /\ UNCHANGED ammHeld

AmmReadsOnly == UNCHANGED <<native, approved, lpApproved, lp, reserves>>

\* FAULT: the allowance of the quote token is not read.
Erc20SideOnly == {"base"} \ {native}

\* The sides that go through an allowance: WETH is paid in ETH, the other side
\* or both are transferred.
Erc20Sides == Sides \ {native}

\* addLiquidity: the pool is looked up and quoted at its reserves.
UniswapV2Add(r) ==
  /\ IF reserves # 0 /\ Erc20Sides \subseteq approved
     THEN AmmPrepare(r, [AmmEmpty EXCEPT !.uses = Erc20Sides, !.limit = TRUE])
     ELSE AmmReject(r)
  /\ AmmReadsOnly

UniswapV2AddAnswer == FundsAreClients(StatusOfReceipt)

\* FAULT: the share is taken of the balance after a first removal.
UniswapV2RemoveTwice(r) ==
  /\ IF lp # 0
     THEN AmmPrepare(r, [AmmEmpty EXCEPT !.lp = lp + 1, !.limit = TRUE])
     ELSE AmmReject(r)
  /\ AmmReadsOnly

\* removeLiquidity: a share of the balance, rounded down, perhaps to nothing;
\* the missing allowance of the LP token is a plain Error, so a 500.
UniswapV2Remove(r) ==
  /\ IF lp # 0
     THEN \E part \in {lp \div 2, lp} :
            IF part = 0 \/ lpApproved
            THEN AmmPrepare(r, [AmmEmpty EXCEPT !.lp = part, !.limit = TRUE])
            ELSE AmmFault(r)
     ELSE AmmReject(r)
  /\ AmmReadsOnly

UniswapV2RemoveAnswer == FundsAreClients(StatusOfReceipt)

\* FAULT: no minimum amounts.
UniswapV2CreateUnlimited(r) ==
  /\ IF reserves = 0 /\ Erc20Sides \subseteq approved
     THEN \E p \in 1..2 : AmmPrepare(r, [AmmEmpty EXCEPT !.uses = Erc20Sides, !.price = p])
     ELSE AmmReject(r)
  /\ AmmReadsOnly

\* createPool: refused when the pair has reserves; the first liquidity sets the
\* price, within minimum amounts that follow from it.
UniswapV2Create(r) ==
  /\ IF reserves = 0 /\ Erc20Sides \subseteq approved
     THEN \E p \in 1..2 :
            AmmPrepare(r, [AmmEmpty EXCEPT !.uses = Erc20Sides, !.price = p, !.limit = TRUE])
     ELSE AmmReject(r)
  /\ AmmReadsOnly

UniswapV2CreateAnswer == FundsAreClients(ConfirmedOrPending)

\* executeSwap: one side goes in, WETH as a token like any other.
UniswapV2Swap(r) ==
  /\ \E s \in Sides :
       IF reserves # 0 /\ s \in approved
       THEN AmmPrepare(r, [AmmEmpty EXCEPT !.uses = {s}, !.limit = TRUE])
       ELSE AmmReject(r)
  /\ AmmReadsOnly

UniswapV2SwapAnswer == SwapTable

\* PancakeSwap V2: the same code with its own contracts.
PancakeswapV2Add(r)         == UniswapV2Add(r)
PancakeswapV2Remove(r)      == UniswapV2Remove(r)
PancakeswapV2Create(r)      == UniswapV2Create(r)
PancakeswapV2Swap(r)        == UniswapV2Swap(r)
PancakeswapV2AddAnswer      == UniswapV2AddAnswer
PancakeswapV2RemoveAnswer   == UniswapV2RemoveAnswer
PancakeswapV2CreateAnswer   == UniswapV2CreateAnswer
PancakeswapV2SwapAnswer     == UniswapV2SwapAnswer

-----------------------------------------------------------------------------
AmmChecks(r) ==
  \/ Starts(r, "uniswap-v2 add") /\ UniswapV2Add(r)
  \/ Starts(r, "uniswap-v2 remove") /\ UniswapV2Remove(r)
  \/ Starts(r, "uniswap-v2 create") /\ UniswapV2Create(r)
  \/ Starts(r, "uniswap-v2 swap") /\ UniswapV2Swap(r)
  \/ Starts(r, "pancakeswap-v2 add") /\ PancakeswapV2Add(r)
  \/ Starts(r, "pancakeswap-v2 remove") /\ PancakeswapV2Remove(r)
  \/ Starts(r, "pancakeswap-v2 create") /\ PancakeswapV2Create(r)
  \/ Starts(r, "pancakeswap-v2 swap") /\ PancakeswapV2Swap(r)

AmmTable(r) ==
  CASE op[r] = "uniswap-v2 add"        -> UniswapV2AddAnswer
    [] op[r] = "uniswap-v2 remove"     -> UniswapV2RemoveAnswer
    [] op[r] = "uniswap-v2 create"     -> UniswapV2CreateAnswer
    [] op[r] = "uniswap-v2 swap"       -> UniswapV2SwapAnswer
    [] op[r] = "pancakeswap-v2 add"    -> PancakeswapV2AddAnswer
    [] op[r] = "pancakeswap-v2 remove" -> PancakeswapV2RemoveAnswer
    [] op[r] = "pancakeswap-v2 create" -> PancakeswapV2CreateAnswer
    [] op[r] = "pancakeswap-v2 swap"   -> PancakeswapV2SwapAnswer

AmmStep(r) ==
  /\ op[r] \in AmmOps
  /\ \/ AmmChecks(r)
     \/ /\ Interrupted(r) \/ Broadcast(r, AmmTable(r)) \/ Answered(r, AmmTable(r))
        /\ UNCHANGED ammVars

-----------------------------------------------------------------------------
(* The router and the pair (external).                                     *)

AmmAdds(o)    == o \in {"uniswap-v2 add", "pancakeswap-v2 add"}
AmmRemoves(o) == o \in {"uniswap-v2 remove", "pancakeswap-v2 remove"}
AmmCreates(o) == o \in {"uniswap-v2 create", "pancakeswap-v2 create"}
AmmSwaps(o)   == o \in {"uniswap-v2 swap", "pancakeswap-v2 swap"}

\* Liquidity is added at the ratio of the reserves, whatever was asked for, if
\* there are reserves: minimum amounts turn another ratio into a revert.
AmmObstacle(r) ==
  LET h == ammHeld[r] IN
  CASE ~(h.uses \subseteq approved) -> "allowance"
    [] AmmRemoves(op[r]) /\ h.lp = 0 -> "zero"
    [] AmmRemoves(op[r]) /\ h.lp > lp -> "stale"
    [] AmmRemoves(op[r]) /\ h.lp # 0 /\ ~lpApproved -> "allowance"
    [] AmmCreates(op[r]) /\ h.limit /\ reserves \notin {0, h.price} -> "stale"
    [] OTHER -> "none"

AmmExecutes(r) ==
  /\ op[r] \in AmmOps
  /\ AmmObstacle(r) = "none"
  /\ Executes(r)
  /\ approved' \in {approved, approved \ ammHeld[r].uses}
  /\ lp' = CASE AmmRemoves(op[r]) -> lp - ammHeld[r].lp
             [] AmmSwaps(op[r])   -> lp
             [] OTHER             -> lp + 1
  /\ lpApproved' \in IF AmmRemoves(op[r]) THEN {lpApproved, FALSE} ELSE {lpApproved}
  /\ reserves' = IF AmmCreates(op[r]) /\ reserves = 0 THEN ammHeld[r].price ELSE reserves
  /\ UNCHANGED <<native, ammHeld>>

AmmFails(r) ==
  /\ op[r] \in AmmOps
  /\ Reverts(r, AmmObstacle(r)) \/ Dropped(r)
  /\ UNCHANGED ammVars

-----------------------------------------------------------------------------
\* The price of a pool that createPool answers with status 1 is the one it was
\* asked for, also when another request created the pool meanwhile at another
\* price: the minimum amounts make that one fail.  (PoolPriceAsTold of EvmClmm
\* has no such protection.)
AmmPriceAsTold ==
  \A r \in Requests :
    AmmCreates(op[r]) /\ answer[r] = "confirmed" => reserves = ammHeld[r].price
=============================================================================
