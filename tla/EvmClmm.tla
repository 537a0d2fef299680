------------------------------- MODULE EvmClmm -------------------------------
(***************************************************************************)
(* The CLMM routes of Uniswap and PancakeSwap: src/src/connectors/uniswap/ *)
(* clmm-routes and src/src/connectors/pancakeswap/clmm-routes.  Each route *)
(* reads a position, checks, builds a transaction from what it read and    *)
(* sends it; requests overlap, so the position may have moved by the time  *)
(* the transaction executes.  The position manager is external.            *)
(***************************************************************************)
EXTENDS EvmRoute

CONSTANTS
  Positions,      \* NFT ids
  at,             \* the position the requests are about
  MaxLiquidity    \* bound on the liquidity a position starts with

ASSUME ClmmAssumption == at \in Positions /\ MaxLiquidity \in Nat \ {0}

\* token0 is the token with the lower address; the swap router has an allowance
\* of its own.
Tokens == {"token0", "token1"}
Spends == Tokens \cup {"swap"}
UniswapOps ==
  { "uniswap open", "uniswap add", "uniswap remove", "uniswap collect", "uniswap close",
    "uniswap create", "uniswap swap" }
PancakeswapOps ==
  { "pancakeswap open", "pancakeswap add", "pancakeswap remove", "pancakeswap collect",
    "pancakeswap close", "pancakeswap create", "pancakeswap swap" }
ClmmOps == UniswapOps \cup PancakeswapOps

VARIABLES
  weth,       \* which token is WETH, or "none"
  allowance,  \* what the wallet allowed: the manager per token, the swap router
  mine,       \* positions of the wallet
  liquidity,  \* position -> liquidity, NoNft before the mint and after the burn
  owed,       \* position -> fees credited to it (tokensOwed)
  growth,     \* position -> fees earned and not yet credited
  price,      \* price of the pool createPool is about, 0 before
  held,       \* per request: what it took into its transaction
  paid        \* per request: what its transaction moved

chainVars == <<allowance, mine, liquidity, owed, growth, price>>
clmmVars == <<chainVars, weth, held, paid>>

NoNft == -1
Most == MaxLiquidity + Cardinality(Requests)
Nothing == [liquidity |-> 0, fees |-> 0]

\* liquidity: to add or remove; removed, fees: what it will tell of amounts removed
\* and of fees collected; uses: the tokens it needs; burn: with the NFT; price: for
\* the new pool.
Empty == [liquidity |-> 0, removed |-> 0, fees |-> 0, uses |-> {}, burn |-> FALSE, price |-> 0]
Held == [liquidity : 0..Most, removed : 0..Most + 1, fees : 0..1, uses : SUBSET Spends,
         burn : BOOLEAN, price : 0..2]

ClmmTypeOK ==
  /\ weth \in Tokens \cup {"none"}
  /\ allowance \in [Spends -> BOOLEAN]
  /\ mine \subseteq Positions
  /\ liquidity \in [Positions -> NoNft..Most]
  /\ owed \in [Positions -> 0..1]
  /\ growth \in [Positions -> 0..1]
  /\ price \in 0..2
  /\ held \in [Requests -> Held]
  /\ paid \in [Requests -> [liquidity : 0..Most, fees : 0..1]]

\* One position exists, of this wallet or of another one; the others are ids
\* still to be minted.
ClmmInit ==
  /\ weth \in Tokens \cup {"none"}
  /\ allowance \in {[s \in Spends |-> s \in some] : some \in {{}, {"token0"}, Spends}}
  /\ mine \in {{}, {at}}
  /\ liquidity \in {[q \in Positions |-> IF q = at THEN n ELSE NoNft] : n \in 0..MaxLiquidity}
  /\ owed \in {[q \in Positions |-> IF q = at THEN n ELSE 0] : n \in 0..1}
  /\ growth = [p \in Positions |-> 0]
  /\ price \in 0..1
  /\ held = [r \in Requests |-> Empty]
  /\ paid = [r \in Requests |-> Nothing]

-----------------------------------------------------------------------------
Exists(p) == liquidity[p] # NoNft

\* checkNFTOwnership: ownerOf throws for an id that does not exist.
Owned(p) == Exists(p) /\ p \in mine

\* Goes on to the broadcast with what the route read.
Prepare(r, h) == Proceed(r) /\ held' = [held EXCEPT ![r] = h]

Reject(r) == Refuse(r) /\ UNCHANGED held
Fault(r)  == Break(r) /\ UNCHANGED held

ReadsOnly == UNCHANGED <<chainVars, weth, paid>>

-----------------------------------------------------------------------------
(***************************************************************************)
(* The routes of Uniswap: what each reads and checks, what it takes along, *)
(* and how it answers.                                                     *)
(***************************************************************************)

\* FAULT: the allowance of token1 is not read.
UniswapOpenUnchecked(r) ==
  /\ \E uses \in (SUBSET Tokens) \ {{}} :
       IF "token0" \in uses => allowance["token0"]
       THEN Prepare(r, [Empty EXCEPT !.liquidity = 1, !.uses = uses])
       ELSE Reject(r)
  /\ ReadsOnly

\* openPosition: the base token is the pool's token0; both allowances are
\* checked, WETH or not.
UniswapOpen(r) ==
  /\ \E uses \in (SUBSET Tokens) \ {{}} :
       IF \A t \in uses : allowance[t]
       THEN Prepare(r, [Empty EXCEPT !.liquidity = 1, !.uses = uses])
       ELSE Reject(r)
  /\ ReadsOnly

\* FAULT: every exception is the client's fault.
BlamingOpenAnswer == [x \in Replies |-> IF x = "success" THEN "confirmed" ELSE "client_error"]

\* A revert that tx.wait(1) reports, and missing funds, are the client's.
UniswapOpenAnswer ==
  [FundsAreClients(StatusOfReceipt) EXCEPT !["call_exception"] = "client_error"]

\* addLiquidity: neither the owner nor an allowance for WETH is checked; the
\* base token is WETH when that is token0, else token1.
UniswapAdd(r) ==
  /\ IF Exists(at)
     THEN \E uses \in (SUBSET Tokens) \ {{}} :
            IF \A t \in uses : t = weth \/ allowance[t]
            THEN Prepare(r, [Empty EXCEPT !.liquidity = 1, !.uses = uses])
            ELSE Reject(r)
     ELSE Fault(r)
  /\ ReadsOnly

UniswapAddAnswer == StatusOfReceipt

\* totalAmount0, totalAmount1: the liquidity's tokens and the fees credited so far
\* are told as one amount removed.
WithFees(part) == part + owed[at]

\* removeLiquidity: half or all of the liquidity it read; the SDK refuses to
\* remove nothing.
UniswapRemove(r) ==
  /\ IF Owned(at)
     THEN \E part \in {liquidity[at] \div 2, liquidity[at]} :
            IF part > 0
            THEN Prepare(r, [Empty EXCEPT !.liquidity = part, !.removed = WithFees(part)])
            ELSE Fault(r)
     ELSE Reject(r)
  /\ ReadsOnly

UniswapRemoveAnswer == StatusOfReceipt

\* collectFees: only the fees already credited count.
UniswapCollect(r) ==
  /\ IF Owned(at) /\ owed[at] > 0
     THEN Prepare(r, [Empty EXCEPT !.fees = owed[at]])
     ELSE Reject(r)
  /\ ReadsOnly

UniswapCollectAnswer == StatusOfReceipt

\* closePosition: all of the liquidity it read, the fees, and the burn, in one
\* multicall.  The fees are told twice: in the amounts removed, and by themselves.
\* A position with fees and no liquidity is let through and then
\* refused by the SDK.
UniswapClose(r) ==
  /\ IF Owned(at) /\ liquidity[at] + owed[at] > 0
     THEN IF liquidity[at] > 0
          THEN Prepare(r, [Empty EXCEPT !.liquidity = liquidity[at],
                                        !.removed = WithFees(liquidity[at]),
                                        !.fees = owed[at], !.burn = TRUE])
          ELSE Fault(r)
     ELSE Reject(r)
  /\ ReadsOnly

UniswapCloseAnswer == StatusOfReceipt

\* createPool: refused when the pool has a price.
UniswapCreate(r) ==
  /\ IF price = 0
     THEN \E p \in 1..2 : Prepare(r, [Empty EXCEPT !.price = p])
     ELSE Reject(r)
  /\ ReadsOnly

UniswapCreateAnswer == FundsAreClients(ConfirmedOrPending)

\* executeSwap: the pool is quoted and the router's allowance read.
UniswapSwap(r) ==
  /\ IF allowance["swap"]
     THEN Prepare(r, [Empty EXCEPT !.uses = {"swap"}])
     ELSE Reject(r)
  /\ ReadsOnly

UniswapSwapAnswer == SwapTable

-----------------------------------------------------------------------------
(***************************************************************************)
(* PancakeSwap: the same code over its own contracts and SDK, but for how  *)
(* amounts are parsed, the fee tiers, and the price limit of a swap.       *)
(***************************************************************************)
PancakeswapOpen(r)       == UniswapOpen(r)
PancakeswapAdd(r)        == UniswapAdd(r)
PancakeswapRemove(r)     == UniswapRemove(r)
PancakeswapCollect(r)    == UniswapCollect(r)
PancakeswapClose(r)      == UniswapClose(r)
PancakeswapCreate(r)     == UniswapCreate(r)
PancakeswapSwap(r)       == UniswapSwap(r)
PancakeswapOpenAnswer    == UniswapOpenAnswer
PancakeswapAddAnswer     == UniswapAddAnswer
PancakeswapRemoveAnswer  == UniswapRemoveAnswer
PancakeswapCollectAnswer == UniswapCollectAnswer
PancakeswapCloseAnswer   == UniswapCloseAnswer
PancakeswapCreateAnswer  == UniswapCreateAnswer
PancakeswapSwapAnswer    == UniswapSwapAnswer

-----------------------------------------------------------------------------
\* A request that calls a route of this module: its checks ...
ClmmChecks(r) ==
  \/ Starts(r, "uniswap open") /\ UniswapOpen(r)
  \/ Starts(r, "uniswap add") /\ UniswapAdd(r)
  \/ Starts(r, "uniswap remove") /\ UniswapRemove(r)
  \/ Starts(r, "uniswap collect") /\ UniswapCollect(r)
  \/ Starts(r, "uniswap close") /\ UniswapClose(r)
  \/ Starts(r, "uniswap create") /\ UniswapCreate(r)
  \/ Starts(r, "uniswap swap") /\ UniswapSwap(r)
  \/ Starts(r, "pancakeswap open") /\ PancakeswapOpen(r)
  \/ Starts(r, "pancakeswap add") /\ PancakeswapAdd(r)
  \/ Starts(r, "pancakeswap remove") /\ PancakeswapRemove(r)
  \/ Starts(r, "pancakeswap collect") /\ PancakeswapCollect(r)
  \/ Starts(r, "pancakeswap close") /\ PancakeswapClose(r)
  \/ Starts(r, "pancakeswap create") /\ PancakeswapCreate(r)
  \/ Starts(r, "pancakeswap swap") /\ PancakeswapSwap(r)

\* ... and its table.
ClmmTable(r) ==
  CASE op[r] = "uniswap open"        -> UniswapOpenAnswer
    [] op[r] = "uniswap add"         -> UniswapAddAnswer
    [] op[r] = "uniswap remove"      -> UniswapRemoveAnswer
    [] op[r] = "uniswap collect"     -> UniswapCollectAnswer
    [] op[r] = "uniswap close"       -> UniswapCloseAnswer
    [] op[r] = "uniswap create"      -> UniswapCreateAnswer
    [] op[r] = "uniswap swap"        -> UniswapSwapAnswer
    [] op[r] = "pancakeswap open"    -> PancakeswapOpenAnswer
    [] op[r] = "pancakeswap add"     -> PancakeswapAddAnswer
    [] op[r] = "pancakeswap remove"  -> PancakeswapRemoveAnswer
    [] op[r] = "pancakeswap collect" -> PancakeswapCollectAnswer
    [] op[r] = "pancakeswap close"   -> PancakeswapCloseAnswer
    [] op[r] = "pancakeswap create"  -> PancakeswapCreateAnswer
    [] op[r] = "pancakeswap swap"    -> PancakeswapSwapAnswer

ClmmStep(r) ==
  /\ op[r] \in ClmmOps
  /\ \/ ClmmChecks(r)
     \/ /\ Interrupted(r) \/ Broadcast(r, ClmmTable(r)) \/ Answered(r, ClmmTable(r))
        /\ UNCHANGED clmmVars

-----------------------------------------------------------------------------
(***************************************************************************)
(* The contracts (external).                                               *)
(***************************************************************************)
Opens(o)    == o \in {"uniswap open", "pancakeswap open"}
Adds(o)     == o \in {"uniswap add", "pancakeswap add"}
Removes(o)  == o \in {"uniswap remove", "pancakeswap remove"}
Collects(o) == o \in {"uniswap collect", "pancakeswap collect"}
Closes(o)   == o \in {"uniswap close", "pancakeswap close"}
Creates(o)  == o \in {"uniswap create", "pancakeswap create"}
TakesOut(o) == Removes(o) \/ Collects(o) \/ Closes(o)

\* What a transaction fails for, its price limits aside.
Obstacle(r) ==
  CASE \E s \in held[r].uses : ~allowance[s] -> "allowance"
    [] TakesOut(op[r]) /\ at \notin mine -> "owner"
    [] Adds(op[r]) /\ ~Exists(at) -> "stale"
    [] TakesOut(op[r]) /\ ~Exists(at) -> "stale"
    [] TakesOut(op[r]) /\ liquidity[at] < held[r].liquidity -> "stale"
    [] held[r].burn /\ liquidity[at] # held[r].liquidity -> "stale"
    [] OTHER -> "none"

\* The transfers of open, add and swap may use an allowance up.
Spend(r) ==
  allowance' \in {allowance, [s \in Spends |-> allowance[s] /\ s \notin held[r].uses]}

\* The ids still to be minted (the bound on the mints), and the next one of them.
Unminted == Positions \ (mine \cup {at})
NextId == CHOOSE p \in Unminted : TRUE

\* Every change of the liquidity credits the fees; the collect call that goes
\* with remove and close takes all there is.
ClmmExecutes(r) ==
  /\ op[r] \in ClmmOps
  /\ Obstacle(r) = "none"
  /\ Executes(r)
  /\ Spend(r)
  /\ LET o == op[r] IN
     CASE Opens(o) ->
            /\ Unminted # {}
            /\ LET p == NextId IN
                 /\ mine' = mine \cup {p}
                 /\ liquidity' = [liquidity EXCEPT ![p] = held[r].liquidity]
            /\ UNCHANGED <<owed, growth, price, paid>>
       [] Adds(o) ->
            /\ liquidity' = [liquidity EXCEPT ![at] = @ + held[r].liquidity]
            /\ owed' = [owed EXCEPT ![at] = IF growth[at] = 1 THEN 1 ELSE @]
            /\ growth' = [growth EXCEPT ![at] = 0]
            /\ UNCHANGED <<mine, price, paid>>
       [] TakesOut(o) ->
            /\ liquidity' = [liquidity EXCEPT ![at] = IF held[r].burn THEN NoNft ELSE @ - held[r].liquidity]
            /\ mine' = IF held[r].burn THEN mine \ {at} ELSE mine
            /\ paid' = [paid EXCEPT ![r] = [liquidity |-> held[r].liquidity,
                                           fees |-> IF owed[at] + growth[at] > 0 THEN 1 ELSE 0]]
            /\ owed' = [owed EXCEPT ![at] = 0]
            /\ growth' = [growth EXCEPT ![at] = 0]
            /\ UNCHANGED price
       [] Creates(o) ->
            /\ price' = IF price = 0 THEN held[r].price ELSE price
            /\ UNCHANGED <<mine, liquidity, owed, growth, paid>>
       [] OTHER -> UNCHANGED <<mine, liquidity, owed, growth, price, paid>>
  /\ UNCHANGED <<weth, held>>

ClmmFails(r) ==
  /\ op[r] \in ClmmOps
  /\ Reverts(r, Obstacle(r)) \/ Dropped(r)
  /\ UNCHANGED clmmVars

\* Trades of others earn fees for a position with liquidity.
Accrue(p) ==
  /\ liquidity[p] > 0 /\ growth[p] = 0
  /\ growth' = [growth EXCEPT ![p] = 1]
  /\ UNCHANGED <<routeVars, allowance, mine, liquidity, owed, price, weth, held, paid>>

-----------------------------------------------------------------------------
\* A close that was answered with status 1 leaves no position behind, whatever
\* other requests did to it between the reads and the execution.
ClosedIsGone ==
  \A r \in Requests : Closes(op[r]) /\ answer[r] = "confirmed" => ~Exists(at)

\* All that is told, as removed and as fees; of a close what it tells as removed,
\* since it tells the fees twice.
ToldOnce(o, h) == h.removed + (IF Closes(o) THEN 0 ELSE h.fees)

\* The amounts an answer tells are computed from what was read before the
\* transaction was built.  The liquidity is what the transaction moved, and what is
\* told was paid, unless another request came between.
PaidAsTold ==
  \A r \in Requests : TakesOut(op[r]) /\ answer[r] = "confirmed" =>
    /\ paid[r].liquidity = held[r].liquidity
    /\ alone[r] => paid[r].liquidity + paid[r].fees >= ToldOnce(op[r], held[r])

\* createAndInitializePoolIfNecessary succeeds for a pool that got its price
\* from somebody else meanwhile; the answer's price is right when nothing was
\* executed in between.
PoolPriceAsTold ==
  \A r \in Requests :
    Creates(op[r]) /\ answer[r] = "confirmed" /\ alone[r] => price = held[r].price
=============================================================================
