---------------------------- MODULE EvmRoutes_proof ----------------------------
(***************************************************************************)
(* Theorems of EvmRoutes: any number of overlapping requests to the CLMM   *)
(* routes, the AMM routes, wrap and unwrap of the EVM connectors, and any  *)
(* number of positions.                                                    *)
(***************************************************************************)
EXTENDS EvmRoutes, TLAPS

PcStates == {"start", "send", "wait", "done"}
TxStates == {"unsent", "pending", "success", "reverted", "dropped"}
Reasons  == {"none", "price", "allowance", "stale", "owner", "zero"}

RouteTyped ==
  /\ op \in [Requests -> Ops]
  /\ pc \in [Requests -> PcStates]
  /\ tx \in [Requests -> TxStates]
  /\ answer \in [Requests -> Answers]
  /\ executed \in Nat
  /\ since \in [Requests -> Nat]
  /\ alone \in [Requests -> BOOLEAN]
  /\ why \in [Requests -> Reasons]

Prepared == [liquidity : Nat, removed : Nat, fees : 0..1, uses : SUBSET Spends, burn : BOOLEAN, price : 0..2]

ClmmTyped ==
  /\ weth \in Tokens \cup {"none"}
  /\ allowance \in [Spends -> BOOLEAN]
  /\ mine \subseteq Positions
  /\ liquidity \in [Positions -> Nat \cup {NoNft}]
  /\ owed \in [Positions -> 0..1]
  /\ growth \in [Positions -> 0..1]
  /\ price \in 0..2
  /\ held \in [Requests -> Prepared]
  /\ paid \in [Requests -> [liquidity : Nat, fees : 0..1]]

AmmPrepared == [uses : SUBSET Sides, lp : Nat, price : 0..2, limit : BOOLEAN]

AmmTyped ==
  /\ native \in Sides \cup {"none"}
  /\ approved \subseteq Sides
  /\ lpApproved \in BOOLEAN
  /\ lp \in Nat
  /\ reserves \in 0..2
  /\ ammHeld \in [Requests -> AmmPrepared]

Typed == RouteTyped /\ ClmmTyped /\ AmmTyped /\ wethBalance \in Nat

-----------------------------------------------------------------------------
\* The life of a request: nothing is out before the broadcast, something is
\* while it waits, and what it is told is true of its transaction.
LifeOf(r) ==
  /\ pc[r] = "done" <=> answer[r] # "none"
  /\ pc[r] \in {"start", "send"} => tx[r] = "unsent"
  /\ pc[r] = "wait" => tx[r] # "unsent"
  /\ since[r] <= executed
  /\ answer[r] = "confirmed" => tx[r] = "success"
  /\ answer[r] \in {"client_error", "funds_error"} => tx[r] \in {"unsent", "reverted"}
  /\ answer[r] = "funds_error" /\ ~Swaps(op[r]) => tx[r] = "unsent"

LifeInv == \A r \in Requests : LifeOf(r)

\* A request that has read, and whose transaction is not decided; one that has read.
Awaits(r) == pc[r] = "send" \/ tx[r] = "pending"
HasRead(r) == pc[r] = "send" \/ tx[r] # "unsent"

\* What a CLMM request that goes on to the broadcast with h has checked.
Checked(r, h) ==
  /\ h.burn <=> Closes(op[r])
  /\ \A s \in h.uses : allowance[s] \/ (Adds(op[r]) /\ s = weth)
  /\ Adds(op[r]) => Exists(at)
  /\ TakesOut(op[r]) => /\ at \in mine /\ Exists(at)
                        /\ h.liquidity <= liquidity[at]
                        /\ ToldOnce(op[r], h) = h.liquidity + owed[at]
  /\ h.burn => liquidity[at] = h.liquidity
  /\ Creates(op[r]) => h.price # 0 /\ price = 0

\* What an executed transaction of a CLMM route leaves behind.
ClmmDone(r) ==
  /\ Closes(op[r]) => ~Exists(at)
  /\ TakesOut(op[r]) => /\ paid[r].liquidity = held[r].liquidity
                        /\ alone[r] => paid[r].liquidity + paid[r].fees >= ToldOnce(op[r], held[r])
  /\ Creates(op[r]) => price # 0 /\ (alone[r] => price = held[r].price)

\* The checks hold until something is executed; what was taken along stays.
ClmmPart(r) ==
  /\ HasRead(r) => (held[r].burn <=> Closes(op[r])) /\ (Creates(op[r]) => held[r].price # 0)
  /\ Awaits(r) /\ executed = since[r] => Checked(r, held[r])
  /\ tx[r] = "success" => ClmmDone(r)
  /\ tx[r] = "reverted" /\ alone[r] =>
       \/ why[r] = "price"
       \/ why[r] = "allowance" /\ Adds(op[r]) /\ weth \in held[r].uses

\* The same of an AMM route.
AmmChecked(r, h) ==
  /\ h.uses \subseteq approved
  /\ AmmRemoves(op[r]) => h.lp <= lp /\ (h.lp = 0 \/ lpApproved)
  /\ AmmCreates(op[r]) => reserves = 0

AmmPart(r) ==
  /\ HasRead(r) /\ AmmCreates(op[r]) => ammHeld[r].limit /\ ammHeld[r].price # 0
  /\ Awaits(r) /\ executed = since[r] => AmmChecked(r, ammHeld[r])
  /\ tx[r] = "success" /\ AmmCreates(op[r]) => reserves = ammHeld[r].price
  /\ tx[r] = "reverted" /\ alone[r] => why[r] = "price" \/ (why[r] = "zero" /\ AmmRemoves(op[r]))

WrapPart(r) ==
  /\ Awaits(r) /\ executed = since[r] => WrapObstacle(r) = "none"
  /\ tx[r] = "reverted" /\ alone[r] => why[r] = "price"

ClmmInv == \A r \in Requests : op[r] \in ClmmOps => ClmmPart(r)
AmmInv  == \A r \in Requests : op[r] \in AmmOps => AmmPart(r)
WrapInv == \A r \in Requests : op[r] \in WrapOps => WrapPart(r)

Inv == Typed /\ LifeInv /\ ClmmInv /\ AmmInv /\ WrapInv

-----------------------------------------------------------------------------
(***************************************************************************)
(* The tables.                                                             *)
(***************************************************************************)

\* A table blames the client only for what did not and will not execute.
Sound(table, o) ==
  \A x \in Replies :
    /\ table[x] \in Answers \ {"none"}
    /\ table[x] = "confirmed" => x = "success"
    /\ table[x] = "client_error" => x = "call_exception"
    /\ table[x] = "funds_error" => x = "no_funds" \/ (x = "reverted" /\ Swaps(o))

LEMMA PlainTables ==
  ASSUME NEW o
  PROVE  /\ Sound(StatusOfReceipt, o)
         /\ Sound(FundsAreClients(StatusOfReceipt), o)
         /\ Sound(FundsAreClients(ConfirmedOrPending), o)
         /\ Sound(UniswapOpenAnswer, o)
         /\ Sound(WrapTable, o)
         /\ Swaps(o) => Sound(SwapTable, o)
<1> USE DEF Sound, StatusOfReceipt, Replies, Answers
<1>1. Sound(StatusOfReceipt, o)
  OBVIOUS
<1>2. Sound(FundsAreClients(StatusOfReceipt), o)
  BY DEF FundsAreClients
<1>3. Sound(FundsAreClients(ConfirmedOrPending), o)
  BY DEF FundsAreClients, ConfirmedOrPending
<1>4. Sound(UniswapOpenAnswer, o)
  BY DEF FundsAreClients, UniswapOpenAnswer
<1>5. Sound(WrapTable, o)
  BY DEF FundsAreClients, WrapTable
<1>6. Swaps(o) => Sound(SwapTable, o)
  BY DEF FundsAreClients, SwapTable
<1> QED BY ONLY <1>1, <1>2, <1>3, <1>4, <1>5, <1>6

LEMMA ClmmTableSound ==
  ASSUME NEW r \in Requests, op[r] \in ClmmOps
  PROVE  Sound(ClmmTable(r), op[r])
<1>1. /\ Sound(StatusOfReceipt, op[r]) /\ Sound(UniswapOpenAnswer, op[r])
      /\ Sound(FundsAreClients(ConfirmedOrPending), op[r])
      /\ Swaps(op[r]) => Sound(SwapTable, op[r])
  BY PlainTables
<1>2. ClmmTable(r) = CASE Opens(op[r]) -> UniswapOpenAnswer
                       [] Adds(op[r]) \/ TakesOut(op[r]) -> StatusOfReceipt
                       [] Creates(op[r]) -> FundsAreClients(ConfirmedOrPending)
                       [] OTHER -> SwapTable
  BY DEF ClmmTable, ClmmOps, UniswapOps, PancakeswapOps, Opens, Adds, TakesOut, Removes,
     Collects, Closes, Creates, UniswapAddAnswer, UniswapRemoveAnswer, UniswapCollectAnswer,
     UniswapCloseAnswer, UniswapCreateAnswer, UniswapSwapAnswer, PancakeswapOpenAnswer,
     PancakeswapAddAnswer, PancakeswapRemoveAnswer, PancakeswapCollectAnswer,
     PancakeswapCloseAnswer, PancakeswapCreateAnswer, PancakeswapSwapAnswer
<1>3. Opens(op[r]) \/ Adds(op[r]) \/ TakesOut(op[r]) \/ Creates(op[r]) \/ Swaps(op[r])
  BY DEF ClmmOps, UniswapOps, PancakeswapOps, Opens, Adds, TakesOut, Removes, Collects,
     Closes, Creates, Swaps
<1>4. \/ ClmmTable(r) = UniswapOpenAnswer
      \/ ClmmTable(r) = StatusOfReceipt
      \/ ClmmTable(r) = FundsAreClients(ConfirmedOrPending)
      \/ ClmmTable(r) = SwapTable /\ Swaps(op[r])
  BY ONLY <1>2, <1>3, SMT
<1> QED BY <1>1, <1>4

LEMMA AmmTableSound ==
  ASSUME NEW r \in Requests, op[r] \in AmmOps
  PROVE  Sound(AmmTable(r), op[r])
<1>1. /\ Sound(FundsAreClients(StatusOfReceipt), op[r])
      /\ Sound(FundsAreClients(ConfirmedOrPending), op[r])
      /\ Swaps(op[r]) => Sound(SwapTable, op[r])
  BY PlainTables
<1>2. \/ AmmTable(r) = FundsAreClients(StatusOfReceipt)
      \/ AmmTable(r) = FundsAreClients(ConfirmedOrPending)
      \/ AmmTable(r) = SwapTable /\ Swaps(op[r])
  BY DEF AmmTable, AmmOps, Swaps, AmmSwaps, UniswapV2AddAnswer, UniswapV2RemoveAnswer,
     UniswapV2CreateAnswer, UniswapV2SwapAnswer, PancakeswapV2AddAnswer,
     PancakeswapV2RemoveAnswer, PancakeswapV2CreateAnswer, PancakeswapV2SwapAnswer
<1> QED BY <1>1, <1>2

LEMMA WrapTableSound ==
  ASSUME NEW r \in Requests
  PROVE  Sound(IF op[r] = "wrap" THEN WrapAnswer ELSE UnwrapAnswer, op[r])
BY PlainTables DEF WrapAnswer, UnwrapAnswer

-----------------------------------------------------------------------------
(***************************************************************************)
(* The life of a request, whatever its route is.                           *)
(***************************************************************************)

\* A step that decides nothing about request q, and in which it reads nothing.
Calm(q) ==
  /\ op' = op /\ executed <= executed'
  /\ UNCHANGED <<since[q], alone[q], why[q]>>
  /\ Awaits(q)' => Awaits(q)
  /\ HasRead(q)' => HasRead(q)
  /\ tx'[q] \in {"success", "reverted"} => tx'[q] = tx[q]

AllCalm == executed' = executed /\ \A q \in Requests : Calm(q)
OthersCalm(r) == \A q \in Requests \ {r} : Calm(q)

LEMMA ReturnStep ==
  ASSUME RouteTyped, LifeInv, NEW r \in Requests, NEW a \in Answers \ {"none"}, Return(r, a),
         pc[r] # "done",
         a = "confirmed" => tx[r] = "success",
         a \in {"client_error", "funds_error"} => tx[r] \in {"unsent", "reverted"},
         a = "funds_error" /\ ~Swaps(op[r]) => tx[r] = "unsent"
  PROVE  RouteTyped' /\ LifeInv' /\ AllCalm
<1> USE DEF RouteTyped, Return
<1>1. RouteTyped'
  BY DEF PcStates
<1>2. LifeInv'
  <2> SUFFICES ASSUME NEW q \in Requests PROVE LifeOf(q)'
    BY DEF LifeInv
  <2>1. LifeOf(q)
    BY DEF LifeInv
  <2> QED BY <2>1 DEF LifeOf
<1>3. AllCalm
  BY DEF AllCalm, Calm, Awaits, HasRead
<1> QED BY <1>1, <1>2, <1>3

LEMMA QuietStep ==
  ASSUME RouteTyped, LifeInv, NEW r \in Requests, NEW table, Sound(table, op[r]),
         Interrupted(r) \/ Broadcast(r, table) \/ Answered(r, table)
  PROVE  RouteTyped' /\ LifeInv' /\ AllCalm
<1>0. LifeOf(r)
  BY DEF LifeInv
<1>1. CASE Interrupted(r)
  BY <1>0, <1>1, ReturnStep DEF Interrupted, Refuse, Break, LifeOf, Answers
<1>2. CASE Answered(r, table)
  <2>1. PICK x \in RepliesNow(r) : Return(r, table[x])
    BY <1>2 DEF Answered
  <2>2. /\ x \in Replies \ {"no_funds"} /\ (x = "success" => tx[r] = "success")
        /\ x \in {"reverted", "call_exception"} => tx[r] = "reverted"
    BY <2>1 DEF RepliesNow, Replies
  <2>3. pc[r] = "wait"
    BY <1>2 DEF Answered
  <2> QED BY <2>1, <2>2, <2>3, ReturnStep DEF Sound
<1>3. CASE Broadcast(r, table)
  <2>1. pc[r] = "send" /\ tx[r] = "unsent" /\ answer[r] = "none"
    BY <1>0, <1>3 DEF Broadcast, LifeOf, RouteTyped
  <2>2. ASSUME NEW x \in {"no_funds", "error"}, Return(r, table[x])
        PROVE  RouteTyped' /\ LifeInv' /\ AllCalm
    <3>1. x \in Replies /\ x \notin {"success", "call_exception", "reverted"}
      BY DEF Replies
    <3> QED BY <2>1, <2>2, <3>1, ReturnStep DEF Sound
  <2>3. CASE /\ tx' = [tx EXCEPT ![r] = "pending"]
             /\ \/ pc' = [pc EXCEPT ![r] = "wait"] /\ answer' = answer
                \/ pc' = [pc EXCEPT ![r] = "done"] /\ answer' = [answer EXCEPT ![r] = table["error"]]
             /\ UNCHANGED <<op, executed, since, alone, why>>
    <3> USE DEF RouteTyped
    <3>1. table["error"] \in Answers \ {"none", "confirmed", "client_error", "funds_error"}
      BY DEF Sound, Replies
    <3>2. RouteTyped'
      BY <2>3, <3>1 DEF PcStates, TxStates
    <3>3. LifeInv'
      <4> SUFFICES ASSUME NEW q \in Requests PROVE LifeOf(q)'
        BY DEF LifeInv
      <4>1. LifeOf(q)
        BY DEF LifeInv
      <4>2. CASE q = r
        BY <2>1, <2>3, <3>1, <4>1, <4>2 DEF LifeOf
      <4>3. CASE q # r
        BY <2>3, <4>1, <4>3 DEF LifeOf
      <4> QED BY <4>2, <4>3
    <3>4. AllCalm
      BY <2>1, <2>3 DEF AllCalm, Calm, Awaits, HasRead
    <3> QED BY <3>2, <3>3, <3>4
  <2> QED BY <1>3, <2>2, <2>3 DEF Broadcast
<1> QED BY <1>1, <1>2, <1>3

LEMMA DroppedStep ==
  ASSUME RouteTyped, LifeInv, NEW r \in Requests, Dropped(r)
  PROVE  RouteTyped' /\ LifeInv' /\ AllCalm
<1> USE DEF RouteTyped, Dropped
<1>1. RouteTyped'
  BY DEF TxStates
<1>2. ASSUME NEW q \in Requests PROVE LifeOf(q)'
  <2>1. LifeOf(q)
    BY DEF LifeInv
  <2> QED BY <2>1 DEF LifeOf
<1>3. AllCalm
  BY DEF AllCalm, Calm, Awaits, HasRead
<1> QED BY <1>1, <1>2, <1>3 DEF LifeInv

LEMMA ProceedStep ==
  ASSUME RouteTyped, LifeInv, NEW r \in Requests, Proceed(r), pc[r] = "start"
  PROVE  /\ RouteTyped' /\ LifeInv' /\ OthersCalm(r)
         /\ op' = op /\ executed' = executed /\ since'[r] = executed /\ tx'[r] = "unsent"
<1> USE DEF RouteTyped, Proceed
<1>1. RouteTyped'
  BY DEF PcStates
<1>2. ASSUME NEW q \in Requests PROVE LifeOf(q)'
  <2>1. LifeOf(q)
    BY DEF LifeInv
  <2> QED BY <2>1 DEF LifeOf
<1>3. OthersCalm(r)
  BY DEF OthersCalm, Calm, Awaits, HasRead
<1>4. tx'[r] = "unsent"
  BY DEF LifeInv, LifeOf
<1> QED BY <1>1, <1>2, <1>3, <1>4 DEF LifeInv

LEMMA ExecutesStep ==
  ASSUME RouteTyped, LifeInv, NEW r \in Requests, Executes(r)
  PROVE  /\ RouteTyped' /\ LifeInv' /\ OthersCalm(r)
         /\ op' = op /\ executed' = executed + 1 /\ tx'[r] = "success" /\ pc'[r] # "send"
         /\ Awaits(r) /\ HasRead(r) /\ alone'[r] = (executed = since[r])
         /\ \A q \in Requests : since'[q] # executed'
<1> USE DEF RouteTyped, Executes
<1>1. RouteTyped'
  BY DEF TxStates
<1>2. ASSUME NEW q \in Requests PROVE LifeOf(q)' /\ since'[q] # executed'
  <2>1. LifeOf(q)
    BY DEF LifeInv
  <2> QED BY <2>1 DEF LifeOf
<1>3. OthersCalm(r)
  BY DEF OthersCalm, Calm, Awaits, HasRead
<1>4. pc'[r] # "send" /\ Awaits(r) /\ HasRead(r)
  BY DEF LifeInv, LifeOf, Awaits, HasRead
<1> QED BY <1>1, <1>2, <1>3, <1>4 DEF LifeInv

LEMMA RevertsStep ==
  ASSUME RouteTyped, LifeInv, NEW r \in Requests, NEW o \in Reasons, Reverts(r, o)
  PROVE  /\ RouteTyped' /\ LifeInv' /\ OthersCalm(r)
         /\ op' = op /\ executed' = executed /\ tx'[r] = "reverted" /\ pc'[r] # "send"
         /\ Awaits(r) /\ HasRead(r) /\ alone'[r] = (executed = since[r])
         /\ why'[r] \in {o, "price"} \ {"none"}
<1> USE DEF RouteTyped, Reverts
<1>1. RouteTyped'
  BY DEF TxStates, Reasons
<1>2. ASSUME NEW q \in Requests PROVE LifeOf(q)'
  <2>1. LifeOf(q)
    BY DEF LifeInv
  <2> QED BY <2>1 DEF LifeOf
<1>3. OthersCalm(r)
  BY DEF OthersCalm, Calm, Awaits, HasRead
<1>4. pc'[r] # "send" /\ Awaits(r) /\ HasRead(r)
  BY DEF LifeInv, LifeOf, Awaits, HasRead
<1> QED BY <1>1, <1>2, <1>3, <1>4 DEF LifeInv

-----------------------------------------------------------------------------
(***************************************************************************)
(* A step that leaves a request calm, and the contracts alone, keeps what  *)
(* the invariant says of the request.                                      *)
(***************************************************************************)
LEMMA StillCounts ==
  ASSUME RouteTyped, LifeInv, RouteTyped', NEW q \in Requests, Calm(q),
         Awaits(q)', executed' = since'[q]
  PROVE  Awaits(q) /\ executed = since[q]
BY DEF Calm, RouteTyped, LifeInv, LifeOf

LEMMA CalmClmm ==
  ASSUME RouteTyped, LifeInv, RouteTyped', NEW q \in Requests, Calm(q), ClmmPart(q),
         UNCHANGED <<allowance, mine, liquidity, owed, price, weth>>,
         held'[q] = held[q], paid'[q] = paid[q]
  PROVE  ClmmPart(q)'
BY StillCounts DEF Calm, ClmmPart, Checked, ClmmDone, Exists

LEMMA CalmAmm ==
  ASSUME RouteTyped, LifeInv, RouteTyped', NEW q \in Requests, Calm(q), AmmPart(q),
         UNCHANGED <<approved, lpApproved, lp, reserves>>, ammHeld'[q] = ammHeld[q]
  PROVE  AmmPart(q)'
BY StillCounts DEF Calm, AmmPart, AmmChecked

LEMMA CalmWrap ==
  ASSUME RouteTyped, LifeInv, RouteTyped', NEW q \in Requests, Calm(q), WrapPart(q),
         wethBalance' = wethBalance
  PROVE  WrapPart(q)'
BY StillCounts DEF Calm, WrapPart, WrapObstacle

\* A step of one family leaves the other requests of another one calm.
LEMMA CalmInv ==
  ASSUME Inv, RouteTyped', AllCalm,
         UNCHANGED <<allowance, mine, liquidity, owed, price, weth, held, paid>>,
         UNCHANGED ammVars, wethBalance' = wethBalance
  PROVE  ClmmInv' /\ AmmInv' /\ WrapInv'
<1>1. \A q \in Requests : op'[q] = op[q] /\ Calm(q)
  BY DEF AllCalm, Calm
<1>2. ClmmInv'
  BY <1>1, CalmClmm DEF Inv, Typed, ClmmInv
<1>3. AmmInv'
  BY <1>1, CalmAmm DEF Inv, Typed, AmmInv, ammVars
<1>4. WrapInv'
  BY <1>1, CalmWrap DEF Inv, Typed, WrapInv
<1> QED BY <1>2, <1>3, <1>4

\* The families are disjoint.
LEMMA FamiliesApart ==
  /\ ClmmOps \cap AmmOps = {} /\ ClmmOps \cap WrapOps = {} /\ AmmOps \cap WrapOps = {}
BY DEF ClmmOps, UniswapOps, PancakeswapOps, AmmOps, WrapOps

-----------------------------------------------------------------------------
(***************************************************************************)
(* The CLMM routes.                                                        *)
(***************************************************************************)

\* What the routes take along.
LEMMA ExceptPrepared ==
  ASSUME NEW e \in Prepared
  PROVE  /\ \A n \in Nat, uses \in SUBSET Spends : [e EXCEPT !.liquidity = n, !.uses = uses] \in Prepared
         /\ \A n, m \in Nat : [e EXCEPT !.liquidity = n, !.removed = m] \in Prepared
         /\ \A fees \in 0..1 : [e EXCEPT !.fees = fees] \in Prepared
         /\ \A n, m \in Nat, fees \in 0..1 :
              [e EXCEPT !.liquidity = n, !.removed = m, !.fees = fees, !.burn = TRUE] \in Prepared
         /\ \A p \in 0..2 : [e EXCEPT !.price = p] \in Prepared
         /\ \A uses \in SUBSET Spends : [e EXCEPT !.uses = uses] \in Prepared
BY DEF Prepared

LEMMA TakenTyped ==
  /\ \A n \in Nat, uses \in SUBSET Spends : [Empty EXCEPT !.liquidity = n, !.uses = uses] \in Prepared
  /\ \A n, m \in Nat : [Empty EXCEPT !.liquidity = n, !.removed = m] \in Prepared
  /\ \A fees \in 0..1 : [Empty EXCEPT !.fees = fees] \in Prepared
  /\ \A n, m \in Nat, fees \in 0..1 :
       [Empty EXCEPT !.liquidity = n, !.removed = m, !.fees = fees, !.burn = TRUE] \in Prepared
  /\ \A p \in 0..2 : [Empty EXCEPT !.price = p] \in Prepared
  /\ \A uses \in SUBSET Spends : [Empty EXCEPT !.uses = uses] \in Prepared
<1>0. Empty \in Prepared
  BY DEF Empty, Prepared
<1> QED BY <1>0, ExceptPrepared, Zenon

\* Whatever the route, a request is refused, or goes on with what it has checked.
LEMMA ClmmChecksOrRefuses ==
  ASSUME Typed, NEW r \in Requests, op[r] \in ClmmOps, ClmmChecks(r)
  PROVE  /\ pc[r] = "start" /\ ReadsOnly
         /\ \/ Reject(r) \/ Fault(r)
            \/ \E h \in Prepared : Prepare(r, h) /\ Checked(r, h)
<1> SUFFICES /\ ReadsOnly
             /\ \/ Reject(r) \/ Fault(r)
                \/ \E h \in Prepared : Prepare(r, h) /\ Checked(r, h)
  BY DEF ClmmChecks, Starts
<1>0. /\ at \in Positions /\ (Exists(at) => liquidity[at] \in Nat) /\ owed[at] \in 0..1
      /\ allowance \in [Spends -> BOOLEAN]
  BY ClmmAssumption DEF Typed, ClmmTyped, Exists, NoNft
<1>1. CASE Opens(op[r]) /\ UniswapOpen(r)
  <2>1. ~Adds(op[r]) /\ ~TakesOut(op[r]) /\ ~Creates(op[r]) /\ ~Closes(op[r])
    BY <1>1 DEF Opens, Adds, TakesOut, Removes, Collects, Closes, Creates
  <2>2. PICK uses \in (SUBSET Tokens) \ {{}} :
          IF \A t \in uses : allowance[t]
          THEN Prepare(r, [Empty EXCEPT !.liquidity = 1, !.uses = uses])
          ELSE Reject(r)
    BY <1>1 DEF UniswapOpen
  <2> DEFINE h == [Empty EXCEPT !.liquidity = 1, !.uses = uses]
  <2>3. h \in Prepared
    BY TakenTyped, <2>2 DEF Spends, Tokens
  <2>4. h.liquidity = 1 /\ h.fees = 0 /\ h.uses = uses /\ h.burn = FALSE /\ h.price = 0
    BY DEF Empty
  <2> HIDE DEF h
  <2>5. (\A t \in uses : allowance[t]) => Checked(r, h)
    BY <2>1, <2>4 DEF Checked
  <2> QED BY <1>1, <2>2, <2>3, <2>5 DEF h, UniswapOpen
<1>2. CASE Adds(op[r]) /\ UniswapAdd(r)
  <2>1. ~TakesOut(op[r]) /\ ~Creates(op[r]) /\ ~Closes(op[r])
    BY <1>2 DEF Adds, TakesOut, Removes, Collects, Closes, Creates
  <2>2. CASE Exists(at)
    <3>1. PICK uses \in (SUBSET Tokens) \ {{}} :
            IF \A t \in uses : t = weth \/ allowance[t]
            THEN Prepare(r, [Empty EXCEPT !.liquidity = 1, !.uses = uses])
            ELSE Reject(r)
      BY <1>2, <2>2 DEF UniswapAdd
    <3> DEFINE h == [Empty EXCEPT !.liquidity = 1, !.uses = uses]
    <3>2. h \in Prepared
      BY TakenTyped, <3>1 DEF Spends, Tokens
    <3>3. h.liquidity = 1 /\ h.fees = 0 /\ h.uses = uses /\ h.burn = FALSE /\ h.price = 0
      BY DEF Empty
    <3> HIDE DEF h
    <3>4. (\A t \in uses : t = weth \/ allowance[t]) => Checked(r, h)
      BY <1>2, <2>1, <2>2, <3>3 DEF Checked
    <3> QED BY <1>2, <3>1, <3>2, <3>4 DEF h, UniswapAdd
  <2>3. CASE ~Exists(at)
    BY <1>2, <2>3 DEF UniswapAdd
  <2> QED BY <2>2, <2>3
<1>3. CASE Removes(op[r]) /\ UniswapRemove(r)
  <2>1. TakesOut(op[r]) /\ ~Adds(op[r]) /\ ~Creates(op[r]) /\ ~Closes(op[r])
    BY <1>3 DEF Adds, TakesOut, Removes, Collects, Closes, Creates
  <2>2. CASE Owned(at)
    <3>1. PICK part \in {liquidity[at] \div 2, liquidity[at]} :
            IF part > 0
            THEN Prepare(r, [Empty EXCEPT !.liquidity = part, !.removed = WithFees(part)])
            ELSE Fault(r)
      BY <1>3, <2>2 DEF UniswapRemove
    <3>2. part \in Nat /\ part <= liquidity[at] /\ Exists(at) /\ at \in mine
      BY <1>0, <2>2, <3>1 DEF Owned
    <3> DEFINE h == [Empty EXCEPT !.liquidity = part, !.removed = WithFees(part)]
    <3>3. h \in Prepared
      <4>1. WithFees(part) \in Nat
        BY <1>0, <3>2 DEF WithFees
      <4> QED BY <4>1, TakenTyped, <3>2
    <3>4. /\ h.liquidity = part /\ h.uses = {} /\ h.burn = FALSE /\ h.price = 0
          /\ ToldOnce(op[r], h) = part + owed[at]
      BY <1>0, <2>1, <3>2 DEF Empty, ToldOnce, WithFees
    <3> HIDE DEF h
    <3>5. Checked(r, h)
      BY <2>1, <3>2, <3>4 DEF Checked
    <3> QED BY <1>3, <3>1, <3>3, <3>5 DEF h, UniswapRemove
  <2>3. CASE ~Owned(at)
    BY <1>3, <2>3 DEF UniswapRemove
  <2> QED BY <2>2, <2>3
<1>4. CASE Collects(op[r]) /\ UniswapCollect(r)
  <2>1. TakesOut(op[r]) /\ ~Adds(op[r]) /\ ~Creates(op[r]) /\ ~Closes(op[r])
    BY <1>4 DEF Adds, TakesOut, Removes, Collects, Closes, Creates
  <2> DEFINE h == [Empty EXCEPT !.fees = owed[at]]
  <2>2. h \in Prepared
    BY <1>0, TakenTyped
  <2>3. /\ h.liquidity = 0 /\ h.uses = {} /\ h.burn = FALSE /\ h.price = 0
        /\ ToldOnce(op[r], h) = 0 + owed[at]
    BY <1>0, <2>1 DEF Empty, ToldOnce
  <2> HIDE DEF h
  <2>4. Owned(at) => Checked(r, h)
    BY <1>0, <2>1, <2>3 DEF Checked, Owned
  <2> QED BY <1>4, <2>2, <2>4 DEF h, UniswapCollect
<1>5. CASE Closes(op[r]) /\ UniswapClose(r)
  <2>1. TakesOut(op[r]) /\ ~Adds(op[r]) /\ ~Creates(op[r])
    BY <1>5 DEF Adds, TakesOut, Removes, Collects, Closes, Creates
  <2> DEFINE h == [Empty EXCEPT !.liquidity = liquidity[at], !.removed = WithFees(liquidity[at]),
                             !.fees = owed[at], !.burn = TRUE]
  <2>2. Exists(at) => h \in Prepared
    <3>1. Exists(at) => WithFees(liquidity[at]) \in Nat
      BY <1>0 DEF WithFees
    <3> QED BY <1>0, <3>1, TakenTyped
  <2>3. /\ h.liquidity = liquidity[at] /\ h.uses = {} /\ h.burn = TRUE /\ h.price = 0
        /\ Exists(at) => ToldOnce(op[r], h) = liquidity[at] + owed[at]
    BY <1>0, <1>5 DEF Empty, ToldOnce, WithFees
  <2> HIDE DEF h
  <2>4. Owned(at) => Exists(at) /\ Checked(r, h)
    BY <1>0, <1>5, <2>1, <2>3 DEF Checked, Owned
  <2> QED BY <1>5, <2>2, <2>4 DEF h, UniswapClose
<1>6. CASE Creates(op[r]) /\ UniswapCreate(r)
  <2>1. ~TakesOut(op[r]) /\ ~Adds(op[r]) /\ ~Closes(op[r])
    BY <1>6 DEF Adds, TakesOut, Removes, Collects, Closes, Creates
  <2>2. CASE price = 0
    <3>1. PICK p \in 1..2 : Prepare(r, [Empty EXCEPT !.price = p])
      BY <1>6, <2>2 DEF UniswapCreate
    <3> DEFINE h == [Empty EXCEPT !.price = p]
    <3>2. h \in Prepared
      <4>1. p \in 0..2
        OBVIOUS
      <4> QED BY <4>1, TakenTyped
    <3>3. h.liquidity = 0 /\ h.fees = 0 /\ h.uses = {} /\ h.burn = FALSE /\ h.price = p
      BY DEF Empty
    <3> HIDE DEF h
    <3>4. Checked(r, h)
      BY <2>1, <2>2, <3>3 DEF Checked
    <3> QED BY <1>6, <3>1, <3>2, <3>4 DEF h, UniswapCreate
  <2>3. CASE price # 0
    BY <1>6, <2>3 DEF UniswapCreate
  <2> QED BY <2>2, <2>3
<1>7. CASE op[r] \in {"uniswap swap", "pancakeswap swap"} /\ UniswapSwap(r)
  <2>1. ~TakesOut(op[r]) /\ ~Adds(op[r]) /\ ~Closes(op[r]) /\ ~Creates(op[r])
    BY <1>7 DEF Adds, TakesOut, Removes, Collects, Closes, Creates
  <2> DEFINE h == [Empty EXCEPT !.uses = {"swap"}]
  <2>2. h \in Prepared
    BY TakenTyped DEF Spends, Tokens
  <2>3. h.liquidity = 0 /\ h.fees = 0 /\ h.uses = {"swap"} /\ h.burn = FALSE /\ h.price = 0
    BY DEF Empty
  <2> HIDE DEF h
  <2>4. allowance["swap"] => Checked(r, h)
    BY <2>1, <2>3 DEF Checked
  <2> QED BY <1>7, <2>2, <2>4 DEF h, UniswapSwap
<1> QED
  BY <1>1, <1>2, <1>3, <1>4, <1>5, <1>6, <1>7
  DEF ClmmChecks, Starts, Opens, Adds, Removes, Collects, Closes, Creates, PancakeswapOpen,
      PancakeswapAdd, PancakeswapRemove, PancakeswapCollect, PancakeswapClose,
      PancakeswapCreate, PancakeswapSwap

LEMMA ClmmStepInv ==
  ASSUME Inv, NEW r \in Requests, ClmmStep(r), UNCHANGED <<ammVars, wethBalance>>
  PROVE  Inv'
<1> USE DEF Inv, Typed
<1>1. op[r] \in ClmmOps
  BY DEF ClmmStep
<1>2. CASE (Interrupted(r) \/ Broadcast(r, ClmmTable(r)) \/ Answered(r, ClmmTable(r)))
           /\ UNCHANGED clmmVars
  <2>1. RouteTyped' /\ LifeInv' /\ AllCalm
    BY <1>1, <1>2, ClmmTableSound, QuietStep
  <2>2. ClmmTyped' /\ AmmTyped' /\ wethBalance' \in Nat
    BY <1>2 DEF ClmmTyped, AmmTyped, clmmVars, chainVars, ammVars
  <2> QED BY <1>2, <2>1, <2>2, CalmInv DEF clmmVars, chainVars
<1>3. CASE ReadsOnly /\ pc[r] = "start" /\ (Reject(r) \/ Fault(r))
  <2>1. Interrupted(r) /\ held' = held
    BY <1>3 DEF Interrupted, Reject, Fault
  <2>2. RouteTyped' /\ LifeInv' /\ AllCalm
    BY <1>1, <2>1, ClmmTableSound, QuietStep
  <2>3. ClmmTyped' /\ AmmTyped' /\ wethBalance' \in Nat
    BY <1>3, <2>1 DEF ReadsOnly, ClmmTyped, AmmTyped, chainVars, ammVars
  <2> QED BY <1>3, <2>1, <2>2, <2>3, CalmInv DEF ReadsOnly, chainVars
<1>4. ASSUME ReadsOnly, pc[r] = "start", NEW h \in Prepared, Prepare(r, h), Checked(r, h)
      PROVE  Inv'
  <2>1. /\ RouteTyped' /\ LifeInv' /\ OthersCalm(r) /\ op' = op
        /\ executed' = executed /\ since'[r] = executed /\ tx'[r] = "unsent"
    BY <1>4, ProceedStep DEF Prepare
  <2>2. held \in [Requests -> Prepared] /\ held' = [held EXCEPT ![r] = h]
    BY <1>4 DEF Prepare, ClmmTyped
  <2>3. ClmmTyped' /\ AmmTyped' /\ wethBalance' \in Nat
    BY <1>4, <2>2 DEF ReadsOnly, ClmmTyped, AmmTyped, chainVars, ammVars
  <2>4. ClmmPart(r)'
    BY <1>4, <2>1, <2>2 DEF ClmmPart, Checked, ReadsOnly, chainVars, Exists
  <2>5. ASSUME NEW q \in Requests, q # r, op[q] \in ClmmOps
        PROVE  ClmmPart(q)'
    <3>1. Calm(q) /\ ClmmPart(q)
      BY <2>1, <2>5 DEF OthersCalm, ClmmInv
    <3>2. held'[q] = held[q]
      BY <2>2, <2>5
    <3> QED BY <1>4, <2>1, <3>1, <3>2, CalmClmm DEF ReadsOnly, chainVars
  <2>6. ClmmInv'
    BY <2>1, <2>4, <2>5 DEF ClmmInv
  <2>7. AmmInv' /\ WrapInv'
    <3>1. \A q \in Requests : op[q] \notin ClmmOps => Calm(q)
      BY <1>1, <2>1 DEF OthersCalm
    <3> QED BY <2>1, <3>1, CalmAmm, CalmWrap, FamiliesApart DEF AmmInv, WrapInv, ammVars
  <2> QED BY <2>1, <2>3, <2>6, <2>7
<1> QED BY <1>1, <1>2, <1>3, <1>4, ClmmChecksOrRefuses DEF ClmmStep

\* What was checked keeps the transaction from failing.
LEMMA ClmmNoObstacle ==
  ASSUME NEW r \in Requests, op[r] \in ClmmOps, ClmmTyped, Checked(r, held[r])
  PROVE  Obstacle(r) = "none" \/ (Obstacle(r) = "allowance" /\ Adds(op[r]) /\ weth \in held[r].uses)
<1>1. \A s \in held[r].uses : allowance[s] \/ (Adds(op[r]) /\ s = weth)
  BY DEF Checked
<1>2. liquidity[at] \in Nat \cup {NoNft} /\ held[r].liquidity \in Nat
  BY ClmmAssumption DEF ClmmTyped, Prepared
<1>3. CASE \E s \in held[r].uses : ~allowance[s]
  <2>1. Adds(op[r]) /\ weth \in held[r].uses
    BY <1>1, <1>3
  <2>2. ~TakesOut(op[r]) /\ Exists(at)
    BY <2>1 DEF Checked, Adds, TakesOut, Removes, Collects, Closes
  <2>3. ~held[r].burn
    BY <2>1 DEF Checked, Adds, Closes
  <2>4. Obstacle(r) = "allowance"
    BY <1>3, <2>1, <2>2, <2>3 DEF Obstacle
  <2> QED BY <2>1, <2>4
<1>4. CASE \A s \in held[r].uses : allowance[s]
  BY <1>2, <1>4 DEF Obstacle, Checked, NoNft
<1> QED BY <1>3, <1>4

\* What an obstacle is, and what a transaction without one has found.
LEMMA ObstacleIs ==
  ASSUME NEW r \in Requests, ClmmTyped
  PROVE  /\ Obstacle(r) \in Reasons
         /\ Obstacle(r) = "none" =>
              /\ Adds(op[r]) \/ TakesOut(op[r]) => Exists(at)
              /\ TakesOut(op[r]) => held[r].liquidity <= liquidity[at]
<1>1. liquidity[at] \in Nat \cup {NoNft} /\ held[r].liquidity \in Nat
  BY ClmmAssumption DEF ClmmTyped, Prepared
<1>2. Obstacle(r) \in Reasons
  BY DEF Obstacle, Reasons
<1>3. ASSUME Obstacle(r) = "none", Adds(op[r]) \/ TakesOut(op[r])
      PROVE  Exists(at) /\ (TakesOut(op[r]) => held[r].liquidity <= liquidity[at])
  <2>1. ~(Adds(op[r]) /\ ~Exists(at)) /\ ~(TakesOut(op[r]) /\ ~Exists(at))
        /\ ~(TakesOut(op[r]) /\ liquidity[at] < held[r].liquidity)
    BY <1>3 DEF Obstacle
  <2>2. Exists(at) /\ liquidity[at] \in Nat
    BY <1>1, <1>3, <2>1 DEF Exists
  <2> QED BY <1>1, <2>1, <2>2
<1> QED BY <1>2, <1>3

LEMMA ClmmExecutesInv ==
  ASSUME Inv, NEW r \in Requests, ClmmExecutes(r), UNCHANGED <<ammVars, wethBalance>>
  PROVE  Inv'
<1> USE DEF Inv, Typed
<1>1. op[r] \in ClmmOps /\ Executes(r) /\ Spend(r) /\ Obstacle(r) = "none" /\ weth' = weth /\ held' = held
  BY DEF ClmmExecutes
<1>2. /\ RouteTyped' /\ LifeInv' /\ OthersCalm(r)
      /\ op' = op /\ executed' = executed + 1 /\ tx'[r] = "success" /\ pc'[r] # "send"
      /\ Awaits(r) /\ HasRead(r) /\ alone'[r] = (executed = since[r])
      /\ \A q \in Requests : since'[q] # executed'
  BY <1>1, ExecutesStep
<1>3. ClmmPart(r)
  BY <1>1 DEF ClmmInv
<1>4. /\ at \in Positions /\ liquidity \in [Positions -> Nat \cup {NoNft}] /\ mine \subseteq Positions
      /\ owed \in [Positions -> 0..1] /\ growth \in [Positions -> 0..1] /\ price \in 0..2
      /\ held[r] \in Prepared
      /\ paid \in [Requests -> [liquidity : Nat, fees : 0..1]]
  BY ClmmAssumption DEF ClmmTyped
<1>5. allowance' \in [Spends -> BOOLEAN]
  BY <1>1 DEF Spend, ClmmTyped
<1>6. held[r].liquidity \in Nat /\ held[r].fees \in 0..1 /\ held[r].price \in 0..2
  BY <1>4 DEF Prepared
<1>7. /\ Adds(op[r]) \/ TakesOut(op[r]) => Exists(at)
      /\ TakesOut(op[r]) => held[r].liquidity <= liquidity[at]
  BY <1>1, ObstacleIs
<1> DEFINE Others == /\ ~Exists(at) => ~Exists(at)'
                     /\ \A q \in Requests \ {r} : paid'[q] = paid[q]
                     /\ price # 0 => price' = price
           Kept == /\ mine' \subseteq Positions
                   /\ liquidity' \in [Positions -> Nat \cup {NoNft}]
                   /\ owed' \in [Positions -> 0..1] /\ growth' \in [Positions -> 0..1]
                   /\ price' \in 0..2
                   /\ paid' \in [Requests -> [liquidity : Nat, fees : 0..1]]
\* Whatever the route, what others have done stays, and this request has done its part.
<1>8. Others /\ Kept /\ ClmmDone(r)'
  <2>1. CASE Opens(op[r])
    <3>1. ~Adds(op[r]) /\ ~TakesOut(op[r]) /\ ~Closes(op[r]) /\ ~Creates(op[r])
      BY <2>1 DEF Opens, Adds, TakesOut, Removes, Collects, Closes, Creates
    <3>2. NextId \in Unminted
      <4>1. Unminted # {}
        BY <2>1, <3>1 DEF ClmmExecutes
      <4> QED BY <4>1 DEF NextId
    <3>3. NextId # at /\ NextId \in Positions
      BY <3>2 DEF Unminted
    <3>4. /\ mine' = mine \cup {NextId}
          /\ liquidity' = [liquidity EXCEPT ![NextId] = held[r].liquidity]
          /\ UNCHANGED <<owed, growth, price, paid>>
      BY <2>1, <3>1 DEF ClmmExecutes
    <3>5. Others /\ Kept
      BY <1>4, <1>6, <3>3, <3>4 DEF Exists
    <3>6. ClmmDone(r)'
      BY <1>2, <3>1 DEF ClmmDone
    <3> QED BY <3>5, <3>6
  <2>2. CASE Adds(op[r])
    <3>1. ~Opens(op[r]) /\ ~TakesOut(op[r]) /\ ~Closes(op[r]) /\ ~Creates(op[r])
      BY <2>2 DEF Opens, Adds, TakesOut, Removes, Collects, Closes, Creates
    <3>2. /\ liquidity' = [liquidity EXCEPT ![at] = @ + held[r].liquidity]
          /\ owed' = [owed EXCEPT ![at] = IF growth[at] = 1 THEN 1 ELSE @]
          /\ growth' = [growth EXCEPT ![at] = 0]
          /\ UNCHANGED <<mine, price, paid>>
      BY <2>2, <3>1 DEF ClmmExecutes
    <3>3. Exists(at)
      BY <1>7, <2>2
    <3>4. liquidity[at] \in Nat
      BY <1>4, <3>3 DEF Exists
    <3>5. Others /\ Kept
      BY <1>4, <1>6, <3>2, <3>3, <3>4
    <3>6. ClmmDone(r)'
      BY <1>2, <3>1 DEF ClmmDone
    <3> QED BY <3>5, <3>6
  <2>3. CASE TakesOut(op[r])
    <3>1. ~Opens(op[r]) /\ ~Adds(op[r]) /\ ~Creates(op[r])
      BY <2>3 DEF Opens, Adds, TakesOut, Removes, Collects, Closes, Creates
    <3> DEFINE out == [liquidity |-> held[r].liquidity,
                       fees |-> IF owed[at] + growth[at] > 0 THEN 1 ELSE 0]
    <3>2. /\ liquidity' = [liquidity EXCEPT ![at] = IF held[r].burn THEN NoNft ELSE @ - held[r].liquidity]
          /\ mine' = IF held[r].burn THEN mine \ {at} ELSE mine
          /\ paid' = [paid EXCEPT ![r] = out]
          /\ owed' = [owed EXCEPT ![at] = 0]
          /\ growth' = [growth EXCEPT ![at] = 0]
          /\ price' = price
      BY <2>3, <3>1 DEF ClmmExecutes
    <3>3. Exists(at) /\ held[r].liquidity <= liquidity[at]
      BY <1>7, <2>3
    <3>4. liquidity[at] \in Nat
      BY <1>4, <3>3 DEF Exists
    <3>5. out \in [liquidity : Nat, fees : 0..1]
      BY <1>4, <1>6
    <3>6. out.liquidity = held[r].liquidity /\ out.fees >= owed[at]
      BY <1>4, <1>6
    <3> HIDE DEF out
    <3>7. Kept
      BY <1>4, <1>6, <3>2, <3>3, <3>4, <3>5
    <3>8. Others
      BY <1>4, <3>2, <3>3, <3>5
    <3>9. paid'[r] = out
      BY <1>4, <3>2, <3>5
    <3>10. Closes(op[r]) => ~Exists(at)'
      <4>1. Closes(op[r]) => held[r].burn
        BY <1>2, <1>3 DEF ClmmPart
      <4>2. held[r].burn => liquidity'[at] = NoNft
        BY <1>4, <3>2
      <4> QED BY <4>1, <4>2 DEF Exists
    <3>11. alone'[r] => out.liquidity + out.fees >= ToldOnce(op[r], held[r])
      <4>1. alone'[r] => ToldOnce(op[r], held[r]) = held[r].liquidity + owed[at]
        BY <1>2, <1>3, <2>3 DEF ClmmPart, Checked
      <4> QED BY <1>4, <1>6, <3>5, <3>6, <4>1
    <3>12. ClmmDone(r)'
      BY <1>1, <1>2, <3>1, <3>6, <3>9, <3>10, <3>11 DEF ClmmDone
    <3> QED BY <3>7, <3>8, <3>12
  <2>4. CASE Creates(op[r])
    <3>1. ~Opens(op[r]) /\ ~Adds(op[r]) /\ ~TakesOut(op[r]) /\ ~Closes(op[r])
      BY <2>4 DEF Opens, Adds, TakesOut, Removes, Collects, Closes, Creates
    <3>2. /\ price' = IF price = 0 THEN held[r].price ELSE price
          /\ UNCHANGED <<mine, liquidity, owed, growth, paid>>
      BY <2>4, <3>1 DEF ClmmExecutes
    <3>3. held[r].price # 0
      BY <1>2, <1>3, <2>4 DEF ClmmPart
    <3>4. alone'[r] => price = 0
      BY <1>2, <1>3, <2>4 DEF ClmmPart, Checked
    <3>5. Others /\ Kept
      BY <1>4, <1>6, <3>2 DEF Exists
    <3>6. ClmmDone(r)'
      BY <1>1, <1>2, <3>1, <3>2, <3>3, <3>4 DEF ClmmDone
    <3> QED BY <3>5, <3>6
  <2>5. CASE ~Opens(op[r]) /\ ~Adds(op[r]) /\ ~TakesOut(op[r]) /\ ~Creates(op[r])
    <3>1. UNCHANGED <<mine, liquidity, owed, growth, price, paid>>
      BY <2>5 DEF ClmmExecutes
    <3>2. ClmmDone(r)'
      BY <1>2, <2>5 DEF ClmmDone, TakesOut
    <3> QED BY <1>4, <3>1, <3>2 DEF Exists
  <2> QED BY <2>1, <2>2, <2>3, <2>4, <2>5
<1>9. ClmmTyped'
  BY <1>1, <1>5, <1>8 DEF ClmmTyped
<1>10. AmmTyped' /\ wethBalance' \in Nat
  BY DEF AmmTyped, ammVars
<1>11. ClmmPart(r)'
  BY <1>1, <1>2, <1>3, <1>8 DEF ClmmPart
<1>12. ASSUME NEW q \in Requests, q # r, op[q] \in ClmmOps
       PROVE  ClmmPart(q)'
  <2>1. Calm(q) /\ ClmmPart(q)
    BY <1>2, <1>12 DEF OthersCalm, ClmmInv
  <2>2. tx[q] = "success" /\ ClmmDone(q) /\ alone'[q] = alone[q] => ClmmDone(q)'
    BY <1>1, <1>2, <1>8, <1>12 DEF ClmmDone
  <2> QED BY <1>1, <1>2, <2>1, <2>2 DEF ClmmPart, Calm
<1>13. ClmmInv'
  BY <1>2, <1>11, <1>12 DEF ClmmInv
<1>14. AmmInv' /\ WrapInv'
  <2>1. \A q \in Requests : op[q] \notin ClmmOps => Calm(q)
    BY <1>1, <1>2 DEF OthersCalm
  <2> QED BY <1>2, <2>1, CalmAmm, CalmWrap, FamiliesApart DEF AmmInv, WrapInv, ammVars
<1> QED BY <1>2, <1>9, <1>10, <1>13, <1>14

LEMMA ClmmFailsInv ==
  ASSUME Inv, NEW r \in Requests, ClmmFails(r), UNCHANGED <<ammVars, wethBalance>>
  PROVE  Inv'
<1> USE DEF Inv, Typed
<1>1. op[r] \in ClmmOps /\ UNCHANGED clmmVars
  BY DEF ClmmFails
<1>2. ClmmTyped' /\ AmmTyped' /\ wethBalance' \in Nat
  BY <1>1 DEF ClmmTyped, AmmTyped, clmmVars, chainVars, ammVars
<1>3. CASE Dropped(r)
  <2>1. RouteTyped' /\ LifeInv' /\ AllCalm
    BY <1>3, DroppedStep
  <2> QED BY <1>1, <1>2, <2>1, CalmInv DEF clmmVars, chainVars
<1>4. CASE Reverts(r, Obstacle(r))
  <2>1. /\ RouteTyped' /\ LifeInv' /\ OthersCalm(r)
        /\ op' = op /\ executed' = executed /\ tx'[r] = "reverted" /\ pc'[r] # "send"
        /\ Awaits(r) /\ HasRead(r) /\ alone'[r] = (executed = since[r])
        /\ why'[r] \in {Obstacle(r), "price"} \ {"none"}
    BY <1>4, ObstacleIs, RevertsStep
  <2>2. ClmmPart(r) /\ held' = held /\ weth' = weth
    BY <1>1 DEF ClmmInv, clmmVars
  <2>3. executed = since[r] =>
          Obstacle(r) = "none" \/ (Obstacle(r) = "allowance" /\ Adds(op[r]) /\ weth \in held[r].uses)
    BY <1>1, <2>1, <2>2, ClmmNoObstacle DEF ClmmPart
  <2>4. ClmmPart(r)'
    BY <2>1, <2>2, <2>3 DEF ClmmPart, Awaits
  <2>5. ASSUME NEW q \in Requests, q # r, op[q] \in ClmmOps
        PROVE  ClmmPart(q)'
    <3>1. Calm(q) /\ ClmmPart(q)
      BY <2>1, <2>5 DEF OthersCalm, ClmmInv
    <3> QED BY <1>1, <2>1, <3>1, CalmClmm DEF clmmVars, chainVars
  <2>6. ClmmInv'
    BY <2>1, <2>4, <2>5 DEF ClmmInv
  <2>7. AmmInv' /\ WrapInv'
    <3>1. \A q \in Requests : op[q] \notin ClmmOps => Calm(q)
      BY <1>1, <2>1 DEF OthersCalm
    <3> QED BY <2>1, <3>1, CalmAmm, CalmWrap, FamiliesApart DEF AmmInv, WrapInv, ammVars
  <2> QED BY <1>2, <2>1, <2>6, <2>7
<1> QED BY <1>3, <1>4 DEF ClmmFails

LEMMA AccrueInv ==
  ASSUME Inv, Accrue(at), UNCHANGED <<ammVars, wethBalance>>
  PROVE  Inv'
<1> USE DEF Inv, Typed
<1>1. UNCHANGED <<op, pc, tx, answer, executed, since, alone, why>>
  BY DEF Accrue, routeVars
<1>2. RouteTyped' /\ LifeInv' /\ AllCalm
  BY <1>1 DEF RouteTyped, LifeInv, LifeOf, AllCalm, Calm, Awaits, HasRead
<1>3. ClmmTyped'
  BY ClmmAssumption DEF Accrue, ClmmTyped
<1>4. AmmTyped' /\ wethBalance' \in Nat
  BY DEF AmmTyped, ammVars
<1> QED BY <1>2, <1>3, <1>4, CalmInv DEF Accrue

-----------------------------------------------------------------------------
(***************************************************************************)
(* The AMM routes.                                                         *)
(***************************************************************************)

\* What the routes take along.
LEMMA AmmTakenTyped ==
  /\ \A uses \in SUBSET Sides : [AmmEmpty EXCEPT !.uses = uses, !.limit = TRUE] \in AmmPrepared
  /\ \A n \in Nat : [AmmEmpty EXCEPT !.lp = n, !.limit = TRUE] \in AmmPrepared
  /\ \A uses \in SUBSET Sides, p \in 0..2 :
       [AmmEmpty EXCEPT !.uses = uses, !.price = p, !.limit = TRUE] \in AmmPrepared
<1>1. AmmEmpty \in AmmPrepared
  BY DEF AmmEmpty, AmmPrepared
<1>2. ASSUME NEW e \in AmmPrepared
      PROVE  /\ \A uses \in SUBSET Sides : [e EXCEPT !.uses = uses, !.limit = TRUE] \in AmmPrepared
             /\ \A n \in Nat : [e EXCEPT !.lp = n, !.limit = TRUE] \in AmmPrepared
             /\ \A uses \in SUBSET Sides, p \in 0..2 :
                  [e EXCEPT !.uses = uses, !.price = p, !.limit = TRUE] \in AmmPrepared
  BY DEF AmmPrepared
<1> QED BY <1>1, <1>2, Zenon

\* Whatever the route, a request is refused, or goes on with what it has checked.
LEMMA AmmChecksOrRefuses ==
  ASSUME Typed, NEW r \in Requests, op[r] \in AmmOps, AmmChecks(r)
  PROVE  /\ pc[r] = "start" /\ AmmReadsOnly
         /\ \/ AmmReject(r) \/ AmmFault(r)
            \/ \E h \in AmmPrepared :
                 /\ AmmPrepare(r, h) /\ AmmChecked(r, h)
                 /\ AmmCreates(op[r]) => h.limit /\ h.price # 0
<1> SUFFICES /\ AmmReadsOnly
             /\ \/ AmmReject(r) \/ AmmFault(r)
                \/ \E h \in AmmPrepared :
                     /\ AmmPrepare(r, h) /\ AmmChecked(r, h)
                     /\ AmmCreates(op[r]) => h.limit /\ h.price # 0
  BY DEF AmmChecks, Starts
<1>0. Erc20Sides \in SUBSET Sides /\ lp \in Nat
  BY DEF Erc20Sides, Typed, AmmTyped
<1>1. CASE AmmAdds(op[r]) /\ UniswapV2Add(r)
  <2>1. ~AmmRemoves(op[r]) /\ ~AmmCreates(op[r])
    BY <1>1 DEF AmmAdds, AmmRemoves, AmmCreates
  <2> DEFINE h == [AmmEmpty EXCEPT !.uses = Erc20Sides, !.limit = TRUE]
  <2>2. h \in AmmPrepared
    BY <1>0, AmmTakenTyped
  <2>3. h.uses = Erc20Sides
    BY DEF AmmEmpty
  <2> HIDE DEF h
  <2>4. Erc20Sides \subseteq approved => AmmChecked(r, h)
    BY <2>1, <2>3 DEF AmmChecked
  <2> QED BY <1>1, <2>1, <2>2, <2>4 DEF h, UniswapV2Add
<1>2. CASE AmmRemoves(op[r]) /\ UniswapV2Remove(r)
  <2>1. ~AmmCreates(op[r])
    BY <1>2 DEF AmmRemoves, AmmCreates
  <2>2. CASE lp # 0
    <3>1. PICK part \in {lp \div 2, lp} :
            IF part = 0 \/ lpApproved
            THEN AmmPrepare(r, [AmmEmpty EXCEPT !.lp = part, !.limit = TRUE])
            ELSE AmmFault(r)
      BY <1>2, <2>2 DEF UniswapV2Remove
    <3>2. part \in Nat /\ part <= lp
      BY <1>0, <3>1
    <3> DEFINE h == [AmmEmpty EXCEPT !.lp = part, !.limit = TRUE]
    <3>3. h \in AmmPrepared
      BY <3>2, AmmTakenTyped
    <3>4. h.uses = {} /\ h.lp = part
      BY DEF AmmEmpty
    <3> HIDE DEF h
    <3>5. part = 0 \/ lpApproved => AmmChecked(r, h)
      BY <2>1, <3>2, <3>4 DEF AmmChecked
    <3> QED BY <1>2, <2>1, <3>1, <3>3, <3>5 DEF h, UniswapV2Remove
  <2>3. CASE lp = 0
    BY <1>2, <2>3 DEF UniswapV2Remove
  <2> QED BY <2>2, <2>3
<1>3. CASE AmmCreates(op[r]) /\ UniswapV2Create(r)
  <2>1. ~AmmRemoves(op[r])
    BY <1>3 DEF AmmRemoves, AmmCreates
  <2>2. CASE reserves = 0 /\ Erc20Sides \subseteq approved
    <3>1. PICK p \in 1..2 :
            AmmPrepare(r, [AmmEmpty EXCEPT !.uses = Erc20Sides, !.price = p, !.limit = TRUE])
      BY <1>3, <2>2 DEF UniswapV2Create
    <3> DEFINE h == [AmmEmpty EXCEPT !.uses = Erc20Sides, !.price = p, !.limit = TRUE]
    <3>2. p \in 0..2
      OBVIOUS
    <3>3. h \in AmmPrepared
      BY <1>0, <3>2, AmmTakenTyped
    <3>4. h.uses = Erc20Sides /\ h.limit /\ h.price # 0
      BY DEF AmmEmpty
    <3> HIDE DEF h
    <3>5. AmmChecked(r, h)
      BY <2>1, <2>2, <3>4 DEF AmmChecked
    <3> QED BY <1>3, <3>1, <3>3, <3>4, <3>5 DEF h, UniswapV2Create
  <2>3. CASE ~(reserves = 0 /\ Erc20Sides \subseteq approved)
    BY <1>3, <2>3 DEF UniswapV2Create
  <2> QED BY <2>2, <2>3
<1>4. CASE AmmSwaps(op[r]) /\ UniswapV2Swap(r)
  <2>1. ~AmmRemoves(op[r]) /\ ~AmmCreates(op[r])
    BY <1>4 DEF AmmSwaps, AmmRemoves, AmmCreates
  <2>2. PICK s \in Sides :
          IF reserves # 0 /\ s \in approved
          THEN AmmPrepare(r, [AmmEmpty EXCEPT !.uses = {s}, !.limit = TRUE])
          ELSE AmmReject(r)
    BY <1>4 DEF UniswapV2Swap
  <2> DEFINE h == [AmmEmpty EXCEPT !.uses = {s}, !.limit = TRUE]
  <2>3. h \in AmmPrepared
    <3>1. {s} \in SUBSET Sides
      OBVIOUS
    <3> QED BY <3>1, AmmTakenTyped
  <2>4. h.uses = {s}
    BY DEF AmmEmpty
  <2> HIDE DEF h
  <2>5. s \in approved => AmmChecked(r, h)
    BY <2>1, <2>4 DEF AmmChecked
  <2> QED BY <1>4, <2>1, <2>2, <2>3, <2>5 DEF h, UniswapV2Swap
<1> QED
  BY <1>1, <1>2, <1>3, <1>4
  DEF AmmChecks, Starts, AmmAdds, AmmRemoves, AmmCreates, AmmSwaps, PancakeswapV2Add,
      PancakeswapV2Remove, PancakeswapV2Create, PancakeswapV2Swap

LEMMA AmmStepInv ==
  ASSUME Inv, NEW r \in Requests, AmmStep(r), UNCHANGED <<clmmVars, wethBalance>>
  PROVE  Inv'
<1> USE DEF Inv, Typed
<1>1. op[r] \in AmmOps
  BY DEF AmmStep
<1>2. ClmmTyped' /\ wethBalance' \in Nat
      /\ UNCHANGED <<allowance, mine, liquidity, owed, price, weth, held, paid>>
  BY DEF ClmmTyped, clmmVars, chainVars
<1>3. CASE (Interrupted(r) \/ Broadcast(r, AmmTable(r)) \/ Answered(r, AmmTable(r)))
           /\ UNCHANGED ammVars
  <2>1. RouteTyped' /\ LifeInv' /\ AllCalm
    BY <1>1, <1>3, AmmTableSound, QuietStep
  <2>2. AmmTyped'
    BY <1>3 DEF AmmTyped, ammVars
  <2> QED BY <1>2, <1>3, <2>1, <2>2, CalmInv
<1>4. CASE AmmReadsOnly /\ pc[r] = "start" /\ (AmmReject(r) \/ AmmFault(r))
  <2>1. Interrupted(r) /\ UNCHANGED ammVars
    BY <1>4 DEF Interrupted, AmmReject, AmmFault, AmmReadsOnly, ammVars
  <2>2. RouteTyped' /\ LifeInv' /\ AllCalm
    BY <1>1, <2>1, AmmTableSound, QuietStep
  <2>3. AmmTyped'
    BY <2>1 DEF AmmTyped, ammVars
  <2> QED BY <1>2, <2>1, <2>2, <2>3, CalmInv
<1>5. ASSUME AmmReadsOnly, pc[r] = "start", NEW h \in AmmPrepared, AmmPrepare(r, h),
             AmmChecked(r, h), AmmCreates(op[r]) => h.limit /\ h.price # 0
      PROVE  Inv'
  <2>1. /\ RouteTyped' /\ LifeInv' /\ OthersCalm(r) /\ op' = op
        /\ executed' = executed /\ since'[r] = executed /\ tx'[r] = "unsent"
    BY <1>5, ProceedStep DEF AmmPrepare
  <2>2. ammHeld \in [Requests -> AmmPrepared] /\ ammHeld' = [ammHeld EXCEPT ![r] = h]
    BY <1>5 DEF AmmPrepare, AmmTyped
  <2>3. AmmTyped'
    BY <1>5, <2>2 DEF AmmReadsOnly, AmmTyped
  <2>4. AmmPart(r)'
    BY <1>5, <2>1, <2>2 DEF AmmPart, AmmChecked, AmmReadsOnly
  <2>5. ASSUME NEW q \in Requests, q # r, op[q] \in AmmOps
        PROVE  AmmPart(q)'
    <3>1. Calm(q) /\ AmmPart(q)
      BY <2>1, <2>5 DEF OthersCalm, AmmInv
    <3>2. ammHeld'[q] = ammHeld[q]
      BY <2>2, <2>5
    <3> QED BY <1>5, <2>1, <3>1, <3>2, CalmAmm DEF AmmReadsOnly
  <2>6. AmmInv'
    BY <2>1, <2>4, <2>5 DEF AmmInv
  <2>7. ClmmInv' /\ WrapInv'
    <3>1. \A q \in Requests : op[q] \notin AmmOps => Calm(q)
      BY <1>1, <2>1 DEF OthersCalm
    <3> QED BY <1>2, <2>1, <3>1, CalmClmm, CalmWrap, FamiliesApart DEF ClmmInv, WrapInv
  <2> QED BY <1>2, <2>1, <2>3, <2>6, <2>7
<1> QED BY <1>1, <1>3, <1>4, <1>5, AmmChecksOrRefuses DEF AmmStep

\* What was checked keeps the transaction from failing, but for a share of nothing.
LEMMA AmmObstacleIs ==
  ASSUME NEW r \in Requests
  PROVE  /\ AmmObstacle(r) \in Reasons
         /\ AmmChecked(r, ammHeld[r]) /\ AmmTyped =>
              \/ AmmObstacle(r) = "none"
              \/ AmmObstacle(r) = "zero" /\ AmmRemoves(op[r])
         /\ AmmObstacle(r) = "none" =>
              /\ AmmRemoves(op[r]) => ~(ammHeld[r].lp > lp)
              /\ AmmCreates(op[r]) /\ ammHeld[r].limit => reserves \in {0, ammHeld[r].price}
<1>1. AmmObstacle(r) \in Reasons
  BY DEF AmmObstacle, Reasons
<1>2. ASSUME AmmChecked(r, ammHeld[r]), AmmTyped
      PROVE  \/ AmmObstacle(r) = "none"
             \/ AmmObstacle(r) = "zero" /\ AmmRemoves(op[r])
  <2>1. lp \in Nat /\ ammHeld[r].lp \in Nat
    BY <1>2 DEF AmmTyped, AmmPrepared
  <2>2. ~(AmmCreates(op[r]) /\ AmmRemoves(op[r]))
    BY DEF AmmCreates, AmmRemoves
  <2> QED BY <1>2, <2>1, <2>2 DEF AmmObstacle, AmmChecked
<1>3. ASSUME AmmObstacle(r) = "none"
      PROVE  /\ AmmRemoves(op[r]) => ~(ammHeld[r].lp > lp)
             /\ AmmCreates(op[r]) /\ ammHeld[r].limit => reserves \in {0, ammHeld[r].price}
  BY <1>3 DEF AmmObstacle
<1> QED BY <1>1, <1>2, <1>3

LEMMA AmmExecutesInv ==
  ASSUME Inv, NEW r \in Requests, AmmExecutes(r), UNCHANGED <<clmmVars, wethBalance>>
  PROVE  Inv'
<1> USE DEF Inv, Typed
<1>1. /\ op[r] \in AmmOps /\ Executes(r) /\ AmmObstacle(r) = "none" /\ UNCHANGED <<native, ammHeld>>
      /\ approved' \in {approved, approved \ ammHeld[r].uses}
      /\ lpApproved' \in IF AmmRemoves(op[r]) THEN {lpApproved, FALSE} ELSE {lpApproved}
      /\ reserves' = IF AmmCreates(op[r]) /\ reserves = 0 THEN ammHeld[r].price ELSE reserves
  BY DEF AmmExecutes
<1>2. ClmmTyped' /\ wethBalance' \in Nat
      /\ UNCHANGED <<allowance, mine, liquidity, owed, price, weth, held, paid>>
  BY DEF ClmmTyped, clmmVars, chainVars
<1>3. /\ RouteTyped' /\ LifeInv' /\ OthersCalm(r)
      /\ op' = op /\ executed' = executed + 1 /\ tx'[r] = "success" /\ pc'[r] # "send"
      /\ HasRead(r) /\ \A q \in Requests : since'[q] # executed'
  BY <1>1, ExecutesStep
<1>4. AmmPart(r)
  BY <1>1 DEF AmmInv
<1>5. lp \in Nat /\ ammHeld[r].lp \in Nat /\ ammHeld[r].price \in 0..2
  BY DEF AmmTyped, AmmPrepared
<1>6. lp' \in Nat
  <2>1. CASE AmmRemoves(op[r])
    <3>1. lp' = lp - ammHeld[r].lp
      BY <2>1 DEF AmmExecutes, AmmRemoves, AmmSwaps
    <3>2. ~(ammHeld[r].lp > lp)
      BY <1>1, <2>1, AmmObstacleIs
    <3> QED BY <1>5, <3>1, <3>2
  <2>2. CASE ~AmmRemoves(op[r])
    BY <1>5, <2>2 DEF AmmExecutes
  <2> QED BY <2>1, <2>2
<1>7. AmmTyped'
  <2>1. approved' \subseteq Sides /\ lpApproved' \in BOOLEAN
    BY <1>1 DEF AmmTyped
  <2>2. reserves' \in 0..2
    BY <1>1, <1>5 DEF AmmTyped
  <2> QED BY <1>1, <1>6, <2>1, <2>2 DEF AmmTyped
<1>8. reserves # 0 => reserves' = reserves
  BY <1>1
<1>9. AmmPart(r)'
  <2>1. AmmCreates(op[r]) => reserves' = ammHeld[r].price
    BY <1>1, <1>3, <1>4, AmmObstacleIs DEF AmmPart
  <2> QED BY <1>1, <1>3, <1>4, <2>1 DEF AmmPart
<1>10. ASSUME NEW q \in Requests, q # r, op[q] \in AmmOps
       PROVE  AmmPart(q)'
  <2>1. Calm(q) /\ AmmPart(q)
    BY <1>3, <1>10 DEF OthersCalm, AmmInv
  <2>2. tx[q] = "success" => HasRead(q)
    BY DEF HasRead
  <2> QED BY <1>1, <1>3, <1>8, <2>1, <2>2 DEF AmmPart, Calm
<1>11. AmmInv'
  BY <1>3, <1>9, <1>10 DEF AmmInv
<1>12. ClmmInv' /\ WrapInv'
  <2>1. \A q \in Requests : op[q] \notin AmmOps => Calm(q)
    BY <1>1, <1>3 DEF OthersCalm
  <2> QED BY <1>2, <1>3, <2>1, CalmClmm, CalmWrap, FamiliesApart DEF ClmmInv, WrapInv
<1> QED BY <1>2, <1>3, <1>7, <1>11, <1>12

LEMMA AmmFailsInv ==
  ASSUME Inv, NEW r \in Requests, AmmFails(r), UNCHANGED <<clmmVars, wethBalance>>
  PROVE  Inv'
<1> USE DEF Inv, Typed
<1>1. op[r] \in AmmOps /\ UNCHANGED ammVars
  BY DEF AmmFails
<1>2. AmmTyped' /\ ClmmTyped' /\ wethBalance' \in Nat
      /\ UNCHANGED <<allowance, mine, liquidity, owed, price, weth, held, paid>>
  BY <1>1 DEF ClmmTyped, AmmTyped, clmmVars, chainVars, ammVars
<1>3. CASE Dropped(r)
  <2>1. RouteTyped' /\ LifeInv' /\ AllCalm
    BY <1>3, DroppedStep
  <2> QED BY <1>1, <1>2, <2>1, CalmInv
<1>4. CASE Reverts(r, AmmObstacle(r))
  <2>1. /\ RouteTyped' /\ LifeInv' /\ OthersCalm(r)
        /\ op' = op /\ executed' = executed /\ tx'[r] = "reverted" /\ pc'[r] # "send"
        /\ Awaits(r) /\ HasRead(r) /\ alone'[r] = (executed = since[r])
        /\ why'[r] \in {AmmObstacle(r), "price"} \ {"none"}
    BY <1>4, AmmObstacleIs, RevertsStep
  <2>2. AmmPart(r) /\ ammHeld' = ammHeld
    BY <1>1 DEF AmmInv, ammVars
  <2>3. executed = since[r] => AmmObstacle(r) = "none" \/ (AmmObstacle(r) = "zero" /\ AmmRemoves(op[r]))
    BY <2>1, <2>2, AmmObstacleIs DEF AmmPart
  <2>4. AmmPart(r)'
    BY <2>1, <2>2, <2>3 DEF AmmPart, Awaits
  <2>5. ASSUME NEW q \in Requests, q # r, op[q] \in AmmOps
        PROVE  AmmPart(q)'
    <3>1. Calm(q) /\ AmmPart(q)
      BY <2>1, <2>5 DEF OthersCalm, AmmInv
    <3> QED BY <1>1, <2>1, <3>1, CalmAmm DEF ammVars
  <2>6. AmmInv'
    BY <2>1, <2>4, <2>5 DEF AmmInv
  <2>7. ClmmInv' /\ WrapInv'
    <3>1. \A q \in Requests : op[q] \notin AmmOps => Calm(q)
      BY <1>1, <2>1 DEF OthersCalm
    <3> QED BY <1>2, <2>1, <3>1, CalmClmm, CalmWrap, FamiliesApart DEF ClmmInv, WrapInv
  <2> QED BY <1>2, <2>1, <2>6, <2>7
<1> QED BY <1>3, <1>4 DEF AmmFails

-----------------------------------------------------------------------------
(***************************************************************************)
(* Wrapping and unwrapping.                                                *)
(***************************************************************************)
LEMMA WrapNextInv ==
  ASSUME Inv, NEW r \in Requests, WrapStep(r) \/ WrapExecutes(r) \/ WrapFails(r),
         UNCHANGED <<clmmVars, ammVars>>
  PROVE  Inv'
<1> USE DEF Inv, Typed
<1> DEFINE table == IF op[r] = "wrap" THEN WrapAnswer ELSE UnwrapAnswer
<1>1. op[r] \in WrapOps /\ Sound(table, op[r])
  BY WrapTableSound DEF WrapStep, WrapExecutes, WrapFails
<1> HIDE DEF table
<1>2. AmmTyped' /\ ClmmTyped' /\ UNCHANGED ammVars
      /\ UNCHANGED <<allowance, mine, liquidity, owed, price, weth, held, paid>>
  BY DEF ClmmTyped, AmmTyped, clmmVars, chainVars, ammVars
<1>3. ASSUME OthersCalm(r), RouteTyped', op' = op
      PROVE  /\ ClmmInv' /\ AmmInv'
             /\ wethBalance' = wethBalance =>
                  \A q \in Requests : q # r /\ op[q] \in WrapOps => WrapPart(q)'
  <2>1. \A q \in Requests : op[q] \notin WrapOps => Calm(q)
    BY <1>1, <1>3 DEF OthersCalm
  <2>2. ClmmInv' /\ AmmInv'
    BY <1>2, <1>3, <2>1, CalmClmm, CalmAmm, FamiliesApart DEF ClmmInv, AmmInv, ammVars
  <2>3. ASSUME wethBalance' = wethBalance, NEW q \in Requests, q # r, op[q] \in WrapOps
        PROVE  WrapPart(q)'
    BY <1>3, <2>3, CalmWrap DEF OthersCalm, WrapInv
  <2> QED BY <2>2, <2>3
<1>4. CASE Interrupted(r) \/ Broadcast(r, table) \/ Answered(r, table) \/ Dropped(r)
  <2>1. RouteTyped' /\ LifeInv' /\ AllCalm
    BY <1>1, <1>4, QuietStep, DroppedStep
  <2>2. wethBalance' = wethBalance
    <3>1. CASE WrapStep(r)
      BY <3>1 DEF WrapStep, WrapEthereum, UnwrapEthereum
    <3>2. CASE WrapFails(r)
      BY <3>2 DEF WrapFails
    <3>3. ~WrapExecutes(r)
      BY <1>4, <2>1 DEF WrapExecutes, Executes, AllCalm, RouteTyped
    <3> QED BY <3>1, <3>2, <3>3
  <2> QED BY <1>2, <2>1, <2>2, CalmInv
<1>5. CASE WrapStep(r) /\ pc[r] = "start" /\ Proceed(r)
  <2>1. /\ RouteTyped' /\ LifeInv' /\ OthersCalm(r) /\ op' = op
        /\ executed' = executed /\ since'[r] = executed /\ tx'[r] = "unsent"
    BY <1>5, ProceedStep
  <2>2. wethBalance' = wethBalance
    BY <1>5 DEF WrapStep, WrapEthereum, UnwrapEthereum
  <2>3. op[r] = "unwrap" => wethBalance # 0
    BY <1>5, <2>1 DEF WrapStep, Starts, UnwrapEthereum, Refuse, Return, Interrupted, Break,
       Broadcast, Answered, Proceed, RouteTyped, PcStates
  <2>4. WrapPart(r)'
    BY <2>1, <2>2, <2>3 DEF WrapPart, WrapObstacle
  <2> QED BY <1>2, <1>3, <2>1, <2>2, <2>4 DEF WrapInv
<1>6. CASE WrapExecutes(r)
  <2>1. /\ RouteTyped' /\ LifeInv' /\ OthersCalm(r)
        /\ op' = op /\ executed' = executed + 1 /\ tx'[r] = "success" /\ pc'[r] # "send"
        /\ \A q \in Requests : since'[q] # executed'
    BY <1>6, ExecutesStep DEF WrapExecutes
  <2>2. wethBalance' \in Nat
    BY <1>1, <1>6 DEF WrapExecutes, WrapObstacle, WrapOps
  <2>3. WrapPart(r)'
    BY <2>1 DEF WrapPart
  <2>4. ASSUME NEW q \in Requests, q # r, op[q] \in WrapOps
        PROVE  WrapPart(q)'
    <3>1. Calm(q) /\ WrapPart(q)
      BY <2>1, <2>4 DEF OthersCalm, WrapInv
    <3> QED BY <2>1, <3>1 DEF WrapPart, Calm
  <2> QED BY <1>2, <1>3, <2>1, <2>2, <2>3, <2>4 DEF WrapInv
<1>7. CASE WrapFails(r) /\ Reverts(r, WrapObstacle(r))
  <2>1. WrapObstacle(r) \in Reasons
    BY DEF WrapObstacle, Reasons
  <2>2. /\ RouteTyped' /\ LifeInv' /\ OthersCalm(r)
        /\ op' = op /\ executed' = executed /\ tx'[r] = "reverted" /\ pc'[r] # "send"
        /\ Awaits(r) /\ alone'[r] = (executed = since[r])
        /\ why'[r] \in {WrapObstacle(r), "price"} \ {"none"}
    BY <1>7, <2>1, RevertsStep
  <2>3. wethBalance' = wethBalance /\ WrapPart(r)
    BY <1>1, <1>7 DEF WrapFails, WrapInv
  <2>4. WrapPart(r)'
    BY <2>2, <2>3 DEF WrapPart, Awaits
  <2> QED BY <1>2, <1>3, <2>2, <2>3, <2>4 DEF WrapInv
<1> QED
  BY <1>4, <1>5, <1>6, <1>7
  DEF WrapStep, WrapEthereum, UnwrapEthereum, Starts, WrapFails, Interrupted, table

-----------------------------------------------------------------------------
(***************************************************************************)
(* The invariant.                                                          *)
(***************************************************************************)
LEMMA InitTyped == Init => Typed
<1> SUFFICES ASSUME Init PROVE Typed
  OBVIOUS
<1>1. op \in [Requests -> Ops]
  BY DEF Init
<1>2. RouteTyped
  BY <1>1 DEF Init, RouteInit, RouteTyped, PcStates, TxStates, Answers, Reasons
<1>3. ClmmTyped
  <2> USE DEF Init, ClmmInit
  <2>1. held \in [Requests -> Prepared] /\ paid \in [Requests -> [liquidity : Nat, fees : 0..1]]
    <3>1. Empty \in Prepared /\ Nothing \in [liquidity : Nat, fees : 0..1]
      BY DEF Empty, Prepared, Nothing
    <3> QED BY <3>1
  <2>2. allowance \in [Spends -> BOOLEAN] /\ mine \subseteq Positions
    <3>1. PICK some : allowance = [s \in Spends |-> s \in some]
      OBVIOUS
    <3> QED BY <3>1, ClmmAssumption
  <2>3. liquidity \in [Positions -> Nat \cup {NoNft}]
    <3>1. PICK n \in 0..MaxLiquidity : liquidity = [q \in Positions |-> IF q = at THEN n ELSE NoNft]
      OBVIOUS
    <3> QED BY <3>1
  <2>4. owed \in [Positions -> 0..1] /\ growth \in [Positions -> 0..1]
    <3>1. PICK n \in 0..1 : owed = [q \in Positions |-> IF q = at THEN n ELSE 0]
      OBVIOUS
    <3> QED BY <3>1
  <2>5. weth \in Tokens \cup {"none"} /\ price \in 0..2
    OBVIOUS
  <2> QED BY <2>1, <2>2, <2>3, <2>4, <2>5 DEF ClmmTyped
<1>4. AmmTyped
  <2> USE DEF Init, AmmInit
  <2>1. ammHeld \in [Requests -> AmmPrepared]
    <3>1. AmmEmpty \in AmmPrepared
      BY DEF AmmEmpty, AmmPrepared
    <3> QED BY <3>1
  <2>2. lp \in Nat
    BY AmmAssumption
  <2>3. approved \subseteq Sides /\ lpApproved \in BOOLEAN /\ native \in Sides \cup {"none"}
        /\ reserves \in 0..2
    BY DEF Sides
  <2> QED BY <2>1, <2>2, <2>3 DEF AmmTyped
<1>5. wethBalance \in Nat
  BY WrapAssumption DEF Init, WrapInit
<1> QED BY <1>2, <1>3, <1>4, <1>5 DEF Typed

LEMMA InitInv == Init => Inv
<1> SUFFICES ASSUME Init PROVE Inv
  OBVIOUS
<1>1. \A r \in Requests : /\ pc[r] = "start" /\ tx[r] = "unsent" /\ answer[r] = "none"
                          /\ since[r] = 0 /\ executed = 0
  BY DEF Init, RouteInit
<1>2. LifeInv
  BY <1>1 DEF LifeInv, LifeOf
<1>3. \A r \in Requests : ~Awaits(r) /\ ~HasRead(r) /\ tx[r] \notin {"success", "reverted"}
  BY <1>1 DEF Awaits, HasRead
<1>4. ClmmInv /\ AmmInv /\ WrapInv
  BY <1>3 DEF ClmmInv, ClmmPart, AmmInv, AmmPart, WrapInv, WrapPart
<1> QED BY <1>2, <1>4, InitTyped DEF Inv

LEMMA NextInv == Inv /\ [Next]_vars => Inv'
<1> SUFFICES ASSUME Inv, [Next]_vars PROVE Inv'
  OBVIOUS
<1>1. CASE ClmmNext
  BY <1>1, ClmmStepInv, ClmmExecutesInv, ClmmFailsInv, AccrueInv DEF ClmmNext
<1>2. CASE AmmNext
  BY <1>2, AmmStepInv, AmmExecutesInv, AmmFailsInv DEF AmmNext
<1>3. CASE WrapNext
  BY <1>3, WrapNextInv DEF WrapNext
<1>4. CASE UNCHANGED vars
  <2>1. UNCHANGED <<op, pc, tx, answer, executed, since, alone, why>> /\ UNCHANGED ammVars
        /\ UNCHANGED <<clmmVars, wethBalance>>
    BY <1>4 DEF vars, routeVars
  <2>2. RouteTyped' /\ LifeInv' /\ AllCalm
    BY <2>1 DEF Inv, Typed, RouteTyped, LifeInv, LifeOf, AllCalm, Calm, Awaits, HasRead
  <2>3. ClmmTyped' /\ AmmTyped' /\ wethBalance' \in Nat
        /\ UNCHANGED <<allowance, mine, liquidity, owed, price, weth, held, paid>>
    BY <2>1 DEF Inv, Typed, ClmmTyped, AmmTyped, clmmVars, chainVars, ammVars
  <2> QED BY <2>1, <2>2, <2>3, CalmInv DEF Inv, Typed
<1> QED BY <1>1, <1>2, <1>3, <1>4 DEF Next

LEMMA Invariant == Spec => []Inv
BY InitInv, NextInv, PTL DEF Spec

\* What the invariant says of the answers and of the reverted transactions.
LEMMA InvAnswers == Inv => AnswersAreTrue /\ ToldIsTrue /\ NoBlindRevert
<1> SUFFICES ASSUME Inv PROVE AnswersAreTrue /\ ToldIsTrue /\ NoBlindRevert
  OBVIOUS
<1>1. \A r \in Requests : LifeOf(r)
  BY DEF Inv, LifeInv
<1>2. AnswersAreTrue
  BY <1>1 DEF AnswersAreTrue, ConfirmedIsExecuted, ClientErrorIsFinal, FundsErrorIsUnsent, LifeOf
<1>3. \A r \in Requests : answer[r] = "confirmed" => tx[r] = "success"
  BY <1>1 DEF LifeOf
<1>4. \A r \in Requests : op[r] \in ClmmOps /\ tx[r] = "success" => ClmmDone(r)
  BY DEF Inv, ClmmInv, ClmmPart
<1>5. \A r \in Requests : Closes(op[r]) \/ TakesOut(op[r]) \/ Creates(op[r]) => op[r] \in ClmmOps
  BY DEF Closes, TakesOut, Removes, Collects, Creates, ClmmOps, UniswapOps, PancakeswapOps
<1>6. ClosedIsGone /\ PaidAsTold /\ PoolPriceAsTold
  BY <1>3, <1>4, <1>5 DEF ClosedIsGone, PaidAsTold, PoolPriceAsTold, ClmmDone
<1>7. AmmPriceAsTold
  <2>1. \A r \in Requests : AmmCreates(op[r]) => op[r] \in AmmOps
    BY DEF AmmCreates, AmmOps
  <2> QED BY <1>3, <2>1 DEF AmmPriceAsTold, Inv, AmmInv, AmmPart
<1>8. NoBlindRevert
  <2> SUFFICES ASSUME NEW r \in Requests, alone[r], tx[r] = "reverted"
               PROVE  \/ why[r] = "price"
                      \/ why[r] = "allowance" /\ Adds(op[r]) /\ weth \in held[r].uses
                      \/ why[r] = "zero" /\ AmmRemoves(op[r])
    BY DEF NoBlindRevert
  <2>1. op[r] \in ClmmOps \/ op[r] \in AmmOps \/ op[r] \in WrapOps
    BY DEF Inv, Typed, RouteTyped, Ops
  <2> QED BY <2>1 DEF Inv, ClmmInv, ClmmPart, AmmInv, AmmPart, WrapInv, WrapPart
<1> QED BY <1>2, <1>6, <1>7, <1>8 DEF ToldIsTrue

-----------------------------------------------------------------------------
\* A status 1 is given for an executed transaction only, a client is refused
\* only what did not and will not execute, and outside the swaps missing funds
\* are told only of what was never sent: handleTransactionExecution and the
\* tables of all routes of the EVM connectors, with any overlap of requests,
\* lost answers of the broadcast and lagging nodes.
THEOREM EvmAnswers == Spec => []AnswersAreTrue
BY Invariant, InvAnswers, PTL

\* A close that answers 1 leaves no position, the amounts an answer reports were
\* moved, and the price of a created pool is the one that was asked for: in
\* closePosition, removeLiquidity, collectFees and createPool, whatever other
\* requests do between their reads and the execution.
THEOREM EvmAmountsTold == Spec => []ToldIsTrue
BY Invariant, InvAnswers, PTL

\* What the routes check before they send suffices: a transaction that nothing
\* overtook reverts for its price limits only, but for the WETH allowance that
\* addLiquidity skips and the share that removeLiquidity rounds down to nothing.
THEOREM EvmChecksSuffice == Spec => []NoBlindRevert
BY Invariant, InvAnswers, PTL
=============================================================================
