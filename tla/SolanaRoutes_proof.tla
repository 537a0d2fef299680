-------------------------- MODULE SolanaRoutes_proof ---------------------------
(***************************************************************************)
(* For any number of requests, of any number of wallets, to the routes of  *)
(* one family: what the routes of the Solana connectors answer and tell is *)
(* true, only overlapping loads of the shared SDK build a transaction for  *)
(* another wallet, and one that fails right after its simulation fails by  *)
(* its price.                                                              *)
(***************************************************************************)
EXTENDS SolanaRoutes, TLAPS

\* The routes of several transactions.
Several == {"meteora remove", "meteora collect", "meteora close"}

\* The routes whose transaction closes the position, and those that open it again.
CloseOps == {"raydium close", "orca close", "pancakeswap-sol close"}
OpenOps == {"raydium amm add", "solana wrap"}

NatAmounts == [liquidity : Nat, fees : Nat]

\* The transactions, of any amount.
Planable ==
  [ about : BOOLEAN, opens : {"no", "new", "if_missing"}, put : 0..1, take : Nat,
    upTo : BOOLEAN, claim : BOOLEAN, close : {"no", "empty", "if_empty", "any"}, price : 0..2 ]

Typed ==
  /\ pc \in [Requests -> {"start", "read", "send", "wait", "done"}]
  /\ DOMAIN plan = Requests
  /\ builtFor \in [Requests -> Wallets \cup {Nobody}]
  /\ wallet \in [Requests -> Wallets]
  /\ remembered \in [Requests -> NatAmounts]
  /\ tx \in [Requests -> {"unsent", "pending", "landed", "failed", "dropped"}]
  /\ fresh \in [Requests -> BOOLEAN]
  /\ why \in [Requests -> {"none", "price", "owner", "gone", "stale", "left", "exists"}]
  /\ moved \in [Requests -> NatAmounts]
  /\ last \in [Requests -> NatAmounts]
  /\ told \in [Requests -> NatAmounts]
  /\ answer \in [Requests -> Answers]
  /\ liquidity \in Nat \cup {None}
  /\ owed \in 0..1

\* No family has routes of both kinds.
OneFamily == \A r, q \in Requests : op[r] \in CloseOps => op[q] \notin OpenOps

LifeOf(r) ==
  /\ pc[r] = "done" <=> answer[r] # "none"
  /\ pc[r] \in {"start", "read", "send"} => tx[r] = "unsent"
  /\ pc[r] = "wait" => tx[r] # "unsent"
  /\ pc[r] \in {"send", "wait"} \/ tx[r] # "unsent" => plan[r] # <<>>
  /\ tx[r] # "unsent" => builtFor[r] = wallet[r]
  /\ why[r] # "none" => tx[r] = "failed"

Planned(r, t) ==
  /\ t \in Planable
  /\ t.opens # "no" => op[r] \in OpenOps
  /\ op[r] \in CloseOps => t.about /\ t.close = "empty"

PlanOf(r) ==
  \/ plan[r] = <<>>
  \/ plan[r] = <<plan[r][1]>> /\ Planned(r, plan[r][1])
  \/ /\ plan[r] = <<plan[r][1], plan[r][2]>> /\ Planned(r, plan[r][1]) /\ Planned(r, plan[r][2])
     /\ op[r] \in Several

AnswerOf(r) ==
  /\ answer[r] = "confirmed" => tx[r] = "landed" /\ Len(plan[r]) = 1
  /\ answer[r] = "status0" /\ op[r] \notin RawOps => tx[r] = "landed"
  /\ answer[r] = "client_error" => tx[r] \in {"unsent", "failed"}
  /\ answer[r] = "server_error" => tx[r] \in {"unsent", "landed"}
  /\ answer[r] = "confirmed" /\ op[r] \notin TellRead => Total(told[r]) <= Total(moved[r])

MovedOf(r) ==
  /\ Total(last[r]) <= Total(moved[r])
  /\ tx[r] # "landed" /\ op[r] \notin Several => moved[r] = Nothing

GoneOf(r) == tx[r] = "landed" /\ op[r] \in CloseOps => ~Exists

FreshOf(r) ==
  /\ fresh[r] /\ tx[r] = "pending" => Obstacle(r) = "none"
  /\ fresh[r] => why[r] \in {"none", "price"}

Of(r) == LifeOf(r) /\ PlanOf(r) /\ AnswerOf(r) /\ MovedOf(r) /\ GoneOf(r) /\ FreshOf(r)

\* Of what is about the shared SDK.
SdkOf(r) ==
  /\ pc[r] = "read" /\ op[r] \in RaydiumOps => sdkOwner = wallet[r] \/ reloaded[r]
  /\ builtFor[r] \notin {Nobody, wallet[r]} => reloaded[r]

SdkTyped == sdkOwner \in Wallets \cup {Nobody} /\ reloaded \in [Requests -> BOOLEAN]
SdkInv == SdkTyped /\ \A r \in Requests : SdkOf(r)

Inv == Typed /\ OneFamily /\ \A r \in Requests : Of(r)
-----------------------------------------------------------------------------
(***************************************************************************)
(* The transactions.                                                       *)
(***************************************************************************)

\* Neither opens nor puts nor closes anything.
Plain(t) == t \in Planable /\ t.opens = "no" /\ t.put = 0 /\ t.close = "no"

LEMMA ElsewherePlain == Plain(Elsewhere)
BY DEF Plain, Planable, Elsewhere

LEMMA UpdatePlain ==
  ASSUME NEW e, Plain(e)
  PROVE  /\ Plain([e EXCEPT !.about = TRUE]) /\ [e EXCEPT !.about = TRUE].about
         /\ Plain([e EXCEPT !.upTo = TRUE])
         /\ Plain([e EXCEPT !.claim = TRUE]) /\ [e EXCEPT !.claim = TRUE].about = e.about
         /\ \A n \in Nat : Plain([e EXCEPT !.take = n]) /\ [e EXCEPT !.take = n].about = e.about
         /\ \A p \in 0..2 : Plain([e EXCEPT !.price = p])
BY DEF Plain, Planable

LEMMA UpdateClose ==
  ASSUME NEW e, Plain(e), NEW c \in {"empty", "if_empty", "any"}
  PROVE  LET t == [e EXCEPT !.close = c] IN
         t \in Planable /\ t.opens = "no" /\ t.put = 0 /\ t.close = c /\ t.about = e.about
BY DEF Plain, Planable

LEMMA UpdateClaim ==
  ASSUME NEW t \in Planable, NEW b \in BOOLEAN
  PROVE  LET u == [t EXCEPT !.claim = b] IN
         u \in Planable /\ u.opens = t.opens /\ u.put = t.put /\ u.close = t.close /\ u.about = t.about
BY DEF Planable

LEMMA UpdatePut ==
  ASSUME NEW e, Plain(e)
  PROVE  LET t == [e EXCEPT !.put = 1] IN t \in Planable /\ t.opens = "no" /\ t.put = 1 /\ t.close = "no"
BY DEF Plain, Planable

LEMMA UpdateOpens ==
  ASSUME NEW t \in Planable, NEW o \in {"no", "new", "if_missing"}
  PROVE  [t EXCEPT !.opens = o] \in Planable
BY DEF Planable

LEMMA PlainTransactions ==
  /\ Plain(OnPosition) /\ OnPosition.about
  /\ \A n \in Nat : Plain(Taking(n)) /\ Taking(n).about
  /\ \A n \in Nat : Plain(Part(n))
  /\ \A p \in 0..2 : Plain(CreatingAt(p))
  /\ Plain(Claiming(OnPosition)) /\ Claiming(OnPosition).about
  /\ \A n \in Nat : Plain(Claiming(Taking(n))) /\ Claiming(Taking(n)).about
  /\ \A n \in Nat : Plain(Claiming(Part(n)))
<1>1. Plain(OnPosition) /\ OnPosition.about
  BY ElsewherePlain, UpdatePlain DEF OnPosition
<1>2. \A n \in Nat : Plain(Taking(n)) /\ Taking(n).about
  BY <1>1, UpdatePlain DEF Taking
<1>3. \A n \in Nat : Plain(Part(n))
  BY <1>2, UpdatePlain DEF Part
<1>4. \A p \in 0..2 : Plain(CreatingAt(p))
  BY ElsewherePlain, UpdatePlain DEF CreatingAt
<1>5. Plain(Claiming(OnPosition)) /\ Claiming(OnPosition).about
  BY <1>1, UpdatePlain DEF Claiming
<1>6. \A n \in Nat : Plain(Claiming(Taking(n))) /\ Claiming(Taking(n)).about
  BY <1>2, UpdatePlain DEF Claiming
<1>7. \A n \in Nat : Plain(Claiming(Part(n)))
  BY <1>3, UpdatePlain DEF Claiming
<1> QED BY <1>1, <1>2, <1>3, <1>4, <1>5, <1>6, <1>7

-----------------------------------------------------------------------------
(***************************************************************************)
(* The life of a request, whatever its route is.                           *)
(***************************************************************************)

\* Nothing of request q changes.
Same(q) ==
  /\ op'[q] = op[q] /\ wallet'[q] = wallet[q] /\ pc'[q] = pc[q] /\ plan'[q] = plan[q]
  /\ builtFor'[q] = builtFor[q] /\ tx'[q] = tx[q] /\ why'[q] = why[q]
  /\ moved'[q] = moved[q] /\ last'[q] = last[q] /\ told'[q] = told[q] /\ answer'[q] = answer[q]

LEMMA SameObstacle ==
  ASSUME NEW q, op'[q] = op[q], wallet'[q] = wallet[q], plan'[q] = plan[q], UNCHANGED chainVars
  PROVE  Obstacle(q)' = Obstacle(q)
<1>1. Current(q)' = Current(q)
  BY DEF Current
<1>2. liquidity' = liquidity /\ owed' = owed /\ price' = price
  BY DEF chainVars
<1>3. /\ Mine(q)' = Mine(q) /\ Exists' = Exists /\ Left(q)' = Left(q)
  BY <1>1, <1>2 DEF Mine, Exists, Left
<1> QED BY <1>1, <1>2, <1>3 DEF Obstacle

\* A request in whose way nothing comes keeps what is said of it.
LEMMA KeepsOf ==
  ASSUME NEW q, Of(q), Same(q),
         fresh'[q] => fresh[q] /\ Obstacle(q)' = Obstacle(q),
         op[q] \in CloseOps /\ ~Exists => ~Exists'
  PROVE  Of(q)'
<1>1. LifeOf(q)' /\ AnswerOf(q)' /\ MovedOf(q)'
  BY DEF Of, Same, LifeOf, AnswerOf, MovedOf
<1>2. FreshOf(q)'
  BY DEF Of, Same, FreshOf
<1>3. PlanOf(q)'
  BY DEF Of, Same, PlanOf, Planned
<1>4. GoneOf(q)'
  BY DEF Of, Same, GoneOf
<1> QED BY <1>1, <1>2, <1>3, <1>4 DEF Of

LEMMA OthersKeep ==
  ASSUME NEW q, Of(q), Same(q), fresh'[q] = fresh[q], UNCHANGED chainVars
  PROVE  Of(q)'
<1>1. Obstacle(q)' = Obstacle(q)
  BY SameObstacle DEF Same
<1>2. Exists' = Exists
  BY DEF Exists, chainVars
<1> QED BY <1>1, <1>2, KeepsOf

LEMMA Split ==
  ASSUME Inv, Typed', op' = op, NEW r \in Requests, Of(r)',
         \A q \in Requests \ {r} : Same(q) /\ fresh'[q] = fresh[q],
         UNCHANGED chainVars
  PROVE  Inv'
<1>1. OneFamily'
  BY DEF Inv, OneFamily
<1>2. ASSUME NEW q \in Requests PROVE Of(q)'
  BY <1>2, OthersKeep DEF Inv
<1> QED BY <1>1, <1>2 DEF Inv

LEMMA ReturnStep ==
  ASSUME Inv, NEW r \in Requests, NEW a \in {"client_error", "server_error"}, Return(r, a),
         pc[r] # "done", tx[r] = "unsent"
  PROVE  Inv'
<1> USE DEF Return, Answer, ReadsOnly
<1>1. Typed'
  BY DEF Inv, Typed, chainVars, Answers
<1>2. \A q \in Requests \ {r} : Same(q) /\ fresh'[q] = fresh[q]
  BY DEF Inv, Typed, Same
<1>3. Of(r)
  BY DEF Inv
<1>4. pc'[r] = "done" /\ answer'[r] = a /\ tx'[r] = tx[r] /\ answer[r] = "none"
  BY <1>3 DEF Inv, Typed, Of, LifeOf
<1>5. LifeOf(r)' /\ AnswerOf(r)'
  BY <1>3, <1>4 DEF Of, LifeOf, AnswerOf
<1>6. PlanOf(r)' /\ MovedOf(r)'
  BY <1>3 DEF Of, PlanOf, Planned, MovedOf
<1>7. GoneOf(r)' /\ FreshOf(r)'
  BY <1>3, <1>4 DEF Of, GoneOf, FreshOf
<1> QED BY <1>1, <1>2, <1>5, <1>6, <1>7, Split DEF Of

\* A plan that a request may have.
PlanFor(r, ts) ==
  \/ \E t : ts = <<t>> /\ Planned(r, t)
  \/ \E t, u : ts = <<t, u>> /\ Planned(r, t) /\ Planned(r, u) /\ op[r] \in Several

LEMMA PrepareStep ==
  ASSUME Inv, NEW r \in Requests, NEW someone \in Wallets \cup {Nobody}, NEW ts, PlanFor(r, ts),
         NEW amounts \in NatAmounts, PrepareFor(r, someone, ts, amounts),
         pc[r] \in {"start", "read"}
  PROVE  Inv'
<1> USE DEF PrepareFor, ReadsOnly
<1>1. Typed'
  BY DEF Inv, Typed, chainVars
<1>2. \A q \in Requests \ {r} : Same(q) /\ fresh'[q] = fresh[q]
  BY DEF Inv, Typed, Same
<1>3. Of(r)
  BY DEF Inv
<1>4. /\ pc'[r] = "send" /\ answer'[r] = answer[r] /\ tx'[r] = tx[r] /\ tx[r] = "unsent"
      /\ plan'[r] = ts
  BY <1>3 DEF Inv, Typed, Of, LifeOf
<1>5. ts # <<>> /\ PlanOf(r)'
  <2>1. \A t : Planned(r, t) => Planned(r, t)'
    BY DEF Planned
  <2>2. CASE \E t : ts = <<t>> /\ Planned(r, t)
    BY <1>4, <2>1, <2>2 DEF PlanOf
  <2>3. CASE \E t, u : ts = <<t, u>> /\ Planned(r, t) /\ Planned(r, u) /\ op[r] \in Several
    BY <1>4, <2>1, <2>3 DEF PlanOf
  <2> QED BY <2>2, <2>3 DEF PlanFor
<1>6. LifeOf(r)' /\ AnswerOf(r)'
  BY <1>3, <1>4, <1>5 DEF Of, LifeOf, AnswerOf, Inv, Typed
<1>7. MovedOf(r)' /\ GoneOf(r)' /\ FreshOf(r)'
  BY <1>3, <1>4 DEF Of, MovedOf, GoneOf, FreshOf
<1> QED BY <1>1, <1>2, <1>5, <1>6, <1>7, Split DEF Of

\* SetOwner, and the first reading of Orca's close.
LEMMA ReadStep ==
  ASSUME Inv, NEW r \in Requests, pc[r] = "start", pc' = [pc EXCEPT ![r] = "read"],
         remembered' \in [Requests -> NatAmounts],
         UNCHANGED <<chainVars, op, wallet, plan, builtFor, tx, fresh, why, moved, last, told, answer>>
  PROVE  Inv'
<1>1. Typed'
  BY DEF Inv, Typed, chainVars
<1>2. \A q \in Requests \ {r} : Same(q) /\ fresh'[q] = fresh[q]
  BY DEF Inv, Typed, Same
<1>3. Of(r)
  BY DEF Inv
<1>4. pc'[r] = "read" /\ answer'[r] = answer[r] /\ tx'[r] = tx[r] /\ tx[r] = "unsent"
  BY <1>3 DEF Inv, Typed, Of, LifeOf
<1>5. LifeOf(r)' /\ AnswerOf(r)'
  BY <1>3, <1>4 DEF Of, LifeOf, AnswerOf
<1>6. PlanOf(r)' /\ MovedOf(r)'
  BY <1>3 DEF Of, PlanOf, Planned, MovedOf
<1>7. GoneOf(r)' /\ FreshOf(r)'
  BY <1>3, <1>4 DEF Of, GoneOf, FreshOf
<1> QED BY <1>1, <1>2, <1>5, <1>6, <1>7, Split DEF Of

\* What the tables of all routes have in common, and what those of each way of
\* sending do.
Sound(table) ==
  /\ table \in [Replies -> Answers \ {"none"}]
  /\ table["rejected"] = "client_error" /\ table["error"] = "server_error"
  /\ table["throttled"] = "throttled" /\ table["failed"] = "client_error"
WalletSound(table) ==
  /\ Sound(table) /\ table["timeout"] = "timeout"
  /\ table["found"] # "client_error" /\ table["null"] # "client_error"
  /\ table["lookup_error"] # "client_error"
RawSound(table) ==
  /\ Sound(table) /\ table["timeout"] = "status0" /\ table["null"] = "status0"
  /\ table["found"] = "confirmed" /\ table["lookup_error"] = "server_error"
SoundFor(r, table) == WalletSound(table) \/ (op[r] \in RawOps /\ RawSound(table))

LEMMA BroadcastStep ==
  ASSUME Inv, NEW r \in Requests, NEW table, SoundFor(r, table), Broadcast(r, table)
  PROVE  Inv'
<1>1. Of(r)
  BY DEF Inv
<1>2. pc[r] = "send" /\ tx[r] = "unsent" /\ answer[r] = "none" /\ why[r] = "none" /\ plan[r] # <<>>
  BY <1>1 DEF Broadcast, Inv, Typed, Of, LifeOf
<1>3. Sound(table)
  BY DEF SoundFor, WalletSound, RawSound
<1>4. CASE Return(r, table["rejected"]) \/ Return(r, table["error"])
  BY <1>2, <1>3, <1>4, ReturnStep DEF Sound
<1>5. CASE /\ Simulates(r) /\ Signs(r)
           /\ tx' = [tx EXCEPT ![r] = "pending"]
           /\ fresh' = [fresh EXCEPT ![r] = TRUE]
           /\ \/ pc' = [pc EXCEPT ![r] = "wait"] /\ UNCHANGED answer
              \/ Answer(r, table["timeout"])
           /\ UNCHANGED <<chainVars, sdkVars, op, wallet, plan, builtFor, remembered, why, moved, last, told>>
  <2> USE <1>5 DEF Answer
  <2>1. table["timeout"] \in {"timeout", "status0"} /\ (table["timeout"] = "status0" => op[r] \in RawOps)
    BY DEF SoundFor, WalletSound, RawSound
  <2>2. Typed'
    BY <2>1 DEF Inv, Typed, chainVars, Answers
  <2>3. \A q \in Requests \ {r} : Same(q) /\ fresh'[q] = fresh[q]
    BY DEF Inv, Typed, Same
  <2>4. tx'[r] = "pending" /\ fresh'[r] /\ op'[r] = op[r]
    BY DEF Inv, Typed
  <2>5. LifeOf(r)' /\ AnswerOf(r)'
    <3>1. CASE pc' = [pc EXCEPT ![r] = "wait"] /\ UNCHANGED answer
      <4>1. pc'[r] = "wait" /\ answer'[r] = "none"
        BY <3>1, <1>2 DEF Inv, Typed
      <4> QED BY <1>2, <2>4, <4>1 DEF LifeOf, AnswerOf, Signs
    <3>2. CASE Answer(r, table["timeout"])
      <4>1. pc'[r] = "done" /\ answer'[r] = table["timeout"]
        BY <3>2 DEF Inv, Typed
      <4> QED BY <1>2, <2>1, <2>4, <4>1 DEF LifeOf, AnswerOf, Signs
    <3> QED BY <3>1, <3>2
  <2>6. PlanOf(r)'
    BY <1>1 DEF Of, PlanOf, Planned
  <2>7. MovedOf(r)' /\ GoneOf(r)'
    BY <1>1, <1>2, <2>4 DEF Of, MovedOf, GoneOf
  <2>8. Obstacle(r)' = Obstacle(r)
    BY SameObstacle
  <2>9. FreshOf(r)'
    BY <1>2, <2>8 DEF FreshOf, Simulates
  <2> QED BY <2>2, <2>3, <2>5, <2>6, <2>7, <2>9, Split DEF Of
<1> QED BY <1>4, <1>5 DEF Broadcast

\* What a request may be told of a transaction.
Fits(r, a) ==
  /\ a \in Answers \ {"none"}
  /\ a = "confirmed" => tx[r] = "landed" /\ Len(plan[r]) = 1
  /\ a = "status0" /\ op[r] \notin RawOps => tx[r] = "landed"
  /\ a = "client_error" => tx[r] = "failed"
  /\ a = "server_error" => tx[r] = "landed"

LEMMA AnswersStep ==
  ASSUME Inv, NEW r \in Requests, NEW a, Fits(r, a), NEW amounts \in NatAmounts,
         a = "confirmed" /\ op[r] \notin TellRead => Total(amounts) <= Total(moved[r]),
         pc[r] = "wait", Answer(r, a), told' = [told EXCEPT ![r] = amounts],
         ReadsOnly, UNCHANGED <<plan, builtFor, remembered>>
  PROVE  Inv'
<1> USE DEF Answer, ReadsOnly
<1>1. Of(r)
  BY DEF Inv
<1>2. Typed'
  BY DEF Inv, Typed, chainVars, Fits
<1>3. \A q \in Requests \ {r} : Same(q) /\ fresh'[q] = fresh[q]
  BY DEF Inv, Typed, Same
<1>4. pc'[r] = "done" /\ answer'[r] = a /\ told'[r] = amounts /\ answer[r] = "none" /\ tx'[r] = tx[r]
  BY <1>1 DEF Inv, Typed, Of, LifeOf
<1>5. LifeOf(r)' /\ AnswerOf(r)'
  BY <1>1, <1>4 DEF Of, LifeOf, AnswerOf, Fits
<1>6. PlanOf(r)' /\ MovedOf(r)'
  BY <1>1 DEF Of, PlanOf, Planned, MovedOf
<1>7. Obstacle(r)' = Obstacle(r)
  BY SameObstacle
<1>8. GoneOf(r)' /\ FreshOf(r)'
  BY <1>1, <1>4, <1>7 DEF Of, GoneOf, FreshOf, Exists, chainVars
<1> QED BY <1>2, <1>3, <1>5, <1>6, <1>8, Split DEF Of

\* The amounts that a route tells of the current transaction, once that landed.
TellsTrue(r, table, tells) ==
  \A x \in Replies :
    table[x] = "confirmed" =>
      tells[x] \in NatAmounts /\ (op[r] \notin TellRead => Total(tells[x]) <= Total(moved[r]))

LEMMA AnsweredStep ==
  ASSUME Inv, NEW r \in Requests, NEW table, NEW tells,
         NEW replies, Answered(r, replies, table, tells),
         \/ WalletSound(table) /\ replies = WalletReplies(r)
         \/ op[r] \in RawOps /\ RawSound(table) /\ replies = RawReplies(r),
         tx[r] = "landed" => TellsTrue(r, table, tells)
  PROVE  Inv'
<1>1. PICK x \in replies :
        /\ x \in {"found", "null", "lookup_error"} => IsLast(r)
        /\ Answer(r, table[x])
        /\ told' = [told EXCEPT ![r] = IF table[x] = "confirmed" THEN tells[x] ELSE Nothing]
  BY DEF Answered
<1>2. pc[r] = "wait" /\ ReadsOnly /\ UNCHANGED <<plan, builtFor, remembered>>
  BY DEF Answered
<1>3. Fits(r, table[x]) /\ x \in Replies
  <2>1. CASE WalletSound(table) /\ replies = WalletReplies(r)
    <3>1. tx[r] \in {"unsent", "pending", "landed", "failed", "dropped"}
      BY DEF Inv, Typed
    <3>2. \/ x \in {"timeout", "throttled"}
          \/ tx[r] = "landed" /\ x \in {"found", "null", "lookup_error"}
          \/ tx[r] = "failed" /\ x = "failed"
      BY <2>1, <3>1 DEF WalletReplies
    <3> QED BY <1>1, <2>1, <3>2 DEF WalletSound, Sound, Fits, IsLast, Replies, Answers
  <2>2. CASE op[r] \in RawOps /\ RawSound(table) /\ replies = RawReplies(r)
    <3>1. \/ x \in {"null", "throttled"}
          \/ tx[r] = "landed" /\ x \in {"found", "lookup_error"}
      BY <2>2 DEF RawReplies
    <3> QED BY <1>1, <2>2, <3>1 DEF RawSound, Sound, Fits, IsLast, Replies, Answers
  <2> QED BY <2>1, <2>2
<1>4. Nothing \in NatAmounts
  BY DEF Nothing, NatAmounts
<1>5. CASE table[x] = "confirmed"
  <2>1. TellsTrue(r, table, tells)
    BY <1>3, <1>5 DEF Fits
  <2> QED BY <1>1, <1>2, <1>3, <1>5, <2>1, AnswersStep DEF TellsTrue
<1>6. CASE table[x] # "confirmed"
  BY <1>1, <1>2, <1>3, <1>4, <1>6, AnswersStep
<1> QED BY <1>5, <1>6

LEMMA WalletAnswered ==
  ASSUME Inv, NEW r \in Requests, NEW table, NEW tells, WalletSound(table),
         tx[r] = "landed" => TellsTrue(r, table, tells),
         Answered(r, WalletReplies(r), table, tells)
  PROVE  Inv'
<1> DEFINE replies == WalletReplies(r)
<1>1. Answered(r, replies, table, tells)
  OBVIOUS
<1> HIDE DEF replies
<1> QED BY <1>1, AnsweredStep DEF replies

LEMMA RawAnswered ==
  ASSUME Inv, NEW r \in Requests, NEW table, NEW tells, op[r] \in RawOps, RawSound(table),
         tx[r] = "landed" => TellsTrue(r, table, tells),
         Answered(r, RawReplies(r), table, tells)
  PROVE  Inv'
BY AnsweredStep

LEMMA SendsNextStep ==
  ASSUME Inv, NEW r \in Requests, SendsNext(r)
  PROVE  Inv'
<1> USE DEF SendsNext
<1>1. Of(r)
  BY DEF Inv
<1>2. Typed'
  BY DEF Inv, Typed, chainVars
<1>3. \A q \in Requests \ {r} : Same(q) /\ fresh'[q] = fresh[q]
  BY DEF Inv, Typed, Same
<1>4. PICK t, u : plan[r] = <<t, u>> /\ Planned(r, u) /\ op[r] \in Several
  <2>1. plan[r] # <<>>
    BY <1>1 DEF Of, LifeOf
  <2>2. \A t : plan[r] = <<t>> => IsLast(r)
    BY DEF IsLast
  <2> DEFINE first == plan[r][1]
             second == plan[r][2]
  <2>3. \/ plan[r] = <<first>>
        \/ plan[r] = <<first, second>> /\ Planned(r, second) /\ op[r] \in Several
    BY <1>1, <2>1, Zenon DEF Of, PlanOf
  <2> HIDE DEF first, second
  <2> QED BY <2>2, <2>3
<1>5. plan'[r] = <<u>>
  <2> DEFINE rest == Tail(plan[r])
  <2> HIDE DEF rest
  <2>1. plan' = [plan EXCEPT ![r] = rest] /\ DOMAIN plan = Requests
    BY Zenon DEF Inv, Typed, rest
  <2>2. plan'[r] = rest
    BY ONLY <2>1, r \in Requests
  <2> QED BY ONLY <1>4, <2>2 DEF rest
<1>6. PlanOf(r)'
  <2>1. Planned(r, u)'
    BY <1>4 DEF Planned
  <2>2. plan'[r][1] = u
    BY ONLY <1>5
  <2>3. plan'[r] = <<plan'[r][1]>>
    BY ONLY <1>5, <2>2, Zenon
  <2>4. Planned(r, plan[r][1])'
    BY <2>1, <2>2 DEF Planned
  <2> QED BY ONLY <2>3, <2>4, Zenon DEF PlanOf
<1>7. /\ pc'[r] = "send" /\ tx'[r] = "unsent" /\ answer'[r] = "none" /\ why'[r] = "none"
      /\ plan'[r] # <<>>
  <2>1. <<u>> # <<>>
    OBVIOUS
  <2> QED BY <1>1, <1>5, <2>1 DEF Inv, Typed, Of, LifeOf
<1>8. LifeOf(r)' /\ AnswerOf(r)'
  BY <1>7 DEF LifeOf, AnswerOf
<1>9. MovedOf(r)' /\ GoneOf(r)' /\ FreshOf(r)'
  BY <1>1, <1>4, <1>7 DEF Of, MovedOf, GoneOf, FreshOf
<1> QED BY <1>2, <1>3, <1>6, <1>8, <1>9, Split DEF Of

-----------------------------------------------------------------------------
(***************************************************************************)
(* The chain.                                                              *)
(***************************************************************************)
LEMMA CurrentPlanned ==
  ASSUME NEW r, PlanOf(r), plan[r] # <<>>
  PROVE  Planned(r, Current(r))
<1> DEFINE first == plan[r][1]
           second == plan[r][2]
<1>1. \/ plan[r] = <<first>> /\ Planned(r, first)
      \/ plan[r] = <<first, second>> /\ Planned(r, first)
  BY Zenon DEF PlanOf
<1> HIDE DEF first, second
<1> QED BY <1>1 DEF Current

\* What a transaction does to the position: it moves natural numbers, at least what it
\* puts in, leaves a position of the same type, and does not bring back one that is gone.
LEMMA Effect ==
  ASSUME Inv, NEW r \in Requests, Lands(r)
  PROVE  /\ liquidity' \in Nat \cup {None} /\ owed' \in 0..1
         /\ \E amounts \in NatAmounts :
              /\ last' = [last EXCEPT ![r] = amounts]
              /\ moved' = [moved EXCEPT ![r] = [liquidity |-> @.liquidity + amounts.liquidity,
                                              fees |-> @.fees + amounts.fees]]
         /\ op[r] \in CloseOps => ~Exists'
         /\ op[r] \notin OpenOps /\ ~Exists => ~Exists'
<1> DEFINE t == Current(r)
           before == IF Exists THEN liquidity ELSE 0
           taken == IF t.close = "any" THEN before ELSE Least(t.take, before)
           paid == IF t.claim THEN owed ELSE 0
           left == before + t.put - taken
           amounts == [liquidity |-> t.put + taken, fees |-> paid]
<1>1. Planned(r, t)
  BY CurrentPlanned DEF Inv, Of, LifeOf, Lands
<1>2. t.put \in 0..1 /\ t.take \in Nat /\ t.about \in BOOLEAN /\ t.claim \in BOOLEAN
  BY <1>1 DEF Planned, Planable
<1>3. liquidity \in Nat \cup {None} /\ owed \in 0..1
  BY DEF Inv, Typed
<1>4. /\ tx[r] = "pending" /\ Obstacle(r) = "none"
      /\ last' = [last EXCEPT ![r] = amounts]
      /\ moved' = [moved EXCEPT ![r] = [liquidity |-> @.liquidity + amounts.liquidity,
                                      fees |-> @.fees + amounts.fees]]
      /\ IF ~t.about THEN UNCHANGED <<liquidity, owed>>
         ELSE /\ owed' = owed - paid
              /\ liquidity' = IF Closes(t, left, paid) THEN None ELSE left
  BY Zenon DEF Lands
<1>5. t.about /\ t.opens = "no" => Exists
  BY <1>4 DEF Obstacle
<1>6. /\ op[r] \in CloseOps => t.about /\ t.close = "empty"
      /\ op[r] \notin OpenOps => t.opens = "no"
  BY <1>1 DEF Planned
<1> HIDE DEF t
<1>7. before \in Nat /\ taken \in 0..before /\ paid \in 0..1 /\ paid <= owed
  BY <1>2, <1>3 DEF Least, Exists
<1>8. left \in Nat /\ t.put + taken \in Nat
  <2> HIDE DEF before, taken
  <2> QED BY <1>2, <1>7
<1> HIDE DEF before, taken, paid, left
<1>9. amounts \in NatAmounts
  BY <1>7, <1>8 DEF NatAmounts
<1>10. liquidity' \in Nat \cup {None} /\ owed' \in 0..1
  BY <1>3, <1>4, <1>7, <1>8
<1>11. op[r] \in CloseOps => ~Exists'
  BY <1>4, <1>6 DEF Exists, Closes
<1>12. op[r] \notin OpenOps /\ ~Exists => ~Exists'
  BY <1>4, <1>5, <1>6, <1>2 DEF Exists
<1> HIDE DEF amounts
<1> QED BY <1>4, <1>9, <1>10, <1>11, <1>12

LEMMA LandsStep ==
  ASSUME Inv, NEW r \in Requests, Lands(r)
  PROVE  Inv'
<1>1. PICK amounts \in NatAmounts :
        /\ last' = [last EXCEPT ![r] = amounts]
        /\ moved' = [moved EXCEPT ![r] = [liquidity |-> @.liquidity + amounts.liquidity,
                                        fees |-> @.fees + amounts.fees]]
  BY Effect
<1>2. /\ liquidity' \in Nat \cup {None} /\ owed' \in 0..1
      /\ op[r] \in CloseOps => ~Exists'
      /\ op[r] \notin OpenOps /\ ~Exists => ~Exists'
  BY Effect
<1>3. /\ tx[r] = "pending"
      /\ tx' = [tx EXCEPT ![r] = "landed"]
      /\ fresh' = [q \in Requests |-> q = r /\ fresh[q]]
      /\ UNCHANGED <<sdkVars, op, wallet, pc, plan, builtFor, remembered, why, told, answer>>
  BY Zenon DEF Lands
<1>4. Of(r)
  BY DEF Inv
<1>5. moved[r] \in NatAmounts
  BY DEF Inv, Typed
<1> DEFINE sum == [liquidity |-> moved[r].liquidity + amounts.liquidity, fees |-> moved[r].fees + amounts.fees]
<1>6. sum \in NatAmounts /\ Total(amounts) <= Total(sum)
  BY <1>5 DEF NatAmounts, Total
<1>7. moved' = [moved EXCEPT ![r] = sum]
  BY <1>1
<1> HIDE DEF sum
<1>8. Typed'
  <2>1. last' = [last EXCEPT ![r] = amounts] /\ Typed
    BY <1>1 DEF Inv
  <2>2. last' \in [Requests -> NatAmounts] /\ moved' \in [Requests -> NatAmounts]
    BY <1>6, <1>7, <2>1 DEF Typed
  <2>3. fresh' \in [Requests -> BOOLEAN]
    BY <1>3, <2>1 DEF Typed
  <2> QED BY <1>2, <1>3, <2>1, <2>2, <2>3 DEF Typed
<1>9. OneFamily'
  BY <1>3 DEF Inv, OneFamily
<1>10. ASSUME NEW q \in Requests, q # r PROVE Of(q)'
  <2>1. Same(q) /\ ~fresh'[q]
    BY <1>1, <1>3, <1>7, <1>10 DEF Inv, Typed, Same
  <2>2. op[q] \in CloseOps /\ ~Exists => ~Exists'
    BY <1>2 DEF Inv, OneFamily
  <2>3. Of(q)
    BY DEF Inv
  <2> QED BY <2>1, <2>2, <2>3, KeepsOf
<1>11. /\ tx'[r] = "landed" /\ last'[r] = amounts /\ moved'[r] = sum /\ why[r] = "none"
  BY <1>1, <1>3, <1>4, <1>7 DEF Inv, Typed, Of, LifeOf
<1>12. LifeOf(r)' /\ AnswerOf(r)'
  BY <1>3, <1>4, <1>11 DEF Of, LifeOf, AnswerOf
<1>13. PlanOf(r)'
  BY <1>3, <1>4 DEF Of, PlanOf, Planned
<1>14. MovedOf(r)' /\ GoneOf(r)' /\ FreshOf(r)'
  BY <1>1, <1>2, <1>3, <1>6, <1>11 DEF MovedOf, GoneOf, FreshOf
<1>15. Of(r)'
  BY <1>12, <1>13, <1>14 DEF Of
<1>16. \A q \in Requests : Of(q)'
  BY <1>10, <1>15
<1> QED BY <1>8, <1>9, <1>16 DEF Inv

LEMMA FailsStep ==
  ASSUME Inv, NEW r \in Requests, Fails(r)
  PROVE  Inv'
<1> USE DEF Fails
<1>1. Of(r)
  BY DEF Inv
<1>2. Obstacle(r) \in {"none", "owner", "gone", "stale", "left", "exists"}
  BY DEF Obstacle
<1>3. PICK w \in {Obstacle(r), "price"} \ {"none"} : why' = [why EXCEPT ![r] = w]
  OBVIOUS
<1>4. Typed'
  BY <1>2, <1>3 DEF Inv, Typed, chainVars
<1>5. \A q \in Requests \ {r} : Same(q) /\ fresh'[q] = fresh[q]
  BY <1>3 DEF Inv, Typed, Same
<1>6. tx'[r] = "failed" /\ why'[r] = w /\ tx[r] = "pending"
  BY <1>3 DEF Inv, Typed
<1>7. LifeOf(r)' /\ AnswerOf(r)'
  BY <1>1, <1>6 DEF Of, LifeOf, AnswerOf
<1>8. PlanOf(r)'
  BY <1>1 DEF Of, PlanOf, Planned
<1>9. MovedOf(r)' /\ GoneOf(r)' /\ FreshOf(r)'
  BY <1>1, <1>3, <1>6 DEF Of, MovedOf, GoneOf, FreshOf
<1> QED BY <1>4, <1>5, <1>7, <1>8, <1>9, Split DEF Of

LEMMA DroppedStep ==
  ASSUME Inv, NEW r \in Requests, Dropped(r)
  PROVE  Inv'
<1> USE DEF Dropped
<1>1. Of(r)
  BY DEF Inv
<1>2. Typed'
  BY DEF Inv, Typed, chainVars
<1>3. \A q \in Requests \ {r} : Same(q) /\ fresh'[q] = fresh[q]
  BY DEF Inv, Typed, Same
<1>4. tx'[r] = "dropped" /\ tx[r] = "pending"
  BY DEF Inv, Typed
<1>5. LifeOf(r)' /\ AnswerOf(r)'
  BY <1>1, <1>4 DEF Of, LifeOf, AnswerOf
<1>6. PlanOf(r)'
  BY <1>1 DEF Of, PlanOf, Planned
<1>7. MovedOf(r)' /\ GoneOf(r)' /\ FreshOf(r)'
  BY <1>1, <1>4 DEF Of, MovedOf, GoneOf, FreshOf
<1> QED BY <1>2, <1>3, <1>5, <1>6, <1>7, Split DEF Of

LEMMA AccrueStep ==
  ASSUME Inv, Accrue
  PROVE  Inv'
<1> USE DEF Accrue
<1>1. Typed'
  BY DEF Inv, Typed
<1>2. OneFamily'
  BY DEF Inv, OneFamily
<1>3. ASSUME NEW q \in Requests PROVE Of(q)'
  <2>1. Of(q) /\ Same(q) /\ ~fresh'[q] /\ Exists' = Exists
    BY DEF Inv, Same, Exists
  <2> QED BY <2>1, KeepsOf
<1> QED BY <1>1, <1>2, <1>3 DEF Inv

-----------------------------------------------------------------------------
(***************************************************************************)
(* The tables, and what the routes tell.                                   *)
(***************************************************************************)
LEMMA PlainTables ==
  /\ WalletSound(StatusOfLookup) /\ WalletSound(ConfirmedBySend) /\ WalletSound(NullIsError)
  /\ WalletSound(OrcaSwapAnswer) /\ RawSound(StatusOfRaw)
<1>1. /\ StatusOfLookup \in [Replies -> Answers \ {"none"}]
      /\ StatusOfLookup["found"] = "confirmed" /\ StatusOfLookup["null"] = "status0"
      /\ StatusOfLookup["failed"] = "client_error" /\ StatusOfLookup["rejected"] = "client_error"
      /\ StatusOfLookup["timeout"] = "timeout" /\ StatusOfLookup["throttled"] = "throttled"
      /\ StatusOfLookup["error"] = "server_error" /\ StatusOfLookup["lookup_error"] = "server_error"
  BY DEF StatusOfLookup, Replies, Answers
<1>2. WalletSound(StatusOfLookup)
  BY <1>1 DEF WalletSound, Sound
<1> USE DEF Replies, Answers
<1>3. RawSound(StatusOfRaw)
  BY <1>1 DEF StatusOfRaw, RawSound, Sound
<1>4. WalletSound(ConfirmedBySend)
  BY <1>1 DEF ConfirmedBySend, WalletSound, Sound
<1>5. WalletSound(NullIsError)
  BY <1>1 DEF NullIsError, WalletSound, Sound
<1>6. WalletSound(OrcaSwapAnswer)
  BY <1>4 DEF OrcaSwapAnswer, WalletSound, Sound
<1> QED BY <1>2, <1>3, <1>4, <1>5, <1>6

\* What a landed transaction lets a route tell.
LEMMA Tellable ==
  ASSUME Inv, NEW r \in Requests
  PROVE  /\ Total(last[r]) \in Nat /\ Total(moved[r]) \in Nat /\ Total(last[r]) <= Total(moved[r])
         /\ last[r] \in NatAmounts
         /\ \A n, m \in Nat : /\ [liquidity |-> n, fees |-> m] \in NatAmounts
                              /\ Total([liquidity |-> n, fees |-> m]) = n + m
<1>1. last[r] \in NatAmounts /\ moved[r] \in NatAmounts
  BY DEF Inv, Typed
<1>2. Total(last[r]) \in Nat /\ Total(moved[r]) \in Nat
  BY <1>1 DEF NatAmounts, Total
<1>3. Total(last[r]) <= Total(moved[r])
  BY DEF Inv, Of, MovedOf
<1>4. \A n, m \in Nat : [liquidity |-> n, fees |-> m] \in NatAmounts
  BY DEF NatAmounts
<1>5. \A n, m \in Nat : Total([liquidity |-> n, fees |-> m]) = n + m
  BY DEF Total
<1> QED BY <1>1, <1>2, <1>3, <1>4, <1>5

LEMMA PlainTells ==
  ASSUME Inv, NEW r \in Requests, NEW table
  PROVE  TellsTrue(r, table, AsLiquidity(r)) /\ TellsTrue(r, table, AsFees(r))
<1> DEFINE n == Total(last[r])
<1>1. n \in Nat /\ n <= Total(moved[r])
  BY Tellable
<1>2. /\ [liquidity |-> n, fees |-> 0] \in NatAmounts /\ Total([liquidity |-> n, fees |-> 0]) = n
      /\ [liquidity |-> 0, fees |-> n] \in NatAmounts /\ Total([liquidity |-> 0, fees |-> n]) = n
  BY <1>1, Tellable
<1>3. \A x \in Replies : AsLiquidity(r)[x] = [liquidity |-> n, fees |-> 0]
  BY DEF AsLiquidity
<1>4. \A x \in Replies : AsFees(r)[x] = [liquidity |-> 0, fees |-> n]
  BY DEF AsFees
<1> HIDE DEF n
<1> QED BY <1>1, <1>2, <1>3, <1>4 DEF TellsTrue

-----------------------------------------------------------------------------
(***************************************************************************)
(* The routes.                                                             *)
(***************************************************************************)
LEMMA RefuseStep ==
  ASSUME Inv, NEW r \in Requests, pc[r] \in {"start", "read"}, Refuse(r) \/ Break(r)
  PROVE  Inv'
<1>1. tx[r] = "unsent"
  BY DEF Inv, Of, LifeOf
<1> QED BY <1>1, ReturnStep DEF Refuse, Break

LEMMA OneTransaction ==
  ASSUME Inv, NEW r \in Requests, pc[r] \in {"start", "read"},
         NEW someone \in Wallets \cup {Nobody}, NEW t, Planned(r, t),
         NEW amounts \in NatAmounts, PrepareFor(r, someone, <<t>>, amounts)
  PROVE  Inv'
BY PrepareStep DEF PlanFor

LEMMA PreparesOne ==
  ASSUME Inv, NEW r \in Requests, pc[r] \in {"start", "read"}, NEW t, Planned(r, t), Prepare(r, t)
  PROVE  Inv'
<1>1. wallet[r] \in Wallets
  BY DEF Inv, Typed
<1>2. Nothing \in NatAmounts
  BY DEF Nothing, NatAmounts
<1> QED BY <1>1, <1>2, OneTransaction DEF Prepare

LEMMA HalfNat ==
  ASSUME Inv, Exists
  PROVE  liquidity \in Nat /\ \A n \in Half : n \in Nat /\ n > 0
<1>1. liquidity \in Nat
  BY DEF Inv, Typed, Exists
<1> QED BY <1>1 DEF Half

\* The transactions that the routes build, and what each may be built for.
LEMMA PlannedPlain ==
  ASSUME NEW r, NEW t, Plain(t), op[r] \notin CloseOps
  PROVE  Planned(r, t)
BY DEF Planned, Plain

LEMMA PlannedClosing ==
  ASSUME NEW r, NEW t, Plain(t), t.about
  PROVE  /\ Planned(r, Closing(t))
         /\ \A b \in BOOLEAN : Planned(r, [Closing(t) EXCEPT !.claim = b])
<1> DEFINE u == Closing(t)
<1>1. u \in Planable /\ u.opens = "no" /\ u.put = 0 /\ u.close = "empty" /\ u.about = t.about
  BY UpdateClose DEF Closing
<1> HIDE DEF u
<1>2. Planned(r, u)
  BY <1>1 DEF Planned
<1>3. ASSUME NEW b \in BOOLEAN PROVE Planned(r, [u EXCEPT !.claim = b])
  <2> DEFINE v == [u EXCEPT !.claim = b]
  <2>1. v \in Planable /\ v.opens = u.opens /\ v.put = u.put /\ v.close = u.close /\ v.about = u.about
    BY <1>1, UpdateClaim
  <2> HIDE DEF v
  <2>2. Planned(r, v)
    BY <1>1, <1>3, <2>1 DEF Planned
  <2> QED BY <2>2 DEF v
<1> QED BY <1>2, <1>3 DEF u

LEMMA PlannedCloses ==
  ASSUME NEW r, NEW t, Plain(t), NEW c \in {"empty", "if_empty", "any"},
         op[r] \notin CloseOps
  PROVE  Planned(r, [t EXCEPT !.close = c])
<1> DEFINE u == [t EXCEPT !.close = c]
<1>1. u \in Planable /\ u.opens = "no"
  BY UpdateClose
<1> HIDE DEF u
<1>2. Planned(r, u)
  BY <1>1 DEF Planned
<1> QED BY <1>2 DEF u

LEMMA PlannedPut ==
  ASSUME NEW r, NEW t, Plain(t), op[r] \notin CloseOps
  PROVE  /\ Planned(r, [t EXCEPT !.put = 1])
         /\ op[r] \in OpenOps => \A o \in {"no", "new", "if_missing"} :
              Planned(r, [[t EXCEPT !.put = 1] EXCEPT !.opens = o])
<1> DEFINE u == [t EXCEPT !.put = 1]
<1>1. u \in Planable /\ u.opens = "no" /\ u.put = 1
  BY UpdatePut
<1> HIDE DEF u
<1>2. Planned(r, u)
  BY <1>1 DEF Planned
<1>3. ASSUME op[r] \in OpenOps, NEW o \in {"no", "new", "if_missing"}
      PROVE  Planned(r, [u EXCEPT !.opens = o])
  <2> DEFINE v == [u EXCEPT !.opens = o]
  <2>1. v \in Planable
    BY <1>1, UpdateOpens
  <2> HIDE DEF v
  <2>2. Planned(r, v)
    BY <1>3, <2>1 DEF Planned, OpenOps
  <2> QED BY <2>2 DEF v
<1> QED BY <1>2, <1>3 DEF u

LEMMA MeteoraChecksStep ==
  ASSUME Inv, NEW r \in Requests, MeteoraChecks(r)
  PROVE  Inv'
<1> USE DEF Starts
<1>1. wallet[r] \in Wallets /\ Nothing \in NatAmounts
  BY DEF Inv, Typed, Nothing, NatAmounts
<1>2. ASSUME NEW o \in {"meteora open", "damm add"}, Starts(r, o), Prepare(r, [Elsewhere EXCEPT !.put = 1])
      PROVE  Inv'
  <2>1. Planned(r, [Elsewhere EXCEPT !.put = 1])
    BY <1>2, ElsewherePlain, PlannedPut DEF CloseOps
  <2> QED BY <1>2, <2>1, PreparesOne
<1>3. ASSUME NEW o \in {"meteora add", "damm add"}, Starts(r, o), Prepare(r, Putting)
      PROVE  Inv'
  <2>1. Planned(r, Putting)
    BY <1>3, PlainTransactions, PlannedPut DEF CloseOps, Putting
  <2> QED BY <1>3, <2>1, PreparesOne
<1>4. ASSUME NEW o \in {"meteora swap", "damm swap"}, Starts(r, o), Prepare(r, Elsewhere)
      PROVE  Inv'
  <2>1. Planned(r, Elsewhere)
    BY <1>4, ElsewherePlain, PlannedPlain DEF CloseOps
  <2> QED BY <1>4, <2>1, PreparesOne
<1>5. CASE Starts(r, "meteora remove") /\ MeteoraRemove(r)
  <2>1. CASE Found(r)
    <3>1. PICK n \in Half : \E ts \in Chunks(n) : PrepareFor(r, wallet[r], ts, Nothing)
      BY <1>5, <2>1 DEF MeteoraRemove
    <3>2. n \in Nat /\ n > 0
      BY <2>1, HalfNat DEF Found
    <3>3. n \in Nat /\ (n > 1 => n - 1 \in Nat)
      BY <3>2
    <3>4. \A m \in Nat : Planned(r, Part(m))
      BY <1>5, PlainTransactions, PlannedPlain DEF CloseOps
    <3>7. PICK ts \in Chunks(n) : PrepareFor(r, wallet[r], ts, Nothing)
      BY <3>1
    <3>5. ts = <<Part(n)>> \/ (n > 1 /\ ts = <<Part(1), Part(n - 1)>>)
      BY DEF Chunks
    <3>6. PlanFor(r, ts)
      BY <1>5, <3>3, <3>4, <3>5 DEF PlanFor, Several
    <3> QED BY <1>1, <1>5, <3>7, <3>6, PrepareStep
  <2>2. CASE ~Found(r)
    BY <1>5, <2>2, RefuseStep DEF MeteoraRemove
  <2> QED BY <2>1, <2>2
<1>6. CASE Starts(r, "meteora collect") /\ MeteoraCollect(r)
  <2>1. CASE Found(r)
    <3>1. PICK ts \in {<<Claiming(OnPosition)>>, <<Claiming(OnPosition), OnPosition>>} :
            PrepareFor(r, wallet[r], ts, Nothing)
      BY <1>6, <2>1 DEF MeteoraCollect
    <3>2. Planned(r, Claiming(OnPosition)) /\ Planned(r, OnPosition)
      BY <1>6, PlainTransactions, PlannedPlain DEF CloseOps
    <3>3. PlanFor(r, ts)
      BY <1>6, <3>2 DEF PlanFor, Several
    <3> QED BY <1>1, <1>6, <3>1, <3>3, PrepareStep
  <2>2. CASE ~Found(r)
    BY <1>6, <2>2, RefuseStep DEF MeteoraCollect
  <2> QED BY <2>1, <2>2
<1>7. CASE Starts(r, "meteora close") /\ MeteoraClose(r)
  <2>1. CASE Found(r)
    <3> DEFINE n == liquidity
               read == [liquidity |-> 0, fees |-> owed]
    <3>1. PICK ts \in ClosingChunks(n) : PrepareFor(r, wallet[r], ts, read)
      BY <1>7, <2>1 DEF MeteoraClose
    <3>2. n \in Nat /\ (n > 1 => n - 1 \in Nat) /\ read \in NatAmounts
      BY <2>1 DEF Inv, Typed, Found, Exists, NatAmounts
    <3>3. \A m \in Nat : /\ Plain(Part(m)) /\ Plain(Claiming(Part(m))) /\ Planned(r, Claiming(Part(m)))
      BY <1>7, PlainTransactions, PlannedPlain DEF CloseOps
    <3>4. \A m \in Nat : Planned(r, AndClose(Part(m))) /\ Planned(r, AndClose(Claiming(Part(m))))
      BY <1>7, <3>3, PlannedCloses DEF CloseOps, AndClose
    <3>5. \/ ts = <<AndClose(Claiming(Part(n)))>>
          \/ n > 1 /\ ts = <<Claiming(Part(1)), AndClose(Part(n - 1))>>
      BY DEF ClosingChunks
    <3>6. PlanFor(r, ts)
      BY <1>7, <3>2, <3>3, <3>4, <3>5 DEF PlanFor, Several
    <3> QED BY <1>1, <1>7, <3>1, <3>2, <3>6, PrepareStep
  <2>2. CASE ~Found(r)
    BY <1>7, <2>2, RefuseStep DEF MeteoraClose
  <2> QED BY <2>1, <2>2
<1>8. CASE Starts(r, "meteora create") /\ MeteoraCreate(r)
  <2>1. ASSUME NEW p \in 1..2 PROVE Planned(r, CreatingAt(p))
    <3>1. Plain(CreatingAt(p))
      BY PlainTransactions
    <3> QED BY <1>8, <3>1, PlannedPlain DEF CloseOps
  <2> QED BY <1>8, <2>1, PreparesOne, RefuseStep DEF MeteoraCreate
<1>9. CASE Starts(r, "damm remove") /\ DammRemove(r)
  <2>1. CASE Found(r) /\ liquidity > 0
    <3>1. PICK n \in Half : Prepare(r, Taking(n))
      BY <1>9, <2>1 DEF DammRemove
    <3>2. n \in Nat
      BY <2>1, HalfNat DEF Found
    <3>3. Planned(r, Taking(n))
      BY <1>9, <3>2, PlainTransactions, PlannedPlain DEF CloseOps
    <3> QED BY <1>9, <3>1, <3>3, PreparesOne
  <2>2. CASE ~(Found(r) /\ liquidity > 0)
    BY <1>9, <2>2, RefuseStep DEF DammRemove
  <2> QED BY <2>1, <2>2
<1>10. CASE Starts(r, "damm create") /\ DammCreate(r)
  <2>1. ASSUME NEW p \in 1..2 PROVE Planned(r, [CreatingAt(p) EXCEPT !.put = 1])
    <3>1. Plain(CreatingAt(p))
      BY PlainTransactions
    <3> QED BY <1>10, <3>1, PlannedPut DEF CloseOps
  <2> QED BY <1>10, <2>1, PreparesOne, RefuseStep DEF DammCreate
<1>11. CASE \/ Starts(r, "meteora open") /\ MeteoraOpen(r)
            \/ Starts(r, "meteora add") /\ MeteoraAdd(r)
            \/ Starts(r, "meteora swap") /\ MeteoraSwap(r)
            \/ Starts(r, "damm add") /\ DammAdd(r)
            \/ Starts(r, "damm swap") /\ DammSwap(r)
  BY <1>2, <1>3, <1>4, <1>11, RefuseStep
  DEF MeteoraOpen, MeteoraAdd, MeteoraSwap, DammAdd, DammSwap
<1> QED BY <1>5, <1>6, <1>7, <1>8, <1>9, <1>10, <1>11 DEF MeteoraChecks

LEMMA MeteoraStepKeeps ==
  ASSUME Inv, NEW r \in Requests, MeteoraStep(r)
  PROVE  Inv'
<1>1. WalletSound(MeteoraTable(r))
  BY PlainTables DEF MeteoraStep, MeteoraTable, MeteoraClmmOps, MeteoraAmmOps, MeteoraOpenAnswer,
     MeteoraAddAnswer, MeteoraRemoveAnswer, MeteoraCollectAnswer, MeteoraCloseAnswer,
     MeteoraCreateAnswer, MeteoraSwapAnswer, DammAddAnswer, DammRemoveAnswer, DammCreateAnswer,
     DammSwapAnswer
<1>2. TellsTrue(r, MeteoraTable(r), MeteoraTells(r))
  <2>1. CASE op[r] = "meteora close"
    <3> DEFINE read == remembered[r].fees
               total == Total(last[r])
               more == IF total > read THEN total - read ELSE 0
    <3>1. read \in Nat /\ total \in Nat
      BY Tellable DEF Inv, Typed, NatAmounts
    <3>2. more \in Nat
      BY <3>1
    <3>3. [liquidity |-> more, fees |-> read] \in NatAmounts
      BY <3>1, <3>2, Tellable
    <3>4. \A x \in Replies : MeteoraTells(r)[x] = [liquidity |-> more, fees |-> read]
      BY <2>1 DEF MeteoraTells, MeteoraCloseTells
    <3> HIDE DEF more, read, total
    <3> QED BY <2>1, <3>3, <3>4 DEF TellsTrue, TellRead
  <2>2. CASE op[r] = "meteora collect"
    <3>1. MeteoraTells(r) = AsFees(r)
      BY <2>2 DEF MeteoraTells
    <3> QED BY <3>1, PlainTells
  <2>3. CASE op[r] \notin {"meteora close", "meteora collect"}
    <3>1. MeteoraTells(r) = AsLiquidity(r)
      BY <2>3 DEF MeteoraTells
    <3> QED BY <3>1, PlainTells
  <2> QED BY <2>1, <2>2, <2>3
<1>3. CASE Broadcast(r, MeteoraTable(r))
  BY <1>1, <1>3, BroadcastStep DEF SoundFor
<1>4. CASE Answered(r, WalletReplies(r), MeteoraTable(r), MeteoraTells(r))
  BY <1>1, <1>2, <1>4, WalletAnswered
<1> QED BY <1>3, <1>4, MeteoraChecksStep, SendsNextStep DEF MeteoraStep

LEMMA RaydiumBuilds ==
  ASSUME Inv, sdkOwner \in Wallets \cup {Nobody}, NEW r \in Requests, pc[r] = "read",
         NEW t, Planned(r, t), Build(r, t)
  PROVE  Inv'
<1>1. Nothing \in NatAmounts
  BY DEF Nothing, NatAmounts
<1> QED BY <1>1, OneTransaction DEF Build

LEMMA RaydiumChecksStep ==
  ASSUME Inv, sdkOwner \in Wallets \cup {Nobody}, NEW r \in Requests, RaydiumChecks(r)
  PROVE  Inv'
<1> USE DEF Continues
<1>0. pc[r] = "read"
  BY DEF RaydiumChecks
<1>1. \A n \in Nat : Plain(Decreasing(n)) /\ Decreasing(n).about
  BY PlainTransactions DEF Decreasing
<1>2. CASE \/ Continues(r, "raydium open") /\ RaydiumOpen(r)
           \/ Continues(r, "raydium swap") /\ RaydiumSwap(r)
           \/ Continues(r, "raydium amm swap") /\ RaydiumAmmSwap(r)
  <2>1. Planned(r, Elsewhere) /\ Planned(r, [Elsewhere EXCEPT !.put = 1])
    BY <1>2, ElsewherePlain, PlannedPlain, PlannedPut DEF CloseOps
  <2> QED BY <1>0, <1>2, <2>1, RaydiumBuilds DEF RaydiumOpen, RaydiumSwap, RaydiumAmmSwap
<1>3. CASE Continues(r, "raydium add") /\ RaydiumAdd(r)
  <2>1. Planned(r, Putting)
    BY <1>3, PlainTransactions, PlannedPut DEF CloseOps, Putting
  <2> QED BY <1>0, <1>3, <2>1, RaydiumBuilds, RefuseStep DEF RaydiumAdd
<1>4. CASE Continues(r, "raydium remove") /\ RaydiumRemove(r)
  <2>1. CASE Exists /\ liquidity > 0
    <3>1. PICK n \in Half : Build(r, Decreasing(n))
      BY <1>4, <2>1 DEF RaydiumRemove
    <3>2. n \in Nat
      BY <2>1, HalfNat
    <3>3. Planned(r, Decreasing(n))
      BY <1>1, <1>4, <3>2, PlannedPlain DEF CloseOps
    <3> QED BY <1>0, <3>1, <3>3, RaydiumBuilds
  <2>2. CASE ~(Exists /\ liquidity > 0)
    BY <1>0, <1>4, <2>2, RefuseStep DEF RaydiumRemove
  <2> QED BY <2>1, <2>2
<1>5. CASE Continues(r, "raydium collect") /\ RaydiumCollect(r)
  <2>1. OnePercent \in Nat
    BY DEF OnePercent
  <2>2. Planned(r, Decreasing(OnePercent))
    BY <1>1, <1>5, <2>1, PlannedPlain DEF CloseOps
  <2>3. Refuse(r) \/ Break(r) \/ Build(r, Decreasing(OnePercent))
    BY <1>5 DEF RaydiumCollect
  <2> QED BY <1>0, <2>2, <2>3, RaydiumBuilds, RefuseStep
<1>6. CASE Continues(r, "raydium close") /\ RaydiumClose(r)
  <2>1. \/ Break(r) /\ ~Exists
        \/ Build(r, Closing(Decreasing(liquidity))) /\ liquidity > 0
        \/ Build(r, Closing(OnPosition))
    BY <1>6 DEF RaydiumClose, Exists
  <2>2. liquidity > 0 => liquidity \in Nat
    BY DEF Inv, Typed, None
  <2>3. liquidity > 0 => Planned(r, Closing(Decreasing(liquidity)))
    BY <1>1, <1>6, <2>2, PlannedClosing
  <2>4. Planned(r, Closing(OnPosition))
    BY <1>6, PlainTransactions, PlannedClosing
  <2> QED BY <1>0, <2>1, <2>3, <2>4, RaydiumBuilds, RefuseStep
<1>7. CASE Continues(r, "raydium create") /\ RaydiumCreate(r)
  <2>1. ASSUME NEW p \in 1..2 PROVE Planned(r, CreatingAt(p))
    <3>1. Plain(CreatingAt(p))
      BY PlainTransactions
    <3> QED BY <1>7, <3>1, PlannedPlain DEF CloseOps
  <2> QED BY <1>0, <1>7, <2>1, RaydiumBuilds DEF RaydiumCreate
<1>8. CASE Continues(r, "raydium amm create") /\ RaydiumAmmCreate(r)
  <2>1. ASSUME NEW p \in 1..2 PROVE Planned(r, [CreatingAt(p) EXCEPT !.put = 1])
    <3>1. Plain(CreatingAt(p))
      BY PlainTransactions
    <3> QED BY <1>8, <3>1, PlannedPut DEF CloseOps
  <2> QED BY <1>0, <1>8, <2>1, RaydiumBuilds DEF RaydiumAmmCreate
<1>9. CASE Continues(r, "raydium amm add") /\ RaydiumAmmAdd(r)
  <2>1. Planned(r, [Elsewhere EXCEPT !.put = 1])
    BY <1>9, ElsewherePlain, PlannedPut DEF CloseOps
  <2>2. Planned(r, [Putting EXCEPT !.opens = "if_missing"])
    BY <1>9, PlainTransactions, PlannedPut DEF CloseOps, OpenOps, Putting
  <2>3. \/ Build(r, [Putting EXCEPT !.opens = "if_missing"])
        \/ Build(r, [Elsewhere EXCEPT !.put = 1])
    <3>1. CASE Mine(r)
      BY <1>9, <3>1 DEF RaydiumAmmAdd
    <3>2. CASE ~Mine(r)
      BY <1>9, <3>2 DEF RaydiumAmmAdd
    <3> QED BY <3>1, <3>2
  <2> QED BY <1>0, <2>1, <2>2, <2>3, RaydiumBuilds
<1>10. CASE Continues(r, "raydium amm remove") /\ RaydiumAmmRemove(r)
  <2>1. \A n \in LpToRemove(r) : n \in Nat
    BY HalfNat DEF LpToRemove
  <2>2. \A n \in LpToRemove(r) : Planned(r, Taking(n))
    BY <1>10, <2>1, PlainTransactions, PlannedPlain DEF CloseOps
  <2> QED BY <1>0, <1>10, <2>2, RaydiumBuilds, RefuseStep DEF RaydiumAmmRemove
<1> QED BY <1>2, <1>3, <1>4, <1>5, <1>6, <1>7, <1>8, <1>9, <1>10 DEF RaydiumChecks

LEMMA RaydiumStepKeeps ==
  ASSUME Inv, sdkOwner \in Wallets \cup {Nobody}, NEW r \in Requests, RaydiumStep(r)
  PROVE  Inv'
<1>1. WalletSound(RaydiumTable(r))
  <2>1. RaydiumTable(r) \in {StatusOfLookup, NullIsError}
    BY DEF RaydiumStep, RaydiumTable, RaydiumOps, RaydiumClmmOps, RaydiumAmmOps, RaydiumOpenAnswer,
       RaydiumAddAnswer, RaydiumRemoveAnswer, RaydiumCollectAnswer, RaydiumCloseAnswer,
       RaydiumCreateAnswer, RaydiumSwapAnswer, RaydiumAmmAddAnswer, RaydiumAmmRemoveAnswer,
       RaydiumAmmCreateAnswer, RaydiumAmmSwapAnswer
  <2> QED BY <2>1, PlainTables
<1>2. TellsTrue(r, RaydiumTable(r), RaydiumTells(r))
  <2> DEFINE n == Total(last[r])
  <2>1. n \in Nat /\ n <= Total(moved[r]) /\ Total(moved[r]) \in Nat /\ n - n = 0
    BY Tellable
  <2>2. /\ [liquidity |-> n, fees |-> 0] \in NatAmounts /\ Total([liquidity |-> n, fees |-> 0]) = n
        /\ [liquidity |-> 0, fees |-> 0] \in NatAmounts /\ Total([liquidity |-> 0, fees |-> 0]) = 0
    BY <2>1, Tellable
  <2>3. CASE op[r] = "raydium collect"
    <3>1. \A x \in Replies : RaydiumTells(r)[x] = [liquidity |-> 0, fees |-> n - n]
      BY <2>3 DEF RaydiumTells, RaydiumCollectTells
    <3> HIDE DEF n
    <3>2. \A x \in Replies : RaydiumTells(r)[x] = [liquidity |-> 0, fees |-> 0]
      BY <2>1, <3>1
    <3> QED BY <2>1, <2>2, <3>2 DEF TellsTrue
  <2>4. CASE op[r] = "raydium close"
    <3>1. \A x \in Replies : RaydiumTells(r)[x] = [liquidity |-> n, fees |-> n - n]
      BY <2>4 DEF RaydiumTells, RaydiumCloseTells
    <3> HIDE DEF n
    <3>2. \A x \in Replies : RaydiumTells(r)[x] = [liquidity |-> n, fees |-> 0]
      BY <2>1, <3>1
    <3> QED BY <2>1, <2>2, <3>2 DEF TellsTrue
  <2>5. CASE op[r] \notin {"raydium collect", "raydium close"}
    <3>1. RaydiumTells(r) = AsLiquidity(r)
      BY <2>5 DEF RaydiumTells
    <3> QED BY <3>1, PlainTells
  <2> QED BY <2>3, <2>4, <2>5
<1>3. CASE Broadcast(r, RaydiumTable(r))
  BY <1>1, <1>3, BroadcastStep DEF SoundFor
<1>4. CASE Answered(r, WalletReplies(r), RaydiumTable(r), RaydiumTells(r))
  BY <1>1, <1>2, <1>4, WalletAnswered
<1>5. CASE SetOwner(r)
  <2>1. remembered' \in [Requests -> NatAmounts]
    BY <1>5 DEF SetOwner, Inv, Typed
  <2> QED BY <1>5, <2>1, ReadStep DEF SetOwner
<1> QED BY <1>3, <1>4, <1>5, RaydiumChecksStep DEF RaydiumStep

LEMMA OrcaChecksStep ==
  ASSUME Inv, NEW r \in Requests, OrcaChecks(r)
  PROVE  Inv'
<1> USE DEF Starts, Continues
<1>1. wallet[r] \in Wallets
  BY DEF Inv, Typed
<1>2. CASE \/ Starts(r, "orca open") /\ OrcaOpen(r)
           \/ Starts(r, "orca swap") /\ OrcaSwap(r)
  <2>1. PICK estimate \in 0..2 :
          PrepareFor(r, wallet[r], <<[Elsewhere EXCEPT !.put = 1]>>, [liquidity |-> estimate, fees |-> 0])
    BY <1>2 DEF OrcaOpen, OrcaSwap, Estimating
  <2>2. Planned(r, [Elsewhere EXCEPT !.put = 1])
    BY <1>2, ElsewherePlain, PlannedPut DEF CloseOps
  <2>3. [liquidity |-> estimate, fees |-> 0] \in NatAmounts
    BY DEF NatAmounts
  <2> QED BY <1>1, <1>2, <2>1, <2>2, <2>3, OneTransaction
<1>3. CASE Starts(r, "orca add") /\ OrcaAdd(r)
  <2>1. Planned(r, Putting)
    BY <1>3, PlainTransactions, PlannedPut DEF CloseOps, Putting
  <2> QED BY <1>3, <2>1, PreparesOne, RefuseStep DEF OrcaAdd
<1>4. CASE Starts(r, "orca remove") /\ OrcaRemove(r)
  <2>1. \/ Break(r) \/ Refuse(r)
        \/ Exists /\ \E n \in Half : Prepare(r, Taking(n))
    <3>1. CASE ~Exists
      BY <1>4, <3>1 DEF OrcaRemove, Exists, None
    <3>2. CASE Exists /\ liquidity = 0
      BY <1>4, <3>2 DEF OrcaRemove
    <3>3. CASE Exists /\ liquidity # 0
      BY <1>4, <3>3 DEF OrcaRemove
    <3> QED BY <3>1, <3>2, <3>3
  <2>2. ASSUME Exists, NEW n \in Half PROVE Planned(r, Taking(n))
    <3>1. n \in Nat
      BY <2>2, HalfNat
    <3> QED BY <1>4, <3>1, PlainTransactions, PlannedPlain DEF CloseOps
  <2> QED BY <1>4, <2>1, <2>2, PreparesOne, RefuseStep
<1>5. CASE Starts(r, "orca collect") /\ OrcaCollect(r)
  <2>1. Planned(r, Claiming(OnPosition))
    BY <1>5, PlainTransactions, PlannedPlain DEF CloseOps
  <2> QED BY <1>5, <2>1, PreparesOne, RefuseStep DEF OrcaCollect
<1>6. CASE Starts(r, "orca close") /\ OrcaCloseReads(r)
  <2>1. CASE ~Exists
    BY <1>6, <2>1, RefuseStep DEF OrcaCloseReads
  <2>2. CASE Exists
    <3> DEFINE read == [liquidity |-> IF liquidity > 0 THEN 1 ELSE 0, fees |-> 0]
    <3>1. read \in NatAmounts
      BY DEF NatAmounts
    <3> HIDE DEF read
    <3>2. /\ pc' = [pc EXCEPT ![r] = "read"] /\ remembered' = [remembered EXCEPT ![r] = read]
          /\ ReadsOnly /\ UNCHANGED <<plan, builtFor, told, answer>>
      BY <1>6, <2>2 DEF OrcaCloseReads, read
    <3>3. remembered' \in [Requests -> NatAmounts]
      BY <3>1, <3>2 DEF Inv, Typed
    <3> QED BY <1>6, <3>2, <3>3, ReadStep DEF ReadsOnly
  <2> QED BY <2>1, <2>2
<1>7. CASE Continues(r, "orca close") /\ OrcaCloseBuilds(r)
  <2>1. CASE Exists
    <3> DEFINE t == [Closing(Taking(liquidity)) EXCEPT !.claim = owed = 1]
    <3>1. liquidity \in Nat /\ remembered[r] \in NatAmounts
      BY <2>1 DEF Inv, Typed, Exists
    <3>2. Planned(r, t)
      BY <1>7, <3>1, PlainTransactions, PlannedClosing
    <3>3. PrepareFor(r, wallet[r], <<t>>, remembered[r])
      BY <1>7, <2>1 DEF OrcaCloseBuilds
    <3> HIDE DEF t
    <3> QED BY <1>1, <1>7, <3>1, <3>2, <3>3, OneTransaction
  <2>2. CASE ~Exists
    BY <1>7, <2>2, RefuseStep DEF OrcaCloseBuilds
  <2> QED BY <2>1, <2>2
<1>8. CASE Starts(r, "orca create") /\ OrcaCreate(r)
  <2>1. ASSUME NEW p \in 1..2 PROVE Planned(r, CreatingAt(p))
    <3>1. Plain(CreatingAt(p))
      BY PlainTransactions
    <3> QED BY <1>8, <3>1, PlannedPlain DEF CloseOps
  <2> QED BY <1>8, <2>1, PreparesOne, RefuseStep DEF OrcaCreate
<1> QED BY <1>2, <1>3, <1>4, <1>5, <1>6, <1>7, <1>8 DEF OrcaChecks

LEMMA OrcaTellsTrue ==
  ASSUME Inv, NEW r \in Requests, NEW table, NEW tells \in OrcaTells(r)
  PROVE  TellsTrue(r, table, tells)
<1> DEFINE l == last[r]
           n == Total(l)
<1>1. n \in Nat /\ n <= Total(moved[r]) /\ Total(moved[r]) \in Nat /\ l \in NatAmounts
  BY Tellable
<1> DEFINE AsOne == [liquidity |-> n, fees |-> 0]
           AsOther == [liquidity |-> 0, fees |-> n]
<1>2. /\ AsOne \in NatAmounts /\ Total(AsOne) = n
      /\ AsOther \in NatAmounts /\ Total(AsOther) = n
      /\ Nothing \in NatAmounts /\ Total(Nothing) = 0
  BY <1>1, Tellable DEF Nothing
<1>3. CASE op[r] \in {"orca open", "orca swap"}
  <2>1. tells \in {Estimates(r), [AsLiquidity(r) EXCEPT !["null"] = remembered[r]]}
    BY <1>3 DEF OrcaTells, OrcaOpenTells, OrcaSwapTells
  <2>2. \A x \in Replies : tells[x] = remembered[r] \/ tells[x] = AsOne
    BY <2>1 DEF AsLiquidity, Estimates
  <2>3. remembered[r] \in NatAmounts
    BY DEF Inv, Typed
  <2> HIDE DEF AsOne
  <2> QED BY <1>2, <1>3, <2>2, <2>3 DEF TellsTrue, TellRead
<1>4. CASE op[r] = "orca close"
  <2>1. tells = OrcaCloseTells(r)
    BY <1>4 DEF OrcaTells
  <2>2. ASSUME NEW x \in Replies PROVE tells[x] \in {Nothing, l, AsOne, AsOther}
    BY <2>1, <2>2 DEF OrcaCloseTells
  <2> HIDE DEF AsOne, AsOther
  <2>3. \A a \in {Nothing, l, AsOne, AsOther} : a \in NatAmounts /\ Total(a) <= Total(moved[r])
    <3> HIDE DEF l, n
    <3>1. n = Total(l)
      BY DEF n
    <3> QED BY <1>1, <1>2, <3>1
  <2> QED BY <2>2, <2>3 DEF TellsTrue
<1>5. CASE op[r] \notin {"orca open", "orca close", "orca swap"}
  <2>1. tells \in {AsFees(r), AsLiquidity(r)}
    BY <1>5 DEF OrcaTells
  <2> QED BY <2>1, PlainTells
<1> QED BY <1>3, <1>4, <1>5

LEMMA OrcaStepKeeps ==
  ASSUME Inv, NEW r \in Requests, OrcaStep(r)
  PROVE  Inv'
<1>1. WalletSound(OrcaTable(r))
  <2>1. OrcaTable(r) \in {StatusOfLookup, ConfirmedBySend, NullIsError, OrcaSwapAnswer}
    BY DEF OrcaStep, OrcaTable, OrcaOps, OrcaOpenAnswer, OrcaAddAnswer, OrcaRemoveAnswer,
       OrcaCollectAnswer, OrcaCloseAnswer, OrcaCreateAnswer
  <2> QED BY <2>1, PlainTables
<1>2. CASE Broadcast(r, OrcaTable(r))
  BY <1>1, <1>2, BroadcastStep DEF SoundFor
<1>3. ASSUME NEW tells \in OrcaTells(r), Answered(r, WalletReplies(r), OrcaTable(r), tells) PROVE Inv'
  BY <1>1, <1>3, OrcaTellsTrue, WalletAnswered
<1> QED BY <1>2, <1>3, OrcaChecksStep DEF OrcaStep

LEMMA RawChecksStep ==
  ASSUME Inv, NEW r \in Requests, RawChecks(r)
  PROVE  Inv'
<1> USE DEF Starts
<1>1. wallet[r] \in Wallets
  BY DEF Inv, Typed
<1>2. CASE \/ Starts(r, "pancakeswap-sol open") /\ PancakeswapSolOpen(r)
           \/ Starts(r, "pancakeswap-sol swap") /\ PancakeswapSolSwap(r)
  <2>1. Planned(r, Elsewhere) /\ Planned(r, [Elsewhere EXCEPT !.put = 1])
    BY <1>2, ElsewherePlain, PlannedPlain, PlannedPut DEF CloseOps
  <2> QED BY <1>2, <2>1, PreparesOne DEF PancakeswapSolOpen, PancakeswapSolSwap
<1>3. CASE Starts(r, "pancakeswap-sol add") /\ PancakeswapSolAdd(r)
  <2>1. Planned(r, Putting)
    BY <1>3, PlainTransactions, PlannedPut DEF CloseOps, Putting
  <2> QED BY <1>3, <2>1, PreparesOne, RefuseStep DEF PancakeswapSolAdd
<1>4. CASE Starts(r, "pancakeswap-sol remove") /\ PancakeswapSolRemove(r)
  <2>1. CASE Exists
    <3>1. PICK n \in Half \cup {0} : Prepare(r, Claiming(Taking(n)))
      BY <1>4, <2>1 DEF PancakeswapSolRemove
    <3>2. n \in Nat
      BY <2>1, HalfNat
    <3>3. Planned(r, Claiming(Taking(n)))
      BY <1>4, <3>2, PlainTransactions, PlannedPlain DEF CloseOps
    <3> QED BY <1>4, <3>1, <3>3, PreparesOne
  <2>2. CASE ~Exists
    BY <1>4, <2>2, RefuseStep DEF PancakeswapSolRemove
  <2> QED BY <2>1, <2>2
<1>5. CASE Starts(r, "pancakeswap-sol collect") /\ PancakeswapSolCollect(r)
  <2> DEFINE n == IF liquidity > 1 THEN 1 ELSE 0
  <2>1. Refuse(r) \/ Prepare(r, Claiming(Taking(n)))
    BY <1>5 DEF PancakeswapSolCollect
  <2>2. n \in Nat
    OBVIOUS
  <2> HIDE DEF n
  <2>3. Planned(r, Claiming(Taking(n)))
    BY <1>5, <2>2, PlainTransactions, PlannedPlain DEF CloseOps
  <2> QED BY <1>5, <2>1, <2>3, PreparesOne, RefuseStep
<1>6. CASE Starts(r, "pancakeswap-sol close") /\ PancakeswapSolClose(r)
  <2>1. \/ Refuse(r)
        \/ Prepare(r, Closing(Claiming(Taking(liquidity)))) /\ liquidity > 0
        \/ Prepare(r, Closing(OnPosition))
    BY <1>6 DEF PancakeswapSolClose
  <2>2. liquidity > 0 => liquidity \in Nat
    BY DEF Inv, Typed, None
  <2>3. liquidity > 0 => Planned(r, Closing(Claiming(Taking(liquidity))))
    BY <1>6, <2>2, PlainTransactions, PlannedClosing
  <2>4. Planned(r, Closing(OnPosition))
    BY <1>6, PlainTransactions, PlannedClosing
  <2> QED BY <1>6, <2>1, <2>3, <2>4, PreparesOne, RefuseStep
<1>7. CASE Starts(r, "pancakeswap-sol create") /\ PancakeswapSolCreate(r)
  <2>1. ASSUME NEW p \in 1..2 PROVE Planned(r, CreatingAt(p))
    <3>1. Plain(CreatingAt(p))
      BY PlainTransactions
    <3> QED BY <1>7, <3>1, PlannedPlain DEF CloseOps
  <2> QED BY <1>7, <2>1, PreparesOne, RefuseStep DEF PancakeswapSolCreate
<1>8. CASE Starts(r, "solana wrap") /\ WrapSolana(r)
  <2> DEFINE o == IF Exists THEN "no" ELSE "new"
  <2>1. o \in {"no", "new", "if_missing"} /\ Prepare(r, [Putting EXCEPT !.opens = o])
    BY <1>8 DEF WrapSolana
  <2> HIDE DEF o
  <2>2. Planned(r, [Putting EXCEPT !.opens = o])
    BY <1>8, <2>1, PlainTransactions, PlannedPut DEF CloseOps, OpenOps, Putting
  <2> QED BY <1>8, <2>1, <2>2, PreparesOne
<1>9. CASE Starts(r, "solana unwrap") /\ UnwrapSolana(r)
  <2>1. CASE Exists /\ liquidity > 0
    <3> DEFINE t == [OnPosition EXCEPT !.close = "any"]
               read == [liquidity |-> liquidity, fees |-> 0]
    <3>1. read \in NatAmounts
      BY <2>1 DEF Inv, Typed, Exists, NatAmounts
    <3>2. Planned(r, t)
      BY <1>9, PlainTransactions, PlannedCloses DEF CloseOps
    <3>3. PrepareFor(r, wallet[r], <<t>>, read)
      BY <1>9, <2>1 DEF UnwrapSolana
    <3> HIDE DEF t, read
    <3> QED BY <1>1, <1>9, <3>1, <3>2, <3>3, OneTransaction
  <2>2. CASE ~(Exists /\ liquidity > 0)
    BY <1>9, <2>2, RefuseStep DEF UnwrapSolana
  <2> QED BY <2>1, <2>2
<1> QED BY <1>2, <1>3, <1>4, <1>5, <1>6, <1>7, <1>8, <1>9 DEF RawChecks

LEMMA RawStepKeeps ==
  ASSUME Inv, NEW r \in Requests, RawStep(r)
  PROVE  Inv'
<1>1. RawSound(RawTable(r)) /\ op[r] \in RawOps
  <2>1. RawTable(r) = StatusOfRaw /\ op[r] \in RawOps
    BY DEF RawStep, RawTable, RawOps, PancakeswapSolOps, SolWrapOps, PancakeswapSolOpenAnswer,
       PancakeswapSolAddAnswer, PancakeswapSolRemoveAnswer, PancakeswapSolCollectAnswer,
       PancakeswapSolCloseAnswer, PancakeswapSolCreateAnswer, PancakeswapSolSwapAnswer,
       WrapSolanaAnswer, UnwrapSolanaAnswer
  <2> QED BY <2>1, PlainTables
<1>2. TellsTrue(r, RawTable(r), RawTells(r))
  <2>1. CASE op[r] = "pancakeswap-sol collect"
    <3>1. RawTells(r) = AsFees(r)
      BY <2>1 DEF RawTells
    <3> QED BY <3>1, PlainTells
  <2>2. CASE op[r] = "solana unwrap"
    <3>1. \A x \in Replies : RawTells(r)[x] = remembered[r]
      BY <2>2 DEF RawTells, UnwrapTells
    <3>2. remembered[r] \in NatAmounts
      BY DEF Inv, Typed
    <3> QED BY <2>2, <3>1, <3>2 DEF TellsTrue, TellRead
  <2>3. CASE op[r] \notin {"pancakeswap-sol collect", "solana unwrap"}
    <3>1. RawTells(r) = AsLiquidity(r)
      BY <2>3 DEF RawTells
    <3> QED BY <3>1, PlainTells
  <2> QED BY <2>1, <2>2, <2>3
<1>3. CASE Broadcast(r, RawTable(r))
  BY <1>1, <1>3, BroadcastStep DEF SoundFor
<1>4. CASE Answered(r, RawReplies(r), RawTable(r), RawTells(r))
  BY <1>1, <1>2, <1>4, RawAnswered
<1> QED BY <1>3, <1>4, RawChecksStep DEF RawStep

-----------------------------------------------------------------------------
LEMMA NothingMoved == Total(Nothing) \in Nat
BY DEF Nothing, Total

LEMMA InitInv ==
  ASSUME Init
  PROVE  Inv /\ SdkInv
<1> USE DEF Init, RouteInit
<1>1. Typed
  <2>1. Nothing \in NatAmounts
    BY DEF Nothing, NatAmounts
  <2>2. liquidity \in Nat \cup {None}
    <3>1. liquidity \in None..MaxLiquidity /\ MaxLiquidity \in Nat
      BY RouteAssumption
    <3> QED BY ONLY <3>1 DEF None
  <2> QED BY <2>1, <2>2 DEF Typed, Answers
<1>2. OneFamily
  <2>1. PICK family \in Families : op \in [Requests -> family]
    OBVIOUS
  <2>2. \A r, q \in Requests : op[r] \in family /\ op[q] \in family
    BY <2>1
  <2>3. family \cap CloseOps = {} \/ family \cap OpenOps = {}
    BY DEF Families, CloseOps, OpenOps, MeteoraClmmOps, MeteoraAmmOps, RaydiumClmmOps,
       RaydiumAmmOps, OrcaOps, PancakeswapSolOps, SolWrapOps
  <2> QED BY <2>2, <2>3 DEF OneFamily
<1>3. ASSUME NEW r \in Requests PROVE Of(r)
  <2>1. LifeOf(r) /\ PlanOf(r) /\ AnswerOf(r) /\ GoneOf(r) /\ FreshOf(r)
    BY DEF LifeOf, PlanOf, AnswerOf, GoneOf, FreshOf
  <2>2. last[r] = Nothing /\ moved[r] = Nothing /\ tx[r] = "unsent"
    OBVIOUS
  <2>3. Total(last[r]) = Total(moved[r]) /\ Total(last[r]) \in Nat
    BY ONLY <2>2, NothingMoved, Zenon
  <2>4. MovedOf(r)
    BY ONLY <2>2, <2>3 DEF MovedOf
  <2> QED BY <2>1, <2>4 DEF Of
<1>4. SdkInv
  BY DEF SdkInv, SdkTyped, SdkOf
<1> QED BY <1>1, <1>2, <1>3, <1>4 DEF Inv

\* A step that loads no SDK, and builds with the SDK only what the shared one is read for.
SdkQuiet ==
  /\ UNCHANGED <<op, wallet, sdkVars>>
  /\ \A q \in Requests :
       /\ pc'[q] = "read" /\ op[q] \in RaydiumOps => pc[q] = "read"
       /\ \/ builtFor'[q] \in {builtFor[q], wallet[q]}
          \/ builtFor'[q] = sdkOwner /\ pc[q] = "read" /\ op[q] \in RaydiumOps

LEMMA QuietKeeps ==
  ASSUME SdkInv, SdkQuiet
  PROVE  SdkInv'
<1>1. SdkTyped'
  BY DEF SdkInv, SdkTyped, SdkQuiet, sdkVars
<1>2. ASSUME NEW q \in Requests PROVE SdkOf(q)'
  <2>1. /\ SdkOf(q) /\ op'[q] = op[q] /\ wallet'[q] = wallet[q]
        /\ sdkOwner' = sdkOwner /\ reloaded'[q] = reloaded[q]
    BY DEF SdkInv, SdkQuiet, sdkVars
  <2>2. /\ pc'[q] = "read" /\ op[q] \in RaydiumOps => pc[q] = "read"
        /\ \/ builtFor'[q] \in {builtFor[q], wallet[q]}
           \/ builtFor'[q] = sdkOwner /\ pc[q] = "read" /\ op[q] \in RaydiumOps
    BY DEF SdkQuiet
  <2> QED BY <2>1, <2>2 DEF SdkOf
<1> QED BY <1>1, <1>2 DEF SdkInv

LEMMA QuietSteps ==
  ASSUME Inv, NEW r \in Requests
  PROVE  /\ \A a : Return(r, a) => SdkQuiet
         /\ Refuse(r) \/ Break(r) => SdkQuiet
         /\ \A ts, amounts : PrepareFor(r, wallet[r], ts, amounts) => SdkQuiet
         /\ \A t : Prepare(r, t) => SdkQuiet
         /\ \A t : Build(r, t) /\ pc[r] = "read" /\ op[r] \in RaydiumOps => SdkQuiet
         /\ \A table : Broadcast(r, table) => SdkQuiet
         /\ \A replies, table, tells : Answered(r, replies, table, tells) => SdkQuiet
         /\ SendsNext(r) => SdkQuiet
<1> USE DEF SdkQuiet
<1>1. DOMAIN pc = Requests /\ DOMAIN builtFor = Requests
  BY DEF Inv, Typed
<1>2. ASSUME NEW a, Return(r, a) PROVE SdkQuiet
  <2>1. /\ pc' = [pc EXCEPT ![r] = "done"]
        /\ UNCHANGED <<op, wallet, sdkVars, builtFor>>
    BY <1>2 DEF Return, Answer, ReadsOnly
  <2> QED BY <1>1, <2>1
<1>3. Refuse(r) \/ Break(r) => SdkQuiet
  BY <1>2 DEF Refuse, Break
<1>4. ASSUME NEW someone, NEW ts, NEW amounts, PrepareFor(r, someone, ts, amounts),
             someone = wallet[r] \/ (someone = sdkOwner /\ pc[r] = "read" /\ op[r] \in RaydiumOps)
      PROVE  SdkQuiet
  <2>1. /\ pc' = [pc EXCEPT ![r] = "send"]
        /\ builtFor' = [builtFor EXCEPT ![r] = someone]
        /\ UNCHANGED <<op, wallet, sdkVars>>
    BY <1>4 DEF PrepareFor, ReadsOnly
  <2> QED BY <1>1, <1>4, <2>1
<1>5. /\ \A t : Prepare(r, t) => SdkQuiet
      /\ \A t : Build(r, t) /\ pc[r] = "read" /\ op[r] \in RaydiumOps => SdkQuiet
  BY <1>4 DEF Prepare, Build
<1>6. ASSUME NEW table, Broadcast(r, table) PROVE SdkQuiet
  <2>1. CASE Return(r, table["rejected"]) \/ Return(r, table["error"])
    BY <1>2, <2>1
  <2>2. CASE ~(Return(r, table["rejected"]) \/ Return(r, table["error"]))
    <3>1. /\ pc' = [pc EXCEPT ![r] = "wait"] \/ pc' = [pc EXCEPT ![r] = "done"]
          /\ UNCHANGED <<op, wallet, sdkVars, builtFor>>
      BY <1>6, <2>2 DEF Broadcast, Answer
    <3> QED BY <1>1, <3>1
  <2> QED BY <2>1, <2>2
<1>7. ASSUME NEW replies, NEW table, NEW tells, Answered(r, replies, table, tells) PROVE SdkQuiet
  <2>1. /\ pc' = [pc EXCEPT ![r] = "done"]
        /\ UNCHANGED <<op, wallet, sdkVars, builtFor>>
    BY <1>7 DEF Answered, Answer, ReadsOnly
  <2> QED BY <1>1, <2>1
<1>8. SendsNext(r) => SdkQuiet
  BY <1>1 DEF SendsNext
<1> QED BY <1>2, <1>3, <1>4, <1>5, <1>6, <1>7, <1>8

\* The load of the SDK itself: it is the request's own now, and marks those it overtakes.
LEMMA SetOwnerKeeps ==
  ASSUME Inv, SdkInv, NEW r \in Requests, SetOwner(r)
  PROVE  SdkInv'
<1>1. /\ pc' = [pc EXCEPT ![r] = "read"] /\ sdkOwner' = wallet[r]
      /\ reloaded' = [q \in Requests |-> reloaded[q] \/ (pc[q] = "read" /\ wallet[q] # wallet[r])]
      /\ UNCHANGED <<op, wallet, builtFor>>
  BY DEF SetOwner, Reloads
<1>2. pc \in [Requests -> {"start", "read", "send", "wait", "done"}] /\ wallet[r] \in Wallets
  BY DEF Inv, Typed
<1>3. SdkTyped'
  BY <1>1, <1>2 DEF SdkInv, SdkTyped
<1>4. ASSUME NEW q \in Requests PROVE SdkOf(q)'
  <2>1. SdkOf(q) /\ reloaded[q] \in BOOLEAN
    BY DEF SdkInv, SdkTyped
  <2>2. reloaded'[q] = (reloaded[q] \/ (pc[q] = "read" /\ wallet[q] # wallet[r]))
    BY <1>1
  <2>3. pc'[q] = "read" => q = r \/ pc[q] = "read"
    BY <1>1, <1>2
  <2> QED BY <1>1, <2>1, <2>2, <2>3 DEF SdkOf
<1> QED BY <1>3, <1>4 DEF SdkInv

LEMMA RouteSdk ==
  ASSUME Inv, SdkInv, NEW r \in Requests, MeteoraStep(r) \/ RaydiumStep(r) \/ OrcaStep(r) \/ RawStep(r)
  PROVE  SdkInv'
<1>1. CASE MeteoraStep(r)
  <2>1. MeteoraChecks(r) => SdkQuiet
    BY QuietSteps DEF MeteoraChecks, MeteoraOpen, MeteoraAdd, MeteoraRemove, MeteoraCollect,
       MeteoraClose, MeteoraCreate, MeteoraSwap, DammAdd, DammRemove, DammCreate, DammSwap
  <2> QED BY <1>1, <2>1, QuietSteps, QuietKeeps DEF MeteoraStep
<1>2. CASE RaydiumStep(r)
  <2>1. RaydiumChecks(r) => SdkQuiet
    <3> SUFFICES ASSUME RaydiumChecks(r) PROVE SdkQuiet
      OBVIOUS
    <3>1. pc[r] = "read" /\ op[r] \in RaydiumOps
      BY <1>2 DEF RaydiumChecks, Continues, RaydiumStep
    <3> QED BY <3>1, QuietSteps DEF RaydiumChecks, RaydiumOpen, RaydiumAdd, RaydiumRemove,
           RaydiumCollect, RaydiumClose, RaydiumCreate, RaydiumSwap, RaydiumAmmAdd, RaydiumAmmRemove,
           RaydiumAmmCreate, RaydiumAmmSwap
  <2> QED BY <1>2, <2>1, QuietSteps, QuietKeeps, SetOwnerKeeps DEF RaydiumStep
<1>3. CASE OrcaStep(r)
  <2>1. OrcaCloseReads(r) => SdkQuiet
    <3>1. DOMAIN pc = Requests /\ op[r] \notin RaydiumOps
      BY <1>3 DEF Inv, Typed, OrcaStep, OrcaOps, RaydiumOps, RaydiumClmmOps, RaydiumAmmOps
    <3>2. CASE Exists
      BY <3>1, <3>2 DEF OrcaCloseReads, ReadsOnly, SdkQuiet
    <3> QED BY <3>2, QuietSteps DEF OrcaCloseReads
  <2>2. OrcaChecks(r) => SdkQuiet
    BY <2>1, QuietSteps DEF OrcaChecks, OrcaOpen, OrcaAdd, OrcaRemove, OrcaCollect,
       OrcaCloseBuilds, OrcaCreate, OrcaSwap, Estimating
  <2> QED BY <1>3, <2>2, QuietSteps, QuietKeeps DEF OrcaStep
<1>4. CASE RawStep(r)
  <2>1. RawChecks(r) => SdkQuiet
    BY QuietSteps DEF RawChecks, PancakeswapSolOpen, PancakeswapSolAdd, PancakeswapSolRemove,
       PancakeswapSolCollect, PancakeswapSolClose, PancakeswapSolCreate, PancakeswapSolSwap,
       WrapSolana, UnwrapSolana
  <2> QED BY <1>4, <2>1, QuietSteps, QuietKeeps DEF RawStep
<1> QED BY <1>1, <1>2, <1>3, <1>4

LEMMA NextInv ==
  ASSUME Inv, SdkInv, [Next]_vars
  PROVE  Inv' /\ SdkInv'
<1>1. CASE UNCHANGED vars
  <2> USE <1>1 DEF vars, routeVars, requestVars, chainVars
  <2>1. Typed' /\ OneFamily'
    BY DEF Inv, Typed, OneFamily
  <2>2. ASSUME NEW q \in Requests PROVE Of(q)'
    <3>1. Of(q) /\ Same(q) /\ fresh'[q] = fresh[q]
      BY DEF Inv, Same
    <3> QED BY <3>1, OthersKeep
  <2>3. SdkInv'
    BY QuietKeeps DEF SdkQuiet
  <2> QED BY <2>1, <2>2, <2>3 DEF Inv
<1>2. ASSUME NEW r \in Requests, Interrupted(r) PROVE Inv' /\ SdkInv'
  BY <1>2, RefuseStep, QuietSteps, QuietKeeps DEF Interrupted
<1>3. ASSUME NEW r \in Requests, Lands(r) \/ Fails(r) \/ Dropped(r) PROVE Inv' /\ SdkInv'
  <2>1. Inv'
    BY <1>3, LandsStep, FailsStep, DroppedStep
  <2>2. UNCHANGED <<op, wallet, sdkVars, pc, builtFor>>
    BY <1>3, Zenon DEF Lands, Fails, Dropped
  <2>3. SdkQuiet
    BY <2>2 DEF SdkQuiet
  <2> QED BY <2>1, <2>3, QuietKeeps
<1>4. CASE Accrue
  <2>1. SdkQuiet
    BY <1>4 DEF Accrue, SdkQuiet
  <2> QED BY <1>4, <2>1, AccrueStep, QuietKeeps
<1>5. ASSUME NEW r \in Requests, MeteoraStep(r) \/ RaydiumStep(r) \/ OrcaStep(r) \/ RawStep(r)
      PROVE  Inv' /\ SdkInv'
  BY <1>5, MeteoraStepKeeps, RaydiumStepKeeps, OrcaStepKeeps, RawStepKeeps, RouteSdk DEF SdkInv, SdkTyped
<1> QED BY <1>1, <1>2, <1>3, <1>4, <1>5 DEF Next

LEMMA Invariance == Spec => [](Inv /\ SdkInv)
<1>1. Init => Inv /\ SdkInv
  BY InitInv
<1>2. (Inv /\ SdkInv) /\ [Next]_vars => (Inv /\ SdkInv)'
  BY NextInv
<1> QED BY <1>1, <1>2, PTL DEF Spec

\* What a route answers is true of its transactions: a status 1 of all of them, a status
\* 0 (but for the raw way of sending) of one that landed, a refusal of none that was or
\* will be executed, an error of the server of none that is under way.
THEOREM SolanaAnswers == Spec => []AnswersAreTrue
<1>1. Inv => AnswersAreTrue
  <2> SUFFICES ASSUME Inv, NEW r \in Requests
      PROVE  /\ answer[r] = "confirmed" => tx[r] = "landed" /\ Len(plan[r]) = 1
             /\ answer[r] = "status0" /\ op[r] \notin RawOps => tx[r] = "landed"
             /\ answer[r] = "client_error" =>
                  /\ tx[r] \in {"unsent", "failed"}
                  /\ op[r] \notin Several => moved[r] = Nothing
             /\ answer[r] = "server_error" => tx[r] \in {"unsent", "landed"}
    BY DEF AnswersAreTrue, ConfirmedIsLanded, PendingIsLanded, ClientErrorIsFinal, ErrorIsSettled, Several
  <2> QED BY DEF Inv, Of, AnswerOf, MovedOf
<1> QED BY <1>1, Invariance, PTL

\* However many requests share the Raydium SDK: only one that loads it for another wallet,
\* between a request's load and its build, makes a transaction for the wrong wallet of it.
THEOREM SolanaForeignReloaded == Spec => []ForeignWasReloaded
<1>1. SdkInv => ForeignWasReloaded
  BY DEF SdkInv, SdkOf, ForeignWasReloaded
<1> QED BY <1>1, Invariance, PTL

\* A close that is told closed the position for good, and no route but the four that tell
\* what they read or estimated tells more than its transactions moved.
THEOREM SolanaAmountsTold == Spec => []ToldIsTrue
<1>1. Inv => ToldIsTrue
  <2> SUFFICES ASSUME Inv, NEW r \in Requests
      PROVE  /\ /\ op[r] \in CloseOps
                /\ answer[r] = "confirmed" \/ (answer[r] = "status0" /\ op[r] = "raydium close")
                => ~Exists
             /\ answer[r] = "confirmed" /\ op[r] \notin TellRead => Total(told[r]) <= Total(moved[r])
    BY DEF ToldIsTrue, ClosedIsGone, ToldWasMoved, CloseOps
  <2>1. "raydium close" \notin RawOps
    BY DEF RawOps, PancakeswapSolOps, SolWrapOps
  <2> QED BY <2>1 DEF Inv, Of, AnswerOf, GoneOf
<1> QED BY <1>1, Invariance, PTL

\* What fails on chain while nothing was executed since its simulation fails by the price.
THEOREM SimulationsHold == Spec => []FailedWasOvertaken
<1>1. Inv => FailedWasOvertaken
  BY DEF Inv, Of, FreshOf, FailedWasOvertaken
<1> QED BY <1>1, Invariance, PTL
=============================================================================
