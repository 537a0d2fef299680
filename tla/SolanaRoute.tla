----------------------------- MODULE SolanaRoute ------------------------------
(***************************************************************************)
(* The life of a request to a route of a Solana connector.  It reads and   *)
(* checks, builds one transaction or several, and for each of them         *)
(* simulates, signs, broadcasts and waits; then it looks its last          *)
(* transaction up and answers.  Most routes send with                      *)
(* Solana.sendAndConfirmTransactionForWallet, the older ones simulate      *)
(* themselves and use sendAndConfirmRawTransaction; what either does while *)
(* it waits is SolanaSend, of which this module keeps the outcomes.        *)
(*                                                                         *)
(* The requests are about one position (or LP balance, or wrapped SOL      *)
(* account) of the wallet `owner', and one pool still to be created.       *)
(***************************************************************************)
EXTENDS Integers, Sequences, FiniteSets

CONSTANTS
  Requests,
  Wallets,
  owner,          \* the wallet that owns the position
  MaxLiquidity    \* bound on what the position starts with

ASSUME RouteAssumption == owner \in Wallets /\ MaxLiquidity \in Nat \ {0}

VARIABLES
  op, wallet,  \* the route each request calls, and for which wallet
  pc,          \* where each request is
  plan,        \* its transactions, from the current one on
  builtFor,    \* the wallet that its transactions are built for
  remembered,  \* what it read of the position and tells at the end
  tx,          \* what became of its current transaction
  fresh,       \* nothing executed since that one was simulated
  why,         \* why that one failed on chain
  moved,       \* what its transactions moved, all together
  last,        \* what the last one moved
  told,        \* what its answer says was moved
  answer,      \* its HTTP answer
  liquidity,   \* of the position, None when there is no such account
  owed,        \* fees that the position earned
  price,       \* of the pool, 0 before it is created
  sdkOwner,    \* the wallet that the Raydium SDK is loaded for
  reloaded     \* history: it was loaded for another wallet, after a request loaded
               \* it and before that one built its transaction

requestVars == <<op, wallet, pc, plan, builtFor, remembered, tx, fresh, why, moved, last, told, answer>>
chainVars == <<liquidity, owed, price>>
sdkVars == <<sdkOwner, reloaded>>
routeVars == <<requestVars, chainVars, sdkVars>>

None == -1
Most == MaxLiquidity + Cardinality(Requests)
Nobody == "nobody"

Amounts == [liquidity : 0..Most, fees : 0..Most]
Nothing == [liquidity |-> 0, fees |-> 0]
Total(a) == a.liquidity + a.fees

\* A transaction: `about' the position or not, whether it opens the account, what
\* it puts in and takes out (`upTo': at most what is there), whether it claims the
\* fees, closes the account, and at which price it creates the pool.
Transactions ==
  [ about : BOOLEAN, opens : {"no", "new", "if_missing"}, put : 0..1, take : 0..Most,
    upTo : BOOLEAN, claim : BOOLEAN, close : {"no", "empty", "if_empty", "any"}, price : 0..2 ]
Elsewhere ==
  [ about |-> FALSE, opens |-> "no", put |-> 0, take |-> 0,
    upTo |-> FALSE, claim |-> FALSE, close |-> "no", price |-> 0 ]
OnPosition == [Elsewhere EXCEPT !.about = TRUE]
Putting == [OnPosition EXCEPT !.put = 1]
Taking(n) == [OnPosition EXCEPT !.take = n]
Claiming(t) == [t EXCEPT !.claim = TRUE]
Closing(t) == [t EXCEPT !.close = "empty"]
CreatingAt(p) == [Elsewhere EXCEPT !.price = p]

\* "status0" is a 200 whose status is 0, "client_error" a 400 or 404, "timeout" a
\* 504 (a 408 from wrap and unwrap), "throttled" a 429.
Answers == {"none", "confirmed", "status0", "client_error", "timeout", "throttled", "server_error"}

RouteTypeOK ==
  /\ wallet \in [Requests -> Wallets]
  /\ pc \in [Requests -> {"start", "read", "send", "wait", "done"}]
  /\ \A r \in Requests : Len(plan[r]) <= 2 /\ \A i \in 1..Len(plan[r]) : plan[r][i] \in Transactions
  /\ builtFor \in [Requests -> Wallets \cup {Nobody}]
  /\ remembered \in [Requests -> Amounts]
  /\ tx \in [Requests -> {"unsent", "pending", "landed", "failed", "dropped"}]
  /\ fresh \in [Requests -> BOOLEAN]
  /\ why \in [Requests -> {"none", "price", "owner", "gone", "stale", "left", "exists"}]
  /\ {moved, last, told} \subseteq [Requests -> Amounts]
  /\ answer \in [Requests -> Answers]
  /\ liquidity \in None..Most
  /\ owed \in 0..1
  /\ price \in 0..2
  /\ sdkOwner \in Wallets \cup {Nobody}
  /\ reloaded \in [Requests -> BOOLEAN]

RouteInit ==
  /\ wallet \in [Requests -> Wallets]
  /\ pc = [r \in Requests |-> "start"]
  /\ plan = [r \in Requests |-> <<>>]
  /\ builtFor = [r \in Requests |-> Nobody]
  /\ remembered = [r \in Requests |-> Nothing]
  /\ tx = [r \in Requests |-> "unsent"]
  /\ fresh = [r \in Requests |-> FALSE]
  /\ why = [r \in Requests |-> "none"]
  /\ moved = [r \in Requests |-> Nothing]
  /\ last = [r \in Requests |-> Nothing]
  /\ told = [r \in Requests |-> Nothing]
  /\ answer = [r \in Requests |-> "none"]
  /\ liquidity \in None..MaxLiquidity
  /\ owed \in 0..1
  /\ owed = 1 => liquidity > 0
  /\ price \in 0..1
  /\ sdkOwner = Nobody
  /\ reloaded = [r \in Requests |-> FALSE]

-----------------------------------------------------------------------------
Starts(r, o) == pc[r] = "start" /\ op[r] = o
Continues(r, o) == pc[r] = "read" /\ op[r] = o

Exists == liquidity # None
Mine(r) == wallet[r] = owner

\* The shares that are asked for: half of the liquidity, or all of it.
Half == {liquidity \div 2, liquidity} \ {0}

Answer(r, a) ==
  /\ pc' = [pc EXCEPT ![r] = "done"]
  /\ answer' = [answer EXCEPT ![r] = a]

ReadsOnly == UNCHANGED <<chainVars, sdkVars, op, wallet, tx, fresh, why, moved, last>>

Return(r, a) == Answer(r, a) /\ ReadsOnly /\ UNCHANGED <<plan, builtFor, remembered, told>>

\* badRequest, notFound
Refuse(r) == Return(r, "client_error")

\* internalServerError, or an error without a status code
Break(r) == Return(r, "server_error")

\* On to the first broadcast.
PrepareFor(r, someone, transactions, amounts) ==
  /\ pc' = [pc EXCEPT ![r] = "send"]
  /\ plan' = [plan EXCEPT ![r] = transactions]
  /\ builtFor' = [builtFor EXCEPT ![r] = someone]
  /\ remembered' = [remembered EXCEPT ![r] = amounts]
  /\ ReadsOnly /\ UNCHANGED <<told, answer>>

Prepare(r, transaction) == PrepareFor(r, wallet[r], <<transaction>>, Nothing)

\* An exception in front of the first broadcast: a failed read, a missing pool,
\* token or parameter, a fee service that is down.  The reads of a request leave
\* no trace, so one at their start stands for them all.
Interrupted(r) == pc[r] \in {"start", "read"} /\ (Refuse(r) \/ Break(r))

-----------------------------------------------------------------------------
\* What a route learns of a transaction it sent: from the send that it failed or
\* was rejected, that the wait timed out, or that the node is throttled; after a
\* success, from the look-up, that it is there, that getTransaction has no trace
\* of it (null), or nothing because the look-up throws.
Replies == {"found", "null", "lookup_error", "failed", "rejected", "timeout", "throttled", "error"}

\* sendAndConfirmTransactionForWallet: success for a landed transaction only,
\* a 400 for one that failed on chain, a 504 after the last block height.
WalletReplies(r) ==
  {"timeout", "throttled"} \cup
  CASE tx[r] = "landed" -> {"found", "null", "lookup_error"}
    [] tx[r] = "failed" -> {"failed"}
    [] OTHER            -> {}

\* sendAndConfirmRawTransaction: { confirmed, txData }, where not confirmed may
\* mean anything.
RawReplies(r) ==
  {"null", "throttled"} \cup (IF tx[r] = "landed" THEN {"found", "lookup_error"} ELSE {})

\* Handlers hand errors with a status code on; any other is a 500.
StatusOfLookup ==
  [x \in Replies |->
     CASE x = "found"                 -> "confirmed"
       [] x = "null"                  -> "status0"
       [] x \in {"failed", "rejected"} -> "client_error"
       [] x \in {"timeout", "throttled"} -> x
       [] OTHER                       -> "server_error"]

\* The raw way of sending replies { confirmed: false } for everything it does not
\* know to be confirmed, and its routes answer 0 to that.
StatusOfRaw == [StatusOfLookup EXCEPT !["timeout"] = "status0"]

\* A route that looks at the send only: null is no trouble to it.
ConfirmedBySend == [StatusOfLookup EXCEPT !["null"] = "confirmed"]

\* A route that makes an exception of null.
NullIsError == [StatusOfLookup EXCEPT !["null"] = "server_error"]

-----------------------------------------------------------------------------
(***************************************************************************)
(* Sending.                                                                *)
(***************************************************************************)
Current(r) == Head(plan[r])

\* What is left of the position once the current transaction is through.
Left(r) == liquidity + Current(r).put - Current(r).take

\* What the programs on chain would hold against a transaction, now.
Obstacle(r) ==
  LET t == Current(r) IN
  CASE t.price # 0 /\ price # 0 -> "exists"
    [] t.about /\ ~Mine(r) -> "owner"
    [] t.about /\ t.opens = "new" /\ Exists -> "exists"
    [] t.about /\ t.opens = "no" /\ ~Exists -> "gone"
    [] t.about /\ Exists /\ Left(r) < 0 /\ ~t.upTo -> "stale"
    [] t.about /\ Exists /\ t.close = "empty" /\ (Left(r) # 0 \/ (owed = 1 /\ ~t.claim)) -> "left"
    [] OTHER -> "none"

\* The wallet of the request signs, in software or on the Ledger.  A transaction has
\* no room for the signature of a wallet it does not name: the library (external)
\* throws, and nothing is sent.
Signs(r) == builtFor[r] = wallet[r]

\* FAULT: the simulation is skipped.
SimulatesBlindly(r) == TRUE

\* The simulation that each way of sending starts with.
Simulates(r) == Obstacle(r) = "none"

\* Simulation, signature, broadcast.  When the answer of the broadcast is lost, the
\* transaction may be out although it counts as not confirmed.
Broadcast(r, table) ==
  /\ pc[r] = "send"
  /\ \/ Return(r, table["rejected"])
     \/ Return(r, table["error"])
     \/ /\ Simulates(r) /\ Signs(r)
        /\ tx' = [tx EXCEPT ![r] = "pending"]
        /\ fresh' = [fresh EXCEPT ![r] = TRUE]
        /\ \/ pc' = [pc EXCEPT ![r] = "wait"] /\ UNCHANGED answer
           \/ Answer(r, table["timeout"])
        /\ UNCHANGED <<chainVars, sdkVars, op, wallet, plan, builtFor, remembered, why, moved, last, told>>

\* FAULT: the answer is given after the first transaction.
AnswersEarly(r) == TRUE

\* The last transaction of the plan is through.
IsLast(r) == Len(plan[r]) = 1

\* The end of the wait of the last transaction, and the answer with the amounts
\* that `tells' makes of the look-up; a transaction that did not make it, or a
\* look-up that is throttled, ends the request wherever it is.
Answered(r, replies, table, tells) ==
  /\ pc[r] = "wait"
  /\ \E x \in replies :
       /\ x \in {"found", "null", "lookup_error"} => IsLast(r)
       /\ Answer(r, table[x])
       /\ told' = [told EXCEPT ![r] = IF table[x] = "confirmed" THEN tells[x] ELSE Nothing]
  /\ ReadsOnly /\ UNCHANGED <<plan, builtFor, remembered>>

\* Routes of several transactions send the next one after the success of one.
SendsNext(r) ==
  /\ pc[r] = "wait" /\ tx[r] = "landed" /\ ~IsLast(r)
  /\ pc' = [pc EXCEPT ![r] = "send"]
  /\ plan' = [plan EXCEPT ![r] = Tail(plan[r])]
  /\ tx' = [tx EXCEPT ![r] = "unsent"]
  /\ UNCHANGED <<chainVars, sdkVars, op, wallet, builtFor, remembered, fresh, why, moved, last, told, answer>>

-----------------------------------------------------------------------------
(***************************************************************************)
(* The chain.                                                              *)
(***************************************************************************)
Least(m, n) == IF m < n THEN m ELSE n

Closes(t, left, paid) ==
  \/ t.close \in {"empty", "any"}
  \/ t.close = "if_empty" /\ left = 0 /\ owed = paid

Lands(r) ==
  LET t == Current(r)
      before == IF Exists THEN liquidity ELSE 0
      taken == IF t.close = "any" THEN before ELSE Least(t.take, before)
      paid == IF t.claim THEN owed ELSE 0
      left == before + t.put - taken
      amounts == [liquidity |-> t.put + taken, fees |-> paid] IN
  /\ tx[r] = "pending" /\ Obstacle(r) = "none"
  /\ tx' = [tx EXCEPT ![r] = "landed"]
  /\ fresh' = [q \in Requests |-> q = r /\ fresh[q]]
  /\ last' = [last EXCEPT ![r] = amounts]
  /\ moved' = [moved EXCEPT ![r] = [liquidity |-> @.liquidity + amounts.liquidity, fees |-> @.fees + amounts.fees]]
  /\ price' = IF t.price # 0 THEN t.price ELSE price
  /\ IF ~t.about THEN UNCHANGED <<liquidity, owed>>
     ELSE /\ owed' = owed - paid
          /\ liquidity' = IF Closes(t, left, paid) THEN None ELSE left
  /\ UNCHANGED <<sdkVars, op, wallet, pc, plan, builtFor, remembered, why, told, answer>>

\* A price limit, or what stands in its way; "price" is also any other refusal of
\* the program.
Fails(r) ==
  /\ tx[r] = "pending"
  /\ tx' = [tx EXCEPT ![r] = "failed"]
  /\ \E w \in {Obstacle(r), "price"} \ {"none"} : why' = [why EXCEPT ![r] = w]
  /\ UNCHANGED <<chainVars, sdkVars, op, wallet, pc, plan, builtFor, remembered, fresh, moved, last, told, answer>>

Dropped(r) ==
  /\ tx[r] = "pending"
  /\ tx' = [tx EXCEPT ![r] = "dropped"]
  /\ UNCHANGED <<chainVars, sdkVars, op, wallet, pc, plan, builtFor, remembered, fresh, why, moved, last, told, answer>>

\* Fees are earned while there is liquidity, by the swaps of others.
Accrue ==
  /\ liquidity > 0 /\ owed = 0
  /\ owed' = 1
  /\ fresh' = [r \in Requests |-> FALSE]
  /\ UNCHANGED <<op, wallet, pc, plan, builtFor, remembered, tx, why, moved, last, told, answer>>
  /\ UNCHANGED <<liquidity, price, sdkVars>>

-----------------------------------------------------------------------------
\* The ways of telling: the balance change of the last transaction, as liquidity
\* or as fees.
AsLiquidity(r) == [x \in Replies |-> [liquidity |-> Total(last[r]), fees |-> 0]]
AsFees(r) == [x \in Replies |-> [liquidity |-> 0, fees |-> Total(last[r])]]
NoAmounts == [x \in Replies |-> Nothing]
=============================================================================
