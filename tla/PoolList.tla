------------------------------- MODULE PoolList -------------------------------
(***************************************************************************)
(* The pool list of one network: PoolService and the routes under /pools.  *)
(* A pool is known by its pair (its tokens and their symbols) and its      *)
(* address; connector and type are the same for all.                       *)
(***************************************************************************)
EXTENDS TokenList

CONSTANTS
  Pairs,
  TokensOf(_),    \* the base and the quote token of a pair
  Template        \* the pools of the template of this network

Pools == [pair : Pairs, address : Addresses]

UniquePools(l) == \A x, y \in l : x.address = y.address => x = y
PoolLists == {l \in SUBSET Pools : UniquePools(l)}

ASSUME PoolsAssumption ==
  /\ \A pair \in Pairs : TokensOf(pair) \in Seq(Tokens)
  /\ Template \in PoolLists

PoolOps == {"add pool", "remove pool", "get pool", "list pools", "find pools", "pool info", "find and save pool"}
PoolSteps == {"address", "update", "add", "token", "tokenAdd", "pool"}

SamePair(l, p) == {x \in l : x.pair = p.pair}

\* Loading a list that is not there reads the template, saves that, and goes on with it
\* rather than with the file, which others may have saved meanwhile.
ThePools(r) == held[r].read.list
Missing(r) == held[r].read = Absent /\ Template # {}
Readable(r) == HasWhole(r) \/ held[r].read = Absent

LoadPools(r, status) ==
  \/ Reads(r, "pools")
  \/ Missing(r) /\ Save(r, "pools", Template, pc[r], [held[r] EXCEPT !.flag = TRUE, !.read = Whole(Template)])
  \/ HasRead(r) /\ ~Readable(r) /\ Return(r, status)

Loaded(r) == Readable(r) /\ ~Missing(r)

\* FAULT: an update does not look at the addresses of the others.
TakesAnyAddress(l, old, p) == FALSE

AddressTaken(l, old, p) == SameAddress(l \ {old}, p) # {}

-----------------------------------------------------------------------------
\* handlePoolError, of the routes that ask GeckoTerminal; the others answer all errors
\* with 400, a failed save included.
PoolErrors == [missing |-> "not_found", chain |-> "refused", connector |-> "refused", other |-> "error"]

\* GeckoTerminal does not know the pool, or not whose it is, or its connector does not tell
\* its tokens.
NoPoolInfo(r) == \E e \in DOMAIN PoolErrors : Return(r, PoolErrors[e])

\* fetchPoolInfo: the connector tells the pool, or nothing.
FetchPoolInfo(r) == ~HasRead(r) /\ Return(r, "not_found")

\* A pool that lacks something, or whose tokens are the same: it is found out when the pool
\* is added or updated, after the one that it replaces was removed.
PoolStatus(r) == IF op[r] = "find and save pool" THEN PoolErrors.other ELSE "refused"
ValidatePool(r) == ~HasRead(r) /\ Return(r, PoolStatus(r))

\* POST /pools looks for a pool of the same pair, then for one of the same address,
\* and updates, replaces or adds; what is missing of the pool it asks the
\* connector for.
AddPoolRoute(r) ==
  /\ Starts(r, "add pool")
  /\ \/ FetchPoolInfo(r)
     \/ LoadPools(r, "refused")
     \/ Loaded(r) /\ SamePair(ThePools(r), arg[r]) = {} /\ GoTo(r, "address", Nothing)
     \/ /\ Loaded(r)
        /\ \E p \in SamePair(ThePools(r), arg[r]) :
             GoTo(r, IF p.address = arg[r].address THEN "update" ELSE "pool", [Nothing EXCEPT !.old = {p}])

PoolByAddress(r) ==
  /\ At(r, "address")
  /\ \/ LoadPools(r, "refused")
     \/ Loaded(r) /\ GoTo(r, IF SameAddress(ThePools(r), arg[r]) = {} THEN "add" ELSE "update", Nothing)

\* The pool of the pair that it found goes before the new one is added.
ReplacePool(r) ==
  /\ At(r, "pool") /\ op[r] = "add pool"
  /\ \/ LoadPools(r, "refused")
     \/ /\ Loaded(r)
        /\ \E old \in held[r].old :
             LET left == ThePools(r) \ SameAddress(ThePools(r), old) IN
             IF left = ThePools(r) THEN Return(r, "refused") ELSE Save(r, "pools", left, "add", Nothing)

\* updatePool: the first pool of the pair, whatever its address is.
UpdatePool(r) ==
  /\ At(r, "update") /\ op[r] = "add pool"
  /\ \/ ValidatePool(r)
     \/ LoadPools(r, "refused")
     \/ Loaded(r) /\ SamePair(ThePools(r), arg[r]) = {} /\ Return(r, "refused")
     \/ /\ Loaded(r)
        /\ \E old \in SamePair(ThePools(r), arg[r]) :
             IF AddressTaken(ThePools(r), old, arg[r]) THEN Return(r, "refused")
             ELSE Save(r, "pools", (ThePools(r) \ {old}) \cup {arg[r]}, "done", Nothing)

AddPool(r) ==
  /\ At(r, "add") /\ op[r] \in PoolOps
  /\ \/ ValidatePool(r)
     \/ LoadPools(r, PoolStatus(r))
     \/ Loaded(r) /\ SameAddress(ThePools(r), arg[r]) # {} /\ Return(r, PoolStatus(r))
     \/ /\ Loaded(r) /\ SameAddress(ThePools(r), arg[r]) = {}
        /\ Save(r, "pools", ThePools(r) \cup {arg[r]}, "done", Nothing)

LoadAndRemovePool(r) ==
  \/ LoadPools(r, "refused")
  \/ Loaded(r) /\ SameAddress(ThePools(r), arg[r]) = {} /\ Return(r, "not_found")
  \/ /\ Loaded(r) /\ SameAddress(ThePools(r), arg[r]) # {}
     /\ Save(r, "pools", ThePools(r) \ SameAddress(ThePools(r), arg[r]), "done", Nothing)

RemovePool(r) == Starts(r, "remove pool") /\ LoadAndRemovePool(r)

\* GET /pools, and GET /pools/:tradingPair, which is no pair perhaps.
ListPools(r) ==
  /\ Starts(r, "list pools")
  /\ LoadPools(r, "refused") \/ (Loaded(r) /\ Return(r, "ok"))

GetPool(r) ==
  /\ Starts(r, "get pool")
  /\ \/ ~HasRead(r) /\ Return(r, "refused")
     \/ LoadPools(r, "refused")
     \/ Loaded(r) /\ Return(r, IF SamePair(ThePools(r), arg[r]) = {} THEN "not_found" ELSE "ok")

-----------------------------------------------------------------------------
\* GET /pools/find: the addresses of the tokens from their list, the pools of one of them
\* or of the network from GeckoTerminal.  A page that it does not give ends the list; only
\* an address that is none is an error.
TopPoolsForToken(r) == Return(r, "ok") \/ Return(r, PoolErrors.other)
TopPoolsByNetwork(r) == Return(r, "ok")

FindPools(r) ==
  /\ Starts(r, "find pools")
  /\ \/ Return(r, PoolErrors.chain)
     \/ TokensBroken(r, PoolErrors.other)
     \/ IsWhole("tokens") /\ TopPoolsForToken(r)
     \/ TopPoolsByNetwork(r)

\* GET /pools/find/:address
FindPool(r) ==
  /\ Starts(r, "pool info")
  /\ NoPoolInfo(r) \/ Return(r, "ok")

ToDo(tokens) == [Nothing EXCEPT !.rest = tokens]

\* POST /pools/save: the pool from GeckoTerminal and the connector, ...
FindAndSavePool(r) ==
  /\ Starts(r, "find and save pool")
  /\ NoPoolInfo(r) \/ GoTo(r, "token", ToDo(TokensOf(arg[r].pair)))

\* ... its tokens one after the other, which are added if they are not listed and
\* GeckoTerminal knows them, and whose errors are swallowed, ...
PoolToken(r) ==
  /\ At(r, "token")
  /\ IF held[r].rest = <<>> THEN GoTo(r, "pool", Nothing)
     ELSE \/ TokensBroken(r, PoolErrors.other)
          \/ /\ IsWhole("tokens")
             /\ \/ GoTo(r, "token", ToDo(Tail(held[r].rest)))
                \/ SameAddress(TheTokens, Head(held[r].rest)) = {} /\ GoTo(r, "tokenAdd", ToDo(held[r].rest))

PoolTokenAdd(r) ==
  LET t == Head(held[r].rest) IN
  /\ At(r, "tokenAdd")
  /\ \/ Reads(r, "tokens")
     \/ /\ HasRead(r) /\ (HasWhole(r) => Conflicts(TokensRead(r), t))
        /\ GoTo(r, "token", ToDo(Tail(held[r].rest)))
     \/ /\ HasWhole(r) /\ ~Conflicts(TokensRead(r), t)
        /\ Save(r, "tokens", WithToken(TokensRead(r), t), "token", ToDo(Tail(held[r].rest)))

\* ... and then the pool.
PoolKnown(r) ==
  /\ At(r, "pool") /\ op[r] = "find and save pool"
  /\ \/ LoadPools(r, PoolErrors.other)
     \/ Loaded(r) /\ GoTo(r, IF SameAddress(ThePools(r), arg[r]) = {} THEN "add" ELSE "update", Nothing)

UpdatePoolByAddress(r) ==
  /\ At(r, "update") /\ op[r] = "find and save pool"
  /\ \/ ValidatePool(r)
     \/ LoadPools(r, PoolErrors.other)
     \/ Loaded(r) /\ SameAddress(ThePools(r), arg[r]) = {} /\ Return(r, PoolErrors.missing)
     \/ /\ Loaded(r)
        /\ \E old \in SameAddress(ThePools(r), arg[r]) :
             Save(r, "pools", (ThePools(r) \ {old}) \cup {arg[r]}, "done", Nothing)

SavePools(r) ==
  LET swallows == ListOf(target[r]) = "tokens" IN
  /\ op[r] \in PoolOps
  /\ \/ Open(r) \/ Write(r)
     \/ Rename(r, swallows, PoolStatus(r)) \/ WriteFails(r, swallows, PoolStatus(r))

PoolStep(r) ==
  \/ AddPoolRoute(r) \/ PoolByAddress(r) \/ ReplacePool(r) \/ UpdatePool(r) \/ AddPool(r) \/ RemovePool(r)
  \/ ListPools(r) \/ GetPool(r) \/ FindPools(r) \/ FindPool(r) \/ FindAndSavePool(r) \/ PoolToken(r)
  \/ PoolTokenAdd(r) \/ PoolKnown(r) \/ UpdatePoolByAddress(r) \/ SavePools(r)

PoolEffect(r) ==
  IF op[r] = "remove pool" THEN SameAddress(expected["pools"], arg[r]) = {} ELSE arg[r] \in expected["pools"]
=============================================================================
