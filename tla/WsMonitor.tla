------------------------------ MODULE WsMonitor -------------------------------
(***************************************************************************)
(* Waiting for Solana transactions over one WebSocket that is opened on    *)
(* demand and closed when idle: src/src/rpc/helius-service.ts, and the     *)
(* same code in chainstack-service.ts.  Each callback (open, message,      *)
(* close, timer) runs to its end; promise continuations run before the     *)
(* next callback, which the guard Quiet expresses.                         *)
(*                                                                         *)
(* The RPC server is external: it answers a signatureSubscribe with an id  *)
(* of its own choice, notifies once when the transaction is decided, and   *)
(* loses everything with the connection.  Its ids and those the Gateway    *)
(* counts are keys of one map, and nothing keeps the two kinds apart.      *)
(***************************************************************************)
EXTENDS Integers, Sequences, Functions

CONSTANTS
  Calls,          \* calls of monitorTransaction, each for its own signature
  MaxSockets,     \* bound: sockets opened in a behaviour
  MaxLocalId,     \* bound: subscriptions made in a behaviour
  ServerIds,      \* the subscription ids the server may hand out
  Disconnects     \* TRUE: disconnect() may be called

ASSUME WsAssumption ==
  /\ MaxSockets \in Nat
  /\ MaxLocalId \in Nat
  /\ ServerIds \subseteq Nat
  /\ Disconnects \in BOOLEAN

Sockets == 1..MaxSockets
None == -1

VARIABLES
  ws,          \* this.ws: a socket, or None for null
  sock,        \* readyState of every socket
  connecting,  \* this.connecting: the socket it waits for, or None
  subs,        \* this.subscriptions: local or server id -> call
  nextId,      \* this.nextSubscriptionId
  idle,        \* this.idleTimeout is armed
  pc,          \* where each call is
  localId,     \* the subscriptionId its closures captured
  timer,       \* its timeout is armed
  answer,      \* what its promise settled with
  inbox,       \* requests on their way to the server
  outbox,      \* per socket, messages on their way to the Gateway
  served,      \* subscriptions the server holds
  assigned,    \* history: the id the server gave to each call's subscription
  tx           \* what became of each call's transaction

gateVars == <<ws, sock, connecting, subs, nextId, idle, pc, localId, timer, answer>>
serverVars == <<inbox, outbox, served, assigned, tx>>
vars == <<gateVars, serverVars>>

LocalIds == 1..MaxLocalId

\* A reply carries the server's id, a notification the result, an error neither.
ReplyMsg(id, to)   == [kind |-> "reply", id |-> id, to |-> to, result |-> "none"]
NotifyMsg(id, res) == [kind |-> "notify", id |-> id, to |-> None, result |-> res]
ErrorMsg(id)       == [kind |-> "error", id |-> id, to |-> None, result |-> "none"]
Messages == [kind : {"reply", "notify", "error"}, id : Nat, to : Nat \cup {None},
             result : {"none", "landed", "failed"}]

TypeOK ==
  /\ ws \in Sockets \cup {None}
  /\ sock \in [Sockets -> {"unused", "connecting", "aborting", "open", "closing", "closed"}]
  /\ connecting \in Sockets \cup {None}
  /\ DOMAIN subs \subseteq LocalIds \cup ServerIds
  /\ \A id \in DOMAIN subs : subs[id] \in Calls
  /\ nextId \in 1..(MaxLocalId + 1)
  /\ idle \in BOOLEAN
  /\ pc \in [Calls -> {"new", "opening", "joining", "resuming", "rejoining", "monitoring", "settled"}]
  /\ localId \in [Calls -> LocalIds \cup {None}]
  /\ timer \in [Calls -> BOOLEAN]
  /\ answer \in [Calls -> {"none", "landed", "failed", "timeout", "error"}]
  /\ inbox \subseteq [sock : Sockets, id : LocalIds, call : Calls]
  /\ outbox \in [Sockets -> Seq(Messages)]
  /\ served \subseteq [sock : Sockets, id : ServerIds, call : Calls]
  /\ assigned \in [Calls -> ServerIds \cup {None}]
  /\ tx \in [Calls -> {"pending", "landed", "failed"}]

NoSubs == [id \in {} |-> CHOOSE c \in Calls : TRUE]

Init ==
  /\ ws = None
  /\ sock = [s \in Sockets |-> "unused"]
  /\ connecting = None
  /\ subs = NoSubs
  /\ nextId = 1
  /\ idle = FALSE
  /\ pc = [c \in Calls |-> "new"]
  /\ localId = [c \in Calls |-> None]
  /\ timer = [c \in Calls |-> FALSE]
  /\ answer = [c \in Calls |-> "none"]
  /\ inbox = {}
  /\ outbox = [s \in Sockets |-> <<>>]
  /\ served = {}
  /\ assigned = [c \in Calls |-> None]
  /\ tx = [c \in Calls |-> "pending"]

-----------------------------------------------------------------------------
Connected == ws # None /\ sock[ws] = "open"

\* No promise continuation is due.
Quiet == \A c \in Calls : pc[c] \notin {"resuming", "rejoining"}

\* The map without some of its keys.
Without(f, ids) == Restrict(f, DOMAIN f \ ids)

\* Promises settle once: a call that has its answer keeps it.
Settled(cs, a) ==
  /\ answer' = [c \in Calls |-> IF c \in cs /\ answer[c] = "none" THEN a ELSE answer[c]]
  /\ pc' = [c \in Calls |-> IF c \in cs THEN "settled" ELSE pc[c]]

Disarm(cs) == timer' = [c \in Calls |-> timer[c] /\ c \notin cs]

\* scheduleIdleDisconnect, given the map it finds
ScheduleIdle(map) == idle' = (idle \/ DOMAIN map = {})

-----------------------------------------------------------------------------
(* monitorTransaction and ensureWebSocketConnected.                        *)

\* FAULT: the id is not advanced.
NextIdKept == UNCHANGED nextId

TakeId == nextId' = nextId + 1

\* The promise executor.  With this.ws gone, send throws and rejects the call,
\* but its map entry and its timer stay.
Subscribe(c) ==
  /\ nextId <= MaxLocalId
  /\ idle' = FALSE
  /\ TakeId
  /\ localId' = [localId EXCEPT ![c] = nextId]
  /\ timer' = [timer EXCEPT ![c] = TRUE]
  /\ subs' = [id \in DOMAIN subs \cup {nextId} |-> IF id = nextId THEN c ELSE subs[id]]
  /\ IF ws = None
     THEN Settled({c}, "error") /\ UNCHANGED inbox
     ELSE /\ inbox' = inbox \cup {[sock |-> ws, id |-> nextId, call |-> c]}
          /\ pc' = [pc EXCEPT ![c] = "monitoring"]
          /\ UNCHANGED answer
  /\ UNCHANGED <<ws, sock, connecting>>

\* A call finds the socket open, a connection under way, or opens one.
MonitorTransaction(c) ==
  /\ Quiet
  /\ pc[c] = "new"
  /\ \/ Connected /\ Subscribe(c)
     \/ /\ ~Connected /\ connecting # None
        /\ pc' = [pc EXCEPT ![c] = "joining"]
        /\ UNCHANGED <<ws, sock, connecting, subs, nextId, idle, localId, timer,
                       answer, inbox>>
     \/ /\ ~Connected /\ connecting = None
        /\ \E s \in Sockets :
             /\ sock[s] = "unused" /\ \A r \in Sockets : sock[r] = "unused" => s <= r
             /\ ws' = s
             /\ sock' = [sock EXCEPT ![s] = "connecting"]
             /\ connecting' = s
        /\ pc' = [pc EXCEPT ![c] = "opening"]
        /\ UNCHANGED <<subs, nextId, idle, localId, timer, answer, inbox>>
  /\ UNCHANGED <<outbox, served, assigned, tx>>

\* After `await this.connecting': the call that opened the connection goes on
\* whatever this.ws has become, one that joined looks again.
Resume(c) ==
  /\ \/ pc[c] = "resuming"
     \/ pc[c] = "rejoining" /\ \A d \in Calls : pc[d] # "resuming"
  /\ IF pc[c] = "resuming" \/ Connected
     THEN Subscribe(c)
     ELSE /\ Settled({c}, "error")
          /\ UNCHANGED <<ws, sock, connecting, subs, nextId, idle, localId, timer, inbox>>
  /\ UNCHANGED <<outbox, served, assigned, tx>>

-----------------------------------------------------------------------------
(* Events of the sockets.                                                  *)

\* 'open': the promise connectWebSocket returned resolves.
Open(s) ==
  /\ Quiet
  /\ sock[s] = "connecting"
  /\ sock' = [sock EXCEPT ![s] = "open"]
  /\ connecting' = None
  /\ pc' = [c \in Calls |-> CASE pc[c] = "opening" -> "resuming"
                              [] pc[c] = "joining" -> "rejoining"
                              [] OTHER -> pc[c]]
  /\ UNCHANGED <<ws, subs, nextId, idle, localId, timer, answer, serverVars>>

\* The keys that a loop over the map, which rejects its entries, comes to: each
\* rejection deletes the local id of its call, and that can be the key of another
\* entry further on.  The order of the map is left open.
Visited == {keys \in SUBSET DOMAIN subs :
              \A id \in DOMAIN subs \ keys : \E k \in keys : localId[subs[k]] = id}

Found(keys) == {subs[k] : k \in keys}

\* FAULT: calls that wait on the closed socket are not rejected.
RejectNobody(cs) == UNCHANGED <<answer, pc>>

RejectAll(cs) == Settled(cs, "error")

\* The 'close' handler, which does not ask which socket closed, and what goes
\* with the connection.
Closed(s, failing) ==
  /\ sock' = [sock EXCEPT ![s] = "closed"]
  /\ ws' = None
  /\ \E keys \in Visited : RejectAll(Found(keys) \cup failing) /\ Disarm(Found(keys))
  /\ subs' = NoSubs
  /\ idle' = FALSE
  /\ inbox' = {r \in inbox : r.sock # s}
  /\ outbox' = [outbox EXCEPT ![s] = <<>>]
  /\ served' = {v \in served : v.sock # s}
  /\ UNCHANGED <<nextId, localId, assigned, tx>>

\* 'error' and 'close' of a socket that never opened.
ConnectFails(s) ==
  /\ Quiet
  /\ sock[s] \in {"connecting", "aborting"}
  /\ Closed(s, {c \in Calls : pc[c] \in {"opening", "joining"}})
  /\ connecting' = None

\* 'close' of a socket that was open, long after close() or unasked.
ConnectionCloses(s) ==
  /\ Quiet
  /\ sock[s] \in {"open", "closing"}
  /\ Closed(s, {})
  /\ UNCHANGED connecting

\* The entry of a local id moves to the server's id.
Remap(id, to) ==
  [k \in (DOMAIN subs \ {id}) \cup {to} |-> IF k = to THEN subs[id] ELSE subs[k]]

\* A callback of the entry: resolveWithCleanup or rejectWithCleanup.
SettleEntry(id, a) ==
  LET c   == subs[id]
      map == Without(subs, {id, localId[c]})
  IN  /\ Disarm({c})
      /\ subs' = map
      /\ ScheduleIdle(map)
      /\ Settled({c}, a)

\* 'message' -> handleWebSocketMessage.
Message(s) ==
  /\ Quiet
  /\ sock[s] \in {"open", "closing"}
  /\ outbox[s] # <<>>
  /\ LET m == Head(outbox[s])
     IN  CASE m.id \notin DOMAIN subs ->
                UNCHANGED <<subs, idle, timer, answer, pc>>
           [] m.id \in DOMAIN subs /\ m.kind = "reply" ->
                subs' = Remap(m.id, m.to) /\ UNCHANGED <<idle, timer, answer, pc>>
           [] m.id \in DOMAIN subs /\ m.kind = "notify" -> SettleEntry(m.id, m.result)
           [] m.id \in DOMAIN subs /\ m.kind = "error"  -> SettleEntry(m.id, "error")
  /\ outbox' = [outbox EXCEPT ![s] = Tail(@)]
  /\ UNCHANGED <<ws, sock, connecting, nextId, localId, inbox, served, assigned, tx>>

-----------------------------------------------------------------------------
(* Timers, and disconnect.                                                 *)

\* FAULT: a timeout only answers while it finds its own entry.
ExpireIfRegistered(c) ==
  IF localId[c] \in DOMAIN subs THEN Settled({c}, "timeout") ELSE UNCHANGED <<answer, pc>>

Expire(c) == Settled({c}, "timeout")

\* The timeout of a call deletes the LOCAL id, also after the entry moved.
Timeout(c) ==
  /\ Quiet
  /\ timer[c]
  /\ Disarm({c})
  /\ subs' = Without(subs, {localId[c]})
  /\ ScheduleIdle(subs')
  /\ Expire(c)
  /\ UNCHANGED <<ws, sock, connecting, nextId, localId, serverVars>>

\* close() on a socket: the 'close' event comes later.
CloseSocket(s) ==
  sock' = [sock EXCEPT ![s] = CASE @ = "connecting" -> "aborting"
                                [] @ = "open"       -> "closing"
                                [] OTHER            -> @]

NothingSubscribed == subs = NoSubs

\* The idle timer.
IdleTimeout ==
  /\ Quiet
  /\ idle
  /\ idle' = FALSE
  /\ IF NothingSubscribed /\ ws # None
     THEN CloseSocket(ws) /\ ws' = None
     ELSE UNCHANGED <<sock, ws>>
  /\ UNCHANGED <<connecting, subs, nextId, pc, localId, timer, answer, serverVars>>

\* disconnect().  Rejecting the entries deletes their local ids, and arms the
\* idle timer once more when that empties the map.
Disconnect ==
  /\ Disconnects /\ Quiet
  /\ \E keys \in Visited :
       /\ idle' = (subs # NoSubs /\ DOMAIN subs \subseteq {localId[c] : c \in Found(keys)})
       /\ Disarm(Found(keys))
       /\ Settled(Found(keys), "error")
  /\ subs' = NoSubs
  /\ IF ws # None THEN CloseSocket(ws) ELSE UNCHANGED sock
  /\ ws' = None
  /\ UNCHANGED <<connecting, nextId, localId, serverVars>>

-----------------------------------------------------------------------------
(* The server.                                                             *)

Reply(s, m) == outbox' = [outbox EXCEPT ![s] = Append(@, m)]

\* It gives any id that no other subscription of the connection has.
Serve(r) ==
  /\ Quiet
  /\ inbox' = inbox \ {r}
  /\ \/ \E id \in ServerIds :
          /\ \A v \in served : v.sock = r.sock => v.id # id
          /\ Reply(r.sock, ReplyMsg(r.id, id))
          /\ served' = served \cup {[sock |-> r.sock, id |-> id, call |-> r.call]}
          /\ assigned' = [assigned EXCEPT ![r.call] = id]
     \/ /\ Reply(r.sock, ErrorMsg(r.id))
        /\ UNCHANGED <<served, assigned>>
  /\ UNCHANGED <<tx, gateVars>>

Notify(v) ==
  /\ Quiet
  /\ tx[v.call] # "pending"
  /\ served' = served \ {v}
  /\ Reply(v.sock, NotifyMsg(v.id, tx[v.call]))
  /\ UNCHANGED <<inbox, assigned, tx, gateVars>>

Decide(c) ==
  /\ Quiet
  /\ tx[c] = "pending"
  /\ \E r \in {"landed", "failed"} : tx' = [tx EXCEPT ![c] = r]
  /\ UNCHANGED <<inbox, outbox, served, assigned, gateVars>>

-----------------------------------------------------------------------------
Next ==
  \/ \E c \in Calls : MonitorTransaction(c) \/ Resume(c) \/ Timeout(c) \/ Decide(c)
  \/ \E s \in Sockets : Open(s) \/ ConnectFails(s) \/ ConnectionCloses(s) \/ Message(s)
  \/ \E r \in inbox : Serve(r)
  \/ \E v \in served : Notify(v)
  \/ IdleTimeout
  \/ Disconnect

\* Continuations run, timers fire, connection attempts and close handshakes end
\* (the `ws' package gives up a close handshake after 30 s).  Nothing makes the
\* server answer, a transaction land or an open connection break.
Fairness ==
  /\ \A c \in Calls : WF_vars(Resume(c)) /\ WF_vars(Timeout(c))
  /\ \A s \in Sockets :
       /\ WF_vars(Open(s) \/ ConnectFails(s))
       /\ WF_vars(sock[s] = "closing" /\ ConnectionCloses(s))
  /\ WF_vars(IdleTimeout)

Spec == Init /\ [][Next]_vars /\ Fairness

-----------------------------------------------------------------------------
\* The ids of a call's subscription: the Gateway's and, once it answered, the
\* server's.
Ids(c) == {localId[c], assigned[c]} \ {None}

\* No id the server gave, to this call or to another, is an id of both.
KeptApart(c) ==
  \A d \in Calls \ {c} : assigned[d] \notin Ids(c) /\ assigned[c] \notin Ids(d)

\* A call whose ids are its own is answered with its own transaction's result,
\* through the change of ids, late messages for calls that timed out, sockets
\* that come and go, and whatever becomes of the entries of calls whose ids clash.
AnswerIsOwn ==
  \A c \in Calls : KeptApart(c) /\ answer[c] \in {"landed", "failed"} => answer[c] = tx[c]

\* A call that still waits, and whose ids are its own, is in the map, so that a
\* closing socket rejects it and the idle timer spares the socket it waits on.
WaitingIsRegistered ==
  \A c \in Calls : KeptApart(c) /\ pc[c] = "monitoring" => c \in Range(subs)

\* The idle timer never closes a socket under a call that waits on it: not when
\* calls overlap, and not when it fires while others come and go.  A call whose
\* ids clash may have lost its entry, and the socket with it.
IdleSparesWaiting ==
  [][IdleTimeout => ws' = ws \/ \A c \in Calls : KeptApart(c) => pc[c] # "monitoring"]_vars

\* monitorTransaction never hangs: whatever the server and the socket do, it
\* settles within its timeout once the connection attempt ended, the calls that
\* lost their entry to another one's id included.
MonitorSettles ==
  \A c \in Calls : pc[c] # "new" ~> answer[c] # "none"
=============================================================================
