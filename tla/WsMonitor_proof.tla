---------------------------- MODULE WsMonitor_proof ----------------------------
(***************************************************************************)
(* For any number of calls, sockets and subscriptions, and whatever ids    *)
(* the server hands out: a call whose ids are its own is not given the     *)
(* result of another one, is in the map while it waits, and keeps its      *)
(* socket.  The map holds entries of other calls too, moved and deleted    *)
(* through ids that clash; the invariant says that no such step reaches    *)
(* the entry of a call that is kept apart.                                 *)
(***************************************************************************)
EXTENDS WsMonitor, SequenceTheorems, TLAPS

\* The messages that are on their way to the Gateway over a socket.
Coming(s) == {outbox[s][i] : i \in 1..Len(outbox[s])}

\* A call that has not subscribed.
Early == {"new", "opening", "joining", "resuming", "rejoining"}

\* A local id is of one call, and is not given again.
IdInv ==
  /\ \A c \in Calls : localId[c] < nextId
  /\ \A c, d \in Calls : localId[c] = localId[d] /\ localId[c] # None => c = d
  /\ \A c \in Calls : pc[c] \in Early => localId[c] = None
  /\ \A c \in Calls : localId[c] = None => assigned[c] = None

\* A key of the map is an id of some call.  A call that is kept apart has its entry
\* under its own ids, and nobody else's is there.
EntryInv ==
  \A id \in DOMAIN subs :
    /\ \E c \in Calls : id \in Ids(c)
    /\ \A c \in Calls : KeptApart(c) => (subs[id] = c <=> id \in Ids(c))

\* The server has a call's request until it gives it an id.
ServedInv ==
  /\ \A r \in inbox : localId[r.call] = r.id /\ assigned[r.call] = None
  /\ \A r, q \in inbox : r.call = q.call => r = q
  /\ \A v \in served : assigned[v.call] = v.id

\* What a reply or a notification says is said of one call.
ReplyIsTrue(m) ==
  m.kind = "reply" => m.to # None /\ \E c \in Calls : localId[c] = m.id /\ assigned[c] = m.to
NotifyIsTrue(m) ==
  m.kind = "notify" =>
    m.result \in {"landed", "failed"} /\ \E c \in Calls : assigned[c] = m.id /\ tx[c] = m.result

MessageInv ==
  \A s \in Sockets : \A m \in Coming(s) : ReplyIsTrue(m) /\ NotifyIsTrue(m)

Inv == TypeOK /\ IdInv /\ EntryInv /\ ServedInv /\ MessageInv /\ AnswerIsOwn /\ WaitingIsRegistered

-----------------------------------------------------------------------------
(***************************************************************************)
(* The messages on their way.                                              *)
(***************************************************************************)
Typed(box) == box \in [Sockets -> Seq(Messages)]

LEMMA ComingTyped ==
  ASSUME Typed(outbox), NEW s \in Sockets, NEW m \in Coming(s)
  PROVE  m \in Messages
BY DEF Typed, Coming

LEMMA NothingComing ==
  ASSUME Typed(outbox), NEW s \in Sockets, outbox' = [outbox EXCEPT ![s] = <<>>]
  PROVE  Typed(outbox') /\ \A t \in Sockets : Coming(t)' \subseteq Coming(t)
<1>1. outbox'[s] = <<>> /\ Len(<<>>) = 0
  BY DEF Typed
<1>2. Coming(s)' = {}
  BY <1>1 DEF Coming
<1>3. \A t \in Sockets \ {s} : outbox'[t] = outbox[t]
  BY DEF Typed
<1> QED BY <1>2, <1>3 DEF Typed, Coming

LEMMA OneComing ==
  ASSUME Typed(outbox), NEW s \in Sockets, NEW m \in Messages, Reply(s, m)
  PROVE  Typed(outbox') /\ \A t \in Sockets : Coming(t)' \subseteq Coming(t) \cup {m}
<1>1. outbox[s] \in Seq(Messages) /\ outbox'[s] = Append(outbox[s], m)
  BY DEF Typed, Reply
<1>2. Typed(outbox')
  BY <1>1 DEF Typed, Reply
<1>3. Coming(s)' \subseteq Coming(s) \cup {m}
  <2>1. /\ Len(outbox'[s]) = Len(outbox[s]) + 1 /\ Len(outbox[s]) \in Nat
        /\ \A i \in 1..Len(outbox[s]) : outbox'[s][i] = outbox[s][i]
        /\ outbox'[s][Len(outbox[s]) + 1] = m
    BY <1>1, AppendProperties
  <2>2. ASSUME NEW i \in 1..Len(outbox'[s])
        PROVE  outbox'[s][i] \in Coming(s) \cup {m}
    BY <2>1, <2>2 DEF Coming
  <2> QED BY <2>2 DEF Coming
<1>4. \A t \in Sockets \ {s} : outbox'[t] = outbox[t]
  BY DEF Typed, Reply
<1> QED BY <1>2, <1>3, <1>4 DEF Coming

LEMMA HeadIsFirst == \A S : \A q \in Seq(S) : q # <<>> => Head(q) = q[1]
OBVIOUS

LEMMA OneReceived ==
  ASSUME Typed(outbox), NEW s \in Sockets, outbox[s] # <<>>, outbox' = [outbox EXCEPT ![s] = Tail(@)]
  PROVE  /\ Typed(outbox') /\ \A t \in Sockets : Coming(t)' \subseteq Coming(t)
         /\ Head(outbox[s]) \in Coming(s)
<1> DEFINE q == outbox[s]
           rest == Tail(q)
<1>1. q \in Seq(Messages) /\ q # <<>> /\ outbox'[s] = rest
  BY DEF Typed
<1>2. /\ rest \in Seq(Messages) /\ Len(rest) = Len(q) - 1
      /\ \A i \in 1..Len(rest) : rest[i] = q[i + 1]
  BY <1>1, HeadTailProperties, Zenon
<1>3. Len(q) \in Nat /\ Len(q) >= 1 /\ Head(q) = q[1]
  BY <1>1, HeadIsFirst
<1> HIDE DEF q, rest
<1>4. Typed(outbox')
  BY <1>1, <1>2 DEF Typed, q, rest
<1>5. Coming(s)' \subseteq Coming(s)
  <2>1. ASSUME NEW i \in 1..Len(outbox'[s]) PROVE outbox'[s][i] \in Coming(s)
    <3>1. i \in 1..Len(rest) /\ outbox'[s][i] = rest[i]
      BY <1>1, <2>1
    <3>2. i + 1 \in 1..Len(q) /\ outbox'[s][i] = q[i + 1]
      BY ONLY <1>2, <1>3, <3>1
    <3> QED BY <3>2 DEF Coming, q
  <2> QED BY <2>1 DEF Coming
<1>6. \A t \in Sockets \ {s} : outbox'[t] = outbox[t]
  BY DEF Typed
<1>7. Head(outbox[s]) \in Coming(s)
  BY <1>3 DEF Coming, q
<1> QED BY <1>4, <1>5, <1>6, <1>7 DEF Coming

-----------------------------------------------------------------------------
(***************************************************************************)
(* A step that forgets entries, requests and messages.                     *)
(***************************************************************************)
Less ==
  /\ DOMAIN subs' \subseteq DOMAIN subs /\ \A id \in DOMAIN subs' : subs'[id] = subs[id]
  /\ inbox' \subseteq inbox /\ served' \subseteq served
  /\ \A s \in Sockets : Coming(s)' \subseteq Coming(s)
  /\ UNCHANGED <<nextId, localId, assigned, tx>>
Shrinks == Less /\ \A c \in Calls : pc'[c] \in Early => pc[c] \in Early

LEMMA ShrinkingIds ==
  ASSUME IdInv, EntryInv, ServedInv, MessageInv, Shrinks
  PROVE  IdInv' /\ EntryInv' /\ ServedInv' /\ MessageInv'
<1>1. IdInv'
  BY DEF IdInv, Less, Shrinks
<1>2. EntryInv'
  BY DEF EntryInv, KeptApart, Ids, Less, Shrinks
<1>3. ServedInv'
  BY DEF ServedInv, Less, Shrinks
<1>4. ASSUME NEW s \in Sockets, NEW m \in Coming(s)' PROVE (ReplyIsTrue(m) /\ NotifyIsTrue(m))'
  <2>1. m \in Coming(s) /\ ReplyIsTrue(m) /\ NotifyIsTrue(m)
    BY <1>4 DEF MessageInv, Less, Shrinks
  <2> QED BY <2>1 DEF ReplyIsTrue, NotifyIsTrue, Less, Shrinks
<1>5. MessageInv'
  BY <1>4 DEF MessageInv
<1> QED BY <1>1, <1>2, <1>3, <1>5

-----------------------------------------------------------------------------
(***************************************************************************)
(* The map, and what settles.                                              *)
(***************************************************************************)
LEMMA InMap == \A c : c \in Range(subs) <=> \E id \in DOMAIN subs : subs[id] = c
BY DEF Range

LEMMA WithoutSome ==
  ASSUME NEW ids
  PROVE  /\ DOMAIN Without(subs, ids) = DOMAIN subs \ ids
         /\ \A id \in DOMAIN subs \ ids : Without(subs, ids)[id] = subs[id]
BY DEF Without, Restrict

LEMMA NoEntries == DOMAIN NoSubs = {}
BY DEF NoSubs

PcStates == {"new", "opening", "joining", "resuming", "rejoining", "monitoring", "settled"}
GivenAnswers == {"none", "landed", "failed", "timeout", "error"}

LEMMA Settles ==
  ASSUME pc \in [Calls -> PcStates], answer \in [Calls -> GivenAnswers],
         NEW cs, NEW a \in GivenAnswers, Settled(cs, a)
  PROVE  /\ pc' \in [Calls -> PcStates] /\ answer' \in [Calls -> GivenAnswers]
         /\ \A c \in Calls : pc'[c] = IF c \in cs THEN "settled" ELSE pc[c]
         /\ \A c \in Calls : answer'[c] = answer[c] \/ (c \in cs /\ answer'[c] = a)
BY DEF Settled, PcStates, GivenAnswers

\* The type of what a step is about.
MapTyped == /\ DOMAIN subs \subseteq LocalIds \cup ServerIds
            /\ \A id \in DOMAIN subs : subs[id] \in Calls
SocketsTyped == /\ ws \in Sockets \cup {None}
                /\ sock \in [Sockets -> {"unused", "connecting", "aborting", "open", "closing", "closed"}]
                /\ connecting \in Sockets \cup {None}
CallsTyped == pc \in [Calls -> PcStates] /\ answer \in [Calls -> GivenAnswers]
              /\ timer \in [Calls -> BOOLEAN] /\ localId \in [Calls -> LocalIds \cup {None}]
              /\ nextId \in 1..(MaxLocalId + 1) /\ idle \in BOOLEAN
ServerTyped == /\ inbox \subseteq [sock : Sockets, id : LocalIds, call : Calls]
               /\ Typed(outbox)
               /\ served \subseteq [sock : Sockets, id : ServerIds, call : Calls]
               /\ assigned \in [Calls -> ServerIds \cup {None}]
               /\ tx \in [Calls -> {"pending", "landed", "failed"}]

LEMMA TypeParts == TypeOK <=> MapTyped /\ SocketsTyped /\ CallsTyped /\ ServerTyped
BY DEF TypeOK, MapTyped, SocketsTyped, CallsTyped, ServerTyped, Typed, PcStates, GivenAnswers

LEMMA TypeAfter == MapTyped' /\ SocketsTyped' /\ CallsTyped' /\ ServerTyped' => TypeOK'
BY DEF TypeOK, MapTyped, SocketsTyped, CallsTyped, ServerTyped, Typed, PcStates, GivenAnswers

LEMMA Ids0 ==
  ASSUME TypeOK
  PROVE  /\ LocalIds \subseteq Nat \ {0} /\ None \notin Nat /\ ServerIds \subseteq Nat
         /\ \A c \in Calls : localId[c] \in LocalIds \cup {None}
         /\ \A c \in Calls : assigned[c] \in ServerIds \cup {None}
BY WsAssumption DEF TypeOK, LocalIds, None

\* An id that is of a call kept apart and of another call's subscription is one call's.
LEMMA OneOwner ==
  ASSUME IdInv, NEW c \in Calls, KeptApart(c), NEW d \in Calls, NEW id \in Ids(c),
         id = localId[d] \/ id = assigned[d]
  PROVE  c = d
BY DEF IdInv, KeptApart, Ids

\* Who is kept apart afterwards was so before.
LEMMA ApartBefore ==
  ASSUME NEW c \in Calls, KeptApart(c)',
         \A d \in Calls : localId[d] # None => localId'[d] = localId[d],
         \A d \in Calls : assigned[d] # None => assigned'[d] = assigned[d]
  PROVE  KeptApart(c)
BY DEF KeptApart, Ids

\* A step that forgets, and puts no call into the wait.
LEMMA Forgets ==
  ASSUME Inv, TypeOK', Shrinks,
         \A c \in Calls : KeptApart(c) /\ answer'[c] \in {"landed", "failed"} => answer'[c] = tx[c],
         \A c \in Calls : KeptApart(c) /\ pc'[c] = "monitoring" =>
           /\ pc[c] = "monitoring"
           /\ \A id \in DOMAIN subs : subs[id] = c => id \in DOMAIN subs'
  PROVE  Inv'
<1>1. IdInv' /\ EntryInv' /\ ServedInv' /\ MessageInv'
  BY ShrinkingIds DEF Inv
<1>a. \A c \in Calls : KeptApart(c)' => KeptApart(c)
  BY DEF KeptApart, Ids, Less, Shrinks
<1>2. AnswerIsOwn'
  BY <1>a DEF AnswerIsOwn, Less, Shrinks
<1>3. ASSUME NEW c \in Calls, KeptApart(c)', pc'[c] = "monitoring" PROVE c \in Range(subs')
  <2>1. PICK id \in DOMAIN subs : subs[id] = c
    BY <1>3, <1>a, InMap DEF Inv, WaitingIsRegistered
  <2>2. id \in DOMAIN subs' /\ subs'[id] = c
    BY <1>3, <1>a, <2>1 DEF Less, Shrinks
  <2> QED BY <2>2 DEF Range
<1>4. WaitingIsRegistered'
  BY <1>3 DEF WaitingIsRegistered
<1> QED BY <1>1, <1>2, <1>4 DEF Inv

-----------------------------------------------------------------------------
(***************************************************************************)
(* The steps of the Gateway.                                               *)
(***************************************************************************)
LEMMA SubscribeStep ==
  ASSUME Inv, NEW c \in Calls, pc[c] \in Early, Subscribe(c),
         UNCHANGED <<outbox, served, assigned, tx>>
  PROVE  Inv'
<1> USE DEF Subscribe, TakeId
<1>1. MapTyped /\ SocketsTyped /\ CallsTyped /\ ServerTyped /\ TypeOK
  BY TypeParts DEF Inv
<1>2. /\ nextId \in LocalIds /\ nextId \in Nat /\ nextId # None
      /\ localId[c] = None /\ assigned[c] = None /\ nextId' = nextId + 1
      /\ \A d \in Calls : localId[d] # nextId
  <2>1. nextId \in LocalIds /\ nextId \in Nat /\ nextId # None
    BY <1>1, WsAssumption DEF CallsTyped, LocalIds, None
  <2>2. \A d \in Calls : localId[d] # nextId
    <3> SUFFICES ASSUME NEW d \in Calls, localId[d] = nextId PROVE FALSE
      OBVIOUS
    <3>1. localId[d] < nextId
      BY DEF Inv, IdInv
    <3> QED BY <2>1, <3>1
  <2> QED BY <2>1, <2>2 DEF Inv, IdInv
<1>3. /\ localId' \in [Calls -> LocalIds \cup {None}] /\ localId'[c] = nextId
      /\ \A d \in Calls \ {c} : localId'[d] = localId[d]
  BY <1>1, <1>2 DEF CallsTyped
<1>4. /\ DOMAIN subs' = DOMAIN subs \cup {nextId} /\ subs'[nextId] = c
      /\ \A id \in DOMAIN subs \ {nextId} : subs'[id] = subs[id]
  BY <1>2
<1>5. /\ pc' \in [Calls -> PcStates] /\ answer' \in [Calls -> GivenAnswers]
      /\ pc'[c] \in {"settled", "monitoring"}
      /\ \A d \in Calls \ {c} : pc'[d] = pc[d]
      /\ \A d \in Calls : answer'[d] = answer[d] \/ answer'[d] = "error"
  <2>1. CASE ws = None
    BY <1>1, <2>1, Settles DEF CallsTyped, GivenAnswers
  <2>2. CASE ws # None
    <3>1. pc' = [pc EXCEPT ![c] = "monitoring"] /\ answer' = answer
      BY <2>2
    <3> QED BY <1>1, <3>1 DEF CallsTyped, PcStates
  <2> QED BY <2>1, <2>2
<1>6. /\ inbox' \subseteq [sock : Sockets, id : LocalIds, call : Calls]
      /\ \A r \in inbox' : r \in inbox \/ r = [sock |-> ws, id |-> nextId, call |-> c]
  BY <1>1, <1>2 DEF ServerTyped, SocketsTyped
<1>7. TypeOK'
  <2>1. MapTyped' /\ SocketsTyped' /\ ServerTyped'
    BY <1>1, <1>2, <1>4, <1>6 DEF MapTyped, SocketsTyped, ServerTyped
  <2>2. CallsTyped'
    <3>1. timer' \in [Calls -> BOOLEAN] /\ idle' \in BOOLEAN
      BY <1>1 DEF CallsTyped
    <3>2. nextId' \in 1..(MaxLocalId + 1)
      BY <1>2, WsAssumption DEF LocalIds
    <3> QED BY <1>3, <1>5, <3>1, <3>2 DEF CallsTyped
  <2> QED BY <2>1, <2>2, TypeAfter
<1>8. IdInv'
  <2>1. \A d \in Calls : localId'[d] < nextId'
    <3> SUFFICES ASSUME NEW d \in Calls PROVE localId'[d] < nextId'
      OBVIOUS
    <3>1. localId[d] < nextId /\ localId[d] \in Int
      BY <1>1, WsAssumption DEF Inv, IdInv, CallsTyped, LocalIds, None
    <3> QED BY <1>2, <1>3, <3>1
  <2>2. \A d, e \in Calls : localId'[d] = localId'[e] /\ localId'[d] # None => d = e
    BY <1>2, <1>3 DEF Inv, IdInv
  <2>3. \A d \in Calls : pc'[d] \in Early => localId'[d] = None
    BY <1>3, <1>5 DEF Inv, IdInv, Early
  <2>4. \A d \in Calls : localId'[d] = None => assigned[d] = None
    BY <1>2, <1>3 DEF Inv, IdInv
  <2> QED BY <2>1, <2>2, <2>3, <2>4 DEF IdInv
<1>9. \A d \in Calls : localId[d] # None => localId'[d] = localId[d]
  BY <1>2, <1>3
<1>a. \A d \in Calls : KeptApart(d)' => KeptApart(d)
  BY <1>9, ApartBefore
<1>b. Ids(c)' = {nextId} /\ \A d \in Calls \ {c} : Ids(d)' = Ids(d)
  BY <1>2, <1>3 DEF Ids
<1>c. \A d \in Calls \ {c} : KeptApart(d)' => nextId \notin Ids(d)
  BY <1>2, <1>3, <1>b DEF KeptApart, Ids
<1>d. EntryInv'
  <2>a. \A id \in DOMAIN subs' : \E d \in Calls : id \in Ids(d)'
    <3>1. Ids(c) = {}
      BY <1>2 DEF Ids
    <3> QED BY <1>4, <1>b, <3>1 DEF Inv, EntryInv
  <2> SUFFICES ASSUME NEW id \in DOMAIN subs', NEW d \in Calls, KeptApart(d)'
               PROVE  subs'[id] = d <=> id \in Ids(d)'
    BY <2>a DEF EntryInv
  <2>1. CASE id = nextId
    BY <1>4, <1>b, <1>c, <2>1
  <2>2. CASE id # nextId
    <3>1. id \in DOMAIN subs /\ subs'[id] = subs[id] /\ (subs[id] = d <=> id \in Ids(d))
      BY <1>4, <1>a, <2>2 DEF Inv, EntryInv
    <3>2. Ids(c) = {}
      BY <1>2 DEF Ids
    <3> QED BY <1>b, <2>2, <3>1, <3>2
  <2> QED BY <2>1, <2>2
<1>10. ServedInv'
  <2>1. \A r \in inbox : r.call \in Calls /\ localId[r.call] = r.id /\ r.id \in LocalIds
    BY <1>1 DEF ServerTyped, Inv, ServedInv
  <2>a. \A r \in inbox : r.call # c
    <3>1. None \notin LocalIds
      BY <1>1, Ids0
    <3> QED BY <1>2, <2>1, <3>1
  <2>2. \A r \in inbox : r.call # c /\ localId'[r.call] = r.id /\ assigned[r.call] = None
    BY <1>3, <2>1, <2>a DEF Inv, ServedInv
  <2>3. \A r \in inbox' : localId'[r.call] = r.id /\ assigned[r.call] = None
    BY <1>2, <1>3, <1>6, <2>2
  <2>4. \A r, q \in inbox' : r.call = q.call => r = q
    BY <1>6, <2>2 DEF Inv, ServedInv
  <2> QED BY <2>3, <2>4 DEF Inv, ServedInv
<1>11. \A s : Coming(s)' = Coming(s)
  BY DEF Coming
<1>12. ASSUME NEW s \in Sockets, NEW m \in Coming(s) PROVE ReplyIsTrue(m)' /\ NotifyIsTrue(m)'
  <2>1. ReplyIsTrue(m) /\ NotifyIsTrue(m)
    BY DEF Inv, MessageInv
  <2>2. ReplyIsTrue(m)'
    BY <1>2, <1>9, <2>1 DEF ReplyIsTrue, Inv, IdInv
  <2>3. NotifyIsTrue(m)'
    BY <2>1 DEF NotifyIsTrue
  <2> QED BY <2>2, <2>3
<1>14. MessageInv'
  BY <1>11, <1>12 DEF MessageInv
<1>15. AnswerIsOwn'
  BY <1>5, <1>a DEF Inv, AnswerIsOwn
<1>16. WaitingIsRegistered'
  <2>1. ASSUME NEW d \in Calls, KeptApart(d)', pc'[d] = "monitoring" PROVE d \in Range(subs')
    <3>1. CASE d = c
      BY <1>4, <3>1 DEF Range
    <3>2. CASE d # c
      <4>1. PICK id \in DOMAIN subs : subs[id] = d
        BY <1>5, <1>a, <2>1, <3>2, InMap DEF Inv, WaitingIsRegistered
      <4>2. id # nextId
        BY <1>a, <1>c, <2>1, <3>2, <4>1 DEF Inv, EntryInv
      <4>3. id \in DOMAIN subs' /\ subs'[id] = d
        BY <1>4, <4>1, <4>2
      <4> QED BY <4>3 DEF Range
    <3> QED BY <3>1, <3>2
  <2> QED BY <2>1 DEF WaitingIsRegistered
<1> QED BY <1>7, <1>8, <1>d, <1>10, <1>14, <1>15, <1>16 DEF Inv

\* A step that settles the calls kept apart whose entries it forgets, and perhaps others.
LEMMA SettlingForgets ==
  ASSUME Inv, SocketsTyped', timer' \in [Calls -> BOOLEAN], idle' \in BOOLEAN, Typed(outbox'),
         Less, NEW cs, NEW a \in GivenAnswers, Settled(cs, a),
         \A id \in DOMAIN subs \ DOMAIN subs' : KeptApart(subs[id]) => subs[id] \in cs,
         a \in {"landed", "failed"} => \A c \in cs \cap Calls : KeptApart(c) => tx[c] = a
  PROVE  Inv'
<1>1. MapTyped /\ CallsTyped /\ ServerTyped
  BY TypeParts DEF Inv
<1>2. /\ pc' \in [Calls -> PcStates] /\ answer' \in [Calls -> GivenAnswers]
      /\ \A c \in Calls : pc'[c] = IF c \in cs THEN "settled" ELSE pc[c]
      /\ \A c \in Calls : answer'[c] = answer[c] \/ (c \in cs /\ answer'[c] = a)
  BY <1>1, Settles DEF CallsTyped
<1>3. MapTyped' /\ CallsTyped' /\ ServerTyped'
  BY <1>1, <1>2 DEF MapTyped, CallsTyped, ServerTyped, Less
<1>4. TypeOK'
  BY <1>3, TypeAfter
<1>5. Shrinks
  BY <1>2 DEF Shrinks, Early
<1>6. \A c \in Calls : KeptApart(c) /\ answer'[c] \in {"landed", "failed"} => answer'[c] = tx[c]
  BY <1>2 DEF Inv, AnswerIsOwn
<1>7. \A c \in Calls : KeptApart(c) /\ pc'[c] = "monitoring" =>
        /\ pc[c] = "monitoring"
        /\ \A id \in DOMAIN subs : subs[id] = c => id \in DOMAIN subs'
  BY <1>2
<1> QED BY <1>4, <1>5, <1>6, <1>7, Forgets

\* A loop over the map that rejects what it finds passes over no call kept apart.
LEMMA LoopFinds ==
  ASSUME Inv, NEW keys \in Visited, NEW id \in DOMAIN subs, KeptApart(subs[id])
  PROVE  subs[id] \in Found(keys)
<1>1. MapTyped /\ subs[id] \in Calls
  BY TypeParts DEF Inv, MapTyped
<1>2. id \in Ids(subs[id])
  BY <1>1 DEF Inv, EntryInv
<1>3. CASE id \in keys
  BY <1>3 DEF Found
<1>4. CASE id \notin keys
  <2>1. PICK k \in keys : localId[subs[k]] = id /\ k \in DOMAIN subs
    BY <1>4 DEF Visited
  <2>2. subs[k] \in Calls
    BY <1>1, <2>1 DEF MapTyped
  <2>3. subs[k] = subs[id]
    BY <1>1, <1>2, <2>1, <2>2, OneOwner DEF Inv
  <2> QED BY <2>1, <2>3 DEF Found
<1> QED BY <1>3, <1>4

LEMMA DisarmTyped ==
  ASSUME timer \in [Calls -> BOOLEAN], NEW cs, Disarm(cs)
  PROVE  timer' \in [Calls -> BOOLEAN]
BY DEF Disarm

\* What is on its way stays there.
LEMMA SameComing == outbox' = outbox => \A s : Coming(s)' = Coming(s)
BY DEF Coming

-----------------------------------------------------------------------------
LEMMA JoinStep ==
  ASSUME Inv, NEW c \in Calls, pc[c] = "new",
         \/ /\ pc' = [pc EXCEPT ![c] = "joining"]
            /\ UNCHANGED <<ws, sock, connecting>>
         \/ /\ \E s \in Sockets : /\ ws' = s
                                  /\ sock' = [sock EXCEPT ![s] = "connecting"]
                                  /\ connecting' = s
            /\ pc' = [pc EXCEPT ![c] = "opening"],
         UNCHANGED <<subs, nextId, idle, localId, timer, answer, inbox, outbox, served, assigned, tx>>
  PROVE  Inv'
<1>1. MapTyped /\ SocketsTyped /\ CallsTyped /\ ServerTyped
  BY TypeParts DEF Inv
<1>2. SocketsTyped'
  BY <1>1 DEF SocketsTyped
<1>3. /\ pc' \in [Calls -> PcStates] /\ pc'[c] \in {"joining", "opening"}
      /\ \A d \in Calls \ {c} : pc'[d] = pc[d]
  BY <1>1 DEF CallsTyped, PcStates
<1>4. TypeOK'
  BY <1>1, <1>2, <1>3, TypeAfter DEF MapTyped, CallsTyped, ServerTyped
<1>5. Shrinks
  BY <1>3, SameComing DEF Shrinks, Less, Early
<1>6. \A d \in Calls : KeptApart(d) /\ answer'[d] \in {"landed", "failed"} => answer'[d] = tx[d]
  BY DEF Inv, AnswerIsOwn
<1>7. \A d \in Calls : KeptApart(d) /\ pc'[d] = "monitoring" =>
        /\ pc[d] = "monitoring"
        /\ \A id \in DOMAIN subs : subs[id] = d => id \in DOMAIN subs'
  BY <1>3
<1> QED BY <1>4, <1>5, <1>6, <1>7, Forgets

LEMMA MonitorStep ==
  ASSUME Inv, NEW c \in Calls, MonitorTransaction(c)
  PROVE  Inv'
<1> USE DEF MonitorTransaction
<1>1. CASE Subscribe(c)
  BY <1>1, SubscribeStep DEF Early
<1>2. CASE ~Subscribe(c)
  BY <1>2, JoinStep
<1> QED BY <1>1, <1>2

LEMMA ResumeStep ==
  ASSUME Inv, NEW c \in Calls, Resume(c)
  PROVE  Inv'
<1>1. pc[c] \in Early /\ UNCHANGED <<outbox, served, assigned, tx>>
  BY DEF Resume, Early
<1>2. CASE Subscribe(c)
  BY <1>1, <1>2, SubscribeStep
<1>3. CASE Settled({c}, "error")
           /\ UNCHANGED <<ws, sock, connecting, subs, nextId, idle, localId, timer, inbox>>
  <2>1. SocketsTyped /\ CallsTyped /\ ServerTyped
    BY TypeParts DEF Inv
  <2>2. SocketsTyped' /\ timer' \in [Calls -> BOOLEAN] /\ idle' \in BOOLEAN /\ Typed(outbox')
    BY <1>1, <1>3, <2>1 DEF SocketsTyped, CallsTyped, ServerTyped
  <2>3. Less
    BY <1>1, <1>3, SameComing DEF Less
  <2>4. "error" \in GivenAnswers /\ DOMAIN subs \ DOMAIN subs' = {} /\ "error" \notin {"landed", "failed"}
    BY <1>3 DEF GivenAnswers
  <2> QED BY <1>3, <2>2, <2>3, <2>4, SettlingForgets
<1> QED BY <1>2, <1>3 DEF Resume

LEMMA OpenStep ==
  ASSUME Inv, NEW s \in Sockets, Open(s)
  PROVE  Inv'
<1> USE DEF Open
<1>1. MapTyped /\ SocketsTyped /\ CallsTyped /\ ServerTyped
  BY TypeParts DEF Inv
<1>2. SocketsTyped'
  BY <1>1 DEF SocketsTyped
<1>3. /\ pc' \in [Calls -> PcStates]
      /\ \A c \in Calls : pc'[c] = pc[c] \/ (pc[c] \in Early /\ pc'[c] \in Early)
  BY <1>1 DEF CallsTyped, PcStates, Early
<1>4. TypeOK'
  BY <1>1, <1>2, <1>3, TypeAfter DEF MapTyped, CallsTyped, ServerTyped, serverVars
<1>5. Shrinks
  BY <1>3, SameComing DEF Shrinks, Less, serverVars
<1>6. \A d \in Calls : KeptApart(d) /\ answer'[d] \in {"landed", "failed"} => answer'[d] = tx[d]
  BY DEF Inv, AnswerIsOwn
<1>7. \A d \in Calls : KeptApart(d) /\ pc'[d] = "monitoring" =>
        /\ pc[d] = "monitoring"
        /\ \A id \in DOMAIN subs : subs[id] = d => id \in DOMAIN subs'
  BY <1>3 DEF Early
<1> QED BY <1>4, <1>5, <1>6, <1>7, Forgets

\* Closing forgets the whole map, and settles everyone in it.
LEMMA ClosedStep ==
  ASSUME Inv, NEW s \in Sockets, NEW failing, Closed(s, failing), connecting' \in {connecting, None}
  PROVE  Inv'
<1> USE DEF Closed, RejectAll
<1>1. MapTyped /\ SocketsTyped /\ CallsTyped /\ ServerTyped
  BY TypeParts DEF Inv
<1>2. SocketsTyped'
  BY <1>1 DEF SocketsTyped
<1>0. PICK keys \in Visited : Settled(Found(keys) \cup failing, "error") /\ Disarm(Found(keys))
  OBVIOUS
<1>3. timer' \in [Calls -> BOOLEAN] /\ idle' \in BOOLEAN
  BY <1>0, <1>1, DisarmTyped DEF CallsTyped
<1>4. Typed(outbox') /\ \A t \in Sockets : Coming(t)' \subseteq Coming(t)
  BY <1>1, NothingComing DEF ServerTyped
<1>5. Less
  BY <1>4, NoEntries DEF Less
<1>6. "error" \in GivenAnswers /\ "error" \notin {"landed", "failed"}
  BY DEF GivenAnswers
<1>7. \A id \in DOMAIN subs : KeptApart(subs[id]) => subs[id] \in Found(keys) \cup failing
  BY LoopFinds
<1> HIDE DEF Closed
<1> QED BY <1>0, <1>2, <1>3, <1>4, <1>5, <1>6, <1>7, SettlingForgets

LEMMA TimeoutStep ==
  ASSUME Inv, NEW c \in Calls, Timeout(c)
  PROVE  Inv'
<1> USE DEF Timeout, Expire, serverVars
<1>1. MapTyped /\ SocketsTyped /\ CallsTyped /\ ServerTyped
  BY TypeParts DEF Inv
<1>2. SocketsTyped' /\ Typed(outbox')
  BY <1>1 DEF SocketsTyped, ServerTyped
<1>3. timer' \in [Calls -> BOOLEAN] /\ idle' \in BOOLEAN
  BY <1>1, DisarmTyped DEF CallsTyped, ScheduleIdle
<1>4. /\ DOMAIN subs' = DOMAIN subs \ {localId[c]}
      /\ \A id \in DOMAIN subs' : subs'[id] = subs[id]
  BY WithoutSome
<1>5. Less
  BY <1>4, SameComing DEF Less
<1>6. "timeout" \in GivenAnswers /\ "timeout" \notin {"landed", "failed"}
  BY DEF GivenAnswers
<1>7. ASSUME NEW id \in DOMAIN subs, id \notin DOMAIN subs', KeptApart(subs[id])
      PROVE  subs[id] \in {c}
  <2>1. id = localId[c] /\ subs[id] \in Calls
    BY <1>1, <1>4, <1>7 DEF MapTyped
  <2>2. id \in Ids(subs[id])
    BY <1>7, <2>1 DEF Inv, EntryInv
  <2> QED BY <1>7, <2>1, <2>2, OneOwner DEF Inv
<1>8. Settled({c}, "timeout")
  OBVIOUS
<1> QED BY <1>2, <1>3, <1>5, <1>6, <1>7, <1>8, SettlingForgets

LEMMA CloseTyped ==
  ASSUME SocketsTyped, NEW s \in Sockets, CloseSocket(s)
  PROVE  sock' \in [Sockets -> {"unused", "connecting", "aborting", "open", "closing", "closed"}]
BY DEF SocketsTyped, CloseSocket

LEMMA DisconnectStep ==
  ASSUME Inv, Disconnect
  PROVE  Inv'
<1> USE DEF Disconnect, serverVars
<1>1. MapTyped /\ SocketsTyped /\ CallsTyped /\ ServerTyped
  BY TypeParts DEF Inv
<1>2. SocketsTyped' /\ Typed(outbox')
  BY <1>1, CloseTyped DEF SocketsTyped, ServerTyped
<1>0. PICK keys \in Visited : /\ Disarm(Found(keys)) /\ Settled(Found(keys), "error")
                             /\ idle' \in BOOLEAN
  OBVIOUS
<1>3. timer' \in [Calls -> BOOLEAN] /\ idle' \in BOOLEAN
  BY <1>0, <1>1, DisarmTyped DEF CallsTyped
<1>4. Less
  BY NoEntries, SameComing DEF Less
<1>5. "error" \in GivenAnswers /\ "error" \notin {"landed", "failed"}
  BY DEF GivenAnswers
<1>6. \A id \in DOMAIN subs : KeptApart(subs[id]) => subs[id] \in Found(keys)
  BY LoopFinds
<1> HIDE DEF Disconnect
<1> QED BY <1>0, <1>2, <1>3, <1>4, <1>5, <1>6, SettlingForgets

LEMMA IdleStep ==
  ASSUME Inv, IdleTimeout
  PROVE  Inv'
<1> USE DEF IdleTimeout, serverVars
<1>1. MapTyped /\ SocketsTyped /\ CallsTyped /\ ServerTyped
  BY TypeParts DEF Inv
<1>2. SocketsTyped'
  BY <1>1, CloseTyped DEF SocketsTyped
<1>3. TypeOK'
  BY <1>1, <1>2, TypeAfter DEF MapTyped, CallsTyped, ServerTyped
<1>4. Shrinks
  BY SameComing DEF Shrinks, Less
<1>5. \A d \in Calls : KeptApart(d) /\ answer'[d] \in {"landed", "failed"} => answer'[d] = tx[d]
  BY DEF Inv, AnswerIsOwn
<1> QED BY <1>3, <1>4, <1>5, Forgets

-----------------------------------------------------------------------------
(***************************************************************************)
(* A message arrives.                                                      *)
(***************************************************************************)
\* An entry is settled: of the entries of calls kept apart only its call's go.
LEMMA SettleEntryStep ==
  ASSUME Inv, NEW id \in DOMAIN subs, NEW a \in GivenAnswers, SettleEntry(id, a),
         a \in {"landed", "failed"} => (KeptApart(subs[id]) => tx[subs[id]] = a),
         Typed(outbox'), \A t \in Sockets : Coming(t)' \subseteq Coming(t),
         UNCHANGED <<ws, sock, connecting, nextId, localId, inbox, served, assigned, tx>>
  PROVE  Inv'
<1> DEFINE c == subs[id]
           map == Without(subs, {id, localId[c]})
<1>1. MapTyped /\ SocketsTyped /\ CallsTyped /\ ServerTyped
  BY TypeParts DEF Inv
<1>2. Disarm({c}) /\ subs' = map /\ ScheduleIdle(map) /\ Settled({c}, a)
  BY DEF SettleEntry
<1>3. c \in Calls /\ localId[c] \in LocalIds \cup {None}
  BY <1>1 DEF MapTyped, CallsTyped
<1>4. /\ DOMAIN subs' = DOMAIN subs \ {id, localId[c]}
      /\ \A k \in DOMAIN subs' : subs'[k] = subs[k]
  BY <1>2, WithoutSome
<1> HIDE DEF map
<1>5. SocketsTyped'
  BY <1>1 DEF SocketsTyped
<1>6. timer' \in [Calls -> BOOLEAN] /\ idle' \in BOOLEAN
  BY <1>1, <1>2, DisarmTyped DEF CallsTyped, ScheduleIdle
<1>7. Less
  BY <1>4 DEF Less
<1>8. ASSUME NEW k \in DOMAIN subs \ DOMAIN subs', KeptApart(subs[k]) PROVE subs[k] \in {c}
  <2>1. CASE k = id
    BY <2>1
  <2>2. CASE k # id
    <3>1. k = localId[c] /\ subs[k] \in Calls
      BY <1>1, <1>4, <1>8, <2>2 DEF MapTyped
    <3>2. k \in Ids(subs[k])
      BY <1>8, <3>1 DEF Inv, EntryInv
    <3> HIDE DEF c
    <3> QED BY <1>3, <1>8, <3>1, <3>2, OneOwner DEF Inv
  <2> QED BY <2>1, <2>2
<1>9. a \in {"landed", "failed"} => \A d \in {c} \cap Calls : KeptApart(d) => tx[d] = a
  OBVIOUS
<1> HIDE DEF c
<1> QED BY <1>2, <1>5, <1>6, <1>7, <1>8, <1>9, SettlingForgets

\* An entry moves to the id of a reply, over what is there: neither is of a call kept
\* apart, unless both are.
LEMMA RemapStep ==
  ASSUME Inv, NEW s \in Sockets, NEW m \in Coming(s), m \in Messages, m.kind = "reply",
         m.id \in DOMAIN subs, subs' = Remap(m.id, m.to),
         Typed(outbox'), \A t \in Sockets : Coming(t)' \subseteq Coming(t),
         UNCHANGED <<ws, sock, connecting, nextId, localId, inbox, served, assigned, tx,
                     idle, timer, answer, pc>>
  PROVE  Inv'
<1>1. MapTyped /\ SocketsTyped /\ CallsTyped /\ ServerTyped /\ TypeOK
  BY TypeParts DEF Inv
<1>2. PICK d \in Calls : localId[d] = m.id /\ assigned[d] = m.to /\ m.to # None
  BY DEF Inv, MessageInv, ReplyIsTrue
<1>3. m.id # None /\ m.to \in ServerIds
  BY <1>1, <1>2, Ids0 DEF Messages
<1>4. /\ DOMAIN subs' = (DOMAIN subs \ {m.id}) \cup {m.to} /\ subs'[m.to] = subs[m.id]
      /\ \A k \in DOMAIN subs' \ {m.to} : subs'[k] = subs[k] /\ k \in DOMAIN subs
  BY DEF Remap
<1>5. TypeOK'
  <2>1. MapTyped'
    BY <1>1, <1>3, <1>4 DEF MapTyped
  <2>2. SocketsTyped' /\ CallsTyped' /\ ServerTyped'
    BY <1>1 DEF SocketsTyped, CallsTyped, ServerTyped
  <2> QED BY <2>1, <2>2, TypeAfter
<1>6. IdInv' /\ ServedInv'
  BY DEF Inv, IdInv, ServedInv
<1>7. \A c \in Calls : (KeptApart(c)' <=> KeptApart(c)) /\ Ids(c)' = Ids(c)
  BY DEF KeptApart, Ids
<1>8. ASSUME NEW c \in Calls, KeptApart(c), m.id \in Ids(c) \/ m.to \in Ids(c)
      PROVE  c = d /\ subs[m.id] = c /\ m.to \in Ids(c)
  <2>1. c = d
    BY <1>2, <1>8, OneOwner DEF Inv
  <2>2. m.id \in Ids(c) /\ m.to \in Ids(c)
    BY <1>2, <1>3, <2>1 DEF Ids
  <2> QED BY <1>8, <2>1, <2>2 DEF Inv, EntryInv
<1>9. EntryInv'
  <2>a. \A id \in DOMAIN subs' : \E c \in Calls : id \in Ids(c)
    <3>1. m.to \in Ids(d)
      BY <1>2 DEF Ids
    <3> QED BY <1>4, <3>1 DEF Inv, EntryInv
  <2> SUFFICES ASSUME NEW id \in DOMAIN subs', NEW c \in Calls, KeptApart(c)
               PROVE  subs'[id] = c <=> id \in Ids(c)
    BY <1>7, <2>a DEF EntryInv
  <2>1. CASE id = m.to
    <3>1. subs[m.id] = c <=> m.id \in Ids(c)
      BY DEF Inv, EntryInv
    <3> QED BY <1>4, <1>8, <2>1, <3>1
  <2>2. CASE id # m.to
    BY <1>4, <2>2 DEF Inv, EntryInv
  <2> QED BY <2>1, <2>2
<1>10. MessageInv'
  <2> SUFFICES ASSUME NEW t \in Sockets, NEW n \in Coming(t)'
               PROVE  (ReplyIsTrue(n) /\ NotifyIsTrue(n))'
    BY DEF MessageInv
  <2>1. ReplyIsTrue(n) /\ NotifyIsTrue(n)
    BY DEF Inv, MessageInv
  <2> QED BY <2>1 DEF ReplyIsTrue, NotifyIsTrue
<1>11. ASSUME NEW c \in Calls, KeptApart(c), pc'[c] = "monitoring" PROVE c \in Range(subs')
  <2>1. PICK k \in DOMAIN subs : subs[k] = c
    BY <1>11, InMap DEF Inv, WaitingIsRegistered
  <2>2. k \in Ids(c)
    BY <1>11, <2>1 DEF Inv, EntryInv
  <2>3. \E l \in DOMAIN subs' : subs'[l] = c
    <3>1. CASE k \in {m.id, m.to}
      BY <1>4, <1>8, <1>11, <2>2, <3>1
    <3>2. CASE k \notin {m.id, m.to}
      BY <1>4, <2>1, <3>2
    <3> QED BY <3>1, <3>2
  <2> QED BY <2>3 DEF Range
<1>12. AnswerIsOwn' /\ WaitingIsRegistered'
  BY <1>7, <1>11 DEF Inv, AnswerIsOwn, WaitingIsRegistered
<1> QED BY <1>5, <1>6, <1>9, <1>10, <1>12 DEF Inv

LEMMA MessageStep ==
  ASSUME Inv, NEW s \in Sockets, Message(s)
  PROVE  Inv'
<1> DEFINE m == Head(outbox[s])
<1>1. MapTyped /\ SocketsTyped /\ CallsTyped /\ ServerTyped
  BY TypeParts DEF Inv
<1>2. /\ Typed(outbox') /\ \A t \in Sockets : Coming(t)' \subseteq Coming(t)
      /\ m \in Coming(s)
  BY <1>1, OneReceived DEF ServerTyped, Message
<1>3. m \in Messages /\ NotifyIsTrue(m)
  BY <1>1, <1>2, ComingTyped DEF ServerTyped, Inv, MessageInv
<1>4. UNCHANGED <<ws, sock, connecting, nextId, localId, inbox, served, assigned, tx>>
  BY DEF Message
<1>5. \/ m.id \notin DOMAIN subs /\ UNCHANGED <<subs, idle, timer, answer, pc>>
      \/ /\ m.id \in DOMAIN subs /\ m.kind = "reply"
         /\ subs' = Remap(m.id, m.to) /\ UNCHANGED <<idle, timer, answer, pc>>
      \/ m.id \in DOMAIN subs /\ m.kind = "notify" /\ SettleEntry(m.id, m.result)
      \/ m.id \in DOMAIN subs /\ m.kind = "error" /\ SettleEntry(m.id, "error")
  BY <1>3 DEF Message, Messages
<1> HIDE DEF m
<1>6. CASE m.id \notin DOMAIN subs /\ UNCHANGED <<subs, idle, timer, answer, pc>>
  <2>1. TypeOK'
    BY <1>1, <1>2, <1>4, <1>6, TypeAfter DEF MapTyped, SocketsTyped, CallsTyped, ServerTyped
  <2>2. Shrinks
    BY <1>2, <1>4, <1>6 DEF Shrinks, Less
  <2>3. \A d \in Calls : KeptApart(d) /\ answer'[d] \in {"landed", "failed"} => answer'[d] = tx[d]
    BY <1>6 DEF Inv, AnswerIsOwn
  <2> QED BY <1>6, <2>1, <2>2, <2>3, Forgets
<1>7. CASE m.id \in DOMAIN subs /\ m.kind = "reply"
           /\ subs' = Remap(m.id, m.to) /\ UNCHANGED <<idle, timer, answer, pc>>
  BY <1>2, <1>3, <1>4, <1>7, RemapStep
<1>8. CASE m.id \in DOMAIN subs /\ m.kind = "notify" /\ SettleEntry(m.id, m.result)
  <2>a. PICK d \in Calls : assigned[d] = m.id /\ tx[d] = m.result
    BY <1>3, <1>8 DEF NotifyIsTrue
  <2>b. subs[m.id] \in Calls
    BY <1>1, <1>8 DEF MapTyped
  <2>c. KeptApart(subs[m.id]) => subs[m.id] = d
    BY <1>8, <2>a, <2>b, OneOwner DEF Inv, EntryInv
  <2>1. m.result \in GivenAnswers /\ (KeptApart(subs[m.id]) => tx[subs[m.id]] = m.result)
    BY <1>3, <1>8, <2>a, <2>c DEF NotifyIsTrue, GivenAnswers
  <2> QED BY <1>2, <1>4, <1>8, <2>1, SettleEntryStep
<1>9. CASE m.id \in DOMAIN subs /\ m.kind = "error" /\ SettleEntry(m.id, "error")
  <2>1. "error" \in GivenAnswers /\ "error" \notin {"landed", "failed"}
    BY DEF GivenAnswers
  <2> QED BY <1>2, <1>4, <1>9, <2>1, SettleEntryStep
<1> QED BY <1>5, <1>6, <1>7, <1>8, <1>9

-----------------------------------------------------------------------------
(***************************************************************************)
(* The steps of the server.                                                *)
(***************************************************************************)
\* One message more, and it is true.
LEMMA OneMoreMessage ==
  ASSUME NEW m,
         \A s \in Sockets : Coming(s)' \subseteq Coming(s) \cup {m},
         \A s \in Sockets : \A n \in Coming(s) : ReplyIsTrue(n)' /\ NotifyIsTrue(n)',
         ReplyIsTrue(m)', NotifyIsTrue(m)'
  PROVE  MessageInv'
<1>1. ASSUME NEW s \in Sockets, NEW n \in Coming(s)' PROVE (ReplyIsTrue(n) /\ NotifyIsTrue(n))'
  <2>1. n \in Coming(s) \/ n = m
    BY <1>1
  <2> QED BY <2>1
<1> QED BY <1>1 DEF MessageInv

LEMMA ServeStep ==
  ASSUME Inv, NEW r \in inbox, Serve(r)
  PROVE  Inv'
<1>1. MapTyped /\ SocketsTyped /\ CallsTyped /\ ServerTyped /\ TypeOK
  BY TypeParts DEF Inv
<1>2. /\ r.sock \in Sockets /\ r.id \in LocalIds /\ r.call \in Calls /\ localId[r.call] = r.id
      /\ assigned[r.call] = None /\ r.id \in Nat
  BY <1>1, Ids0 DEF ServerTyped, Inv, ServedInv
<1>3. inbox' = inbox \ {r} /\ UNCHANGED <<tx, gateVars>>
  BY DEF Serve
<1>4. CASE \E id \in ServerIds :
             /\ Reply(r.sock, ReplyMsg(r.id, id))
             /\ served' = served \cup {[sock |-> r.sock, id |-> id, call |-> r.call]}
             /\ assigned' = [assigned EXCEPT ![r.call] = id]
  <2>0. PICK id \in ServerIds :
             /\ Reply(r.sock, ReplyMsg(r.id, id))
             /\ served' = served \cup {[sock |-> r.sock, id |-> id, call |-> r.call]}
             /\ assigned' = [assigned EXCEPT ![r.call] = id]
    BY <1>4
  <2>a. PICK m : m = ReplyMsg(r.id, id)
    OBVIOUS
  <2>b. id \in Nat /\ id # None
    BY <1>1, Ids0
  <2>1. m \in Messages /\ m.kind = "reply" /\ m.id = r.id /\ m.to = id
    BY <1>2, <2>a, <2>b DEF ReplyMsg, Messages
  <2>2. Typed(outbox') /\ \A t \in Sockets : Coming(t)' \subseteq Coming(t) \cup {m}
    BY <1>1, <1>2, <2>0, <2>a, <2>1, OneComing DEF ServerTyped
  <2>3. /\ assigned' \in [Calls -> ServerIds \cup {None}] /\ assigned'[r.call] = id
        /\ \A c \in Calls \ {r.call} : assigned'[c] = assigned[c]
    BY <1>1, <1>2, <2>0 DEF ServerTyped
  <2>4. TypeOK'
    <3>1. ServerTyped'
      BY <1>1, <1>2, <1>3, <2>0, <2>2, <2>3 DEF ServerTyped
    <3>2. MapTyped' /\ SocketsTyped' /\ CallsTyped'
      BY <1>1, <1>3 DEF MapTyped, SocketsTyped, CallsTyped, gateVars
    <3> QED BY <3>1, <3>2, TypeAfter
  <2>5. IdInv'
    <3>1. r.id # None
      BY <1>1, <1>2, Ids0
    <3> QED BY <1>2, <1>3, <2>3, <3>1 DEF Inv, IdInv, gateVars
  <2>6. \A c \in Calls : KeptApart(c)' => KeptApart(c)
    BY <1>2, <1>3, <2>3, ApartBefore DEF gateVars
  <2>7. EntryInv'
    <3>a. \A d \in Calls : Ids(d) \subseteq Ids(d)'
      BY <1>2, <1>3, <2>3 DEF Ids, gateVars
    <3>b. \A k \in DOMAIN subs : \E d \in Calls : k \in Ids(d)'
      BY <3>a DEF Inv, EntryInv
    <3> SUFFICES ASSUME NEW k \in DOMAIN subs, NEW c \in Calls, KeptApart(c)'
                 PROVE  subs[k] = c <=> k \in Ids(c)'
      BY <1>3, <3>b DEF EntryInv, gateVars
    <3>1. KeptApart(c) /\ (subs[k] = c <=> k \in Ids(c))
      BY <2>6 DEF Inv, EntryInv
    <3>2. CASE c # r.call
      <4>1. Ids(c)' = Ids(c)
        BY <1>3, <2>3, <3>2 DEF Ids, gateVars
      <4> QED BY <3>1, <4>1
    <3>3. CASE c = r.call
      <4>1. Ids(c)' = Ids(c) \cup {id}
        BY <1>2, <1>3, <2>3, <2>b, <3>3 DEF Ids, gateVars
      <4>2. ASSUME k = id PROVE subs[k] = c
        <5>1. PICK d \in Calls : k \in Ids(d)
          BY DEF Inv, EntryInv
        <5>2. d = c
          BY <2>3, <3>a, <3>3, <4>2, <5>1 DEF KeptApart
        <5> QED BY <3>1, <5>1, <5>2
      <4> QED BY <3>1, <4>1, <4>2
    <3> QED BY <3>2, <3>3
  <2>8. ServedInv'
    <3>1. \A q \in inbox' : q.call \in Calls /\ q.call # r.call
      BY <1>1, <1>3 DEF ServerTyped, Inv, ServedInv
    <3>2. \A v \in served : v.call \in Calls /\ assigned[v.call] = v.id /\ v.call # r.call
      BY <1>1, <1>2, Ids0 DEF ServerTyped, Inv, ServedInv
    <3>3. \A v \in served' : assigned'[v.call] = v.id
      BY <2>0, <2>3, <3>2
    <3> QED BY <1>3, <2>3, <3>1, <3>3 DEF Inv, ServedInv, gateVars
  <2>9. ASSUME NEW s \in Sockets, NEW n \in Coming(s) PROVE ReplyIsTrue(n)' /\ NotifyIsTrue(n)'
    <3>1. ReplyIsTrue(n) /\ NotifyIsTrue(n)
      BY DEF Inv, MessageInv
    <3>2. ReplyIsTrue(n)'
      BY <1>2, <1>3, <2>3, <3>1 DEF ReplyIsTrue, gateVars
    <3>3. n.kind = "notify" => n.id # None
      BY <1>1, ComingTyped, Ids0 DEF ServerTyped, Messages
    <3>4. NotifyIsTrue(n)'
      BY <1>2, <1>3, <2>3, <3>1, <3>3 DEF NotifyIsTrue
    <3> QED BY <3>2, <3>4
  <2>10. ReplyIsTrue(m)' /\ NotifyIsTrue(m)'
    BY <1>2, <1>3, <2>1, <2>3, <2>b DEF ReplyIsTrue, NotifyIsTrue, gateVars
  <2>11. MessageInv'
    BY <2>2, <2>9, <2>10, OneMoreMessage
  <2>12. AnswerIsOwn' /\ WaitingIsRegistered'
    BY <1>3, <2>6 DEF Inv, AnswerIsOwn, WaitingIsRegistered, gateVars
  <2> QED BY <2>4, <2>5, <2>7, <2>8, <2>11, <2>12 DEF Inv
<1>5. CASE Reply(r.sock, ErrorMsg(r.id)) /\ UNCHANGED <<served, assigned>>
  <2>a. PICK m : m = ErrorMsg(r.id)
    OBVIOUS
  <2>1. m \in Messages /\ m.kind = "error"
    BY <1>2, <2>a DEF ErrorMsg, Messages
  <2>2. Typed(outbox') /\ \A t \in Sockets : Coming(t)' \subseteq Coming(t) \cup {m}
    BY <1>1, <1>2, <1>5, <2>a, <2>1, OneComing DEF ServerTyped
  <2>3. TypeOK'
    BY <1>1, <1>3, <1>5, <2>2, TypeAfter DEF MapTyped, SocketsTyped, CallsTyped, ServerTyped, gateVars
  <2>4. IdInv' /\ EntryInv' /\ ServedInv'
    BY <1>3, <1>5 DEF Inv, IdInv, EntryInv, KeptApart, Ids, ServedInv, gateVars
  <2>5. ASSUME NEW s \in Sockets, NEW n \in Coming(s) PROVE ReplyIsTrue(n)' /\ NotifyIsTrue(n)'
    <3>1. ReplyIsTrue(n) /\ NotifyIsTrue(n)
      BY DEF Inv, MessageInv
    <3> QED BY <1>3, <1>5, <3>1 DEF ReplyIsTrue, NotifyIsTrue, gateVars
  <2>6. ReplyIsTrue(m)' /\ NotifyIsTrue(m)'
    BY <2>1 DEF ReplyIsTrue, NotifyIsTrue
  <2>7. MessageInv'
    BY <2>2, <2>5, <2>6, OneMoreMessage
  <2>8. AnswerIsOwn' /\ WaitingIsRegistered'
    BY <1>3, <1>5 DEF Inv, AnswerIsOwn, WaitingIsRegistered, KeptApart, Ids, gateVars
  <2> QED BY <2>3, <2>4, <2>7, <2>8 DEF Inv
<1> QED BY <1>4, <1>5 DEF Serve

LEMMA NotifyStep ==
  ASSUME Inv, NEW v \in served, Notify(v)
  PROVE  Inv'
<1>a. PICK m : m = NotifyMsg(v.id, tx[v.call])
  OBVIOUS
<1>1. MapTyped /\ SocketsTyped /\ CallsTyped /\ ServerTyped /\ TypeOK
  BY TypeParts DEF Inv
<1>2. v.sock \in Sockets /\ v.id \in Nat /\ v.call \in Calls /\ assigned[v.call] = v.id
  BY <1>1, Ids0 DEF ServerTyped, Inv, ServedInv
<1>3. tx[v.call] \in {"landed", "failed"}
  BY <1>1, <1>2 DEF Notify, ServerTyped
<1>4. m \in Messages /\ m.kind = "notify" /\ m.id = v.id /\ m.result = tx[v.call]
  BY <1>a, <1>2, <1>3 DEF NotifyMsg, Messages
<1>5. Reply(v.sock, m) /\ served' \subseteq served /\ UNCHANGED <<inbox, assigned, tx, gateVars>>
  BY <1>a DEF Notify
<1>6. Typed(outbox') /\ \A t \in Sockets : Coming(t)' \subseteq Coming(t) \cup {m}
  BY <1>1, <1>2, <1>4, <1>5, OneComing DEF ServerTyped
<1>7. TypeOK'
  BY <1>1, <1>5, <1>6, TypeAfter DEF MapTyped, SocketsTyped, CallsTyped, ServerTyped, gateVars
<1>8. IdInv' /\ EntryInv' /\ ServedInv'
  BY <1>5 DEF Inv, IdInv, EntryInv, KeptApart, Ids, ServedInv, gateVars
<1>9. ASSUME NEW s \in Sockets, NEW n \in Coming(s) PROVE ReplyIsTrue(n)' /\ NotifyIsTrue(n)'
  <2>1. ReplyIsTrue(n) /\ NotifyIsTrue(n)
    BY DEF Inv, MessageInv
  <2> QED BY <1>5, <2>1 DEF ReplyIsTrue, NotifyIsTrue, gateVars
<1>10. ReplyIsTrue(m)' /\ NotifyIsTrue(m)'
  BY <1>2, <1>3, <1>4, <1>5 DEF ReplyIsTrue, NotifyIsTrue, gateVars
<1>11. MessageInv'
  BY <1>6, <1>9, <1>10, OneMoreMessage
<1>12. AnswerIsOwn' /\ WaitingIsRegistered'
  BY <1>5 DEF Inv, AnswerIsOwn, WaitingIsRegistered, KeptApart, Ids, gateVars
<1> QED BY <1>7, <1>8, <1>11, <1>12 DEF Inv

\* Nobody was told of a transaction that is still pending.
LEMMA DecideStep ==
  ASSUME Inv, NEW c \in Calls, Decide(c)
  PROVE  Inv'
<1>1. MapTyped /\ SocketsTyped /\ CallsTyped /\ ServerTyped
  BY TypeParts DEF Inv
<1>2. /\ tx' \in [Calls -> {"pending", "landed", "failed"}]
      /\ \A d \in Calls : tx[d] # "pending" => tx'[d] = tx[d]
  BY <1>1 DEF Decide, ServerTyped
<1>3. UNCHANGED <<inbox, outbox, served, assigned, gateVars>>
  BY DEF Decide
<1>4. TypeOK'
  BY <1>1, <1>2, <1>3, TypeAfter DEF MapTyped, SocketsTyped, CallsTyped, ServerTyped, gateVars
<1>5. IdInv' /\ EntryInv' /\ ServedInv'
  BY <1>3 DEF Inv, IdInv, EntryInv, KeptApart, Ids, ServedInv, gateVars
<1>6. ASSUME NEW s \in Sockets, NEW m \in Coming(s) PROVE ReplyIsTrue(m)' /\ NotifyIsTrue(m)'
  <2>1. ReplyIsTrue(m) /\ NotifyIsTrue(m)
    BY DEF Inv, MessageInv
  <2>2. ReplyIsTrue(m)'
    BY <1>3, <2>1 DEF ReplyIsTrue, gateVars
  <2>3. NotifyIsTrue(m)'
    BY <1>2, <2>1 DEF NotifyIsTrue, Decide
  <2> QED BY <2>2, <2>3
<1>8. MessageInv'
  BY <1>3, <1>6, SameComing DEF MessageInv
<1>9. AnswerIsOwn' /\ WaitingIsRegistered'
  <2>1. \A d \in Calls : KeptApart(d)' => KeptApart(d)
    BY <1>3 DEF KeptApart, Ids, gateVars
  <2> QED BY <1>2, <1>3, <2>1 DEF Inv, AnswerIsOwn, WaitingIsRegistered, gateVars
<1> QED BY <1>4, <1>5, <1>8, <1>9 DEF Inv

-----------------------------------------------------------------------------
(***************************************************************************)
(* The invariant, and what follows from it.                                *)
(***************************************************************************)
LEMMA InitInv ==
  ASSUME Init
  PROVE  Inv
<1>1. TypeOK
  <2>1. MapTyped
    BY NoEntries DEF Init, MapTyped
  <2>2. SocketsTyped
    BY DEF Init, SocketsTyped
  <2>3. CallsTyped
    <3>1. /\ pc \in [Calls -> PcStates] /\ answer \in [Calls -> GivenAnswers]
          /\ timer \in [Calls -> BOOLEAN] /\ localId \in [Calls -> LocalIds \cup {None}]
      BY DEF Init, PcStates, GivenAnswers
    <3>2. nextId = 1 /\ idle \in BOOLEAN
      BY DEF Init
    <3>3. 1 \in 1..(MaxLocalId + 1)
      BY WsAssumption
    <3> QED BY <3>1, <3>2, <3>3 DEF CallsTyped
  <2>4. ServerTyped
    BY WsAssumption DEF Init, ServerTyped, Typed
  <2> QED BY <2>1, <2>2, <2>3, <2>4, TypeParts
<1>2. IdInv /\ EntryInv /\ ServedInv
  BY NoEntries DEF Init, IdInv, EntryInv, ServedInv, None
<1>3. \A s \in Sockets : Coming(s) = {}
  BY DEF Init, Coming
<1>4. MessageInv
  BY <1>3 DEF MessageInv
<1>5. AnswerIsOwn /\ WaitingIsRegistered
  BY DEF Init, AnswerIsOwn, WaitingIsRegistered
<1> QED BY <1>1, <1>2, <1>4, <1>5 DEF Inv

LEMMA StutterInv ==
  ASSUME Inv, UNCHANGED vars
  PROVE  Inv'
<1> USE DEF vars, gateVars, serverVars
<1>1. TypeOK'
  BY DEF Inv, TypeOK
<1>2. Shrinks
  BY SameComing DEF Shrinks, Less
<1>3. \A d \in Calls : KeptApart(d) /\ answer'[d] \in {"landed", "failed"} => answer'[d] = tx[d]
  BY DEF Inv, AnswerIsOwn
<1> QED BY <1>1, <1>2, <1>3, Forgets

LEMMA NextInv ==
  ASSUME Inv, [Next]_vars
  PROVE  Inv'
<1>1. ASSUME NEW c \in Calls, MonitorTransaction(c) \/ Resume(c) \/ Timeout(c) \/ Decide(c)
      PROVE  Inv'
  BY <1>1, MonitorStep, ResumeStep, TimeoutStep, DecideStep
<1>2. ASSUME NEW s \in Sockets, Open(s) \/ ConnectFails(s) \/ ConnectionCloses(s) \/ Message(s)
      PROVE  Inv'
  <2>1. CASE ConnectFails(s)
    BY <2>1, ClosedStep DEF ConnectFails
  <2>2. CASE ConnectionCloses(s)
    BY <2>2, ClosedStep DEF ConnectionCloses
  <2> QED BY <1>2, <2>1, <2>2, OpenStep, MessageStep
<1>3. ASSUME NEW r \in inbox, Serve(r) PROVE Inv'
  BY <1>3, ServeStep
<1>4. ASSUME NEW v \in served, Notify(v) PROVE Inv'
  BY <1>4, NotifyStep
<1> QED BY <1>1, <1>2, <1>3, <1>4, IdleStep, DisconnectStep, StutterInv DEF Next

LEMMA Invariance == Spec => []Inv
<1>1. Init => Inv
  BY InitInv
<1>2. Inv /\ [Next]_vars => Inv'
  BY NextInv
<1> QED BY <1>1, <1>2, PTL DEF Spec

\* Every variable of the monitor and of the server keeps its type.
THEOREM MonitorTyped == Spec => []TypeOK
<1>1. Inv => TypeOK
  BY DEF Inv
<1> QED BY <1>1, Invariance, PTL

\* handleWebSocketMessage never gives a call whose ids are its own the result of
\* another call's transaction: not when entries move from local ids to the server's
\* and over each other, not when messages come late, over an old socket or after a
\* timeout.
THEOREM AnswersAreOwn == Spec => []AnswerIsOwn
<1>1. Inv => AnswerIsOwn
  BY DEF Inv
<1> QED BY <1>1, Invariance, PTL

\* As long as monitorTransaction waits for a call whose ids are its own, the call is
\* in this.subscriptions, where the close handler and the idle timer look for it.
THEOREM WaitersRegistered == Spec => []WaitingIsRegistered
<1>1. Inv => WaitingIsRegistered
  BY DEF Inv
<1> QED BY <1>1, Invariance, PTL

\* The idle timer closes a socket only when no call waits on it whose ids are its own.
THEOREM IdleSpares == Spec => IdleSparesWaiting
<1>1. Inv /\ [Next]_vars =>
        [IdleTimeout => ws' = ws \/ \A c \in Calls : KeptApart(c) => pc[c] # "monitoring"]_vars
  <2> SUFFICES ASSUME Inv, IdleTimeout, ws' # ws, NEW c \in Calls, KeptApart(c)
               PROVE  pc[c] # "monitoring"
    OBVIOUS
  <2>1. subs = NoSubs
    BY DEF IdleTimeout, NothingSubscribed
  <2>2. Range(subs) = {}
    BY <2>1, NoEntries DEF Range
  <2> QED BY <2>2 DEF Inv, WaitingIsRegistered
<1> QED BY <1>1, Invariance, PTL DEF Spec, IdleSparesWaiting
=============================================================================
