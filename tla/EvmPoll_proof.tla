---------------------------- MODULE EvmPoll_proof -----------------------------
(***************************************************************************)
(* Theorems of EvmSend and of EvmPoll: any number of overlapping sends of  *)
(* one account, nodes that lag or fail, any number of polls, and the poll  *)
(* route beside them.                                                      *)
(***************************************************************************)
EXTENDS EvmPoll, TLAPS

BeforeSend == {"nonce", "send"}

\* What a request has done at each await: nothing is out before the broadcast,
\* something is while it waits, and an answer ends it.
StageInv ==
  \A r \in Requests :
    /\ pc[r] = "done" <=> answer[r] # "none"
    /\ pc[r] \in BeforeSend => tx[r] = "unsent"
    /\ pc[r] \in {"wait", "poll"} => tx[r] # "unsent"
    /\ pc[r] \in BeforeSend \cup {"wait"} => polls[r] = 0
    /\ pc[r] = "poll" => polls[r] < MaxPolls

\* All nonces from the account's up to n, n left out, are in the pool.
NoGapBelow(n) == \A m \in mined..(n - 1) : Waiting(m)

\* What NoNonceGap needs of a request that has its nonce and has not sent yet.
SignedInv == \A r \in Requests : pc[r] = "send" => NoGapBelow(nonce[r])

Inv == TypeOK /\ StageInv /\ NoNonceGap /\ SignedInv

-----------------------------------------------------------------------------
(***************************************************************************)
(* The chain of EvmChain.                                                  *)
(***************************************************************************)

\* A nonce that is read is a number, and leaves no gap to what is in the pool.
LEMMA NoncesFollow ==
  ASSUME TypeOK, NEW r \in Requests, NEW n \in NonceReads(r)
  PROVE  n \in Nat /\ NoGapBelow(n)
<1>1. mined \in Nat
  BY DEF TypeOK, ChainTypeOK
<1>2. \A k \in LatestReads : k \in Nat /\ k <= mined
  BY <1>1 DEF LatestReads
<1>3. \A k \in LatestReads : NoGapBelow(k)
  BY <1>1, <1>2 DEF NoGapBelow
<1>4. n \in LatestReads \/ (n \in mined..(mined + Cardinality(Requests)) /\ NoGapBelow(n))
  BY DEF NonceReads, PendingReads, NoGapBelow
<1>5. \A k, j : k \in mined..j => k \in Nat
  BY <1>1
<1> QED BY <1>2, <1>3, <1>4, <1>5

\* Mining decides transactions of the pool and no others, and what waits behind the
\* mined one waits still.
LEMMA MineDecides ==
  ASSUME TypeOK, NEW r \in Requests, Mine(r)
  PROVE  /\ mined' = mined + 1 /\ nonce' = nonce /\ mined \in Nat
         /\ \A q \in Requests :
              \/ tx'[q] = tx[q]
              \/ tx[q] = "pool" /\ tx'[q] \in {"success", "reverted", "replaced"}
         /\ tx' \in [Requests -> TxStates]
         /\ \A n \in Nat : n > mined /\ Waiting(n) => Waiting(n)'
<1>1. /\ mined' = mined + 1 /\ nonce' = nonce /\ mined \in Nat
      /\ tx \in [Requests -> TxStates] /\ nonce \in [Requests -> Nat]
      /\ tx[r] = "pool" /\ nonce[r] = mined
  BY DEF Mine, TypeOK, ChainTypeOK
<1>2. PICK result \in Mined :
        tx' = [q \in Requests |-> IF q = r THEN result
                                  ELSE IF q \in Rivals(r) THEN "replaced" ELSE tx[q]]
  BY DEF Mine
<1>3. \A q \in Rivals(r) : q \in Requests /\ tx[q] = "pool" /\ nonce[q] = mined
  BY <1>1 DEF Rivals
<1>4. \A q \in Requests :
        \/ tx'[q] = tx[q]
        \/ tx[q] = "pool" /\ nonce[q] = mined /\ tx'[q] \in {"success", "reverted", "replaced"}
  BY <1>1, <1>2, <1>3 DEF Mined
<1>5. tx' \in [Requests -> TxStates]
  BY <1>1, <1>2 DEF Mined, TxStates
<1>6. ASSUME NEW n \in Nat, n > mined, Waiting(n)
      PROVE  Waiting(n)'
  <2>1. PICK q \in Requests : tx[q] = "pool" /\ nonce[q] = n
    BY <1>6 DEF Waiting
  <2>2. nonce[q] # mined
    BY <1>1, <1>6, <2>1
  <2>3. tx'[q] = "pool" /\ nonce'[q] = n
    BY <1>1, <1>4, <2>1, <2>2
  <2> QED BY <2>3 DEF Waiting
<1> QED BY <1>1, <1>4, <1>5, <1>6

\* A node that takes a transaction changes no other one.
LEMMA AcceptSends ==
  ASSUME TypeOK, NEW r \in Requests, Accept(r), tx[r] = "unsent"
  PROVE  /\ tx' \in [Requests -> TxStates]
         /\ tx'[r] \in {"pool", "replaced"}
         /\ \A q \in Requests \ {r} : tx'[q] = tx[q]
BY DEF TypeOK, ChainTypeOK, TxStates, Accept

-----------------------------------------------------------------------------
(***************************************************************************)
(* Sending: the invariant.                                                 *)
(***************************************************************************)
LEMMA InitInv == Init => Inv
BY EvmSendAssumption
DEF Init, ChainInit, Inv, TypeOK, ChainTypeOK, TxStates, Answers, StageInv, BeforeSend,
    NoNonceGap, SignedInv

LEMMA ReadNonceStep ==
  ASSUME Inv, NEW r \in Requests, ReadNonce(r)
  PROVE  Inv'
<1> USE DEF Inv, TypeOK, ChainTypeOK
<1>1. pc[r] = "nonce" /\ UNCHANGED <<mined, tx, polls>> /\ tx[r] = "unsent"
  BY DEF ReadNonce, StageInv, BeforeSend
<1>2. CASE Return(r, "error") /\ UNCHANGED nonce
  <2>1. TypeOK' /\ StageInv'
    BY <1>1, <1>2 DEF Return, StageInv, BeforeSend, Answers
  <2>2. NoNonceGap' /\ SignedInv'
    BY <1>1, <1>2 DEF Return, NoNonceGap, SignedInv, NoGapBelow, Waiting
  <2> QED BY <2>1, <2>2
<1>3. ASSUME NEW n \in NonceReads(r), nonce' = [nonce EXCEPT ![r] = n], Goto(r, "send")
      PROVE  Inv'
  <2>1. n \in Nat /\ NoGapBelow(n)
    BY NoncesFollow
  <2>2. TypeOK' /\ StageInv'
    BY <1>1, <1>3, <2>1 DEF Goto, StageInv, BeforeSend
  <2>3. \A k : Waiting(k) => Waiting(k)'
    BY <1>1, <1>3 DEF Waiting
  <2>4. \A q \in Requests : tx[q] = "pool" => q # r /\ nonce'[q] = nonce[q]
    BY <1>1, <1>3
  <2>5. NoNonceGap'
    BY <1>1, <2>3, <2>4 DEF NoNonceGap
  <2>6. SignedInv'
    <3> SUFFICES ASSUME NEW q \in Requests, pc'[q] = "send" PROVE NoGapBelow(nonce[q])'
      BY DEF SignedInv
    <3>1. CASE q = r
      BY <1>1, <1>3, <2>1, <2>3, <3>1 DEF NoGapBelow
    <3>2. CASE q # r
      <4>1. nonce'[q] = nonce[q] /\ NoGapBelow(nonce[q])
        BY <1>3, <3>2 DEF Goto, SignedInv
      <4> QED BY <1>1, <2>3, <4>1 DEF NoGapBelow
    <3> QED BY <3>1, <3>2
  <2> QED BY <2>2, <2>5, <2>6
<1> QED BY <1>2, <1>3 DEF ReadNonce

LEMMA SendStep ==
  ASSUME Inv, NEW r \in Requests, Send(r)
  PROVE  Inv'
<1> USE DEF Inv, TypeOK, ChainTypeOK
<1>1. pc[r] = "send" /\ UNCHANGED <<mined, nonce, polls>> /\ tx[r] = "unsent" /\ NoGapBelow(nonce[r])
  BY DEF Send, StageInv, BeforeSend, SignedInv
<1>2. Goto(r, "wait") \/ Return(r, "error")
  BY DEF Send
<1>3. \A q \in Requests : pc'[q] = "send" => q # r /\ pc[q] = "send"
  BY <1>1, <1>2 DEF Goto, Return
<1>4. CASE Accept(r)
  <2>1. /\ tx' \in [Requests -> TxStates] /\ tx'[r] \in {"pool", "replaced"}
        /\ \A q \in Requests \ {r} : tx'[q] = tx[q]
    BY <1>1, <1>4, AcceptSends
  <2>2. TypeOK'
    BY <1>1, <1>2, <2>1 DEF Goto, Return, Answers
  <2>3. StageInv'
    BY <1>1, <1>2, <2>1 DEF Goto, Return, StageInv, BeforeSend
  <2>4. \A k : Waiting(k) => Waiting(k)'
    BY <1>1, <2>1 DEF Waiting
  <2>5. tx'[r] = "pool" => Waiting(nonce[r])'
    BY <1>1 DEF Waiting
  <2>6. NoNonceGap'
    <3> SUFFICES ASSUME NEW q \in Requests, tx'[q] = "pool", NEW n \in mined..nonce[q]
                 PROVE  Waiting(n)'
      BY <1>1 DEF NoNonceGap
    <3>1. CASE q = r /\ n = nonce[r]
      BY <1>1, <2>5, <3>1 DEF Waiting
    <3>2. CASE q = r /\ n # nonce[r]
      BY <1>1, <2>4, <3>2 DEF NoGapBelow
    <3>3. CASE q # r
      BY <2>1, <2>4, <3>3 DEF NoNonceGap
    <3> QED BY <3>1, <3>2, <3>3
  <2>7. SignedInv'
    BY <1>1, <1>3, <2>4 DEF SignedInv, NoGapBelow
  <2> QED BY <2>2, <2>3, <2>6, <2>7
<1>5. CASE UNCHANGED tx /\ Return(r, "error")
  <2>1. TypeOK' /\ StageInv'
    BY <1>1, <1>5 DEF Return, StageInv, BeforeSend, Answers
  <2>2. NoNonceGap' /\ SignedInv'
    BY <1>1, <1>3, <1>5 DEF NoNonceGap, SignedInv, NoGapBelow, Waiting
  <2> QED BY <2>1, <2>2
<1> QED BY <1>4, <1>5 DEF Send

\* The waits leave the chain alone.
LEMMA WaitStep ==
  ASSUME Inv, NEW r \in Requests, Wait(r)
  PROVE  Inv'
<1> USE DEF Inv, TypeOK, ChainTypeOK
<1>1. pc[r] = "wait" /\ UNCHANGED <<mined, tx, nonce, polls>>
  BY DEF Wait, chainVars
<1>2. Goto(r, "poll") \/ \E a \in Answers \ {"none"} : Return(r, a)
  BY DEF Wait, TimeoutFires, Answers
<1>3. TypeOK'
  BY <1>1, <1>2 DEF Goto, Return, Answers
<1>4. StageInv'
  BY <1>1, <1>2, EvmSendAssumption DEF Goto, Return, StageInv, BeforeSend
<1>5. \A q \in Requests : pc'[q] = "send" => pc[q] = "send"
  BY <1>1, <1>2 DEF Goto, Return
<1>6. NoNonceGap' /\ SignedInv'
  BY <1>1, <1>5 DEF NoNonceGap, SignedInv, NoGapBelow, Waiting
<1> QED BY <1>3, <1>4, <1>6

LEMMA PollReceiptStep ==
  ASSUME Inv, NEW r \in Requests, PollReceipt(r)
  PROVE  Inv'
<1> USE DEF Inv, TypeOK, ChainTypeOK
<1>1. pc[r] = "poll" /\ UNCHANGED <<mined, tx, nonce>> /\ polls[r] \in 0..(MaxPolls - 1)
  BY EvmSendAssumption DEF PollReceipt, chainVars, StageInv
<1>2. \/ \E a \in Answers \ {"none"} : Return(r, a) /\ UNCHANGED polls
      \/ Return(r, "null") /\ CountPoll(r)
      \/ Goto(r, "poll") /\ CountPoll(r) /\ polls[r] + 1 < MaxPolls
  BY DEF PollReceipt, Receipt, StillPending, BeforeDeadline, Answers
<1>3. TypeOK'
  BY <1>1, <1>2, EvmSendAssumption DEF Goto, Return, Answers, CountPoll
<1>4. StageInv'
  BY <1>1, <1>2, EvmSendAssumption DEF Goto, Return, StageInv, BeforeSend, CountPoll, Answers
<1>5. \A q \in Requests : pc'[q] = "send" => pc[q] = "send"
  BY <1>1, <1>2 DEF Goto, Return
<1>6. NoNonceGap' /\ SignedInv'
  BY <1>1, <1>5 DEF NoNonceGap, SignedInv, NoGapBelow, Waiting
<1> QED BY <1>3, <1>4, <1>6

LEMMA MineStep ==
  ASSUME Inv, NEW r \in Requests, Mine(r), UNCHANGED sendVars
  PROVE  Inv'
<1> USE DEF Inv, TypeOK, ChainTypeOK, sendVars
<1>1. /\ mined' = mined + 1 /\ nonce' = nonce /\ mined \in Nat
      /\ \A q \in Requests :
           \/ tx'[q] = tx[q]
           \/ tx[q] = "pool" /\ tx'[q] \in {"success", "reverted", "replaced"}
      /\ tx' \in [Requests -> TxStates]
      /\ \A n \in Nat : n > mined /\ Waiting(n) => Waiting(n)'
  BY MineDecides
<1>2. TypeOK'
  BY <1>1
<1>3. StageInv'
  BY <1>1 DEF StageInv, BeforeSend
<1>4. \A n \in Int : \A k \in mined'..n : k \in mined..n /\ k \in Nat /\ k > mined
  BY <1>1
<1>5. NoNonceGap'
  <2> SUFFICES ASSUME NEW q \in Requests, tx'[q] = "pool", NEW k \in mined'..nonce[q]
               PROVE  Waiting(k)'
    BY <1>1 DEF NoNonceGap
  <2>1. tx[q] = "pool" /\ nonce[q] \in Int
    BY <1>1
  <2> QED BY <1>1, <1>4, <2>1 DEF NoNonceGap
<1>6. SignedInv'
  <2> SUFFICES ASSUME NEW q \in Requests, pc[q] = "send", NEW k \in mined'..(nonce[q] - 1)
               PROVE  Waiting(k)'
    BY <1>1 DEF SignedInv, NoGapBelow
  <2>1. nonce[q] - 1 \in Int
    OBVIOUS
  <2> QED BY <1>1, <1>4, <2>1 DEF SignedInv, NoGapBelow
<1> QED BY <1>2, <1>3, <1>5, <1>6

LEMMA StepInv == Inv /\ [Next]_vars => Inv'
<1>1. Inv /\ UNCHANGED vars => Inv'
  BY DEF Inv, TypeOK, ChainTypeOK, StageInv, NoNonceGap, SignedInv, NoGapBelow, Waiting, vars,
         chainVars, sendVars
<1> QED
  BY <1>1, ReadNonceStep, SendStep, WaitStep, PollReceiptStep, MineStep DEF Next, Step

LEMMA InvAlways == Init /\ [][Next]_vars => []Inv
BY InitInv, StepInv, PTL

\* No send is stranded behind a nonce that nobody uses, although each request takes its
\* nonce from a read of its own, which may lag and overlaps with the sends of others.
THEOREM NonceGaps == Spec => []NoNonceGap
<1>1. Inv => NoNonceGap
  BY DEF Inv
<1> QED BY <1>1, InvAlways, PTL DEF Spec

-----------------------------------------------------------------------------
(***************************************************************************)
(* Sending: the contract.                                                  *)
(***************************************************************************)

\* The contract, one step of it, for one request.
Kept(r) == [Contract(r)!Next]_<<LedgerView(r), AnswerView(r)>>

\* What the views show, before a step and after it.
LEMMA LedgerViews ==
  ASSUME NEW r \in Requests
  PROVE  /\ /\ tx[r] = "unsent" => LedgerView(r) = "absent"
            /\ tx[r] = "pool" => LedgerView(r) = "possible"
            /\ tx[r] = "success" => LedgerView(r) = "success"
            /\ tx[r] = "reverted" => LedgerView(r) = "failure"
            /\ tx[r] = "replaced" => LedgerView(r) = "impossible"
         /\ /\ tx'[r] = "unsent" => LedgerView(r)' = "absent"
            /\ tx'[r] = "pool" => LedgerView(r)' = "possible"
            /\ tx'[r] = "success" => LedgerView(r)' = "success"
            /\ tx'[r] = "reverted" => LedgerView(r)' = "failure"
            /\ tx'[r] = "replaced" => LedgerView(r)' = "impossible"
         /\ tx'[r] = tx[r] => LedgerView(r)' = LedgerView(r)
BY DEF LedgerView

LEMMA AnswerViews ==
  ASSUME NEW r \in Requests
  PROVE  /\ answer[r] = "none" => AnswerView(r) = "none"
         /\ /\ answer'[r] = "none" => AnswerView(r)' = "none"
            /\ answer'[r] = "receipt_success" => AnswerView(r)' = "success"
            /\ answer'[r] = "receipt_reverted" => AnswerView(r)' = "failure"
            /\ answer'[r] \in {"null", "error"} => AnswerView(r)' = "unknown"
         /\ answer'[r] = answer[r] => AnswerView(r)' = AnswerView(r)
BY DEF AnswerView

LEMMA InitKeeps == Init => \A r \in Requests : Contract(r)!Init
BY DEF Init, ChainInit, Contract!Init, LedgerView, AnswerView

\* The three steps of the contract, and none.
LEMMA ContractSteps ==
  ASSUME NEW r \in Requests
  PROVE  /\ tx'[r] = tx[r] /\ answer'[r] = answer[r] => Kept(r)
         /\ /\ tx[r] = "unsent" /\ tx'[r] \in {"pool", "replaced"}
            /\ answer[r] = "none" /\ answer'[r] \in {"none", "error"}
            => Kept(r)
         /\ /\ tx[r] = "pool" /\ tx'[r] \in {"success", "reverted", "replaced"}
            /\ answer'[r] = answer[r]
            => Kept(r)
         /\ /\ tx'[r] = tx[r] /\ answer[r] = "none"
            /\ \/ answer'[r] \in {"null", "error"}
               \/ tx[r] = "success" /\ answer'[r] = "receipt_success"
               \/ tx[r] = "reverted" /\ answer'[r] = "receipt_reverted"
            => Kept(r)
<1>1. tx'[r] = tx[r] /\ answer'[r] = answer[r] => Kept(r)
  BY LedgerViews, AnswerViews DEF Kept
<1>2. /\ tx[r] = "unsent" /\ tx'[r] \in {"pool", "replaced"}
      /\ answer[r] = "none" /\ answer'[r] \in {"none", "error"}
      => Kept(r)
  BY LedgerViews, AnswerViews DEF Kept, Contract!Next, Contract!Broadcast
<1>3. /\ tx[r] = "pool" /\ tx'[r] \in {"success", "reverted", "replaced"}
      /\ answer'[r] = answer[r]
      => Kept(r)
  BY LedgerViews, AnswerViews DEF Kept, Contract!Next, Contract!Decide
<1>4. /\ tx'[r] = tx[r] /\ answer[r] = "none"
      /\ \/ answer'[r] \in {"null", "error"}
         \/ tx[r] = "success" /\ answer'[r] = "receipt_success"
         \/ tx[r] = "reverted" /\ answer'[r] = "receipt_reverted"
      => Kept(r)
  BY LedgerViews, AnswerViews DEF Kept, Contract!Next, Contract!Answer
<1> QED BY <1>1, <1>2, <1>3, <1>4

LEMMA StepKeeps ==
  ASSUME Inv, [Next]_vars
  PROVE  \A q \in Requests : Kept(q)
<1> SUFFICES ASSUME NEW q \in Requests PROVE Kept(q)
  OBVIOUS
<1> USE DEF Inv, TypeOK, ChainTypeOK
<1>1. CASE UNCHANGED vars
  BY <1>1, ContractSteps DEF vars, chainVars, sendVars
<1>2. ASSUME NEW r \in Requests, ReadNonce(r)
      PROVE  Kept(q)
  <2>1. UNCHANGED tx /\ tx[r] = "unsent" /\ answer[r] = "none"
    BY <1>2 DEF ReadNonce, StageInv, BeforeSend
  <2>2. UNCHANGED answer \/ answer' = [answer EXCEPT ![r] = "error"]
    BY <1>2 DEF ReadNonce, Goto, Return
  <2> QED BY <2>1, <2>2, ContractSteps
<1>3. ASSUME NEW r \in Requests, Send(r)
      PROVE  Kept(q)
  <2>1. tx[r] = "unsent" /\ answer[r] = "none"
    BY <1>3 DEF Send, StageInv, BeforeSend
  <2>2. UNCHANGED answer \/ answer' = [answer EXCEPT ![r] = "error"]
    BY <1>3 DEF Send, Goto, Return
  <2>3. CASE Accept(r)
    BY <2>1, <2>2, <2>3, AcceptSends, ContractSteps
  <2>4. CASE UNCHANGED tx
    BY <2>1, <2>2, <2>4, ContractSteps
  <2> QED BY <1>3, <2>3, <2>4 DEF Send
<1>4. ASSUME NEW r \in Requests, Wait(r)
      PROVE  Kept(q)
  <2>1. UNCHANGED tx /\ answer[r] = "none"
    BY <1>4 DEF Wait, StageInv, chainVars
  <2>2. \/ UNCHANGED answer
        \/ answer' = [answer EXCEPT ![r] = "error"]
        \/ tx[r] = "success" /\ answer' = [answer EXCEPT ![r] = "receipt_success"]
    BY <1>4 DEF Wait, TimeoutFires, Goto, Return
  <2> QED BY <2>1, <2>2, ContractSteps
<1>5. ASSUME NEW r \in Requests, PollReceipt(r)
      PROVE  Kept(q)
  <2>1. UNCHANGED tx /\ answer[r] = "none"
    BY <1>5 DEF PollReceipt, StageInv, chainVars
  <2>2. \A found \in ReceiptReads(r) : found # "null" => found = tx[r] /\ found \in Mined
    BY DEF ReceiptReads
  <2>3. \/ UNCHANGED answer
        \/ \E a \in {"null", "error"} : answer' = [answer EXCEPT ![r] = a]
        \/ tx[r] \in Mined /\ answer' = [answer EXCEPT ![r] = Receipt(tx[r])]
    BY <1>5, <2>2 DEF PollReceipt, Goto, Return, StillPending
  <2> QED BY <2>1, <2>3, ContractSteps DEF Receipt, Mined
<1>6. ASSUME NEW r \in Requests, Mine(r), UNCHANGED sendVars
      PROVE  Kept(q)
  BY <1>6, MineDecides, ContractSteps DEF sendVars
<1> QED BY <1>1, <1>2, <1>3, <1>4, <1>5, <1>6 DEF Next, Step

\* Each of the overlapping sends keeps the contract SendOutcome: one broadcast, one answer,
\* and a receipt that stays true of the chain, although rivals replace each other.
THEOREM EachSendKeepsItsContract == Spec => KeepsContract
<1>1. Inv /\ [Next]_vars => [\A r \in Requests : Kept(r)]_vars
  BY StepKeeps
<1> QED BY <1>1, InitKeeps, InvAlways, PTL DEF Spec, KeepsContract, Kept

-----------------------------------------------------------------------------
(***************************************************************************)
(* The poll route.                                                         *)
(***************************************************************************)

\* Only what was broadcast is polled.
PolledInv == \A r \in Requests : route[r] # "idle" => tx[r] # "unsent"

PollInv == Inv /\ PollTypeOK /\ PolledInv /\ PolledIsTrue

\* What is mined or replaced stays so, and what was sent stays sent.
Lasting ==
  \A r \in Requests :
    /\ tx[r] \in Mined \cup {"replaced"} => tx'[r] = tx[r]
    /\ tx[r] # "unsent" => tx'[r] # "unsent"

LEMMA InitPolls == PollInit => PollInv
BY InitInv, EvmPollAssumption
DEF PollInit, PollInv, PollTypeOK, Statuses, PolledInv, PolledIsTrue, FailedIsFinal, ConfirmedIsMined, Inv

LEMMA SendsLast ==
  ASSUME Inv, [Next]_vars
  PROVE  Lasting
<1> USE DEF Inv, TypeOK, ChainTypeOK, Lasting
<1>1. CASE UNCHANGED tx
  BY <1>1
<1>2. ASSUME NEW r \in Requests, Mine(r)
      PROVE  Lasting
  BY <1>2, MineDecides DEF Mined
<1>3. ASSUME NEW r \in Requests, Send(r)
      PROVE  Lasting
  <2>1. tx[r] = "unsent"
    BY <1>3 DEF Send, StageInv, BeforeSend
  <2>2. Accept(r) \/ UNCHANGED tx
    BY <1>3 DEF Send
  <2> QED BY <1>1, <2>1, <2>2, AcceptSends DEF Mined
<1>4. \A r \in Requests : ReadNonce(r) \/ Wait(r) \/ PollReceipt(r) => UNCHANGED tx
  BY DEF ReadNonce, Wait, PollReceipt, chainVars
<1>5. UNCHANGED vars => UNCHANGED tx
  BY DEF vars, chainVars
<1> QED BY <1>1, <1>2, <1>3, <1>4, <1>5 DEF Next, Step

\* The sends and the chain go on under a poll.
LEMMA SendsStep ==
  ASSUME PollInv, Next, UNCHANGED pollVars
  PROVE  PollInv'
<1>1. Inv' /\ Lasting
  BY StepInv, SendsLast DEF PollInv
<1> QED
  BY <1>1 DEF PollInv, Inv, PollTypeOK, PolledInv, PolledIsTrue, FailedIsFinal, ConfirmedIsMined,
              ReliableReads, Lasting, Mined, pollVars

\* What a step of the route may do to its state, and what of it is true of the chain.
RouteMoves(r) ==
  \/ \E p \in {"find", "receipt", "price"} : Go(r, p)
  \/ \E s \in Statuses \cup {"error"} :
       /\ Answer(r, s)
       /\ s = "failed" /\ ReliableReads => tx[r] = "replaced"
       /\ s = "confirmed" => tx[r] \in Mined

LEMMA RouteStep ==
  ASSUME PollInv, NEW r \in Requests, PollStep(r), UNCHANGED vars
  PROVE  /\ RouteMoves(r)
         /\ tx[r] # "unsent"
         /\ retries' \in [Requests -> 0..MaxRetries]
<1> USE EvmPollAssumption DEF PollInv, PollTypeOK, Inv, TypeOK, ChainTypeOK
<1>1. CASE StartPoll(r)
  BY <1>1 DEF StartPoll, RouteMoves, Statuses
<1>2. CASE FindTransaction(r)
  <2>1. route[r] = "find" /\ tx[r] # "unsent"
    BY <1>2 DEF FindTransaction, PolledInv
  <2>2. ReliableReads /\ FALSE \in KnownReads(r) => tx[r] = "replaced"
    BY <2>1, EvmChainAssumption DEF ReliableReads, KnownReads, Mined, TxStates
  <2>3. \/ Go(r, "receipt") /\ UNCHANGED retries
        \/ Go(r, "find") /\ retries[r] < MaxRetries /\ retries' = [retries EXCEPT ![r] = @ + 1]
        \/ FALSE \in KnownReads(r) /\ Answer(r, "failed") /\ UNCHANGED retries
        \/ Answer(r, "error") /\ UNCHANGED retries
    <3>1. \A known \in KnownReads(r) : known = TRUE \/ known = FALSE
      BY EvmChainAssumption DEF KnownReads
    <3> QED BY <1>2, <3>1 DEF FindTransaction, RetryAgain, NotFound
  <2>4. retries' \in [Requests -> 0..MaxRetries]
    <3>1. \/ retries' = retries
          \/ retries[r] < MaxRetries /\ retries' = [retries EXCEPT ![r] = @ + 1]
      BY <2>3 DEF Go, Answer
    <3>2. retries \in [Requests -> 0..MaxRetries] /\ MaxRetries \in Nat
      OBVIOUS
    <3> QED BY ONLY <3>1, <3>2
  <2>5. RouteMoves(r)
    <3>1. Go(r, "receipt") \/ Go(r, "find") => RouteMoves(r)
      BY DEF RouteMoves
    <3>2. ASSUME FALSE \in KnownReads(r), Answer(r, "failed")
          PROVE  RouteMoves(r)
      <4>1. ReliableReads => tx[r] = "replaced"
        BY <2>2, <3>2
      <4> QED BY <3>2, <4>1 DEF RouteMoves, Statuses
    <3>3. Answer(r, "error") => RouteMoves(r)
      BY DEF RouteMoves, Statuses
    <3> QED BY <2>3, <3>1, <3>2, <3>3
  <2> QED BY <2>1, <2>4, <2>5
<1>3. CASE ReadReceipt(r)
  <2>1. tx[r] # "unsent" /\ UNCHANGED retries
    BY <1>3 DEF ReadReceipt, PolledInv
  <2>2. \A found \in ReceiptReads(r) : found # "null" => tx[r] \in Mined
    BY DEF ReceiptReads
  <2> QED
    BY <1>3, <2>1, <2>2 DEF ReadReceipt, InMempool, ReceiptStatus, RouteMoves, Statuses
<1>4. CASE ComparePrice(r)
  BY <1>4 DEF ComparePrice, PolledInv, RouteMoves, Statuses
<1> QED BY <1>1, <1>2, <1>3, <1>4 DEF PollStep

LEMMA PollStepInv == PollInv /\ [PollNext]_allVars => PollInv'
<1> SUFFICES ASSUME PollInv, [PollNext]_allVars PROVE PollInv'
  OBVIOUS
<1>1. CASE UNCHANGED allVars
  BY <1>1 DEF allVars, vars, chainVars, sendVars, pollVars, PollInv, Inv, TypeOK, ChainTypeOK,
              StageInv, NoNonceGap, SignedInv, NoGapBelow, Waiting, PollTypeOK, PolledInv,
              PolledIsTrue, FailedIsFinal, ConfirmedIsMined, ReliableReads
<1>2. CASE Next /\ UNCHANGED pollVars
  BY <1>2, SendsStep
<1>3. ASSUME NEW r \in Requests, PollStep(r), UNCHANGED vars
      PROVE  PollInv'
  <2>1. RouteMoves(r) /\ tx[r] # "unsent" /\ retries' \in [Requests -> 0..MaxRetries]
    BY <1>3, RouteStep
  <2>2. Inv' /\ UNCHANGED tx
    BY <1>3, StepInv DEF PollInv, vars, chainVars
  <2>3. PollTypeOK'
    BY <2>1, <2>2 DEF RouteMoves, Go, Answer, PollInv, PollTypeOK, Inv, Statuses
  <2>4. PolledInv'
    BY <2>1, <2>2 DEF RouteMoves, Go, Answer, PollInv, PollTypeOK, PolledInv
  <2>5. PolledIsTrue'
    BY <2>1, <2>2 DEF RouteMoves, Go, Answer, PollInv, PollTypeOK, PolledIsTrue, FailedIsFinal,
                      ConfirmedIsMined, ReliableReads
  <2> QED BY <2>2, <2>3, <2>4, <2>5 DEF PollInv
<1> QED BY <1>1, <1>2, <1>3 DEF PollNext

LEMMA PollInvAlways == PollSpec => []PollInv
BY InitPolls, PollStepInv, PTL DEF PollSpec

\* The states of a send, of the chain and of a poll stay within their types, with no more
\* look-ups and receipt polls than there may be.
THEOREM PollsTyped == PollSpec => []PollTypeOK
<1>1. PollInv => PollTypeOK
  BY DEF PollInv
<1> QED BY <1>1, PollInvAlways, PTL

\* The statuses at which a client stops polling are true of its transaction: what is
\* confirmed was mined and, with reads that do not lag, what failed was reverted or can
\* never be mined.
THEOREM PolledStatuses == PollSpec => []PolledIsTrue
<1>1. PollInv => PolledIsTrue
  BY DEF PollInv
<1> QED BY <1>1, PollInvAlways, PTL
=============================================================================
