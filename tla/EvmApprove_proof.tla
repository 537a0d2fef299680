--------------------------- MODULE EvmApprove_proof ---------------------------
(***************************************************************************)
(* Theorems of EvmApprove, for any number of overlapping requests of a     *)
(* wallet, any amounts and any allowances left from before.                *)
(***************************************************************************)
EXTENDS EvmApprove, TLAPS

\* The token step is done, by a mined transaction, or was left out.
TokenStepOver(r) ==
  \/ skipToken[r] /\ tokenTx[r] = "absent"
  \/ ~skipToken[r] /\ tokenTx[r] \in {"success", "failure"}

\* What the await that a request is suspended at says of its transactions.
StageInv ==
  \A r \in Requests :
    /\ pc[r] = "done" <=> answer[r] # "none"
    /\ pc[r] \in {"new", "permit", "approve"} => tokenTx[r] = "absent"
    /\ pc[r] \in {"new", "approve"} => ~skipToken[r]
    /\ pc[r] = "permit" => skipToken[r]
    /\ pc[r] = "wait" => ~skipToken[r]
    /\ pc[r] \in {"new", "permit", "approve", "wait", "router"} => routerTx[r] = "absent"
    /\ pc[r] \in {"router", "wait2"} => TokenStepOver(r)
    /\ routerTx[r] # "absent" => TokenStepOver(r)

\* The allowance that a mined approval gave is what the last one mined since then
\* approved, so at least the lowest of them.
AllowanceInv ==
  \A s \in Requests :
    /\ kind[s] = "universal" /\ tokenTx[s] = "success" => token >= lowToken[s]
    /\ routerTx[s] = "success" => permit >= lowPermit[s] /\ live

Inv == TypeOK /\ StageInv /\ ConfirmedIsDecided /\ AllowanceInv

-----------------------------------------------------------------------------
LEMMA InitInv == Init => Inv
BY ApproveAssumption
DEF Init, Inv, TypeOK, Ledgers, StageInv, ConfirmedIsDecided, AllowanceInv

\* What an approval leaves is an allowance of its range.
LEMMA AmountsFit ==
  ASSUME NEW a \in Amounts
  PROVE  a \in 0..MaxUint256 /\ PermitAmount(a) \in 0..MaxUint160
BY ApproveAssumption DEF PermitAmount

\* A history stays within its type when an approval is mined, and of the requests
\* whose approval is mined it says no more than the allowance that is left.
LEMMA LoweredBounds ==
  ASSUME NEW n \in Nat, NEW low \in [Requests -> 0..n], NEW mined, NEW r \in Requests, NEW a \in 0..n
  PROVE  /\ Lowered(low, mined, r, a) \in [Requests -> 0..n]
         /\ \A s \in mined \cup {r} : s \in Requests => a >= Lowered(low, mined, r, a)[s]
BY DEF Lowered

\* The answer of a handler that got this far.
LEMMA StatusIsDecided ==
  ASSUME TypeOK, NEW r \in Requests
  PROVE  /\ Status(r) \in {"confirmed", "pending", "failed"}
         /\ TokenStepOver(r) /\ Status(r) = "confirmed" => skipToken[r] \/ tokenTx[r] = "success"
BY DEF TypeOK, Status, ReceiptStatus, TokenStepOver

LEMMA EndsAreDecided ==
  ASSUME NEW l \in Ledgers, NEW s \in Ends(l), HasReceipt(s)
  PROVE  l \in {"success", "failure"}
BY DEF Ends, HasReceipt, Ledgers

-----------------------------------------------------------------------------
\* One step of the handler, or of the chain, per lemma.
LEMMA StartStep ==
  ASSUME Inv, NEW r \in Requests, Start(r)
  PROVE  Inv'
<1> USE DEF Inv, TypeOK, Ledgers, StageInv, TokenStepOver, ConfirmedIsDecided, AllowanceInv,
            Start, chain, inputs, lows
<1>1. CASE Throw(r) /\ UNCHANGED skipToken
  BY <1>1 DEF Throw, Return
<1>2. CASE Goto(r, "permit") /\ skipToken' = [skipToken EXCEPT ![r] = TRUE]
  BY <1>2 DEF Goto
<1>3. CASE Goto(r, "approve") /\ UNCHANGED skipToken
  BY <1>3 DEF Goto
<1> QED BY <1>1, <1>2, <1>3

LEMMA ReadPermitStep ==
  ASSUME Inv, NEW r \in Requests, ReadPermit(r)
  PROVE  Inv'
BY DEF Inv, TypeOK, Ledgers, StageInv, TokenStepOver, ConfirmedIsDecided, AllowanceInv,
       ReadPermit, Goto, Throw, Return, chain, inputs, lows

LEMMA SendTokenStep ==
  ASSUME Inv, NEW r \in Requests, SendToken(r)
  PROVE  Inv'
BY DEF Inv, TypeOK, Ledgers, StageInv, TokenStepOver, ConfirmedIsDecided, AllowanceInv,
       SendToken, Goto, Throw, Return, chain, inputs, lows

LEMMA SendRouterStep ==
  ASSUME Inv, NEW r \in Requests, SendRouter(r)
  PROVE  Inv'
BY DEF Inv, TypeOK, Ledgers, StageInv, TokenStepOver, ConfirmedIsDecided, AllowanceInv,
       SendRouter, Goto, Throw, Return, chain, inputs, lows

LEMMA TokenWaitStep ==
  ASSUME Inv, NEW r \in Requests, TokenWaitEnds(r)
  PROVE  Inv'
<1>1. PICK s \in Ends(tokenTx[r]) :
        CASE ~HasReceipt(s) -> Throw(r)
          [] HasReceipt(s) /\ kind[r] = "universal" -> Goto(r, "router")
          [] HasReceipt(s) /\ kind[r] = "plain" -> Return(r, Status(r))
  BY DEF TokenWaitEnds
<1>2. kind[r] \in {"plain", "universal"} /\ tokenTx[r] \in Ledgers
  BY ApproveAssumption DEF Inv, TypeOK
<1>3. CASE Throw(r)
  BY <1>3 DEF Inv, TypeOK, Ledgers, StageInv, TokenStepOver, ConfirmedIsDecided, AllowanceInv,
              TokenWaitEnds, Throw, Return, chain, inputs, lows
<1>4. CASE HasReceipt(s) /\ Goto(r, "router")
  <2>1. tokenTx[r] \in {"success", "failure"}
    BY <1>2, <1>4, EndsAreDecided
  <2> QED
    BY <1>4, <2>1 DEF Inv, TypeOK, Ledgers, StageInv, TokenStepOver, ConfirmedIsDecided,
                      AllowanceInv, TokenWaitEnds, Goto, chain, inputs, lows
<1>5. CASE HasReceipt(s) /\ Return(r, Status(r))
  <2>1. tokenTx[r] \in {"success", "failure"}
    BY <1>2, <1>5, EndsAreDecided
  <2>2. TokenStepOver(r) /\ routerTx[r] = "absent"
    BY <2>1 DEF Inv, StageInv, TokenStepOver, TokenWaitEnds
  <2>3. /\ Status(r) \in {"confirmed", "pending", "failed"}
        /\ Status(r) = "confirmed" => skipToken[r] \/ tokenTx[r] = "success"
    BY <2>2, StatusIsDecided DEF Inv
  <2> QED
    BY <1>5, <2>2, <2>3 DEF Inv, TypeOK, Ledgers, StageInv, TokenStepOver, ConfirmedIsDecided,
                            AllowanceInv, TokenWaitEnds, Return, chain, inputs, lows
<1> QED BY <1>1, <1>2, <1>3, <1>4, <1>5

LEMMA RouterWaitStep ==
  ASSUME Inv, NEW r \in Requests, RouterWaitEnds(r)
  PROVE  Inv'
<1>1. PICK s \in Ends(routerTx[r]) : IF HasReceipt(s) THEN Return(r, Status(r)) ELSE Throw(r)
  BY DEF RouterWaitEnds
<1>2. CASE Throw(r)
  BY <1>2 DEF Inv, TypeOK, Ledgers, StageInv, TokenStepOver, ConfirmedIsDecided, AllowanceInv,
              RouterWaitEnds, Throw, Return, chain, inputs, lows
<1>3. CASE HasReceipt(s) /\ Return(r, Status(r))
  <2>1. routerTx[r] \in {"success", "failure"}
    BY <1>3, EndsAreDecided DEF Inv, TypeOK
  <2>2. TokenStepOver(r)
    BY DEF Inv, StageInv, RouterWaitEnds
  <2>3. /\ Status(r) \in {"confirmed", "pending", "failed"}
        /\ Status(r) = "confirmed" => skipToken[r] \/ tokenTx[r] = "success"
    BY <2>2, StatusIsDecided DEF Inv
  <2> QED
    BY <1>3, <2>1, <2>2, <2>3
    DEF Inv, TypeOK, Ledgers, StageInv, TokenStepOver, ConfirmedIsDecided, AllowanceInv,
        RouterWaitEnds, Return, chain, inputs, lows
<1> QED BY <1>1, <1>2, <1>3

LEMMA DecideTokenStep ==
  ASSUME Inv, NEW r \in Requests, DecideToken(r)
  PROVE  Inv'
<1> DEFINE a == amount[r]
           low == Lowered(lowToken, MinedToken, r, a)
<1>1. /\ a \in 0..MaxUint256 /\ kind[r] \in Kinds
      /\ MaxUint160 \in Nat /\ MaxUint256 \in Nat
  BY AmountsFit, ApproveAssumption DEF Inv, TypeOK
<1>2. /\ low \in [Requests -> 0..MaxUint256]
      /\ \A s \in MinedToken \cup {r} : s \in Requests => a >= low[s]
  <2>1. lowToken \in [Requests -> 0..MaxUint256]
    BY DEF Inv, TypeOK
  <2> HIDE DEF a
  <2> QED BY <1>1, <2>1, LoweredBounds
<1>3. StageInv' /\ ConfirmedIsDecided'
  <2>1. PICK l \in {"success", "failure", "impossible"} : tokenTx' = [tokenTx EXCEPT ![r] = l]
    BY DEF DecideToken
  <2> QED
    BY <2>1 DEF Inv, TypeOK, Ledgers, StageInv, TokenStepOver, ConfirmedIsDecided, DecideToken, inputs
<1>4. CASE /\ tokenTx' = [tokenTx EXCEPT ![r] = "success"]
           /\ token' = IF kind[r] = "universal" THEN amount[r] ELSE token
           /\ lowToken' = IF kind[r] = "universal" THEN low ELSE lowToken
  <2>1. TypeOK'
    BY <1>1, <1>2, <1>4 DEF Inv, TypeOK, Ledgers, DecideToken, inputs
  <2>2. CASE kind[r] = "universal"
    <3>1. /\ token' = amount[r] /\ lowToken' = low
          /\ UNCHANGED <<kind, permit, live, lowPermit, routerTx>>
      BY <1>1, <1>4, <2>2 DEF Inv, TypeOK, DecideToken, inputs
    <3>2. \A s \in Requests : kind[s] = "universal" /\ tokenTx'[s] = "success" => s \in MinedToken \cup {r}
      BY <1>4 DEF Inv, TypeOK, MinedToken
    <3> QED BY <1>2, <2>1, <3>1, <3>2, <1>3 DEF Inv, AllowanceInv
  <2>3. CASE kind[r] # "universal"
    <3>1. /\ token' = token /\ lowToken' = lowToken
          /\ UNCHANGED <<kind, permit, live, lowPermit, routerTx>>
          /\ \A s \in Requests : kind[s] = "universal" => tokenTx'[s] = tokenTx[s]
      BY <1>4, <2>3 DEF Inv, TypeOK, DecideToken, inputs
    <3> QED BY <2>1, <3>1, <1>3 DEF Inv, AllowanceInv
  <2> QED BY <2>2, <2>3
<1>5. CASE /\ \E l \in {"failure", "impossible"} : tokenTx' = [tokenTx EXCEPT ![r] = l]
           /\ UNCHANGED <<token, lowToken>>
  <2>1. TypeOK' /\ AllowanceInv'
    BY <1>5 DEF Inv, TypeOK, Ledgers, AllowanceInv, DecideToken, inputs
  <2> QED BY <1>3, <2>1 DEF Inv
<1> QED BY <1>4, <1>5 DEF DecideToken

LEMMA DecideRouterStep ==
  ASSUME Inv, NEW r \in Requests, DecideRouter(r)
  PROVE  Inv'
<1> DEFINE a == PermitAmount(amount[r])
           low == Lowered(lowPermit, MinedRouter, r, a)
<1>1. a \in 0..MaxUint160 /\ MaxUint160 \in Nat
  BY AmountsFit, ApproveAssumption DEF Inv, TypeOK
<1>2. /\ low \in [Requests -> 0..MaxUint160]
      /\ \A s \in MinedRouter \cup {r} : s \in Requests => a >= low[s]
  <2>1. lowPermit \in [Requests -> 0..MaxUint160]
    BY DEF Inv, TypeOK
  <2> HIDE DEF a
  <2> QED BY <1>1, <2>1, LoweredBounds
<1>3. StageInv' /\ ConfirmedIsDecided'
  <2>1. PICK l \in {"success", "failure", "impossible"} : routerTx' = [routerTx EXCEPT ![r] = l]
    BY DEF DecideRouter
  <2> QED
    BY <2>1 DEF Inv, TypeOK, Ledgers, StageInv, TokenStepOver, ConfirmedIsDecided, DecideRouter, inputs
<1>4. CASE /\ routerTx' = [routerTx EXCEPT ![r] = "success"]
           /\ permit' = a /\ live' = TRUE
           /\ lowPermit' = low
  <2> HIDE DEF a, low
  <2>1. TypeOK'
    BY <1>1, <1>2, <1>4 DEF Inv, TypeOK, Ledgers, DecideRouter, inputs
  <2>2. UNCHANGED <<token, kind, tokenTx, lowToken>>
    BY DEF DecideRouter, inputs
  <2>3. \A s \in Requests : routerTx'[s] = "success" => s \in MinedRouter \cup {r}
    BY <1>4 DEF Inv, TypeOK, MinedRouter
  <2> QED BY <1>2, <1>3, <1>4, <2>1, <2>2, <2>3 DEF Inv, AllowanceInv
<1>5. CASE /\ \E l \in {"failure", "impossible"} : routerTx' = [routerTx EXCEPT ![r] = l]
           /\ UNCHANGED <<permit, live, lowPermit>>
  <2>1. TypeOK' /\ AllowanceInv'
    BY <1>5 DEF Inv, TypeOK, Ledgers, AllowanceInv, DecideRouter, inputs
  <2> QED BY <1>3, <2>1 DEF Inv
<1> QED BY <1>4, <1>5 DEF DecideRouter

LEMMA StepInv == Inv /\ [Next]_vars => Inv'
<1>1. Inv /\ UNCHANGED vars => Inv'
  BY DEF Inv, TypeOK, StageInv, TokenStepOver, ConfirmedIsDecided, AllowanceInv, vars, chain, inputs, lows
<1> QED
  BY <1>1, StartStep, ReadPermitStep, SendTokenStep, TokenWaitStep, SendRouterStep,
     RouterWaitStep, DecideTokenStep, DecideRouterStep DEF Next

-----------------------------------------------------------------------------
LEMMA InvAlways == Spec => []Inv
BY InitInv, StepInv, PTL DEF Spec

\* The state of the requests and of the allowances stays within its type.
THEOREM ApprovalsTyped == Spec => []TypeOK
<1>1. Inv => TypeOK
  BY DEF Inv
<1> QED BY <1>1, InvAlways, PTL

\* A status 1 of approveEthereumToken is told when the token step is through and
\* nothing of the request is undecided, whatever overlaps with it.
THEOREM ConfirmedApprovals == Spec => []ConfirmedIsDecided
<1>1. Inv => ConfirmedIsDecided
  BY DEF Inv
<1> QED BY <1>1, InvAlways, PTL

\* The two transactions of one request are never in flight together.
THEOREM ApprovalsInTurn == Spec => []OneInFlight
<1>1. Inv => OneInFlight
  BY DEF Inv, TypeOK, StageInv, TokenStepOver, OneInFlight
<1> QED BY <1>1, InvAlways, PTL

\* Who asks again for no more than is approved, or less, sends nothing that is
\* mined already, whatever overlaps, as long as no smaller approval took its place.
THEOREM RepeatsResume == Spec => RepeatResumes
<1> DEFINE Resumes(r, s) ==
      kind[r] = "universal" /\ kind[s] = "universal" =>
        /\ pc[r] = "new" /\ pc'[r] = "approve" /\ tokenTx[s] = "success"
             => amount[r] > lowToken[s]
        /\ pc[r] = "permit" /\ pc'[r] = "router" /\ routerTx[s] = "success"
             => amount[r] > lowPermit[s]
<1>0. ASSUME Inv
      PROVE  /\ \A r \in Requests : amount[r] \in Int /\ lowToken[r] \in Int /\ lowPermit[r] \in Int
             /\ permit \in Int /\ token \in Int
  <2>1. /\ 0..MaxUint256 \subseteq Int /\ 0..MaxUint160 \subseteq Int /\ Amounts \subseteq Int
    BY ApproveAssumption
  <2>2. /\ token \in 0..MaxUint256 /\ amount \in [Requests -> Amounts]
        /\ lowToken \in [Requests -> 0..MaxUint256] /\ lowPermit \in [Requests -> 0..MaxUint160]
        /\ permit \in 0..MaxUint160
    BY <1>0 DEF Inv, TypeOK
  <2> QED BY <2>1, <2>2
<1>1. ASSUME Inv, NEW q \in Requests,
             \/ Start(q) \/ ReadPermit(q) \/ SendToken(q) \/ TokenWaitEnds(q)
             \/ SendRouter(q) \/ RouterWaitEnds(q) \/ DecideToken(q) \/ DecideRouter(q),
             NEW r \in Requests, NEW s \in Requests
      PROVE  Resumes(r, s)
  <2>1. CASE Start(q)
    <3>1. ASSUME r = q, pc[r] = "new", pc'[r] = "approve", kind[r] = "universal"
          PROVE  ~Sufficient(token, amount[r])
      BY <1>1, <2>1, <3>1 DEF Inv, TypeOK, Start, Goto, Throw, Return
    <3>2. amount[r] \in Int /\ lowToken[s] \in Int /\ token \in Int
      BY <1>1, <1>0
    <3>3. /\ r # q => pc'[r] = pc[r]
          /\ pc[q] = "new"
      BY <1>1, <2>1 DEF Inv, TypeOK, Start, Goto, Throw, Return
    <3> QED
      BY <1>1, <3>1, <3>2, <3>3 DEF Inv, AllowanceInv, Sufficient
  <2>2. CASE ReadPermit(q)
    <3>1. ASSUME r = q, pc[r] = "permit", pc'[r] = "router"
          PROVE  ~(Sufficient(permit, amount[r]) /\ live)
      BY <1>1, <2>2, <3>1 DEF Inv, TypeOK, ReadPermit, Goto, Throw, Return
    <3>2. amount[r] \in Int /\ lowPermit[s] \in Int /\ permit \in Int
      BY <1>1, <1>0
    <3>3. /\ r # q => pc'[r] = pc[r]
          /\ pc[q] = "permit"
      BY <1>1, <2>2 DEF Inv, TypeOK, ReadPermit, Goto, Throw, Return
    <3> QED
      BY <1>1, <3>1, <3>2, <3>3 DEF Inv, AllowanceInv, Sufficient
  <2>3. CASE SendToken(q) \/ SendRouter(q) \/ DecideToken(q) \/ DecideRouter(q)
    BY <1>1, <2>3 DEF Inv, TypeOK, SendToken, SendRouter, DecideToken, DecideRouter, Goto, Throw, Return
  <2>4. CASE TokenWaitEnds(q) \/ RouterWaitEnds(q)
    <3>1. pc[q] \in {"wait", "wait2"} /\ \A p \in Requests \ {q} : pc'[p] = pc[p]
      <4>1. pc[q] \in {"wait", "wait2"} /\ \E p : pc' = [pc EXCEPT ![q] = p]
        <5>1. CASE TokenWaitEnds(q)
          <6>1. kind[q] \in {"plain", "universal"}
            BY <1>1, ApproveAssumption DEF Inv, TypeOK
          <6> QED BY <5>1, <6>1 DEF TokenWaitEnds, Goto, Throw, Return
        <5>2. CASE RouterWaitEnds(q)
          BY <5>2 DEF RouterWaitEnds, Throw, Return
        <5> QED BY <2>4, <5>1, <5>2
      <4> QED BY <1>1, <4>1 DEF Inv, TypeOK
    <3> QED BY <1>1, <3>1
  <2> QED BY <1>1, <2>1, <2>2, <2>3, <2>4
<1>2. Inv /\ [Next]_vars => [\A r, s \in Requests : Resumes(r, s)]_vars
  BY <1>1 DEF Next
<1> QED BY <1>2, InvAlways, PTL DEF Spec, RepeatResumes
=============================================================================
