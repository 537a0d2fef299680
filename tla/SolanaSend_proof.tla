-------------------------- MODULE SolanaSend_proof ---------------------------
(***************************************************************************)
(* Proofs about SolanaSend, for every number of retries, every length of   *)
(* the chain and every behaviour of the nodes.                             *)
(***************************************************************************)
EXTENDS SolanaSend, TLAPS

BeforeSend == {"simulate", "prepare", "window", "send"}
AfterSend  == {"monitor", "poll", "height", "fetch", "conclude", "check"}

\* The chain: a fork executes only what is in flight, and what is in flight can
\* still enter a block.
ChainInv ==
  /\ fork # "none" => tx = "inflight"
  /\ tx = "inflight" => height < expiry

\* The call: it is answered exactly when it is over, nothing is out before the
\* broadcast, and what it remembers of the chain was final when it was read.
CallInv ==
  /\ pc = "done" <=> outcome # "none"
  /\ pc \in BeforeSend => tx = "unsent"
  /\ pc = "poll" => attempts < MaxPollAttempts
  /\ pc = "fetch" =>
       /\ fetch.for # "none"
       /\ fetch.for \in {"ws_confirmed", "poll_confirmed"} => tx = "landed"
  /\ confirmed /\ txData # "null" => tx = "landed"

Inv ==
  /\ TypeOK
  /\ ChainInv
  /\ CallInv
  /\ SuccessIsReal
  /\ FailureIsReal
  /\ RejectedIsUnsent

-----------------------------------------------------------------------------
\* No step of the chain undoes a final state, or invents a broadcast.
LEMMA ChainMonotone ==
  ASSUME TypeOK, ChainInv, ChainStep
  PROVE  /\ ChainTypeOK' /\ ChainInv'
         /\ tx # "inflight" => tx' = tx
         /\ tx = "inflight" => tx' # "unsent"
         /\ expiry' = expiry
         /\ height' \in Nat /\ height' >= height
<1> USE ChainAssumption DEF TypeOK, ChainTypeOK, ChainInv, TxStates, Final
<1>1. CASE Process
  BY <1>1 DEF Process
<1>2. CASE Rollback
  BY <1>2 DEF Rollback
<1>3. CASE Advance
  BY <1>3 DEF Advance
<1> QED BY <1>1, <1>2, <1>3 DEF ChainStep

\* The answer of getTransaction, and of getSignatureStatuses, is a final state
\* of the transaction, an error on a fork, or nothing.
LEMMA ReadsAreTyped ==
  ASSUME TypeOK
  PROVE  /\ TxReads \subseteq Final \cup {"null"}
         /\ StatusReads \subseteq Final \cup {"null"}
         /\ HeightReads \subseteq Nat
         /\ \A d \in TxReads : d # "null" => d = tx
         /\ "landed" \in StatusReads => tx = "landed"
BY ChainAssumption DEF TypeOK, ChainTypeOK, TxStates, Final, TxReads, StatusReads,
                       HeightReads, Stale

-----------------------------------------------------------------------------
LEMMA InitInv == Init => Inv
<1> SUFFICES ASSUME Init PROVE Inv
  OBVIOUS
<1> USE ChainAssumption, SendAssumption DEF Init, ChainInit
<1>1. ChainTypeOK
  BY DEF ChainTypeOK, TxStates, Final
<1>2. TypeOK
  <2>1. fetch \in [for: Fetchers, left: Nat]
    BY DEF Fetchers
  <2>2. attempts \in 0..MaxPollAttempts
    OBVIOUS
  <2>3. outcome \in Outcomes
    BY DEF Outcomes
  <2>. QED BY <1>1, <2>1, <2>2, <2>3 DEF TypeOK
<1>3. ChainInv /\ CallInv
  BY DEF ChainInv, CallInv, BeforeSend
<1>4. SuccessIsReal /\ FailureIsReal /\ RejectedIsUnsent
  BY DEF SuccessIsReal, FailureIsReal, RejectedIsUnsent
<1> QED BY <1>1, <1>2, <1>3, <1>4 DEF Inv

\* NextPoll either polls again with attempts left, or starts the final look-up.
LEMMA NextPollCases ==
  ASSUME NEW n, NextPoll(n)
  PROVE  /\ outcome' = outcome
         /\ \/ pc' = "poll" /\ n < MaxPollAttempts /\ fetch' = fetch /\ ended' = ended
            \/ /\ pc' = "fetch" /\ fetch' \in [for: {"final"}, left: Nat]
               /\ ended' = "capped"
BY SendAssumption DEF NextPoll, MorePolls, StartFetch, Goto

\* A fetch is started for one of its callers with some tries.
LEMMA StartFetchType ==
  ASSUME NEW f \in Fetchers, NEW n \in Nat, StartFetch(f, n)
  PROVE  /\ outcome' = outcome /\ pc' = "fetch"
         /\ fetch' \in [for: Fetchers, left: Nat] /\ fetch'.for = f
BY DEF StartFetch, Goto

\* What comes out of the data fetch: another poll, another try, the end of the
\* confirmation phase, or a thrown rate limit.
LEMMA FetchDataCases ==
  ASSUME Inv, FetchData
  PROVE  \/ NextPoll(attempts) /\ fetch.for # "final" /\ UNCHANGED <<confirmed, txData>>
         \/ /\ pc' = "fetch" /\ outcome' = outcome /\ fetch' \in [for: {fetch.for}, left: Nat]
            /\ UNCHANGED <<confirmed, txData, ended>>
         \/ /\ pc' = "conclude" /\ outcome' = outcome
            /\ \E d \in TxReads :
                 txData' = d /\ confirmed' = (fetch.for \in {"ws_confirmed", "poll_confirmed"}
                                              \/ d = "landed")
            /\ UNCHANGED <<fetch, ended>>
         \/ /\ pc' = "conclude" /\ outcome' = outcome
            /\ txData' = "null" /\ confirmed' = FALSE
            /\ "rpc_error" \in Errors /\ fetch.for = "final"
            /\ UNCHANGED <<fetch, ended>>
         \/ /\ pc' = "done" /\ outcome' = "rate_limited"
            /\ "rate_limit" \in Errors
            /\ UNCHANGED <<confirmed, txData, fetch, ended>>
<1>1. CASE \E d \in TxReads : /\ d = "null" /\ fetch.left > 1
                             /\ StartFetch(fetch.for, fetch.left - 1)
                             /\ Unresolved /\ UNCHANGED ended
  <2>1. fetch.left \in Nat /\ fetch.left - 1 \in Nat
    BY <1>1 DEF Inv, TypeOK
  <2>. QED BY <1>1, <2>1 DEF StartFetch, Unresolved, Goto
<1>2. CASE \E d \in TxReads : Fetched(d)
  BY <1>2 DEF Fetched, Succeeded, Resolve, Unresolved, Goto
<1>3. ASSUME NEW e \in Errors, FetchFailed(e)
      PROVE  \/ NextPoll(attempts) /\ fetch.for # "final" /\ UNCHANGED <<confirmed, txData>>
             \/ /\ pc' = "conclude" /\ outcome' = outcome
                /\ txData' = "null" /\ confirmed' = FALSE
                /\ "rpc_error" \in Errors /\ fetch.for = "final"
                /\ UNCHANGED <<fetch, ended>>
             \/ /\ pc' = "done" /\ outcome' = "rate_limited"
                /\ "rate_limit" \in Errors
                /\ UNCHANGED <<confirmed, txData, fetch, ended>>
  <2>1. e \in {"rpc_error", "rate_limit"}
    BY DEF Errors
  <2>2. fetch.for \in {"ws_confirmed", "ws_timeout", "poll_confirmed", "final"}
    BY DEF Inv, TypeOK, CallInv, FetchData, Fetchers
  <2>. QED BY <1>3, <2>1, <2>2 DEF FetchFailed, Resolve, Unresolved, Goto, Return
<1> QED BY <1>1, <1>2, <1>3 DEF FetchData

LEMMA StepType ==
  ASSUME Inv, [Next]_vars
  PROVE  TypeOK'
<1> USE ChainAssumption, SendAssumption
    DEF Inv, TypeOK, ChainTypeOK, TxStates, Final, Fetchers, Outcomes
<1>1. CASE Simulate
  BY <1>1 DEF Simulate, Goto, Return, chainVars
<1>2. CASE Prepare
  BY <1>2, ReadsAreTyped DEF Prepare, Goto, Return
<1>3. CASE FetchWindow
  BY <1>3, ReadsAreTyped DEF FetchWindow, Goto, Return, chainVars
<1>4. CASE Send
  <2>1. tx' \in TxStates
    BY <1>4 DEF Send, Broadcast
  <2>2. signature' \in BOOLEAN /\ confirmed' \in BOOLEAN
    BY <1>4, Zenon DEF Send, LostAnswer, Resolve, Unresolved
  <2>3. pc' \in {"monitor", "conclude", "done"} /\ outcome' \in Outcomes
    BY <1>4 DEF Send, LostAnswer, Resolve, Goto, Return
  <2>4. txData' \in Final \cup {"null"}
    BY <1>4 DEF Send, LostAnswer, Resolve, Unresolved
  <2>. QED BY <1>4, <2>1, <2>2, <2>3, <2>4 DEF Send
<1>5. CASE Monitor
  <2>1. CASE NextPoll(attempts)
    BY <1>5, <2>1, NextPollCases DEF Monitor, chainVars
  <2>2. CASE StartFetch("ws_confirmed", DataRetries) /\ UNCHANGED ended
    BY <1>5, <2>2, StartFetchType DEF Monitor, chainVars
  <2>3. CASE StartFetch("ws_timeout", FinalRetries) /\ UNCHANGED ended
    BY <1>5, <2>3, StartFetchType DEF Monitor, chainVars
  <2>. QED BY <1>5, <2>1, <2>2, <2>3 DEF Monitor
<1>6. CASE Poll
  <2>1. attempts' \in 0..MaxPollAttempts
    BY <1>6 DEF Poll, CountPoll, CallInv
  <2>2. confirmed' \in BOOLEAN
    BY <1>6, Zenon DEF Poll, Resolve, Unresolved
  <2>3. txData' \in Final \cup {"null"}
    BY <1>6, ReadsAreTyped DEF Poll, Resolve, Unresolved
  <2>4. /\ pc' \in {"poll", "height", "fetch", "conclude", "done"}
        /\ outcome' \in Outcomes
        /\ fetch' \in [for: Fetchers, left: Nat]
        /\ ended' \in {"none", "expired", "capped", "error_status"}
    BY <1>6, <2>1, NextPollCases, StartFetchType DEF Poll, Resolve, Goto, Return
  <2>. QED
    BY <1>6, <2>1, <2>2, <2>3, <2>4 DEF Poll, chainVars
<1>7. CASE PollHeight
  <2>1. sawExpired' \in BOOLEAN
    BY <1>7 DEF PollHeight, BlockhashExpired
  <2>2. /\ pc' \in {"poll", "fetch", "done"}
        /\ outcome' \in Outcomes
        /\ fetch' \in [for: Fetchers, left: Nat]
        /\ ended' \in {"none", "expired", "capped", "error_status"}
    BY <1>7, NextPollCases, StartFetchType DEF PollHeight, Return
  <2>. QED
    BY <1>7, <2>1, <2>2 DEF PollHeight, chainVars
<1>8. CASE FetchData
  <2>1. confirmed' \in BOOLEAN
    BY <1>8, FetchDataCases
  <2>2. txData' \in Final \cup {"null"}
    BY <1>8, FetchDataCases, ReadsAreTyped
  <2>3. /\ pc' \in {"poll", "fetch", "conclude", "done"}
        /\ outcome' \in Outcomes
        /\ fetch' \in [for: Fetchers, left: Nat]
        /\ ended' \in {"none", "expired", "capped", "error_status"}
    BY <1>8, FetchDataCases, NextPollCases
  <2>. QED
    BY <1>8, <2>1, <2>2, <2>3 DEF FetchData, chainVars
<1>9. CASE Conclude
  BY <1>9 DEF Conclude, NoSignature, Goto, Return, chainVars
<1>10. CASE CheckLanded
  BY <1>10 DEF CheckLanded, LandedAnswer, Return, chainVars
<1>11. CASE ChainStep /\ UNCHANGED callVars
  BY <1>11, ChainMonotone DEF callVars
<1>12. CASE UNCHANGED vars
  BY <1>12 DEF vars, chainVars, callVars
<1> QED
  BY <1>1, <1>2, <1>3, <1>4, <1>5, <1>6, <1>7, <1>8, <1>9, <1>10, <1>11, <1>12
     DEF Next, CallStep

Answers == SuccessIsReal /\ FailureIsReal /\ RejectedIsUnsent

LEMMA StepRest ==
  ASSUME Inv, [Next]_vars
  PROVE  ChainInv' /\ CallInv' /\ Answers'
<1> TypeOK'
  BY StepType
<1> USE ChainAssumption, SendAssumption
    DEF Inv, ChainInv, CallInv, Answers, BeforeSend, SuccessIsReal, FailureIsReal, RejectedIsUnsent
<1>1. CASE Simulate
  BY <1>1 DEF Simulate, Goto, Return, chainVars
<1>2. CASE Prepare
  BY <1>2 DEF Prepare, Goto, Return
<1>3. CASE FetchWindow
  BY <1>3 DEF FetchWindow, Goto, Return, chainVars
<1>4. CASE Send
  BY <1>4 DEF Send, Broadcast, LostAnswer, Resolve, Unresolved, Goto, Return
<1>5. CASE Monitor
  BY <1>5, NextPollCases DEF Monitor, StartFetch, Goto, Unresolved, chainVars
<1>6. CASE Poll
  BY <1>6, ReadsAreTyped, NextPollCases
     DEF Poll, CountPoll, StartFetch, Resolve, Unresolved, Goto, Return, chainVars
<1>7. CASE PollHeight
  BY <1>7, NextPollCases DEF PollHeight, StartFetch, Goto, Return, chainVars
<1>8. CASE FetchData
  <2>1. tx' = tx /\ UNCHANGED <<height, expiry, fork, attempts>> /\ pc = "fetch"
    BY <1>8 DEF FetchData, chainVars
  <2>2. (confirmed /\ txData # "null" => tx = "landed")'
    <3>1. CASE UNCHANGED <<confirmed, txData>>
      BY <2>1, <3>1
    <3>2. CASE \E d \in TxReads :
                 txData' = d /\ confirmed' = (fetch.for \in {"ws_confirmed", "poll_confirmed"}
                                              \/ d = "landed")
      BY <2>1, <3>2, ReadsAreTyped
    <3>. QED BY <1>8, <3>1, <3>2, FetchDataCases
  <2>3. /\ pc' = "done" <=> outcome' # "none"
        /\ pc' \notin BeforeSend
        /\ pc' = "poll" => attempts < MaxPollAttempts
        /\ pc' = "fetch" => fetch'.for \in {"final", fetch.for}
        /\ outcome' \in {"none", "rate_limited"}
    BY <1>8, <2>1, FetchDataCases, NextPollCases
  <2>. QED
    BY <2>1, <2>2, <2>3
<1>9. CASE Conclude
  BY <1>9 DEF Conclude, NoSignature, Goto, Return, chainVars
<1>10. CASE CheckLanded
  BY <1>10, ReadsAreTyped DEF CheckLanded, LandedAnswer, Return, chainVars
<1>11. CASE ChainStep /\ UNCHANGED callVars
  BY <1>11, ChainMonotone DEF callVars
<1>12. CASE UNCHANGED vars
  BY <1>12 DEF vars, chainVars, callVars
<1> QED
  BY <1>1, <1>2, <1>3, <1>4, <1>5, <1>6, <1>7, <1>8, <1>9, <1>10, <1>11, <1>12
     DEF Next, CallStep

LEMMA StepInv == Inv /\ [Next]_vars => Inv'
BY StepType, StepRest DEF Inv, Answers

\* The state of a call stays within its type.
THEOREM TypeCorrect == Spec => []TypeOK
<1>1. Inv => TypeOK
  BY DEF Inv
<1> QED BY <1>1, InitInv, StepInv, PTL DEF Spec

\* Every answer that commits itself, to a success, to a failure on chain or to nothing having
\* been broadcast, is true of the chain, whatever lags, forks or fails.
THEOREM AnswersAreReal == Spec => []AnswersAreTrue
<1>1. Inv => AnswersAreTrue
  BY DEF Inv, AnswersAreTrue
<1> QED BY <1>1, InitInv, StepInv, PTL DEF Spec

-----------------------------------------------------------------------------
(* The send implements SendOutcome.                                        *)

LEMMA InitRefines == Init => Abstract!Init
BY DEF Init, ChainInit, Abstract!Init, LedgerView, AnswerView

LEMMA ViewsAreTyped ==
  ASSUME TypeOK
  PROVE  LedgerView \in {"absent", "possible", "success", "failure", "impossible"}
BY DEF TypeOK, ChainTypeOK, TxStates, LedgerView

\* A step that leaves the ledger alone and answers the caller truthfully.
LEMMA AnswerRefines ==
  ASSUME TypeOK, UNCHANGED tx, outcome = "none", outcome' \in Outcomes,
         outcome' = "success" => tx = "landed",
         outcome' = "failed_onchain" => tx = "failed",
         outcome' = "rejected" => tx = "unsent"
  PROVE  [Abstract!Next]_<<LedgerView, AnswerView>>
<1>1. LedgerView' = LedgerView /\ AnswerView = "none"
  BY DEF LedgerView, AnswerView
<1>2. CASE outcome' = "none"
  BY <1>1, <1>2 DEF AnswerView
<1>3. CASE outcome' # "none"
  <2>1. AnswerView' \in {"unknown"} \cup
          (IF LedgerView \in {"success", "failure"} THEN {LedgerView} ELSE {}) \cup
          (IF LedgerView = "absent" THEN {"not_sent"} ELSE {})
    BY <1>3 DEF AnswerView, LedgerView, Outcomes
  <2>. QED BY <1>1, <2>1 DEF Abstract!Next, Abstract!Answer
<1> QED BY <1>2, <1>3

LEMMA StepRefines ==
  ASSUME Inv, [Next]_vars
  PROVE  [Abstract!Next]_<<LedgerView, AnswerView>>
<1> TypeOK /\ TypeOK' /\ Answers'
  BY StepType, StepRest DEF Inv
<1>1. CASE Send
  <2>1. CASE tx' = tx
    <3>1. outcome = "none" /\ outcome' \in {"none", "rate_limited"}
      BY <1>1 DEF Send, LostAnswer, Resolve, Goto, Return, Inv, CallInv
    <3>. QED BY <2>1, <3>1, AnswerRefines DEF Outcomes
  <2>2. CASE tx' # tx
    <3>1. outcome = "none" /\ outcome' = "none" /\ tx = "unsent"
          /\ tx' \in {"inflight", "expired"}
      BY <1>1, <2>2 DEF Send, Broadcast, LostAnswer, Resolve, Goto, Inv, CallInv, BeforeSend
    <3>2. LedgerView = "absent" /\ LedgerView' \in {"possible", "impossible"}
          /\ AnswerView = "none" /\ AnswerView' = "none"
      BY <3>1 DEF LedgerView, AnswerView
    <3>. QED BY <3>2 DEF Abstract!Next, Abstract!Broadcast
  <2>. QED BY <2>1, <2>2
<1>2. CASE CallStep /\ ~Send
  <2>1. tx' = tx /\ outcome = "none"
    BY <1>2 DEF CallStep, Simulate, Prepare, FetchWindow, Monitor, Poll, PollHeight, FetchData,
                Conclude, CheckLanded, chainVars, Inv, CallInv
  <2>2. outcome' \in Outcomes
    BY DEF TypeOK
  <2>. QED
    BY <2>1, <2>2, AnswerRefines DEF Answers, SuccessIsReal, FailureIsReal, RejectedIsUnsent
<1>3. CASE ChainStep /\ UNCHANGED callVars
  <2>1. AnswerView' = AnswerView
    BY <1>3 DEF callVars, AnswerView
  <2>2. CASE tx # "inflight"
    BY <1>3, <2>1, <2>2, ChainMonotone DEF Inv, LedgerView
  <2>3. CASE tx = "inflight"
    <3>1. tx' \in TxStates \ {"unsent"}
      BY <1>3, <2>3, ChainMonotone DEF Inv, ChainTypeOK
    <3>2. LedgerView = "possible"
          /\ LedgerView' \in {"possible", "success", "failure", "impossible"}
      BY <2>3, <3>1 DEF LedgerView, TxStates
    <3>. QED BY <2>1, <3>2 DEF Abstract!Next, Abstract!Decide
  <2>. QED BY <2>2, <2>3
<1>4. CASE UNCHANGED vars
  BY <1>4 DEF vars, chainVars, callVars, LedgerView, AnswerView
<1> QED BY <1>1, <1>2, <1>3, <1>4 DEF Next

\* What SendOutcome promises to the callers is kept: one broadcast at most, and
\* an answer that stays true of the ledger.
THEOREM ContractKept == Spec => KeepsContract
<1>1. Inv /\ [Next]_vars => [Abstract!Next]_<<LedgerView, AnswerView>>
  BY StepRefines
<1> QED BY <1>1, InitInv, StepInv, InitRefines, PTL DEF Spec, KeepsContract, Abstract!Spec

-----------------------------------------------------------------------------
(* With reliable reads, giving up after the blockhash expired is final: the *)
(* window polled covers the life of the transaction, so that once it is over*)
(* the transaction is on chain, where the final look-up finds it, or lost.  *)

GaveUp == ended = "expired"

WindowInv ==
  /\ expiry <= height + Validity
  /\ reliable =>
       /\ pc \in {"send"} \cup AfterSend => lastValid >= expiry
       /\ pc \in AfterSend => tx # "unsent"
       /\ GaveUp =>
            /\ tx \in {"landed", "failed", "expired"}
            /\ pc \in {"fetch", "conclude", "check", "done"}
            /\ pc = "fetch" => fetch.for = "final"
            /\ pc = "conclude" /\ tx = "landed" => confirmed /\ txData = "landed"
            /\ pc = "check" => tx # "landed"
            /\ outcome = "timeout" => tx = "expired"
            /\ outcome = "pending" => tx \in {"expired", "failed"}

LEMMA InitWindow == Init => WindowInv
BY ChainAssumption DEF Init, ChainInit, WindowInv, AfterSend, GaveUp

\* Reliable reads tell the height, and the result of the transaction.
LEMMA ReliableReadsTell ==
  ASSUME reliable, TypeOK
  PROVE  /\ HeightReads = {height}
         /\ tx \in Final => TxReads = {tx}
         /\ tx \notin Final => TxReads = {"null"}
BY DEF HeightReads, TxReads, Stale, TypeOK, ChainTypeOK, Final, TxStates

LEMMA LaterBound ==
  \A a, b, c, d \in Nat : b >= a /\ d <= a + c => d <= b + c
OBVIOUS

LEMMA StepWindow ==
  ASSUME Inv, WindowInv, [Next]_vars
  PROVE  WindowInv'
<1>0. TypeOK /\ TypeOK' /\ ChainInv /\ CallInv
  BY StepType DEF Inv
<1>1. (expiry <= height + Validity)'
  <2>1. HeightReads \subseteq 0..height
    BY <1>0 DEF HeightReads, TypeOK, ChainTypeOK
  <2>2. CASE Prepare
    BY <1>0, <2>1, <2>2, ChainAssumption DEF Prepare, WindowInv, TypeOK, ChainTypeOK
  <2>3. CASE ChainStep
    <3>1. expiry' = expiry /\ height' >= height /\ height' \in Nat
      BY <1>0, <2>3, ChainMonotone
    <3>2. expiry \in Nat /\ height \in Nat
      BY <1>0, ChainAssumption DEF TypeOK, ChainTypeOK
    <3>3. expiry <= height + Validity
      BY Zenon DEF WindowInv
    <3>4. Validity \in Nat
      BY ChainAssumption
    <3>5. expiry <= height' + Validity
      BY <3>1, <3>2, <3>3, <3>4, LaterBound
    <3>. QED BY <3>1, <3>5
  <2>4. CASE UNCHANGED chainVars
    BY <2>4 DEF WindowInv, chainVars
  <2>5. CASE Send
    BY <2>5 DEF Send, WindowInv
  <2>. QED
    BY <2>2, <2>3, <2>4, <2>5
       DEF Next, CallStep, Simulate, FetchWindow, Monitor, Poll, PollHeight, FetchData,
           Conclude, CheckLanded, vars
<1> SUFFICES ASSUME reliable
             PROVE  WindowInv'
  <2>1. reliable' = reliable
    BY DEF Next, CallStep, Simulate, Prepare, FetchWindow, Send, Monitor, Poll, PollHeight, FetchData,
           Conclude, CheckLanded, ChainStep, Process, Rollback, Advance, chainVars, vars
  <2>. QED BY <1>1, <2>1 DEF WindowInv
<1>2. Errors = {} /\ HeightReads = {height}
  BY <1>0, ReliableReadsTell DEF Errors
<1> USE <1>0, <1>1, <1>2 DEF WindowInv, GaveUp, CallInv, BeforeSend, AfterSend
<1>3. CASE Simulate
  BY <1>3 DEF Simulate, Goto, Return, chainVars
<1>4. CASE Prepare
  BY <1>4 DEF Prepare, Goto, Return
<1>5. CASE FetchWindow
  BY <1>5, ChainAssumption DEF FetchWindow, Goto, Return, chainVars, TypeOK, ChainTypeOK
<1>6. CASE Send
  BY <1>6 DEF Send, Broadcast, Unresolved, Goto
<1>7. CASE Monitor
  BY <1>7, NextPollCases DEF Monitor, StartFetch, Goto, chainVars
<1>8. CASE Poll
  BY <1>8, NextPollCases DEF Poll, Resolve, StartFetch, Goto, chainVars
<1>9. CASE PollHeight
  <2>1. CASE BlockhashExpired(height) /\ sawExpired
    <3>1. height > expiry
      BY <1>9, <2>1 DEF PollHeight, BlockhashExpired, TypeOK, ChainTypeOK
    <3>2. tx \in {"landed", "failed", "expired"}
      BY <1>9, <3>1 DEF PollHeight, ChainInv, TypeOK, ChainTypeOK, TxStates
    <3>. QED BY <1>9, <2>1, <3>2 DEF PollHeight, StartFetch, Goto, chainVars
  <2>2. CASE ~(BlockhashExpired(height) /\ sawExpired)
    BY <1>9, <2>2, NextPollCases DEF PollHeight, chainVars
  <2>. QED BY <2>1, <2>2
<1>10. CASE FetchData
  <2>1. pc = "fetch" /\ UNCHANGED <<height, expiry, tx, lastValid>>
    BY <1>10 DEF FetchData, chainVars
  <2>2. CASE NextPoll(attempts) /\ fetch.for # "final" /\ UNCHANGED <<confirmed, txData>>
    BY <2>1, <2>2, NextPollCases
  <2>3. CASE /\ pc' = "conclude" /\ outcome' = outcome
             /\ \E d \in TxReads :
                  txData' = d /\ confirmed' = (fetch.for \in {"ws_confirmed", "poll_confirmed"}
                                               \/ d = "landed")
             /\ UNCHANGED <<fetch, ended>>
    <3>1. tx = "landed" => txData' = "landed" /\ confirmed'
      BY <2>3, ReliableReadsTell DEF Final
    <3>. QED BY <2>1, <2>3, <3>1
  <2>. QED BY <1>10, <2>1, <2>2, <2>3, FetchDataCases
<1>11. CASE Conclude
  BY <1>11 DEF Conclude, NoSignature, Goto, Return, chainVars
<1>12. CASE CheckLanded
  BY <1>12, ReliableReadsTell DEF CheckLanded, LandedAnswer, Return, chainVars, Final
<1>13. CASE ChainStep /\ UNCHANGED callVars
  BY <1>13, ChainMonotone DEF callVars
<1>14. CASE UNCHANGED vars
  BY <1>14 DEF vars, chainVars, callVars
<1> QED
  BY <1>3, <1>4, <1>5, <1>6, <1>7, <1>8, <1>9, <1>10, <1>11, <1>12, <1>13, <1>14
     DEF Next, CallStep

\* Polling until lastValidBlockHeight, with the look-ups that follow, never gives
\* up on a transaction that succeeds.
THEOREM GivingUpIsFinal == Spec => []NoLateLanding
<1>1. WindowInv => NoLateLanding
  BY DEF WindowInv, NoLateLanding, GaveUp
<1>2. Inv /\ WindowInv /\ [Next]_vars => Inv' /\ WindowInv'
  BY StepInv, StepWindow
<1> QED BY <1>1, <1>2, InitInv, InitWindow, PTL DEF Spec

=============================================================================
