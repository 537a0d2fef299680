----------------------------- MODULE Quoting_proof -----------------------------
(***************************************************************************)
(* Theorems of QuoteExecution and of Quoting.                              *)
(*                                                                         *)
(* The first part is what QuoteExecution keeps true for any sets of        *)
(* quotes, requests and connectors.  Its invariant: what a request learnt  *)
(* of its send is true of the chain, and its answer follows from it; a     *)
(* request at work has a quote that was made; and a quote is gone for a    *)
(* reason.                                                                 *)
(*                                                                         *)
(* The second part is that quoting as the connectors do it implements the  *)
(* one step that QuoteExecution has of it, so that what is proved there    *)
(* holds here, for any number of attempts; and what the quotes promise.    *)
(***************************************************************************)
EXTENDS Quoting, TLAPS

AtWork == {"build", "send", "sending", "lookup"}

Unsent(r) == pc[r] \in {"new", "build", "send"} => ledger[r] = "absent" /\ reply[r] = "none"

Unanswered(r) == pc[r] # "done" => answer[r] = "none"

HasQuote(r) == pc[r] \in AtWork => made[quote[r]] # "none"

LooksUp(r) ==
  pc[r] = "lookup" =>
    /\ via[r] \notin UniversalRouters
    /\ via[r] \in SolanaRouters => reply[r] = "success"
    /\ reply[r] \in {"success", "failure", "null"}

ReplyIsTrue(r) == reply[r] \in {"success", "failure"} => ledger[r] = reply[r]

AnswerFollows(r) ==
  /\ answer[r] = "confirmed" =>
       reply[r] = "success" /\ quote[r] \notin cache /\ made[quote[r]] # "none"
  /\ answer[r] = "reverted_error" /\ via[r] # "pancakeswap" => reply[r] = "failure"

RequestInv(r) ==
  /\ Unsent(r) /\ Unanswered(r) /\ HasQuote(r)
  /\ LooksUp(r) /\ ReplyIsTrue(r) /\ AnswerFollows(r)

Inv == TypeOK /\ RemovedWasExecuted /\ \A r \in Requests : RequestInv(r)

-----------------------------------------------------------------------------
\* What the end of a send may lead to.
Outcome(r, s) ==
  \/ Keep /\ \E a \in {"error", "pending"} : Return(r, a)
  \/ /\ s = "failure" \/ via[r] = "pancakeswap"
     /\ Keep /\ Return(r, "reverted_error")
  \/ s = "success" /\ Delete(quote[r]) /\ Return(r, "confirmed")
  \/ s = "failure" /\ via[r] = "pancakeswap" /\ Delete(quote[r]) /\ Return(r, "failed")

LEMMA ResultsAreOutcomes ==
  ASSUME NEW r \in Requests, NEW s \in {"success", "failure", "null"}
  PROVE  /\ UniswapResult(r, s) => Outcome(r, s)
         /\ via[r] = "pancakeswap" /\ PancakeswapResult(r, s) => Outcome(r, s)
  BY DEF UniswapResult, PancakeswapResult, NullStatus, Outcome

LEMMA SendEndsCases ==
  ASSUME NEW r \in Requests, SendEnds(r)
  PROVE  \E s \in Replies(r) :
           /\ reply' = [reply EXCEPT ![r] = s]
           /\ \/ Outcome(r, s)
              \/ /\ Keep /\ Goto(r, "lookup")
                 /\ via[r] \notin UniversalRouters /\ s # "throws"
<1>1. PICK s \in Replies(r) :
        /\ reply' = [reply EXCEPT ![r] = s]
        /\ CASE s = "throws" -> Keep /\ Return(r, "error")
             [] s # "throws" /\ via[r] = "uniswap" -> UniswapResult(r, s)
             [] s # "throws" /\ via[r] = "pancakeswap" -> PancakeswapResult(r, s)
             [] s # "throws" /\ via[r] \notin UniversalRouters -> Keep /\ Goto(r, "lookup")
  BY DEF SendEnds
<1>2. s # "throws" => s \in {"success", "failure", "null"}
  BY DEF Replies
<1>3. CASE s = "throws"
  <2>1. Keep /\ Return(r, "error")
    BY <1>1, <1>3
  <2> QED  BY <1>1, <2>1 DEF Outcome
<1>4. CASE s # "throws" /\ via[r] = "uniswap"
  <2>1. UniswapResult(r, s)
    BY <1>1, <1>4 DEF UniversalRouters
  <2>2. Outcome(r, s)
    BY <1>2, <1>4, <2>1, ResultsAreOutcomes
  <2> QED  BY <1>1, <2>2
<1>5. CASE s # "throws" /\ via[r] = "pancakeswap"
  <2>1. PancakeswapResult(r, s)
    BY <1>1, <1>5 DEF UniversalRouters
  <2>2. Outcome(r, s)
    BY <1>2, <1>5, <2>1, ResultsAreOutcomes
  <2> QED  BY <1>1, <2>2
<1>6. CASE s # "throws" /\ via[r] \notin UniversalRouters
  <2>1. Keep /\ Goto(r, "lookup")
    BY <1>1, <1>6 DEF UniversalRouters
  <2> QED  BY <1>1, <1>6, <2>1
<1> QED  BY <1>3, <1>4, <1>5, <1>6 DEF UniversalRouters

LEMMA LookUpCases ==
  ASSUME NEW r \in Requests, Inv, LookUp(r)
  PROVE  Outcome(r, reply[r]) /\ pc[r] = "lookup" /\ UNCHANGED reply
<1>1. pc[r] = "lookup" /\ UNCHANGED reply /\ via[r] \in SolanaRouters \cup EvmRouters
  BY QuoteAssumption DEF LookUp, Inv, TypeOK
<1>2. /\ via[r] \notin UniversalRouters
      /\ via[r] \in SolanaRouters => reply[r] = "success"
      /\ reply[r] \in {"success", "failure", "null"}
  BY <1>1 DEF Inv, RequestInv, LooksUp
<1>3. CASE via[r] = "0x"
  BY <1>1, <1>2, <1>3, ResultsAreOutcomes DEF LookUp, ZeroXResult, Outcome
<1>4. CASE via[r] # "0x"
  <2>1. SolanaResult(r)
    BY <1>4 DEF LookUp
  <2>2. reply[r] = "success"
    BY <1>1, <1>2, <1>4 DEF EvmRouters, UniversalRouters
  <2>3. Outcome(r, reply[r])
    BY <2>1, <2>2 DEF SolanaResult, NullStatus, Outcome
  <2> QED  BY <1>1, <2>3
<1> QED  BY <1>3, <1>4

-----------------------------------------------------------------------------
LEMMA InitInv == Init => Inv
<1> SUFFICES ASSUME Init PROVE Inv
  OBVIOUS
<1>1. TypeOK
  BY DEF Init, TypeOK, Answers
<1>2. RemovedWasExecuted
  BY DEF Init, RemovedWasExecuted
<1>3. \A r \in Requests : RequestInv(r)
  BY DEF Init, RequestInv, Unsent, Unanswered, HasQuote, LooksUp, ReplyIsTrue,
         AnswerFollows, AtWork
<1> QED  BY <1>1, <1>2, <1>3 DEF Inv

\* The steps before the send: they touch one request's place and answer only.
LEMMA BeforeSendStep ==
  ASSUME Inv, NEW r \in Requests, ExecuteQuote(r) \/ Build(r)
  PROVE  Inv'
<1>1. /\ pc[r] \in {"new", "build"}
      /\ UNCHANGED <<cache, made, quote, via, ledger, reply>>
      /\ \/ made[quote[r]] # "none" /\ \E p \in {"build", "send"} : Goto(r, p)
         \/ Return(r, "error")
  BY DEF ExecuteQuote, Build, Inv, TypeOK, RequestInv, HasQuote, AtWork
<1>2. TypeOK'
  BY <1>1 DEF Inv, TypeOK, Goto, Return, Answers
<1>3. RemovedWasExecuted'
  BY <1>1 DEF Inv, RemovedWasExecuted
<1>4. ASSUME NEW q \in Requests PROVE RequestInv(q)'
  BY <1>1 DEF Inv, TypeOK, Goto, Return, RequestInv, Unsent, Unanswered, HasQuote,
              LooksUp, ReplyIsTrue, AnswerFollows, AtWork
<1> QED  BY <1>2, <1>3, <1>4 DEF Inv

LEMMA SendStep ==
  ASSUME Inv, NEW r \in Requests, Send(r)
  PROVE  Inv'
<1>1. TypeOK'
  BY DEF Inv, TypeOK, Send, Goto
<1>2. RemovedWasExecuted'
  BY DEF Inv, TypeOK, RemovedWasExecuted, RequestInv, Unsent, Send, Goto
<1>3. ASSUME NEW q \in Requests PROVE RequestInv(q)'
  BY DEF Inv, TypeOK, Send, Goto, RequestInv, Unsent, Unanswered, HasQuote,
         LooksUp, ReplyIsTrue, AnswerFollows, AtWork
<1> QED  BY <1>1, <1>2, <1>3 DEF Inv

\* The chain decides only what was possible: nothing a request knows changes.
LEMMA DecideStep ==
  ASSUME Inv, NEW r \in Requests, Decide(r)
  PROVE  Inv'
<1>1. TypeOK'
  BY DEF Inv, TypeOK, Decide
<1>2. RemovedWasExecuted'
  BY DEF Inv, TypeOK, RemovedWasExecuted, Decide
<1>3. ASSUME NEW q \in Requests PROVE RequestInv(q)'
  BY DEF Inv, TypeOK, Decide, RequestInv, Unsent, Unanswered, HasQuote,
         LooksUp, ReplyIsTrue, AnswerFollows, AtWork
<1> QED  BY <1>1, <1>2, <1>3 DEF Inv

LEMMA QuoteSwapStep ==
  ASSUME Inv, NEW q \in Quotes, QuoteSwap(q)
  PROVE  Inv'
<1>1. TypeOK'
  BY QuoteAssumption DEF Inv, TypeOK, QuoteSwap, SolanaRouters, EvmRouters
<1>2. RemovedWasExecuted'
  BY DEF Inv, TypeOK, RemovedWasExecuted, QuoteSwap
<1>3. ASSUME NEW r \in Requests PROVE RequestInv(r)'
  BY DEF Inv, TypeOK, QuoteSwap, RequestInv, Unsent, Unanswered, HasQuote,
         LooksUp, ReplyIsTrue, AnswerFollows, AtWork
<1> QED  BY <1>1, <1>2, <1>3 DEF Inv

\* The one lemma about the end of a send, reached directly or over a look-up.
LEMMA OutcomeStep ==
  ASSUME Inv, NEW r \in Requests, NEW s \in Replies(r) \cup {reply[r]}, Outcome(r, s),
         pc[r] \in {"sending", "lookup"},
         reply' = [reply EXCEPT ![r] = s],
         s \in {"success", "failure"} => ledger[r] = s,
         UNCHANGED <<made, quote, via, ledger>>
  PROVE  Inv'
<1>1. s \in {"none", "success", "failure", "null", "throws"}
  BY DEF Inv, TypeOK, Replies
<1>2. /\ cache' \in {cache, cache \ {quote[r]}}
      /\ \E a \in {"error", "pending", "reverted_error", "confirmed", "failed"} : Return(r, a)
  BY DEF Outcome, Keep, Delete
<1>3. TypeOK'
  BY <1>1, <1>2 DEF Inv, TypeOK, Return, Answers
<1>4. cache' # cache =>
        /\ cache' = cache \ {quote[r]}
        /\ ledger[r] = "success" \/ (via[r] = "pancakeswap" /\ ledger[r] = "failure")
  BY DEF Outcome, Keep, Delete
<1>5. RemovedWasExecuted'
  BY <1>2, <1>4 DEF Inv, TypeOK, RemovedWasExecuted
<1>6. ASSUME NEW q \in Requests, q # r PROVE RequestInv(q)'
  BY <1>2, <1>6 DEF Inv, TypeOK, Return, RequestInv, Unsent, Unanswered, HasQuote,
              LooksUp, ReplyIsTrue, AnswerFollows, AtWork
<1>7. RequestInv(r)'
  <2>1. pc'[r] = "done" /\ reply'[r] = s /\ UNCHANGED <<made, quote, via, ledger>>
    BY <1>2 DEF Inv, TypeOK, Return
  <2>2. made[quote[r]] # "none"
    BY DEF Inv, RequestInv, HasQuote, AtWork
  <2>3. answer'[r] = "confirmed" => s = "success" /\ quote[r] \notin cache'
    BY DEF Outcome, Return, Delete, Inv, TypeOK
  <2>4. answer'[r] = "reverted_error" /\ via[r] # "pancakeswap" => s = "failure"
    BY DEF Outcome, Return, Inv, TypeOK
  <2>5. (Unsent(r) /\ Unanswered(r) /\ HasQuote(r) /\ LooksUp(r))'
    BY <2>1 DEF Unsent, Unanswered, HasQuote, LooksUp, AtWork
  <2>6. (ReplyIsTrue(r) /\ AnswerFollows(r))'
    BY <2>1, <2>2, <2>3, <2>4 DEF ReplyIsTrue, AnswerFollows
  <2> QED  BY <2>5, <2>6 DEF RequestInv
<1> QED  BY <1>3, <1>5, <1>6, <1>7 DEF Inv

LEMMA SendEndsStep ==
  ASSUME Inv, NEW r \in Requests, SendEnds(r)
  PROVE  Inv'
<1>1. PICK s \in Replies(r) :
        /\ reply' = [reply EXCEPT ![r] = s]
        /\ \/ Outcome(r, s)
           \/ /\ Keep /\ Goto(r, "lookup")
              /\ via[r] \notin UniversalRouters /\ s # "throws"
  BY SendEndsCases
<1>2. pc[r] = "sending" /\ UNCHANGED <<made, quote, via, ledger>>
  BY DEF SendEnds
<1>3. s \in {"success", "failure"} => ledger[r] = s
  BY DEF Replies
<1>4. CASE Outcome(r, s)
  BY <1>1, <1>2, <1>3, <1>4, OutcomeStep
<1>5. CASE /\ Keep /\ Goto(r, "lookup")
           /\ via[r] \notin UniversalRouters /\ s # "throws"
  <2>1. /\ s \in {"success", "failure", "null"}
        /\ via[r] \in SolanaRouters => s = "success"
    BY <1>5 DEF Replies, SolanaRouters, EvmRouters
  <2>2. TypeOK'
    BY <1>1, <1>2, <1>5, <2>1 DEF Inv, TypeOK, Keep, Goto
  <2>3. RemovedWasExecuted'
    BY <1>2, <1>5 DEF Inv, RemovedWasExecuted, Keep
  <2>4. ASSUME NEW q \in Requests PROVE RequestInv(q)'
    BY <1>1, <1>2, <1>3, <1>5, <2>1
       DEF Inv, TypeOK, Keep, Goto, RequestInv, Unsent, Unanswered, HasQuote,
           LooksUp, ReplyIsTrue, AnswerFollows, AtWork
  <2> QED  BY <2>2, <2>3, <2>4 DEF Inv
<1> QED  BY <1>1, <1>4, <1>5

LEMMA LookUpStep ==
  ASSUME Inv, NEW r \in Requests, LookUp(r)
  PROVE  Inv'
<1>1. Outcome(r, reply[r]) /\ pc[r] = "lookup" /\ UNCHANGED reply
  BY LookUpCases
<1>2. reply[r] \in {"success", "failure"} => ledger[r] = reply[r]
  BY DEF Inv, RequestInv, ReplyIsTrue
<1>3. reply' = [reply EXCEPT ![r] = reply[r]]
  BY <1>1 DEF Inv, TypeOK
<1>4. UNCHANGED <<made, quote, via, ledger>>
  BY DEF LookUp
<1> QED  BY <1>1, <1>2, <1>3, <1>4, OutcomeStep

LEMMA StepInv == Inv /\ [Next]_vars => Inv'
<1> SUFFICES ASSUME Inv, [Next]_vars PROVE Inv'
  OBVIOUS
<1>1. ASSUME NEW q \in Quotes, QuoteSwap(q) PROVE Inv'
  BY <1>1, QuoteSwapStep
<1>2. ASSUME NEW r \in Requests,
             ExecuteQuote(r) \/ Build(r) \/ Send(r) \/ Decide(r) \/ SendEnds(r) \/ LookUp(r)
      PROVE  Inv'
  BY <1>2, BeforeSendStep, SendStep, DecideStep, SendEndsStep, LookUpStep
<1>3. CASE UNCHANGED vars
  BY <1>3 DEF vars, Inv, TypeOK, RemovedWasExecuted, RequestInv, Unsent, Unanswered,
              HasQuote, LooksUp, ReplyIsTrue, AnswerFollows
<1> QED  BY <1>1, <1>2, <1>3 DEF Next

-----------------------------------------------------------------------------
LEMMA InvAlways == Spec => []Inv
BY InitInv, StepInv, PTL DEF Spec

LEMMA InvIsSafe == Inv => TypeOK /\ OutcomesAreTrue
BY DEF Inv, RequestInv, AnswerFollows, ReplyIsTrue, OutcomesAreTrue, ConfirmedIsExecuted,
       RevertedIsReverted

\* For any number of quotes, requests and connectors: the state keeps its type ...
THEOREM QuotesTyped == Spec => []TypeOK
BY InvAlways, InvIsSafe, PTL

\* ... status 1 is only answered for a swap that this request executed, the cache loses no
\* quote that was not, and a reported revert is one.
THEOREM QuotesAreSafe == Spec => []OutcomesAreTrue
BY InvAlways, InvIsSafe, PTL

\* An executed quote is not executed again by a request that starts after its
\* answer: its quote was made once, and is gone.
THEOREM ExecutedOnce == Spec => NoSendAfterConfirmed
<1>1. ASSUME Inv, [Next]_vars, NEW r \in Requests, NEW s \in Requests,
             pc[r] = "new", pc'[r] = "build", quote[s] = quote[r]
      PROVE  answer[s] # "confirmed"
  <2>1. quote[r] \in cache
    <3>1. \E t \in Requests :
            \/ ExecuteQuote(t) \/ Build(t) \/ Send(t) \/ SendEnds(t) \/ LookUp(t)
      BY <1>1 DEF Next, vars, QuoteSwap, Decide
    <3>2. PICK t \in Requests :
            \/ ExecuteQuote(t) \/ Build(t) \/ Send(t) \/ SendEnds(t) \/ LookUp(t)
      BY <3>1
    <3>3. t = r
      <4>1. \E p : pc' = [pc EXCEPT ![t] = p]
        BY <1>1, <3>2, SendEndsCases, LookUpCases
           DEF ExecuteQuote, Build, Send, Goto, Return, Outcome
      <4> QED  BY <1>1, <4>1 DEF Inv, TypeOK
    <3>4. ExecuteQuote(r)
      BY <1>1, <3>2, <3>3 DEF Build, Send, SendEnds, LookUp
    <3> QED  BY <1>1, <3>4 DEF ExecuteQuote, Return, Inv, TypeOK
  <2> QED  BY <1>1, <2>1 DEF Inv, RequestInv, AnswerFollows
<1>2. Inv /\ [Next]_vars =>
        [\A r, s \in Requests :
           /\ pc[r] = "new" /\ pc'[r] = "build"
           /\ quote[s] = quote[r]
           => answer[s] # "confirmed"]_vars
  BY <1>1
<1> QED  BY InitInv, StepInv, <1>2, PTL DEF Spec, NoSendAfterConfirmed

-----------------------------------------------------------------------------
(***************************************************************************)
(* Quoting.                                                                *)
(***************************************************************************)

\* A quote that is still being made is in nobody's hands.
MakingInv ==
  /\ ask \in [Quotes -> Ask]
  /\ made \in [Quotes -> Connectors \cup {"none"}]
  /\ stage \in [Quotes -> {"new", "route", "sell leg", "forward leg", "done"}]
  /\ \A q \in Quotes : stage[q] # "done" => made[q] = "none"

\* What any step of quoting q is to the cache: nothing yet, or the quote.
MovesOn(q) ==
  /\ \/ stage' = stage
     \/ \E s \in {"route", "sell leg", "forward leg", "done"} : stage' = [stage EXCEPT ![q] = s]
  /\ UNCHANGED <<cache, made>>

IsMade(q) ==
  /\ cache' = cache \cup {q}
  /\ made' = [made EXCEPT ![q] = ask[q].via]
  /\ stage' = [stage EXCEPT ![q] = "done"]

QuotingStep(q) == stage[q] # "done" /\ (MovesOn(q) \/ IsMade(q))

LEMMA PartsOfQuoting ==
  ASSUME NEW q \in Quotes
  PROVE  /\ \A a : Tells(q, a) => MovesOn(q)
         /\ \A s \in {"route", "sell leg", "forward leg"} : Asking(q, s) => MovesOn(q)
         /\ \A a : FailsWith(q, a) => MovesOn(q)
         /\ \A a : JupiterThrottled(q, a) => MovesOn(q)
         /\ \A t : Caches(q, t) => IsMade(q)
<1>1. \A a : Tells(q, a) => MovesOn(q)
  BY DEF Tells, MovesOn
<1>2. \A s \in {"route", "sell leg", "forward leg"} : Asking(q, s) => MovesOn(q)
  BY DEF Asking, MovesOn
<1>3. \A a : FailsWith(q, a) => MovesOn(q)
  BY <1>1 DEF FailsWith, Throttled, Ends, MovesOn
<1>4. \A a : JupiterThrottled(q, a) => MovesOn(q)
  BY DEF JupiterThrottled, Throttled, Ends, MovesOn
<1>5. \A t : Caches(q, t) => IsMade(q)
  BY DEF Caches, With, IsMade
<1> QED BY <1>1, <1>2, <1>3, <1>4, <1>5

LEMMA LegsAreSteps ==
  ASSUME NEW q \in Quotes, NEW v, NEW t
  PROVE  /\ ApproximateBuy(q, v, t) => QuotingStep(q)
         /\ Legs(q, v, t) => QuotingStep(q)
         /\ ExactInOnly(q, v, t) => QuotingStep(q)
<1>1. ApproximateBuy(q, v, t) => QuotingStep(q)
  BY PartsOfQuoting DEF ApproximateBuy, ByAsked, QuotingStep
<1>2. Legs(q, v, t) => QuotingStep(q)
  BY <1>1, PartsOfQuoting DEF Legs, InLeg, ByAsked, QuotingStep
<1>3. ExactInOnly(q, v, t) => QuotingStep(q)
  BY <1>2, PartsOfQuoting DEF ExactInOnly, ByAsked, QuotingStep
<1> QED BY <1>1, <1>2, <1>3

LEMMA ConnectorsQuote ==
  ASSUME NEW q \in Quotes,
         \/ QuoteUniswap(q) \/ QuotePancakeswap(q) \/ QuoteZeroX(q)
         \/ QuoteJupiter(q) \/ QuoteTitan(q) \/ QuoteDFlow(q) \/ QuoteOkx(q)
  PROVE  QuotingStep(q)
<1>1. CASE QuoteUniswap(q)
  BY <1>1, PartsOfQuoting DEF QuoteUniswap, ByAsked, QuotingStep
<1>2. CASE QuotePancakeswap(q)
  BY <1>2, PartsOfQuoting DEF QuotePancakeswap, ByAsked, QuotingStep
<1>3. CASE QuoteZeroX(q)
  BY <1>3, PartsOfQuoting DEF QuoteZeroX, ByAsked, QuotingStep
<1>4. CASE QuoteJupiter(q)
  BY <1>4, PartsOfQuoting, LegsAreSteps DEF QuoteJupiter, InLeg, ByAsked, QuotingStep
<1>5. CASE QuoteTitan(q)
  BY <1>5, PartsOfQuoting, LegsAreSteps DEF QuoteTitan, ByAsked, QuotingStep
<1>6. CASE QuoteDFlow(q)
  BY <1>6, PartsOfQuoting, LegsAreSteps DEF QuoteDFlow, ByAsked, QuotingStep
<1>7. CASE QuoteOkx(q)
  BY <1>7, PartsOfQuoting, LegsAreSteps DEF QuoteOkx, ByAsked, QuotingStep
<1> QED BY <1>1, <1>2, <1>3, <1>4, <1>5, <1>6, <1>7

LEMMA RequestsOnly ==
  ASSUME NEW r \in Requests,
         \/ ExecuteSwap(r) \/ BuildSwap(r) \/ Send(r) \/ Decide(r) \/ SendEnds(r) \/ LookUp(r)
  PROVE  Next /\ UNCHANGED made
BY DEF ExecuteSwap, BuildSwap, ExecuteQuote, Build, Send, Decide, SendEnds, LookUp, Next

LEMMA MakingHolds ==
  ASSUME MakingInv, [QuotingNext]_<<vars, quotingVars>>
  PROVE  MakingInv'
<1>1. CASE UNCHANGED <<vars, quotingVars>>
  BY <1>1 DEF MakingInv, vars, quotingVars
<1>2. ASSUME NEW q \in Quotes, QuotingStep(q), UNCHANGED ask
      PROVE  MakingInv'
  <2>1. CASE MovesOn(q)
    BY <1>2, <2>1 DEF MovesOn, QuotingStep, MakingInv
  <2>2. CASE IsMade(q)
    BY <1>2, <2>2 DEF IsMade, MakingInv, Ask
  <2> QED BY <1>2, <2>1, <2>2 DEF QuotingStep
<1>3. ASSUME UNCHANGED quotingVars, UNCHANGED made
      PROVE  MakingInv'
  BY <1>3 DEF MakingInv, quotingVars
<1> QED BY <1>1, <1>2, <1>3, ConnectorsQuote, RequestsOnly DEF QuotingNext

LEMMA QuotingRefines ==
  ASSUME MakingInv, [QuotingNext]_<<vars, quotingVars>>
  PROVE  [Next]_vars
<1>1. CASE UNCHANGED <<vars, quotingVars>>
  BY <1>1
<1>2. ASSUME NEW q \in Quotes, QuotingStep(q), UNCHANGED <<pc, quote, via, ledger, reply, answer>>
      PROVE  [Next]_vars
  <2>1. CASE MovesOn(q)
    BY <1>2, <2>1 DEF MovesOn, vars
  <2>2. CASE IsMade(q)
    <3>1. made[q] = "none" /\ ask[q].via \in Connectors
      BY <1>2 DEF MakingInv, QuotingStep, Ask
    <3>2. QuoteSwap(q)
      BY <1>2, <2>2, <3>1 DEF IsMade, QuoteSwap
    <3> QED BY <3>2 DEF Next
  <2> QED BY <1>2, <2>1, <2>2 DEF QuotingStep
<1>3. ASSUME NEW r \in Requests,
             \/ ExecuteSwap(r) \/ BuildSwap(r) \/ Send(r) \/ Decide(r) \/ SendEnds(r) \/ LookUp(r)
      PROVE  [Next]_vars
  BY <1>3, RequestsOnly
<1> QED BY <1>1, <1>2, <1>3, ConnectorsQuote DEF QuotingNext

LEMMA MakingStarts == QuotingInit => MakingInv
BY DEF QuotingInit, Init, MakingInv, Asks

\* However a connector comes by a quote, throttled, approximated or at once, to those who
\* execute it that is the one step of QuoteExecution, and its guarantees are theirs.
THEOREM QuotingImplements == QuotingSpec => QuotesAreOneStep
<1>1. QuotingInit => Init
  BY DEF QuotingInit
<1> QED BY <1>1, MakingStarts, MakingHolds, QuotingRefines, PTL DEF QuotingSpec, QuotesAreOneStep, Spec

\* So what is told of the swaps the connectors quote is true, too.
COROLLARY QuotedOutcomesAreTrue == QuotingSpec => []OutcomesAreTrue
BY QuotingImplements, QuotesAreSafe, PTL DEF QuotesAreOneStep

-----------------------------------------------------------------------------
(* The type of the quotes.                                                 *)

Stages == {"new", "route", "sell leg", "forward leg", "done"}
ToldTypes == {"none", "quote", "refused", "not_found", "no_route", "rate_limited", "error"}

\* A quote that is being made has attempts left.
AttemptsInv ==
  /\ tries \in [Quotes -> 0..RateLimitAttempts]
  /\ told \in [Quotes -> ToldTypes]
  /\ terms \in [Quotes -> Terms]
  /\ ask \in [Quotes -> Asks]
  /\ oneshot \subseteq Requests
  /\ \A q \in Quotes : stage[q] # "done" => tries[q] < RateLimitAttempts

\* What quoting q does to its bookkeeping.
TypedStep(q) ==
  \E s \in Stages, n \in 0..RateLimitAttempts, a \in ToldTypes, t \in Terms :
    /\ stage' = [stage EXCEPT ![q] = s]
    /\ tries' = [tries EXCEPT ![q] = n]
    /\ told' = [told EXCEPT ![q] = a]
    /\ terms' = [terms EXCEPT ![q] = t]
    /\ s # "done" => n < RateLimitAttempts

LEMMA PartsAreTyped ==
  ASSUME MakingInv, AttemptsInv, NEW q \in Quotes, stage[q] # "done"
  PROVE  /\ \A a \in ToldTypes : Tells(q, a) => TypedStep(q)
         /\ \A s \in Stages : Asking(q, s) => TypedStep(q)
         /\ \A a \in ToldTypes : FailsWith(q, a) => TypedStep(q)
         /\ \A a \in ToldTypes : JupiterThrottled(q, a) => TypedStep(q)
         /\ \A t \in Terms : Caches(q, t) => TypedStep(q)
<1>1. tries[q] \in Nat /\ tries[q] < RateLimitAttempts /\ RateLimitAttempts \in Nat \ {0}
  BY QuotingAssumption DEF AttemptsInv
<1>2. /\ {0, tries[q], tries[q] + 1} \subseteq 0..RateLimitAttempts
      /\ 0 < RateLimitAttempts
  BY <1>1
<1>3. told[q] \in ToldTypes /\ terms[q] \in Terms /\ stage[q] \in Stages
  BY DEF MakingInv, AttemptsInv, Stages
<1>4. /\ tries = [tries EXCEPT ![q] = tries[q]] /\ told = [told EXCEPT ![q] = told[q]]
      /\ terms = [terms EXCEPT ![q] = terms[q]] /\ stage = [stage EXCEPT ![q] = stage[q]]
  BY DEF MakingInv, AttemptsInv
<1>5. "done" \in Stages /\ "quote" \in ToldTypes
  BY DEF Stages, ToldTypes
<1>6. ASSUME NEW a \in ToldTypes, Tells(q, a) PROVE TypedStep(q)
  BY <1>1, <1>2, <1>3, <1>4, <1>5, <1>6 DEF Tells, TypedStep
<1>7. ASSUME NEW s \in Stages, Asking(q, s) PROVE TypedStep(q)
  BY <1>2, <1>3, <1>4, <1>7 DEF Asking, TypedStep
<1>8. ASSUME NEW a \in ToldTypes, FailsWith(q, a) PROVE TypedStep(q)
  <2>1. CASE Throttled(q) /\ Ends(q, a)
    BY <1>2, <1>3, <1>4, <1>5, <2>1 DEF Throttled, Ends, TypedStep
  <2> QED BY <1>6, <1>8, <2>1 DEF FailsWith
<1>9. ASSUME NEW a \in ToldTypes, JupiterThrottled(q, a) PROVE TypedStep(q)
  <2>1. CASE tries[q] + 1 < RateLimitAttempts /\ UNCHANGED <<stage, told>>
    BY <1>2, <1>3, <1>4, <1>9, <2>1 DEF JupiterThrottled, Throttled, TypedStep
  <2>2. CASE Ends(q, a)
    BY <1>2, <1>3, <1>4, <1>5, <1>9, <2>2 DEF JupiterThrottled, Throttled, Ends, TypedStep
  <2> QED BY <1>9, <2>1, <2>2 DEF JupiterThrottled, MaxAttempts
<1>10. ASSUME NEW t \in Terms, Caches(q, t) PROVE TypedStep(q)
  BY <1>2, <1>5, <1>10 DEF Caches, TypedStep
<1> QED BY <1>6, <1>7, <1>8, <1>9, <1>10

LEMMA TermsAreTyped ==
  ASSUME NEW a \in Ask
  PROVE  /\ {UniversalTerms(a), PancakeswapTerms(a), Approximated(a), AsAsked(a)} \subseteq Terms
         /\ a.wallet # "nobody" => ZeroXTerms(a) \in Terms
         /\ \A t \in Terms : [t EXCEPT !.approximation = FALSE] \in Terms
         /\ \A t \in Terms : a.wallet # "nobody" => [t EXCEPT !.pays = a.wallet] \in Terms
<1>1. /\ a.slippage \in {"configured", "tighter"}
      /\ a.wallet \in {"own", "other", "nobody"}
  BY DEF Ask
<1>2. /\ ExactBySide(a) \in {"exactIn", "exactOut"}
      /\ SlipsBySide(a) \in {"in", "out"}
      /\ Recipient(a) \in {"own", "other", "placeholder"}
  BY <1>1 DEF ExactBySide, SlipsBySide, Recipient
<1>3. UniversalTerms(a) \in Terms
  BY <1>1, <1>2 DEF UniversalTerms, SlippageOf, Terms
<1>4. PancakeswapTerms(a) \in Terms
  BY <1>3 DEF PancakeswapTerms, Terms
<1>5. Approximated(a) \in Terms
  BY <1>1 DEF Approximated, SlippageOf, Terms
<1>6. AsAsked(a) \in Terms
  BY <1>2, <1>5 DEF AsAsked, Terms
<1>7. \A t \in Terms : [t EXCEPT !.approximation = FALSE] \in Terms
  BY DEF Terms
<1>8. \A t \in Terms : a.wallet # "nobody" => [t EXCEPT !.pays = a.wallet] \in Terms
  BY <1>1 DEF Terms
<1>9. a.wallet # "nobody" => ZeroXTerms(a) \in Terms
  BY <1>3, <1>8 DEF ZeroXTerms
<1> QED BY <1>3, <1>4, <1>5, <1>6, <1>7, <1>8, <1>9

LEMMA LegsAreTyped ==
  ASSUME MakingInv, AttemptsInv, NEW q \in Quotes, stage[q] # "done", NEW v, NEW t \in Terms
  PROVE  /\ ApproximateBuy(q, v, t) => TypedStep(q)
         /\ Legs(q, v, t) => TypedStep(q)
         /\ ExactInOnly(q, v, t) => TypedStep(q)
<1>1. {"route", "sell leg", "forward leg"} \subseteq Stages
      /\ {"error", "refused", "no_route"} \subseteq ToldTypes
  BY DEF Stages, ToldTypes
<1>2. [t EXCEPT !.approximation = FALSE] \in Terms
  BY DEF Terms
<1>3. ApproximateBuy(q, v, t) => TypedStep(q)
  BY <1>1, PartsAreTyped DEF ApproximateBuy
<1>4. Legs(q, v, t) => TypedStep(q)
  BY <1>1, <1>3, PartsAreTyped DEF Legs
<1>5. ExactInOnly(q, v, t) => TypedStep(q)
  BY <1>1, <1>2, <1>4, PartsAreTyped DEF ExactInOnly
<1> QED BY <1>3, <1>4, <1>5

LEMMA ConnectorsAreTyped ==
  ASSUME MakingInv, AttemptsInv, NEW q \in Quotes,
         \/ QuoteUniswap(q) \/ QuotePancakeswap(q) \/ QuoteZeroX(q)
         \/ QuoteJupiter(q) \/ QuoteTitan(q) \/ QuoteDFlow(q) \/ QuoteOkx(q)
  PROVE  stage[q] # "done" /\ TypedStep(q)
<1>1. stage[q] # "done"
  BY ConnectorsQuote DEF QuotingStep
<1>2. /\ {"route", "sell leg", "forward leg"} \subseteq Stages
      /\ {"quote", "error", "refused", "not_found", "no_route", "rate_limited"} \subseteq ToldTypes
  BY DEF Stages, ToldTypes
<1>3. ask[q] \in Asks /\ ask[q] \in Ask
  BY DEF AttemptsInv, Asks
<1>4. /\ UniversalTerms(ask[q]) \in Terms
      /\ PancakeswapTerms(ask[q]) \in Terms
      /\ Approximated(ask[q]) \in Terms
      /\ AsAsked(ask[q]) \in Terms
  BY <1>3, TermsAreTyped
<1>5. CASE QuoteUniswap(q)
  BY <1>1, <1>2, <1>4, <1>5, PartsAreTyped DEF QuoteUniswap
<1>6. CASE QuotePancakeswap(q)
  BY <1>1, <1>2, <1>4, <1>6, PartsAreTyped DEF QuotePancakeswap
<1>7. CASE QuoteZeroX(q)
  <2>1. ask[q].via = "0x"
    BY <1>7 DEF QuoteZeroX, ByAsked
  <2>2. ZeroXTerms(ask[q]) \in Terms
    BY <1>3, <2>1, TermsAreTyped DEF Asks
  <2> QED BY <1>1, <1>2, <1>7, <2>2, PartsAreTyped DEF QuoteZeroX
<1>8. CASE QuoteJupiter(q)
  BY <1>1, <1>2, <1>4, <1>8, PartsAreTyped, LegsAreTyped DEF QuoteJupiter, AfterThrottling
<1>9. CASE QuoteTitan(q)
  <2>1. CASE ask[q].wallet # "nobody"
    <3>1. [Approximated(ask[q]) EXCEPT !.pays = ask[q].wallet] \in Terms
      BY <1>3, <1>4, <2>1, TermsAreTyped
    <3> QED BY <1>1, <1>2, <1>9, <3>1, PartsAreTyped, LegsAreTyped DEF QuoteTitan
  <2> QED BY <1>1, <1>2, <1>9, <2>1, PartsAreTyped DEF QuoteTitan
<1>10. CASE QuoteDFlow(q)
  BY <1>1, <1>2, <1>4, <1>10, PartsAreTyped, LegsAreTyped DEF QuoteDFlow
<1>11. CASE QuoteOkx(q)
  BY <1>1, <1>2, <1>4, <1>11, PartsAreTyped, LegsAreTyped DEF QuoteOkx
<1> QED BY <1>1, <1>5, <1>6, <1>7, <1>8, <1>9, <1>10, <1>11

LEMMA AttemptsStart == QuotingInit => AttemptsInv
<1> SUFFICES ASSUME QuotingInit PROVE AttemptsInv
  OBVIOUS
<1>1. 0 \in 0..RateLimitAttempts /\ 0 < RateLimitAttempts
  BY QuotingAssumption
<1>2. NoTerms \in Terms
  BY DEF NoTerms, Terms
<1> QED BY <1>1, <1>2 DEF QuotingInit, AttemptsInv, ToldTypes

LEMMA AttemptsHold ==
  ASSUME MakingInv, AttemptsInv, [QuotingNext]_<<vars, quotingVars>>
  PROVE  AttemptsInv'
<1>1. CASE UNCHANGED quotingVars
  BY <1>1 DEF AttemptsInv, quotingVars
<1>2. ASSUME NEW q \in Quotes, TypedStep(q), UNCHANGED <<ask, oneshot>>
      PROVE  AttemptsInv'
  <2>1. PICK s \in Stages, n \in 0..RateLimitAttempts, a \in ToldTypes, t \in Terms :
          /\ stage' = [stage EXCEPT ![q] = s]
          /\ tries' = [tries EXCEPT ![q] = n]
          /\ told' = [told EXCEPT ![q] = a]
          /\ terms' = [terms EXCEPT ![q] = t]
          /\ s # "done" => n < RateLimitAttempts
    BY <1>2 DEF TypedStep
  <2>2. /\ tries' \in [Quotes -> 0..RateLimitAttempts]
        /\ told' \in [Quotes -> ToldTypes]
        /\ terms' \in [Quotes -> Terms]
    BY <2>1 DEF AttemptsInv
  <2>3. \A p \in Quotes : stage'[p] # "done" => tries'[p] < RateLimitAttempts
    BY <2>1 DEF AttemptsInv, MakingInv
  <2>4. ask' \in [Quotes -> Asks] /\ oneshot' \subseteq Requests
    BY <1>2 DEF AttemptsInv
  <2> QED BY <2>2, <2>3, <2>4 DEF AttemptsInv
<1> QED BY <1>1, <1>2, ConnectorsAreTyped DEF QuotingNext

\* For any quotes, requests, connectors and number of attempts: the state of the quotes
\* keeps its type, and no throttled call is made again more often than it may.
THEOREM QuotingTyped == QuotingSpec => []QuotingTypeOK
<1>1. QuotingSpec => [](MakingInv /\ AttemptsInv)
  BY MakingStarts, MakingHolds, AttemptsStart, AttemptsHold, PTL DEF QuotingSpec
<1>2. QuotingSpec => []TypeOK
  BY QuotingImplements, QuotesTyped, PTL DEF QuotesAreOneStep
<1>3. TypeOK /\ MakingInv /\ AttemptsInv => QuotingTypeOK
  BY DEF QuotingTypeOK, MakingInv, AttemptsInv, ToldTypes
<1> QED BY <1>1, <1>2, <1>3, PTL

-----------------------------------------------------------------------------
(* What a quote promises, and what is executed.                            *)

\* Why a quote may be at a stage.
StageOf(a, s) ==
  /\ s = "route" => /\ a.via = "uniswap" => a.kind # "equivalent"
                    /\ a.via \in {"titan", "dflow"} => a.side = "SELL"
  /\ s \in {"sell leg", "forward leg"} => MayApproximate(a)

Promise(a, t) ==
  /\ a.side = "BUY" /\ t.mode = "exactIn" => a.approximate /\ t.approximation /\ t.slips = "out"
  /\ a.via # "pancakeswap" => t.bound = a.slippage
  /\ a.wallet = "own" \/ a.via \in {"jupiter", "dflow", "okx"} => t.pays \in {"own", "executor"}

PromiseInv ==
  /\ \A q \in Quotes : StageOf(ask[q], stage[q])
  /\ \A q \in Quotes : made[q] # "none" =>
       /\ stage[q] = "done" /\ told[q] = "quote"
       /\ made[q] = ask[q].via /\ ask[q].kind = "firm" /\ Promise(ask[q], terms[q])

PromisedStep(q) ==
  \/ /\ \E s \in Stages : StageOf(ask[q], s) /\ stage' = [stage EXCEPT ![q] = s]
     /\ \E a : told' = [told EXCEPT ![q] = a]
     /\ UNCHANGED <<made, terms>>
  \/ \E t : /\ Promise(ask[q], t) /\ ask[q].kind = "firm"
            /\ stage' = [stage EXCEPT ![q] = "done"]
            /\ told' = [told EXCEPT ![q] = "quote"]
            /\ terms' = [terms EXCEPT ![q] = t]
            /\ made' = [made EXCEPT ![q] = ask[q].via]

LEMMA PartsPromise ==
  ASSUME MakingInv, AttemptsInv, PromiseInv, NEW q \in Quotes
  PROVE  /\ \A a : Tells(q, a) => PromisedStep(q)
         /\ \A s \in Stages : Asking(q, s) /\ StageOf(ask[q], s) => PromisedStep(q)
         /\ \A a : FailsWith(q, a) => PromisedStep(q)
         /\ \A a : JupiterThrottled(q, a) => PromisedStep(q)
         /\ \A t : Caches(q, t) /\ Promise(ask[q], t) /\ ask[q].kind = "firm" => PromisedStep(q)
<1>1. told = [told EXCEPT ![q] = told[q]] /\ stage = [stage EXCEPT ![q] = stage[q]]
  BY DEF MakingInv, AttemptsInv
<1>2. /\ "done" \in Stages /\ StageOf(ask[q], "done")
      /\ stage[q] \in Stages /\ StageOf(ask[q], stage[q])
  BY DEF Stages, StageOf, MakingInv, PromiseInv
<1>3. ASSUME NEW a, Tells(q, a) PROVE PromisedStep(q)
  BY <1>2, <1>3 DEF Tells, PromisedStep
<1>4. ASSUME NEW s \in Stages, Asking(q, s), StageOf(ask[q], s) PROVE PromisedStep(q)
  BY <1>1, <1>4 DEF Asking, PromisedStep
<1>5. ASSUME NEW a, FailsWith(q, a) PROVE PromisedStep(q)
  BY <1>2, <1>3, <1>5 DEF FailsWith, Throttled, Ends, PromisedStep
<1>6. ASSUME NEW a, JupiterThrottled(q, a) PROVE PromisedStep(q)
  BY <1>1, <1>2, <1>6 DEF JupiterThrottled, Throttled, Ends, PromisedStep
<1>7. ASSUME NEW t, Caches(q, t), Promise(ask[q], t), ask[q].kind = "firm" PROVE PromisedStep(q)
  BY <1>7 DEF Caches, PromisedStep
<1> QED BY <1>3, <1>4, <1>5, <1>6, <1>7

\* The terms of each connector keep its promise.
LEMMA TermsPromise ==
  ASSUME NEW a \in Asks
  PROVE  /\ a.via = "uniswap" => Promise(a, UniversalTerms(a))
         /\ a.via = "pancakeswap" => Promise(a, PancakeswapTerms(a))
         /\ a.via = "0x" => Promise(a, ZeroXTerms(a))
         /\ a.side = "SELL" \/ MayApproximate(a) => Promise(a, Approximated(a))
         /\ a.side = "SELL" => Promise(a, [Approximated(a) EXCEPT !.approximation = FALSE])
         /\ Promise(a, AsAsked(a))
<1>1. a.side \in {"BUY", "SELL"} /\ a.wallet \in {"own", "other", "nobody"}
  BY DEF Asks, Ask
<1>2. a.via = "uniswap" => Promise(a, UniversalTerms(a))
  BY <1>1 DEF Promise, UniversalTerms, ExactBySide, SlipsBySide, SlippageOf, Recipient
<1>3. a.via = "pancakeswap" => Promise(a, PancakeswapTerms(a))
  BY <1>1 DEF Promise, PancakeswapTerms, UniversalTerms, ExactBySide, SlipsBySide, SlippageOf, Recipient
<1>4. a.via = "0x" => Promise(a, ZeroXTerms(a))
  BY <1>1 DEF Promise, ZeroXTerms, UniversalTerms, ExactBySide, SlipsBySide, SlippageOf, Recipient
<1>5. a.side = "SELL" \/ MayApproximate(a) => Promise(a, Approximated(a))
  BY DEF Promise, Approximated, MayApproximate, SlippageOf
<1>6. a.side = "SELL" => Promise(a, [Approximated(a) EXCEPT !.approximation = FALSE])
  BY DEF Promise, Approximated, SlippageOf
<1>7. Promise(a, AsAsked(a))
  BY <1>1 DEF Promise, AsAsked, Approximated, ExactBySide, SlipsBySide, SlippageOf
<1> QED BY <1>2, <1>3, <1>4, <1>5, <1>6, <1>7

\* Legs are those of an approximation; a route that is exact-in only is one of a SELL.
LEMMA LegsPromise ==
  ASSUME MakingInv, AttemptsInv, PromiseInv, NEW q \in Quotes, NEW v, NEW t, ask[q].kind = "firm",
         MayApproximate(ask[q]) => Promise(ask[q], t)
  PROVE  /\ ApproximateBuy(q, v, t) => PromisedStep(q)
         /\ Legs(q, v, t) => PromisedStep(q)
         /\ v \in {"titan", "dflow"} /\ ExactInOnly(q, v, t)
              /\ (ask[q].side = "SELL" => Promise(ask[q], [t EXCEPT !.approximation = FALSE]))
            => PromisedStep(q)
<1>1. /\ {"route", "sell leg", "forward leg"} \subseteq Stages
      /\ StageOf(ask[q], stage[q])
  BY DEF Stages, PromiseInv
<1>2. ApproximateBuy(q, v, t) => PromisedStep(q)
  BY <1>1, PartsPromise DEF ApproximateBuy, ByAsked, StageOf
<1>3. Legs(q, v, t) => PromisedStep(q)
  BY <1>2, PartsPromise DEF Legs
<1>4. ASSUME v \in {"titan", "dflow"}, ExactInOnly(q, v, t),
             ask[q].side = "SELL" => Promise(ask[q], [t EXCEPT !.approximation = FALSE])
      PROVE  PromisedStep(q)
  <2>1. CASE ByAsked(q, v, "new") /\ ask[q].side = "SELL" /\ Asking(q, "route")
    BY <1>1, <1>4, <2>1, PartsPromise DEF ByAsked, StageOf
  <2>2. CASE ByAsked(q, v, "new") /\ MayApproximate(ask[q]) /\ Asking(q, "sell leg")
    BY <1>1, <2>2, PartsPromise DEF StageOf
  <2>3. CASE /\ ByAsked(q, v, "route")
             /\ Caches(q, [t EXCEPT !.approximation = FALSE]) \/ FailsWith(q, "no_route")
    <3>1. ask[q].side = "SELL"
      BY <1>1, <1>4, <2>3 DEF ByAsked, StageOf
    <3> QED BY <1>4, <2>3, <3>1, PartsPromise
  <2> QED BY <1>3, <1>4, <2>1, <2>2, <2>3 DEF ExactInOnly
<1> QED BY <1>2, <1>3, <1>4

LEMMA ConnectorsPromise ==
  ASSUME MakingInv, AttemptsInv, PromiseInv, NEW q \in Quotes,
         \/ QuoteUniswap(q) \/ QuotePancakeswap(q) \/ QuoteZeroX(q)
         \/ QuoteJupiter(q) \/ QuoteTitan(q) \/ QuoteDFlow(q) \/ QuoteOkx(q)
  PROVE  PromisedStep(q)
<1> DEFINE a == ask[q]
<1>1. a \in Asks /\ a.side \in {"BUY", "SELL"} /\ a.kind \in {"firm", "indicative", "equivalent"}
  BY DEF AttemptsInv, Asks, Ask
<1>2. {"route", "sell leg", "forward leg"} \subseteq Stages /\ StageOf(a, stage[q])
  BY DEF Stages, PromiseInv
<1>3. a.via \notin {"uniswap", "0x"} => a.kind = "firm"
  BY <1>1 DEF Asks
<1>4. CASE QuoteUniswap(q)
  <2>1. a.via = "uniswap" /\ a.kind # "indicative"
    BY <1>1, <1>4 DEF QuoteUniswap, ByAsked, Asks
  <2>2. CASE ByAsked(q, "uniswap", "new") /\ a.kind = "equivalent" /\ Tells(q, "quote")
    BY <2>2, PartsPromise
  <2>3. CASE ByAsked(q, "uniswap", "new") /\ a.kind # "equivalent"
             /\ (Tells(q, "not_found") \/ Asking(q, "route"))
    BY <1>2, <2>1, <2>3, PartsPromise DEF StageOf
  <2>4. CASE ByAsked(q, "uniswap", "route")
             /\ (Caches(q, UniversalTerms(a)) \/ FailsWith(q, "error"))
    <3>1. a.kind = "firm"
      BY <1>1, <1>2, <2>1, <2>4 DEF ByAsked, StageOf
    <3> QED BY <1>1, <2>1, <2>4, <3>1, PartsPromise, TermsPromise
  <2> QED BY <1>4, <2>2, <2>3, <2>4 DEF QuoteUniswap
<1>5. CASE QuotePancakeswap(q)
  <2>1. a.via = "pancakeswap" /\ a.kind = "firm" /\ StageOf(a, "route")
    BY <1>3, <1>5 DEF QuotePancakeswap, ByAsked, StageOf
  <2> QED BY <1>1, <1>2, <1>5, <2>1, PartsPromise, TermsPromise DEF QuotePancakeswap
<1>6. CASE QuoteZeroX(q)
  <2>1. a.via = "0x" /\ StageOf(a, "route")
    BY <1>6 DEF QuoteZeroX, ByAsked, StageOf
  <2> QED BY <1>1, <1>2, <1>6, <2>1, PartsPromise, TermsPromise DEF QuoteZeroX, IsFirm
<1>7. CASE QuoteJupiter(q)
  <2>1. a.via = "jupiter" /\ a.kind = "firm" /\ StageOf(a, "route")
    BY <1>3, <1>7 DEF QuoteJupiter, InLeg, ApproximateBuy, ByAsked, StageOf
  <2>2. /\ MayApproximate(a) => StageOf(a, "sell leg")
        /\ MayApproximate(a) => Promise(a, Approximated(a))
        /\ Promise(a, AsAsked(a))
    BY <1>1, TermsPromise DEF StageOf
  <2> QED BY <1>2, <1>7, <2>1, <2>2, PartsPromise, LegsPromise DEF QuoteJupiter
<1>8. CASE QuoteTitan(q)
  <2> DEFINE t == [Approximated(a) EXCEPT !.pays = a.wallet]
  <2>1. a.via = "titan" /\ a.kind = "firm"
    BY <1>3, <1>8 DEF QuoteTitan, ExactInOnly, Legs, InLeg, ApproximateBuy, ByAsked
  <2>2. MayApproximate(a) => Promise(a, t)
    BY <2>1 DEF Promise, Approximated, MayApproximate, SlippageOf
  <2>3. a.side = "SELL" => Promise(a, [t EXCEPT !.approximation = FALSE])
    BY <2>1 DEF Promise, Approximated, SlippageOf
  <2> HIDE DEF t
  <2>4. CASE Tells(q, "refused")
    BY <2>4, PartsPromise
  <2>5. CASE ExactInOnly(q, "titan", t)
    BY <2>1, <2>2, <2>3, <2>5, LegsPromise
  <2> QED BY <1>8, <2>4, <2>5 DEF QuoteTitan, t
<1>9. CASE QuoteDFlow(q)
  <2>1. a.via = "dflow" /\ a.kind = "firm"
    BY <1>3, <1>9 DEF QuoteDFlow, ExactInOnly, Legs, InLeg, ApproximateBuy, ByAsked
  <2>2. /\ MayApproximate(a) => Promise(a, Approximated(a))
        /\ a.side = "SELL" => Promise(a, [Approximated(a) EXCEPT !.approximation = FALSE])
    BY <1>1, TermsPromise
  <2> QED BY <1>9, <2>1, <2>2, PartsPromise, LegsPromise DEF QuoteDFlow
<1>10. CASE QuoteOkx(q)
  <2>1. a.via = "okx" /\ a.kind = "firm" /\ StageOf(a, "route")
    BY <1>3, <1>10 DEF QuoteOkx, Legs, InLeg, ApproximateBuy, ByAsked, StageOf
  <2>2. /\ MayApproximate(a) => StageOf(a, "sell leg")
        /\ MayApproximate(a) => Promise(a, Approximated(a))
        /\ Promise(a, AsAsked(a))
    BY <1>1, TermsPromise DEF StageOf
  <2> QED BY <1>2, <1>10, <2>1, <2>2, PartsPromise, LegsPromise DEF QuoteOkx
<1> QED BY <1>4, <1>5, <1>6, <1>7, <1>8, <1>9, <1>10

LEMMA PromiseStarts == QuotingInit => PromiseInv
BY DEF QuotingInit, Init, PromiseInv, StageOf

LEMMA PromiseHolds ==
  ASSUME MakingInv, AttemptsInv, PromiseInv, [QuotingNext]_<<vars, quotingVars>>
  PROVE  PromiseInv'
<1>1. ASSUME UNCHANGED quotingVars, UNCHANGED made
      PROVE  PromiseInv'
  <2>1. UNCHANGED <<ask, stage, told, terms, made>> BY <1>1 DEF quotingVars
  <2> SUFFICES ASSUME NEW q \in Quotes
               PROVE  /\ StageOf(ask[q], stage[q])'
                      /\ (made[q] # "none")' =>
                           /\ stage'[q] = "done" /\ told'[q] = "quote"
                           /\ made'[q] = ask'[q].via /\ ask'[q].kind = "firm" /\ Promise(ask[q], terms[q])'
    BY DEF PromiseInv
  <2>2. StageOf(ask[q], stage[q])' <=> StageOf(ask[q], stage[q]) BY <2>1 DEF StageOf, MayApproximate
  <2>3. Promise(ask[q], terms[q])' <=> Promise(ask[q], terms[q]) BY <2>1 DEF Promise
  <2> QED BY <2>1, <2>2, <2>3 DEF PromiseInv
<1>2. ASSUME NEW q \in Quotes, PromisedStep(q), stage[q] # "done", UNCHANGED ask
      PROVE  PromiseInv'
  <2>1. \A p \in Quotes : StageOf(ask[p], stage'[p])
    <3>1. StageOf(ask[q], "done")
      BY DEF StageOf
    <3> QED BY <1>2, <3>1 DEF PromisedStep, PromiseInv, MakingInv
  <2>2. ASSUME NEW p \in Quotes, made'[p] # "none"
        PROVE  /\ stage'[p] = "done" /\ told'[p] = "quote"
               /\ made'[p] = ask[p].via /\ ask[p].kind = "firm" /\ Promise(ask[p], terms'[p])
    <3>1. CASE p = q
      <4>1. made[q] = "none"
        BY <1>2 DEF MakingInv
      <4> QED BY <1>2, <2>2, <3>1, <4>1 DEF PromisedStep, MakingInv, AttemptsInv
    <3>2. CASE p # q
      <4>1. /\ made'[p] = made[p] /\ stage'[p] = stage[p]
            /\ told'[p] = told[p] /\ terms'[p] = terms[p]
        BY <1>2, <3>2 DEF PromisedStep, MakingInv, AttemptsInv
      <4> QED BY <2>2, <4>1 DEF PromiseInv
    <3> QED BY <3>1, <3>2
  <2> QED BY <1>2, <2>1, <2>2 DEF PromiseInv
<1>3. CASE UNCHANGED <<vars, quotingVars>>
  BY <1>1, <1>3 DEF vars
<1>4. ASSUME NEW q \in Quotes,
             \/ QuoteUniswap(q) \/ QuotePancakeswap(q) \/ QuoteZeroX(q)
             \/ QuoteJupiter(q) \/ QuoteTitan(q) \/ QuoteDFlow(q) \/ QuoteOkx(q),
             UNCHANGED ask
      PROVE  PromiseInv'
  BY <1>2, <1>4, ConnectorsPromise, ConnectorsAreTyped
<1>5. ASSUME NEW r \in Requests, UNCHANGED quotingVars,
             ExecuteSwap(r) \/ BuildSwap(r) \/ Send(r) \/ Decide(r) \/ SendEnds(r) \/ LookUp(r)
      PROVE  PromiseInv'
  BY <1>1, <1>5, RequestsOnly
<1> QED BY <1>3, <1>4, <1>5 DEF QuotingNext

\* What is sent may be: the connector of the route can use the quote, which Titan executes
\* for its wallet only; an executeSwap has quoted for its own.
MaySend(r) ==
  /\ made[quote[r]] # "none" /\ Usable(r)
  /\ via[r] = "titan" => ask[quote[r]].wallet = "own"

SendingInv ==
  /\ \A r \in Requests : ledger[r] # "absent" \/ pc[r] \in {"send", "sending", "lookup"} => MaySend(r)
  /\ \A r \in oneshot : ask[quote[r]].wallet = "own"

LEMMA SendingStarts == QuotingInit => SendingInv
BY DEF QuotingInit, Init, SendingInv

\* What a quote was made by, and for whom, is never changed.
LEMMA MaySendStays ==
  ASSUME MakingInv, Inv, [QuotingNext]_<<vars, quotingVars>>, NEW r \in Requests, MaySend(r)
  PROVE  MaySend(r)'
<1>1. UNCHANGED <<ask, quote, via>>
  BY DEF QuotingNext, vars, quotingVars, ExecuteSwap, BuildSwap, ExecuteQuote, Build, Send, Decide,
         SendEnds, LookUp
<1>2. made'[quote[r]] = made[quote[r]]
  <2>1. quote[r] \in Quotes
    BY DEF Inv, TypeOK
  <2>2. CASE UNCHANGED made
    BY <2>2
  <2>3. ASSUME NEW q \in Quotes, QuotingStep(q)
        PROVE  made'[quote[r]] = made[quote[r]]
    BY <2>1, <2>3 DEF MaySend, QuotingStep, MovesOn, IsMade, MakingInv
  <2> QED BY <2>2, <2>3, ConnectorsQuote, RequestsOnly DEF QuotingNext, vars
<1> QED BY <1>1, <1>2 DEF MaySend, Usable

LEMMA SendingHolds ==
  ASSUME MakingInv, Inv, SendingInv, [QuotingNext]_<<vars, quotingVars>>
  PROVE  SendingInv'
<1>1. UNCHANGED <<ask, quote, via, oneshot>>
  BY DEF QuotingNext, vars, quotingVars, ExecuteSwap, BuildSwap, ExecuteQuote, Build, Send, Decide,
         SendEnds, LookUp
<1>2. ASSUME NEW r \in Requests, ledger'[r] # "absent" \/ pc'[r] \in {"send", "sending", "lookup"}
      PROVE  MaySend(r)'
  <2> SUFFICES MaySend(r)
    BY MaySendStays
  <2>1. CASE ledger[r] # "absent" \/ pc[r] \in {"send", "sending", "lookup"}
    BY <2>1 DEF SendingInv
  <2>2. CASE ledger[r] = "absent" /\ pc[r] \notin {"send", "sending", "lookup"}
    <3>1. BuildSwap(r) /\ pc'[r] = "send"
      <4>1. PICK t \in Requests :
              ExecuteSwap(t) \/ BuildSwap(t) \/ Send(t) \/ Decide(t) \/ SendEnds(t) \/ LookUp(t)
        BY <1>2, <2>2 DEF QuotingNext, vars
      <4>2. ~ExecuteSwap(t)
        BY <1>2, <2>2 DEF ExecuteSwap, ExecuteQuote, Goto, Return, Inv, TypeOK
      <4>3. ~Send(t) /\ ~Decide(t)
        BY <1>2, <2>2 DEF Send, Decide, Goto, Inv, TypeOK
      <4>4. ASSUME SendEnds(t) \/ LookUp(t) PROVE FALSE
        <5>1. t # r /\ UNCHANGED ledger
          BY <2>2, <4>4 DEF SendEnds, LookUp
        <5>2. pc'[r] = pc[r]
          BY <4>4, <5>1, SendEndsCases, LookUpCases DEF Outcome, Goto, Return, Inv, TypeOK
        <5> QED BY <1>2, <2>2, <5>1, <5>2
      <4>5. CASE BuildSwap(t)
        BY <1>2, <2>2, <4>5 DEF BuildSwap, Build, Goto, Return, Inv, TypeOK
      <4> QED BY <4>1, <4>2, <4>3, <4>4, <4>5
    <3>2. pc[r] = "build" /\ answer[r] = "none" /\ made[quote[r]] # "none"
      BY <3>1 DEF BuildSwap, Build, Inv, RequestInv, Unanswered, HasQuote, AtWork
    <3>3. Usable(r) /\ answer'[r] = "none"
      BY <3>1, <3>2 DEF BuildSwap, Build, Goto, Return, Inv, TypeOK
    <3>4. via[r] = "titan" => ask[quote[r]].wallet = "own"
      BY <3>1, <3>3 DEF BuildSwap, WrongWallet
    <3> QED BY <3>2, <3>3, <3>4 DEF MaySend
  <2> QED BY <2>1, <2>2
<1>3. \A r \in oneshot' : ask'[quote'[r]].wallet = "own"
  BY <1>1 DEF SendingInv
<1> QED BY <1>2, <1>3 DEF SendingInv

LEMMA QuotingInvariants == QuotingSpec => [](Inv /\ MakingInv /\ AttemptsInv /\ PromiseInv /\ SendingInv)
<1>1. QuotingSpec => []Inv
  BY QuotingImplements, InvAlways, PTL DEF QuotesAreOneStep
<1> QED BY <1>1, MakingStarts, MakingHolds, AttemptsStart, AttemptsHold, PromiseStarts,
           PromiseHolds, SendingStarts, SendingHolds, PTL DEF QuotingSpec

\* What is sent is a quote that is known, and what it promises (PromiseInv).
LEMMA SentIsPromised == Inv /\ PromiseInv /\ SendingInv => SwapsAsAsked
<1> SUFFICES ASSUME Inv, PromiseInv, SendingInv, NEW r \in Requests, ledger[r] # "absent"
    PROVE  /\ told[quote[r]] = "quote" /\ ask[quote[r]].kind = "firm"
           /\ made[quote[r]] = ask[quote[r]].via
           /\ Promise(ask[quote[r]], terms[quote[r]])
  BY DEF SwapsAsAsked, SentWasQuoted, BoughtAsAllowed, SlippageIsKept, Promise
<1>1. quote[r] \in Quotes /\ made[quote[r]] # "none"
  BY DEF Inv, TypeOK, SendingInv, MaySend
<1> QED BY <1>1 DEF PromiseInv

\* What is confirmed was sent, by the wallet that it promises to pay.
LEMMA ConfirmedPays == Inv /\ PromiseInv /\ SendingInv => PaidToWhoSwaps
<1> SUFFICES ASSUME Inv, PromiseInv, SendingInv, NEW r \in Requests, Confirmed(r),
                    r \in oneshot \/ via[r] \in SolanaRouters
    PROVE  terms[quote[r]].pays \in {"own", "executor"}
  BY DEF PaidToWhoSwaps
<1>1. ledger[r] = "success"
  BY InvIsSafe DEF Confirmed, OutcomesAreTrue, ConfirmedIsExecuted
<1>2. MaySend(r) /\ quote[r] \in Quotes
  BY <1>1 DEF SendingInv, Inv, TypeOK
<1>3. made[quote[r]] = ask[quote[r]].via /\ Promise(ask[quote[r]], terms[quote[r]])
  BY <1>2 DEF PromiseInv, MaySend
<1>4. CASE r \in oneshot
  BY <1>3, <1>4 DEF SendingInv, Promise
<1>5. CASE via[r] \in SolanaRouters
  <2>1. ask[quote[r]].via = via[r]
    BY <1>2, <1>3, <1>5 DEF MaySend, Usable, UniversalRouters, SolanaRouters
  <2> QED BY <1>2, <1>3, <1>5, <2>1 DEF MaySend, Promise, SolanaRouters
<1> QED BY <1>4, <1>5

\* A transaction is only sent for a firm quote that its client was told; it buys with a
\* fixed amount only where that was allowed and told, and keeps the slippage asked for.
THEOREM ExecutedAsAsked == QuotingSpec => []SwapsAsAsked
BY QuotingInvariants, SentIsPromised, PTL

\* The tokens of a swap that was quoted and executed in one go, and of every swap of a
\* Solana router, are those of the wallet that executed it.
THEOREM PaidToItsWallet == QuotingSpec => []PaidToWhoSwaps
BY QuotingInvariants, ConfirmedPays, PTL
=============================================================================
