-------------------------- MODULE BrokenLeg_proofs --------------------------
(***************************************************************************)
(* The safety of BrokenLeg for every leg size and every number of re-pegs, *)
(* and that it implements PairedTrade.                                     *)
(***************************************************************************)
EXTENDS BrokenLeg, TLAPS

USE AmountAssumption, MaxRepegsAssumption
    DEF Legs, NoLeg, Statuses, LegStates, PCs, Opposite

Answered == \A l \in Legs : legState[l] \in {"accepted", "rejected"}

\* What an unanswered or rejected leg holds, and what an accepted one holds
\* until the mitigator starts flattening it.
LegsSound ==
    \A l \in Legs :
        /\ legState[l] \in {"unsent", "sent", "rejected"} => held[l] = 0 /\ filled[l] = 0
        /\ legState[l] = "accepted" /\ openLeg = NoLeg => held[l] = filled[l]

\* The coroutine has an open leg exactly from LegBroken on.
PhaseSound ==
    /\ pc = "call" => \A l \in Legs : legState[l] = "unsent"
    /\ pc \in {"call", "gather"} => openLeg = NoLeg
    /\ Hedging => openLeg # NoLeg
    /\ openLeg # NoLeg => legState[openLeg] = "accepted" /\ legState[Opposite(openLeg)] = "rejected"
    /\ openLeg = NoLeg => filledTotal = 0
    /\ pc \in {"best_bid", "limit"} => remaining > 0 /\ repegs > 0
    /\ status # "none" <=> pc = "returned"
    /\ pc = "returned" => Answered
    /\ pc = "returned" /\ openLeg = NoLeg => status \in {"SUCCESS", "REJECTED"}
    /\ pc = "returned" /\ openLeg # NoLeg => status \in {"HEDGED", "PARTIAL_FILL"}

IInv == TypeOK /\ LegsSound /\ PhaseSound /\ HedgeBooksMatchVenue /\ StatusTruthful

LEMMA InitInv == Init => IInv
BY DEF Init, IInv, TypeOK, LegsSound, PhaseSound,
       Hedging, HedgeBooksMatchVenue, StatusTruthful, Answered

LEMMA LegsFacts ==
    /\ \A l \in Legs : Opposite(l) \in Legs /\ Opposite(l) # l
    /\ \A l, k \in Legs : k = l \/ k = Opposite(l)
    /\ NoLeg \notin Legs
OBVIOUS

-----------------------------------------------------------------------------
(* One lemma per action: it preserves the invariant.                       *)

LEMMA FireLegsInv == IInv /\ FireLegs => IInv'
BY LegsFacts DEF IInv, TypeOK, LegsSound, PhaseSound,
       Hedging, HedgeBooksMatchVenue, StatusTruthful, Answered, FireLegs, coroutine

LEMMA LegAcceptedInv == ASSUME NEW l \in Legs, IInv, LegAccepted(l) PROVE IInv'
BY LegsFacts DEF IInv, TypeOK, LegsSound, PhaseSound,
       Hedging, HedgeBooksMatchVenue, StatusTruthful, Answered, LegAccepted, coroutine

LEMMA LegRejectedInv == ASSUME NEW l \in Legs, IInv, LegRejected(l) PROVE IInv'
BY LegsFacts DEF IInv, TypeOK, LegsSound, PhaseSound,
       Hedging, HedgeBooksMatchVenue, StatusTruthful, Answered, LegRejected, coroutine

LEMMA LegRaisedInv == ASSUME NEW l \in Legs, IInv, LegRaised(l) PROVE IInv'
BY LegsFacts DEF IInv, TypeOK, LegsSound, PhaseSound,
       Hedging, HedgeBooksMatchVenue, StatusTruthful, Answered, LegRaised, coroutine

LEMMA GatherRaisesInv == IInv /\ GatherRaises => IInv'
BY LegsFacts DEF IInv, TypeOK, LegsSound, PhaseSound,
       Hedging, HedgeBooksMatchVenue, StatusTruthful, Answered, GatherRaises, coroutine

LEMMA BothAcceptedInv == IInv /\ BothAccepted => IInv'
BY LegsFacts DEF IInv, TypeOK, LegsSound, PhaseSound,
       Hedging, HedgeBooksMatchVenue, StatusTruthful, Answered, BothAccepted, GatherAnswered,
       Smaller

LEMMA BothRejectedInv == IInv /\ BothRejected => IInv'
BY LegsFacts DEF IInv, TypeOK, LegsSound, PhaseSound,
       Hedging, HedgeBooksMatchVenue, StatusTruthful, Answered, BothRejected, GatherAnswered

LEMMA LegBrokenInv == ASSUME NEW l \in Legs, IInv, LegBroken(l) PROVE IInv'
BY LegsFacts DEF IInv, TypeOK, LegsSound, PhaseSound,
       Hedging, HedgeBooksMatchVenue, StatusTruthful, Answered, LegBroken, GatherAnswered,
       NextHedgeOrder, Report

LEMMA BestBidInv == IInv /\ (BestBidKnown \/ BestBidRaises) => IInv'
BY LegsFacts DEF IInv, TypeOK, LegsSound, PhaseSound,
       Hedging, HedgeBooksMatchVenue, StatusTruthful, Answered, BestBidKnown, BestBidRaises,
       coroutine

LEMMA LimitAnsweredInv == ASSUME IInv, LimitAnswered PROVE IInv'
<1>1. /\ pc = "limit" /\ Hedging /\ openLeg \in Legs /\ status = "none"
      /\ repegs \in 1..MaxRepegs
  BY DEF IInv, TypeOK, PhaseSound, Hedging, LimitAnswered, LimitFilled
<1>2. /\ remaining = held[openLeg] /\ remaining \in 0..Amount
      /\ filled[openLeg] \in 0..Amount
      /\ filledTotal \in 0..Amount /\ filledTotal = filled[openLeg] - remaining
      /\ held[Opposite(openLeg)] = 0
      /\ legState[openLeg] = "accepted" /\ legState[Opposite(openLeg)] = "rejected"
  BY <1>1 DEF IInv, TypeOK, PhaseSound, HedgeBooksMatchVenue
<1>3. PICK f \in 0..remaining :
        /\ held' = [held EXCEPT ![openLeg] = @ - f]
        /\ filledTotal' = filledTotal + f /\ remaining' = remaining - f
        /\ repegs' = repegs - 1
        /\ NextHedgeOrder(remaining - f, repegs - 1, filledTotal + f, filled[openLeg])
  BY DEF LimitAnswered, LimitFilled, HedgeFills
<1>4. UNCHANGED <<highVolatility, legState, filled, openLeg>>
  BY DEF LimitAnswered, LimitFilled
<1>5. /\ held' \in [Legs -> 0..Amount] /\ held'[openLeg] = remaining'
      /\ held'[Opposite(openLeg)] = 0
      /\ \A l \in Legs : l # openLeg => held'[l] = held[l]
  BY <1>1, <1>2, <1>3 DEF IInv, TypeOK
<1>6. \/ /\ remaining' > 0 /\ UNCHANGED <<status, volume>>
         /\ pc' = IF repegs' > 0 THEN "best_bid" ELSE "market"
      \/ /\ remaining' = 0 /\ pc' = "returned" /\ status' = "HEDGED"
         /\ volume' = filled[openLeg]
  BY <1>1, <1>2, <1>3 DEF NextHedgeOrder, Report
<1>7. TypeOK'
  BY <1>1, <1>2, <1>3, <1>4, <1>5, <1>6 DEF IInv, TypeOK
<1>8. LegsSound'
  BY <1>1, <1>2, <1>4, <1>5 DEF IInv, LegsSound
<1>9. PhaseSound'
  BY <1>1, <1>2, <1>3, <1>4, <1>6 DEF PhaseSound, Hedging, Answered
<1>10. HedgeBooksMatchVenue'
  BY <1>2, <1>3, <1>4, <1>5 DEF HedgeBooksMatchVenue
<1>11. StatusTruthful'
  <2>1. \A l \in Legs : legState'[l] # "sent"
    BY <1>1, <1>2, <1>4
  <2>2. QED
    BY <1>1, <1>4, <1>5, <1>6, <2>1 DEF StatusTruthful
<1>12. QED
  BY <1>7, <1>8, <1>9, <1>10, <1>11 DEF IInv

LEMMA MarketAnsweredInv == ASSUME IInv, MarketAnswered PROVE IInv'
<1>1. /\ pc = "market" /\ Hedging /\ openLeg \in Legs
      /\ remaining = held[openLeg] /\ remaining \in 0..Amount
      /\ filled[openLeg] \in 0..Amount /\ filledTotal = filled[openLeg] - remaining
      /\ held[Opposite(openLeg)] = 0
      /\ legState[openLeg] = "accepted" /\ legState[Opposite(openLeg)] = "rejected"
  BY DEF IInv, TypeOK, PhaseSound, Hedging, HedgeBooksMatchVenue, MarketAnswered
<1>2. PICK f \in 0..remaining :
        /\ held' = [held EXCEPT ![openLeg] = @ - f]
        /\ filledTotal' = filledTotal + f
        /\ Report(filledTotal + f, filled[openLeg])
  BY DEF MarketAnswered, HedgeFills
<1>3. UNCHANGED <<highVolatility, legState, filled, openLeg, remaining, repegs>>
  BY DEF MarketAnswered
<1>4. /\ held' \in [Legs -> 0..Amount] /\ held'[openLeg] = remaining - f
      /\ \A l \in Legs : l # openLeg => held'[l] = held[l]
  BY <1>1, <1>2 DEF IInv, TypeOK
<1>5. /\ pc' = "returned" /\ volume' = filled[openLeg]
      /\ status' = IF f = remaining THEN "HEDGED" ELSE "PARTIAL_FILL"
  BY <1>1, <1>2 DEF Report
<1>6. TypeOK'
  BY <1>1, <1>2, <1>3, <1>4, <1>5 DEF IInv, TypeOK
<1>7. LegsSound'
  BY <1>1, <1>3, <1>4 DEF IInv, LegsSound
<1>8. PhaseSound'
  BY <1>1, <1>3, <1>5 DEF PhaseSound, Hedging, Answered
<1>9. HedgeBooksMatchVenue' /\ StatusTruthful'
  BY <1>1, <1>3, <1>4, <1>5 DEF HedgeBooksMatchVenue, StatusTruthful, Hedging
<1>10. QED
  BY <1>6, <1>7, <1>8, <1>9 DEF IInv

LEMMA HedgeOrderRaisesInv == ASSUME IInv, HedgeOrderRaises PROVE IInv'
<1>1. Hedging /\ openLeg \in Legs
  BY DEF IInv, TypeOK, PhaseSound, Hedging, HedgeOrderRaises
<1>2. /\ remaining = held[openLeg] /\ held[openLeg] \in 0..Amount
      /\ legState[openLeg] = "accepted" /\ legState[Opposite(openLeg)] = "rejected"
  BY <1>1 DEF IInv, TypeOK, PhaseSound, HedgeBooksMatchVenue
<1>3. PICK f \in 0..remaining : HedgeFills(f)
  BY DEF HedgeOrderRaises
<1>4. /\ held' \in [Legs -> 0..Amount]
      /\ \A l \in Legs : l # openLeg => held'[l] = held[l]
  BY <1>1, <1>2, <1>3 DEF IInv, TypeOK, HedgeFills
<1>5. pc' = "raised" /\ UNCHANGED <<coroutine, legState, filled>>
  BY DEF HedgeOrderRaises
<1>6. TypeOK'
  BY <1>4, <1>5 DEF IInv, TypeOK, coroutine
<1>7. LegsSound'
  BY <1>1, <1>2, <1>4, <1>5 DEF IInv, LegsSound, coroutine
<1>8. status = "none"
  BY <1>1 DEF IInv, TypeOK, PhaseSound, Hedging
<1>9. PhaseSound'
  BY <1>1, <1>2, <1>5, <1>8 DEF IInv, PhaseSound, Hedging, coroutine
<1>10. HedgeBooksMatchVenue' /\ StatusTruthful'
  BY <1>5, <1>8 DEF HedgeBooksMatchVenue, StatusTruthful, Hedging, coroutine
<1>11. QED
  BY <1>6, <1>7, <1>9, <1>10 DEF IInv

LEMMA NextInv == IInv /\ [Next]_vars => IInv'
<1>1. IInv /\ UNCHANGED vars => IInv'
  BY DEF IInv, TypeOK, LegsSound, PhaseSound, Hedging, HedgeBooksMatchVenue,
         StatusTruthful, Answered, vars
<1>2. IInv /\ Resume => IInv'
  BY FireLegsInv, GatherRaisesInv, BothAcceptedInv, BothRejectedInv, LegBrokenInv DEF Resume
<1>3. IInv /\ Answer => IInv'
  BY LegAcceptedInv, LegRejectedInv, LegRaisedInv, BestBidInv, LimitAnsweredInv,
     MarketAnsweredInv, HedgeOrderRaisesInv DEF Answer
<1>4. QED
  BY <1>1, <1>2, <1>3 DEF Next, Terminated

\* The legs, the orders and their counters have their types: no fill, re-peg or
\* remaining amount leaves its range (broken_leg.py 67-213).
THEOREM TypeCorrect == Spec => []TypeOK
<1>1. IInv => TypeOK
  BY DEF IInv
<1>2. QED
  BY InitInv, NextInv, <1>1, PTL DEF Spec

\* The books of _auto_hedge agree with the venue, whatever the leg size, the
\* number of re-pegs, the fills and the exceptions (broken_leg.py 197-211).
THEOREM HedgeBooksKept == Spec => []HedgeBooksMatchVenue
<1>1. IInv => HedgeBooksMatchVenue
  BY DEF IInv
<1>2. QED
  BY InitInv, NextInv, <1>1, PTL DEF Spec

\* A status that the mitigator returns is true of the venues, whatever they fill
\* and whichever call raises (broken_leg.py 104-173).
THEOREM StatusKept == Spec => []StatusTruthful
<1>1. IInv => StatusTruthful
  BY DEF IInv
<1>2. QED
  BY InitInv, NextInv, <1>1, PTL DEF Spec

-----------------------------------------------------------------------------
(* Exposure only shrinks once the broken leg is known.                     *)

\* Whatever happens after the mitigator found the open leg, no venue ever holds
\* more than before, nor less than nothing (_auto_hedge, broken_leg.py 193-213).
LEMMA ShrinksStep ==
    ASSUME IInv, [Next]_vars, openLeg # NoLeg, NEW k \in Legs
    PROVE  0 <= held'[k] /\ held'[k] <= held[k]
<1>1. \A l \in Legs : legState[l] \in {"accepted", "rejected"}
  BY LegsFacts DEF IInv, TypeOK, PhaseSound
<1>2. held[k] \in 0..Amount
  BY DEF IInv, TypeOK
<1>3. CASE LimitAnswered \/ MarketAnswered \/ HedgeOrderRaises
  <2>1. remaining = held[openLeg] /\ openLeg \in Legs
    BY <1>3 DEF IInv, TypeOK, HedgeBooksMatchVenue, Hedging,
                LimitAnswered, LimitFilled, MarketAnswered, HedgeOrderRaises
  <2>2. \E f \in 0..remaining : HedgeFills(f)
    BY <1>3 DEF LimitAnswered, LimitFilled, MarketAnswered, HedgeOrderRaises
  <2>3. QED
    BY <2>1, <2>2, <1>2 DEF IInv, TypeOK, HedgeFills
<1>4. CASE ~(LimitAnswered \/ MarketAnswered \/ HedgeOrderRaises)
  <2>1. ~(\E l \in Legs : LegAccepted(l) \/ LegRejected(l) \/ LegRaised(l))
    BY <1>1 DEF LegAccepted, LegRejected, LegRaised
  <2>2. UNCHANGED held
    BY <1>4, <2>1 DEF Next, Resume, Answer, Terminated, vars, FireLegs, GatherRaises,
                      BothAccepted, BothRejected, LegBroken, BestBidKnown, BestBidRaises
  <2>3. QED
    BY <2>2, <1>2
<1>5. QED
  BY <1>3, <1>4

\* No order placed once the broken leg is known enlarges a position or turns one
\* over, for any leg size and number of re-pegs (broken_leg.py 193-213).
THEOREM ShrinkSafety == Spec => ExposureOnlyShrinks
<1>1. IInv /\ [Next]_vars =>
        [openLeg # NoLeg => \A l \in Legs : 0 <= held'[l] /\ held'[l] <= held[l]]_vars
  BY ShrinksStep
<1>2. QED
  BY <1>1, InitInv, NextInv, PTL DEF Spec, ExposureOnlyShrinks

-----------------------------------------------------------------------------
(* The execution is short: what ExecutionEnds needs apart from fairness.   *)

\* Steps the coroutine has left, at most: two for each iteration of the re-peg
\* loop, one for the market order.
CoroutineLeft == CASE pc = "call" -> 2 * MaxRepegs + 4
                   [] pc = "gather" -> 2 * MaxRepegs + 3
                   [] pc = "best_bid" -> 2 * repegs + 2
                   [] pc = "limit" -> 2 * repegs + 1
                   [] pc = "market" -> 1
                   [] OTHER -> 0

AnswersLeft(l) == IF legState[l] \in {"unsent", "sent"} THEN 1 ELSE 0

StepsLeft == CoroutineLeft + AnswersLeft("buy") + AnswersLeft("sell")

StepsBounded == StepsLeft \in 0..(2 * MaxRepegs + 6)

\* Every step there is brings the execution nearer to its end.
EveryStepCounts == [][StepsLeft' < StepsLeft]_vars

LEMMA CoroutineLeftType ==
    ASSUME TypeOK
    PROVE  /\ CoroutineLeft \in 0..(2 * MaxRepegs + 4)
           /\ \A l \in Legs : AnswersLeft(l) \in 0..1
BY DEF TypeOK, CoroutineLeft, AnswersLeft

\* The coroutine moves on and no leg is forgotten.
LEMMA CoroutineCounts ==
    ASSUME TypeOK, TypeOK', UNCHANGED legState, CoroutineLeft' < CoroutineLeft
    PROVE  StepsLeft' < StepsLeft
<1>1. \A l \in Legs : AnswersLeft(l)' = AnswersLeft(l)
  BY DEF AnswersLeft
<1>2. CoroutineLeft \in Int /\ \A l \in Legs : AnswersLeft(l) \in Int
  BY CoroutineLeftType
<1>3. CoroutineLeft' \in Int
  BY DEF TypeOK, CoroutineLeft
<1>4. QED
  BY <1>1, <1>2, <1>3 DEF StepsLeft

\* A leg is answered, once.
LEMMA AnswerCounts ==
    ASSUME TypeOK, NEW l \in Legs, legState[l] = "sent", UNCHANGED <<pc, repegs>>,
           NEW s \in {"accepted", "rejected", "raised"}, legState' = [legState EXCEPT ![l] = s]
    PROVE  StepsLeft' < StepsLeft
<1>1. CoroutineLeft' = CoroutineLeft /\ CoroutineLeft \in Int
  BY CoroutineLeftType DEF CoroutineLeft
<1>2. AnswersLeft(l) = 1 /\ AnswersLeft(l)' = 0
  BY DEF AnswersLeft, TypeOK
<1>3. AnswersLeft(Opposite(l))' = AnswersLeft(Opposite(l))
  BY LegsFacts DEF AnswersLeft, TypeOK
<1>4. \A k \in Legs : AnswersLeft(k) \in 0..1
  BY CoroutineLeftType
<1>5. QED
  BY <1>1, <1>2, <1>3, <1>4 DEF StepsLeft

LEMMA StepCounts == ASSUME IInv, IInv', Next, ~UNCHANGED vars PROVE StepsLeft' < StepsLeft
<1> USE DEF IInv
<1>1. CASE FireLegs
  <2>1. \A l \in Legs : AnswersLeft(l) = 1 /\ AnswersLeft(l)' = 1
    BY <1>1 DEF FireLegs, PhaseSound, AnswersLeft
  <2>2. CoroutineLeft = 2 * MaxRepegs + 4 /\ CoroutineLeft' = 2 * MaxRepegs + 3
    BY <1>1 DEF FireLegs, CoroutineLeft
  <2>3. QED
    BY <2>1, <2>2 DEF StepsLeft
<1>2. ASSUME NEW l \in Legs, LegAccepted(l) \/ LegRejected(l) \/ LegRaised(l)
      PROVE  StepsLeft' < StepsLeft
  <2>1. legState[l] = "sent" /\ UNCHANGED <<pc, repegs>>
    BY <1>2 DEF LegAccepted, LegRejected, LegRaised, coroutine
  <2>2. \E s \in {"accepted", "rejected", "raised"} : legState' = [legState EXCEPT ![l] = s]
    BY <1>2 DEF LegAccepted, LegRejected, LegRaised
  <2>3. QED
    BY <2>1, <2>2, AnswerCounts
<1>3. CASE GatherRaises \/ BothAccepted \/ BothRejected \/ BestBidRaises
           \/ MarketAnswered \/ HedgeOrderRaises
  <2>1. UNCHANGED legState /\ pc' \in {"returned", "raised"}
        /\ pc \in {"gather", "best_bid", "limit", "market"}
    BY <1>3 DEF GatherRaises, BothAccepted, BothRejected, GatherAnswered, BestBidRaises,
                MarketAnswered, Report, HedgeOrderRaises, coroutine
  <2>2. CoroutineLeft' < CoroutineLeft
    BY <2>1 DEF CoroutineLeft, TypeOK
  <2>3. QED
    BY <2>1, <2>2, CoroutineCounts
<1>4. ASSUME NEW l \in Legs, LegBroken(l) PROVE StepsLeft' < StepsLeft
  <2>1. UNCHANGED legState /\ pc = "gather" /\ repegs' = MaxRepegs
        /\ pc' \in {"best_bid", "market", "returned"}
    BY <1>4 DEF LegBroken, GatherAnswered, NextHedgeOrder, Report
  <2>2. CoroutineLeft' < CoroutineLeft
    BY <2>1 DEF CoroutineLeft
  <2>3. QED
    BY <2>1, <2>2, CoroutineCounts
<1>5. CASE BestBidKnown
  <2>1. UNCHANGED <<legState, repegs>> /\ pc = "best_bid" /\ pc' = "limit"
    BY <1>5 DEF BestBidKnown, coroutine
  <2>2. CoroutineLeft' < CoroutineLeft
    BY <2>1 DEF CoroutineLeft, TypeOK
  <2>3. QED
    BY <2>1, <2>2, CoroutineCounts
<1>6. CASE LimitAnswered
  <2>1. UNCHANGED legState /\ pc = "limit" /\ repegs' = repegs - 1
        /\ pc' \in {"best_bid", "market", "returned"}
    BY <1>6 DEF LimitAnswered, LimitFilled, NextHedgeOrder, Report
  <2>2. CoroutineLeft' < CoroutineLeft
    BY <2>1 DEF CoroutineLeft, TypeOK, PhaseSound
  <2>3. QED
    BY <2>1, <2>2, CoroutineCounts
<1>7. QED
  BY <1>1, <1>2, <1>3, <1>4, <1>5, <1>6 DEF Next, Resume, Answer, Terminated

\* However the venues answer, an execution is over after at most 2 * MaxRepegs + 6
\* steps, counting the answers to its two legs: no order is retried for ever, and
\* no step of the re-peg loop is without an iteration used up (broken_leg.py 99,
\* 193-213).
THEOREM ExecutionShort == Spec => []StepsBounded /\ EveryStepCounts
<1>1. IInv => StepsBounded
  <2> SUFFICES ASSUME TypeOK PROVE StepsBounded
    BY DEF IInv
  <2>1. /\ CoroutineLeft \in 0..(2 * MaxRepegs + 4)
        /\ AnswersLeft("buy") \in 0..1 /\ AnswersLeft("sell") \in 0..1
    BY CoroutineLeftType
  <2>2. QED
    BY <2>1 DEF StepsBounded, StepsLeft
<1>2. IInv /\ IInv' /\ [Next]_vars => [StepsLeft' < StepsLeft]_vars
  BY StepCounts
<1>3. QED
  BY <1>1, <1>2, InitInv, NextInv, PTL DEF Spec, EveryStepCounts

-----------------------------------------------------------------------------
(* BrokenLeg implements PairedTrade.                                       *)

LEMMA RefinementInit == Init => Trade!Init
BY DEF Init, callerView, Trade!Init, Trade!Legs, Trade!NoLeg

LEMMA RefinementFill ==
    ASSUME IInv, NEW l \in Legs, LegAccepted(l) \/ LegRaised(l)
    PROVE  Trade!Next \/ UNCHANGED Trade!vars
<1>1. /\ pc \in {"gather", "raised"} /\ UNCHANGED <<pc, status, openLeg>>
      /\ openLeg = NoLeg /\ held[l] = 0
  BY LegsFacts DEF IInv, TypeOK, LegsSound, PhaseSound, Hedging, Answered, LegAccepted, LegRaised,
                   coroutine
<1>2. PICK f \in 0..Amount : held' = [held EXCEPT ![l] = f]
  BY DEF LegAccepted, LegRaised
<1>3. CASE f = 0
  BY <1>1, <1>2, <1>3 DEF callerView, Trade!vars, IInv, TypeOK
<1>4. CASE f # 0
  <2>1. callerView \in {"pending", "raised"} /\ UNCHANGED callerView
    BY <1>1 DEF callerView
  <2>2. \E g \in 1..Amount : held' = [held EXCEPT ![l] = g]
    <3>1. f \in 1..Amount
      BY <1>4
    <3>2. QED
      BY <1>2, <3>1, Zenon
  <2>3. Trade!Fill(l)
    BY <1>1, <2>1, <2>2 DEF Trade!Fill, Trade!NoLeg
  <2>4. QED
    BY <2>3 DEF Trade!Next, Trade!Legs
<1>5. QED
  BY <1>3, <1>4

LEMMA RefinementBroken ==
    ASSUME IInv, NEW l \in Legs, LegBroken(l)
    PROVE  Trade!Next
<1>1. /\ pc = "gather" /\ openLeg = NoLeg /\ openLeg' = l /\ UNCHANGED held
      /\ \A k \in Legs \ {l} : held[k] = 0
      /\ held[l] = filled[l] /\ filled[l] \in 0..Amount /\ status = "none"
  BY LegsFacts DEF LegBroken, GatherAnswered, IInv, TypeOK, LegsSound, PhaseSound
<1>2. CASE pc' = "returned"
  <2>1. Trade!Flat /\ status' = "HEDGED"
    BY <1>1, <1>2, LegsFacts DEF LegBroken, NextHedgeOrder, Report, Trade!Flat, Trade!Legs
  <2>2. Trade!SettleBroken(l)
    BY <1>1, <1>2, <2>1 DEF callerView, Trade!SettleBroken, Trade!NoLeg
  <2>3. QED
    BY <2>2 DEF Trade!Next, Trade!Legs
<1>3. CASE pc' # "returned"
  <2>1. pc' \in {"best_bid", "market"}
    BY <1>3 DEF LegBroken, NextHedgeOrder, Report
  <2>2. callerView = "pending" /\ callerView' = "pending"
    BY <1>1, <2>1 DEF callerView
  <2>3. Trade!Break(l)
    BY <1>1, <2>2 DEF Trade!Break, Trade!NoLeg, Trade!Legs
  <2>4. QED
    BY <2>3 DEF Trade!Next, Trade!Legs
<1>4. QED
  BY <1>2, <1>3

LEMMA RefinementHedge ==
    ASSUME IInv, IInv',
           BestBidRaises \/ LimitAnswered \/ MarketAnswered \/ HedgeOrderRaises
    PROVE  Trade!Next
<1>1. /\ Hedging /\ openLeg # NoLeg /\ openLeg \in Legs /\ UNCHANGED openLeg
      /\ held[openLeg] \in 0..Amount /\ remaining = held[openLeg]
      /\ held \in [Legs -> 0..Amount]
  BY DEF IInv, TypeOK, PhaseSound, HedgeBooksMatchVenue, Hedging, BestBidRaises,
         LimitAnswered, LimitFilled, MarketAnswered, HedgeOrderRaises, coroutine
<1>2. \E r \in 0..held[openLeg] : held' = [held EXCEPT ![openLeg] = r]
  <2>1. CASE BestBidRaises
    BY <1>1, <2>1 DEF BestBidRaises
  <2>2. CASE LimitAnswered \/ MarketAnswered \/ HedgeOrderRaises
    <3>1. PICK f \in 0..remaining : HedgeFills(f)
      BY <2>2 DEF LimitAnswered, LimitFilled, MarketAnswered, HedgeOrderRaises
    <3>2. held[openLeg] - f \in 0..held[openLeg]
      BY <1>1
    <3>3. QED
      BY <3>1, <3>2 DEF HedgeFills
  <2>3. QED
    BY <2>1, <2>2
<1>3. /\ pc' \in {"best_bid", "market", "raised", "returned"}
      /\ pc' = "returned" =>
            /\ status' \in {"HEDGED", "PARTIAL_FILL"}
            /\ status' = "HEDGED" => held'[openLeg] = 0
            /\ status' = "PARTIAL_FILL" => held'[openLeg] > 0
  BY <1>1 DEF BestBidRaises, LimitAnswered, LimitFilled, MarketAnswered, HedgeOrderRaises,
              NextHedgeOrder,
              Report, IInv, PhaseSound, StatusTruthful
<1>4. Trade!Flatten
  BY <1>1, <1>2, <1>3 DEF callerView, Trade!Flatten, Trade!NoLeg, Hedging
<1>5. QED
  BY <1>4 DEF Trade!Next

LEMMA RefinementSettle ==
    ASSUME IInv, IInv', GatherRaises \/ BothAccepted \/ BothRejected
    PROVE  Trade!Next
<1>1. pc = "gather" /\ openLeg = NoLeg /\ UNCHANGED <<held, openLeg>>
  BY DEF GatherRaises, BothAccepted, BothRejected, GatherAnswered, coroutine, IInv, PhaseSound
<1>2. \/ pc' = "raised"
      \/ pc' = "returned" /\ status' = "SUCCESS"
      \/ pc' = "returned" /\ status' = "REJECTED" /\ \A l \in Legs : held[l] = 0
  BY <1>1 DEF GatherRaises, BothAccepted, BothRejected, IInv, StatusTruthful
<1>3. Trade!Settle
  BY <1>1, <1>2 DEF callerView, Trade!Settle, Trade!Flat, Trade!NoLeg, Trade!Legs
<1>4. QED
  BY <1>3 DEF Trade!Next

LEMMA RefinementStep == IInv /\ IInv' /\ [Next]_vars => [Trade!Next]_(Trade!vars)
<1> SUFFICES ASSUME IInv, IInv', [Next]_vars
             PROVE  Trade!Next \/ UNCHANGED Trade!vars
  OBVIOUS
<1>1. CASE \E l \in Legs : LegAccepted(l) \/ LegRaised(l)
  BY <1>1, RefinementFill
<1>2. CASE \E l \in Legs : LegBroken(l)
  BY <1>2, RefinementBroken
<1>3. CASE BestBidRaises \/ LimitAnswered \/ MarketAnswered \/ HedgeOrderRaises
  BY <1>3, RefinementHedge
<1>4. CASE GatherRaises \/ BothAccepted \/ BothRejected
  BY <1>4, RefinementSettle
<1>5. CASE FireLegs \/ BestBidKnown \/ Terminated \/ UNCHANGED vars
           \/ \E l \in Legs : LegRejected(l)
  BY <1>5 DEF FireLegs, BestBidKnown, Terminated, LegRejected, coroutine, vars,
              callerView, Trade!vars
<1>6. QED
  BY <1>1, <1>2, <1>3, <1>4, <1>5 DEF Next, Resume, Answer

\* The mitigator keeps the promise of PairedTrade: legs only fill until one is
\* found broken, a broken leg only shrinks, and the outcome reported is true
\* (execute_paired_orders and _auto_hedge, broken_leg.py 67-213).
THEOREM Refinement == Spec => ImplementsPairedTrade
BY RefinementInit, RefinementStep, InitInv, NextInv, PTL DEF Spec, Trade!Spec, ImplementsPairedTrade

-----------------------------------------------------------------------------
(* What the contract is worth to a caller.                                 *)

TradeInv == /\ held \in [Legs -> 0..Amount]
            /\ openLeg \in Legs \cup {NoLeg}
            /\ Trade!Promise

LEMMA TradeInit == Trade!Init => TradeInv
BY DEF Trade!Init, Trade!Promise, Trade!Flat, Trade!Legs, Trade!NoLeg, TradeInv

LEMMA TradeStep == TradeInv /\ [Trade!Next]_(Trade!vars) => TradeInv'
<1> SUFFICES ASSUME TradeInv, [Trade!Next]_(Trade!vars) PROVE TradeInv'
  OBVIOUS
<1> USE DEF Trade!Promise, Trade!Flat, Trade!Legs, Trade!NoLeg, TradeInv
<1>1. ASSUME NEW l \in Legs, Trade!Fill(l) PROVE TradeInv'
  BY <1>1 DEF Trade!Fill
<1>2. ASSUME NEW l \in Legs, Trade!Break(l) \/ Trade!SettleBroken(l) PROVE TradeInv'
  BY <1>2 DEF Trade!Break, Trade!SettleBroken
<1>3. CASE Trade!Flatten
  BY <1>3 DEF Trade!Flatten
<1>4. CASE Trade!Settle
  BY <1>4 DEF Trade!Settle
<1>5. CASE UNCHANGED Trade!vars
  BY <1>5 DEF Trade!vars
<1>6. QED
  BY <1>1, <1>2, <1>3, <1>4, <1>5 DEF Trade!Next

\* The contract alone makes what its caller is told true: whatever implements it,
\* and the mitigator does, leaves nothing behind a REJECTED or HEDGED, and nothing
\* but the broken leg behind a PARTIAL_FILL (broken_leg.py 104-173).
THEOREM ContractKept == (Trade!Spec => []Trade!Promise) /\ (Spec => []Trade!Promise)
<1>1. TradeInv => Trade!Promise
  BY DEF TradeInv
<1>2. Trade!Spec => []Trade!Promise
  BY <1>1, TradeInit, TradeStep, PTL DEF Trade!Spec
<1>3. QED
  BY <1>2, Refinement DEF ImplementsPairedTrade
=============================================================================
