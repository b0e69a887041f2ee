----------------------------- MODULE BrokenLeg -----------------------------
(***************************************************************************)
(* One call of BrokenLegMitigator.execute_paired_orders, with the          *)
(* _auto_hedge it awaits (backend/execution/broken_leg.py).  An action is  *)
(* what runs between two awaits of the coroutine, or what a venue does with *)
(* an order.  Prices are left out: no branch depends on them, and volumes  *)
(* are counted in the base asset (the code multiplies them by one price).  *)
(***************************************************************************)
EXTENDS Integers

CONSTANTS
    Amount,      \* `amount`: base-asset quantity of each leg, in lots
    MaxRepegs    \* `max_repegs`: limit orders tried before the market order

ASSUME AmountAssumption == Amount \in Nat \ {0}
ASSUME MaxRepegsAssumption == MaxRepegs \in Nat

Legs == {"buy", "sell"}
NoLeg == "none"
Statuses == {"SUCCESS", "REJECTED", "HEDGED", "PARTIAL_FILL"}
LegStates == {"unsent", "sent", "accepted", "rejected", "raised"}

Opposite(l) == IF l = "buy" THEN "sell" ELSE "buy"
Smaller(a, b) == IF a <= b THEN a ELSE b

VARIABLES
    pc,              \* the await the coroutine is suspended at, or how it ended
    highVolatility,  \* the argument `high_volatility`
    legState,        \* what is known of each leg's IOC order
    filled,          \* `filled_amount` of each leg's LegResult
    openLeg,         \* the leg `open_exchange` is the venue of, or NoLeg
    remaining,       \* `remaining` of _auto_hedge
    filledTotal,     \* `filled_total` of _auto_hedge
    repegs,          \* iterations of the re-peg loop still allowed
    status,          \* `status` of the TradeExecutionResult, or "none"
    volume,          \* `executed_volume_usd` of the result, at price 1
    held             \* venues: base asset bought (buy leg) or owed (sell leg)

coroutine == <<highVolatility, openLeg, remaining, filledTotal, repegs, status, volume>>
vars == <<pc, highVolatility, legState, filled, openLeg, remaining,
          filledTotal, repegs, status, volume, held>>

PCs == {"call", "gather", "best_bid", "limit", "market", "returned", "raised"}

Init == /\ pc = "call"
        /\ highVolatility \in BOOLEAN
        /\ legState = [l \in Legs |-> "unsent"]
        /\ filled = [l \in Legs |-> 0]
        /\ openLeg = NoLeg
        /\ remaining = 0
        /\ filledTotal = 0
        /\ repegs = 0
        /\ status = "none"
        /\ volume = 0
        /\ held = [l \in Legs |-> 0]

-----------------------------------------------------------------------------
(* The paired IOC orders.                                                  *)

\* asyncio.gather wraps both place_ioc_order coroutines in tasks.
FireLegs == /\ pc = "call"
            /\ pc' = "gather"
            /\ legState' = [l \in Legs |-> "sent"]
            /\ UNCHANGED <<coroutine, filled, held>>

\* The venue of leg l accepts its IOC order and fills f of it.
LegAccepted(l) == \E f \in 0..Amount :
    /\ legState[l] = "sent"
    /\ legState' = [legState EXCEPT ![l] = "accepted"]
    /\ filled' = [filled EXCEPT ![l] = f]
    /\ held' = [held EXCEPT ![l] = f]
    /\ UNCHANGED <<coroutine, pc>>

LegRejected(l) == /\ legState[l] = "sent"
                  /\ legState' = [legState EXCEPT ![l] = "rejected"]
                  /\ UNCHANGED <<coroutine, pc, filled, held>>

\* place_ioc_order raises: the answer is lost, whatever the venue filled.
LegRaised(l) == \E f \in 0..Amount :
    /\ legState[l] = "sent"
    /\ legState' = [legState EXCEPT ![l] = "raised"]
    /\ held' = [held EXCEPT ![l] = f]
    /\ UNCHANGED <<coroutine, pc, filled>>

\* gather has no return_exceptions: it raises as soon as one leg has raised
\* and leaves the other leg's task running.
GatherRaises == /\ pc = "gather"
                /\ \E l \in Legs : legState[l] = "raised"
                /\ pc' = "raised"
                /\ UNCHANGED <<coroutine, legState, filled, held>>

GatherAnswered == /\ pc = "gather"
                  /\ \A l \in Legs : legState[l] \in {"accepted", "rejected"}

BothAccepted == /\ GatherAnswered
                /\ \A l \in Legs : legState[l] = "accepted"
                /\ pc' = "returned"
                /\ status' = "SUCCESS"
                /\ volume' = Smaller(filled["buy"], filled["sell"])
                /\ UNCHANGED <<highVolatility, legState, filled, openLeg,
                               remaining, filledTotal, repegs, held>>

\* Mutant: `or` for `and` in the test for two rejections.
EitherRejected == /\ GatherAnswered
                  /\ \E l \in Legs : legState[l] = "rejected"
                  /\ pc' = "returned"
                  /\ status' = "REJECTED"
                  /\ UNCHANGED <<highVolatility, legState, filled, openLeg,
                                 remaining, filledTotal, repegs, volume, held>>

BothRejected == /\ GatherAnswered
                /\ \A l \in Legs : legState[l] = "rejected"
                /\ pc' = "returned"
                /\ status' = "REJECTED"
                /\ UNCHANGED <<highVolatility, legState, filled, openLeg,
                               remaining, filledTotal, repegs, volume, held>>

-----------------------------------------------------------------------------
(* Flattening the leg that is left open.                                   *)

\* Mutant: any fill of the hedge counts as hedged.
ReportAnyFill(hedged, open) ==
    /\ pc' = "returned"
    /\ status' = IF hedged > 0 THEN "HEDGED" ELSE "PARTIAL_FILL"
    /\ volume' = open

\* What execute_paired_orders returns once _auto_hedge returned `hedged` for
\* an open leg of `open`.
Report(hedged, open) ==
    /\ pc' = "returned"
    /\ status' = IF hedged >= open THEN "HEDGED" ELSE "PARTIAL_FILL"
    /\ volume' = open

\* Mutant: one iteration more than max_repegs.
NextHedgeOrderOneMore(r, n, total, open) ==
    IF r > 0
    THEN /\ pc' = IF n >= 0 THEN "best_bid" ELSE "market"
         /\ UNCHANGED <<status, volume>>
    ELSE Report(total, open)

\* The head of the re-peg loop, with n iterations and r left to flatten.
NextHedgeOrder(r, n, total, open) ==
    IF r > 0
    THEN /\ pc' = IF n > 0 THEN "best_bid" ELSE "market"
         /\ UNCHANGED <<status, volume>>
    ELSE Report(total, open)

\* Exactly one leg was accepted.
LegBroken(l) ==
    /\ GatherAnswered
    /\ legState[l] = "accepted"
    /\ legState[Opposite(l)] = "rejected"
    /\ openLeg' = l
    /\ remaining' = filled[l]
    /\ repegs' = MaxRepegs
    /\ IF highVolatility
       THEN pc' = "market" /\ UNCHANGED <<status, volume>>
       ELSE NextHedgeOrder(filled[l], MaxRepegs, 0, filled[l])
    /\ UNCHANGED <<highVolatility, legState, filled, filledTotal, held>>

BestBidKnown == /\ pc = "best_bid"
                /\ pc' = "limit"
                /\ UNCHANGED <<coroutine, legState, filled, held>>

\* No book, or no bids, to peg to: best_bid raises and nothing catches it.
BestBidRaises == /\ pc = "best_bid"
                 /\ pc' = "raised"
                 /\ UNCHANGED <<coroutine, legState, filled, held>>

\* Mutant: the hedge is on the side of the open leg.
HedgeFillsSameSide(f) == held' = [held EXCEPT ![openLeg] = @ + f]

\* The venue fills f of the order that flattens the open leg, which is on the
\* other side of it.
HedgeFills(f) == held' = [held EXCEPT ![openLeg] = @ - f]

\* The limit order filled f; r is left to flatten, in n more iterations.
LimitFilled(f, r, n) ==
    /\ pc = "limit"
    /\ HedgeFills(f)
    /\ filledTotal' = filledTotal + f
    /\ remaining' = r
    /\ repegs' = n
    /\ NextHedgeOrder(r, n, filledTotal + f, filled[openLeg])
    /\ UNCHANGED <<highVolatility, legState, filled, openLeg>>

\* Mutant: a partial fill is not taken off what is left.
LimitNotDeducted == \E f \in 0..remaining :
    LimitFilled(f, IF f = remaining THEN 0 ELSE remaining, repegs - 1)

\* Mutant: an order that filled nothing does not count as a re-peg.
LimitRetried == \E f \in 0..remaining :
    LimitFilled(f, remaining - f, IF f > 0 THEN repegs - 1 ELSE repegs)

LimitAnswered == \E f \in 0..remaining : LimitFilled(f, remaining - f, repegs - 1)

MarketAnswered == \E f \in 0..remaining :
    /\ pc = "market"
    /\ HedgeFills(f)
    /\ filledTotal' = filledTotal + f
    /\ Report(filledTotal + f, filled[openLeg])
    /\ UNCHANGED <<highVolatility, legState, filled, openLeg, remaining, repegs>>

\* The answer to a hedge order is lost, whatever the venue filled of it.
HedgeOrderRaises == \E f \in 0..remaining :
    /\ pc \in {"limit", "market"}
    /\ HedgeFills(f)
    /\ pc' = "raised"
    /\ UNCHANGED <<coroutine, legState, filled>>

-----------------------------------------------------------------------------
Answer == \/ \E l \in Legs : LegAccepted(l) \/ LegRejected(l) \/ LegRaised(l)
          \/ BestBidKnown
          \/ BestBidRaises
          \/ LimitAnswered
          \/ MarketAnswered
          \/ HedgeOrderRaises

Resume == \/ FireLegs
          \/ GatherRaises
          \/ BothAccepted
          \/ BothRejected
          \/ \E l \in Legs : LegBroken(l)

\* The call has ended and no order of it is outstanding.
Terminated == /\ pc \in {"returned", "raised"}
              /\ \A l \in Legs : legState[l] # "sent"
              /\ UNCHANGED vars

Next == Resume \/ Answer \/ Terminated

Spec == Init /\ [][Next]_vars

\* The event loop runs a coroutine whose await is over, and a client call
\* ends in an answer or an exception.
FairSpec == Spec /\ WF_vars(Resume) /\ WF_vars(Answer)

-----------------------------------------------------------------------------
(* Properties.                                                             *)

TypeOK == /\ pc \in PCs
          /\ highVolatility \in BOOLEAN
          /\ legState \in [Legs -> LegStates]
          /\ filled \in [Legs -> 0..Amount]
          /\ openLeg \in Legs \cup {NoLeg}
          /\ remaining \in 0..Amount
          /\ filledTotal \in 0..Amount
          /\ repegs \in 0..MaxRepegs
          /\ status \in Statuses \cup {"none"}
          /\ volume \in 0..Amount
          /\ held \in [Legs -> 0..Amount]

Hedging == pc \in {"best_bid", "limit", "market"}

\* While a broken leg is being flattened, over any number of re-pegged and
\* partly filled orders, the venue still holds exactly what _auto_hedge
\* believes is left of it (`filled_total` and `remaining`, broken_leg.py
\* 197-211), and the rejected leg holds nothing.
HedgeBooksMatchVenue ==
    Hedging => /\ held[openLeg] = filled[openLeg] - filledTotal
               /\ remaining = held[openLeg]
               /\ held[Opposite(openLeg)] = 0

\* The status given to the caller is true of the venues: REJECTED and HEDGED
\* leave nothing behind, PARTIAL_FILL means the open leg really is still open,
\* SUCCESS reports exactly what is held on both sides, however unequally the legs
\* filled, and no status is given while an order that may fill is outstanding
\* (broken_leg.py 99-173).
StatusTruthful ==
    /\ status # "none" => \A l \in Legs : legState[l] # "sent"
    /\ status \in {"REJECTED", "HEDGED"} => \A l \in Legs : held[l] = 0
    /\ status = "PARTIAL_FILL" => held[openLeg] > 0 /\ held[Opposite(openLeg)] = 0
    /\ status = "SUCCESS" => volume = Smaller(held["buy"], held["sell"])

\* Once the broken leg is known, no order of the mitigator enlarges or turns
\* over a position: whatever is held only shrinks towards zero, and stays as it
\* is once the caller has a status.
ExposureOnlyShrinks ==
    [][openLeg # NoLeg => \A l \in Legs : 0 <= held'[l] /\ held'[l] <= held[l]]_vars

\* The re-peg loop ends: if the event loop runs and the client answers (or
\* raises), every execution ends, with no order left outstanding.
ExecutionEnds ==
    <>[](pc \in {"returned", "raised"} /\ \A l \in Legs : legState[l] # "sent")

\* broken_leg.py 5-7: the filled leg of a broken pair "must be flattened
\* immediately".  An execution that ends in an exception after it found the
\* broken leg has flattened it.
BrokenLegFlattened == pc = "raised" /\ openLeg # NoLeg => held[openLeg] = 0

-----------------------------------------------------------------------------
(* BrokenLeg implements PairedTrade.                                       *)

\* What the caller of execute_paired_orders knows of it.
callerView == IF pc = "returned" THEN status
              ELSE IF pc = "raised" THEN "raised" ELSE "pending"

Trade == INSTANCE PairedTrade WITH broken <- openLeg, outcome <- callerView

\* Every step of the mitigator is a step of the contract or invisible in it.
ImplementsPairedTrade == Trade!Spec
=============================================================================
