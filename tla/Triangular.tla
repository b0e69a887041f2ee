----------------------------- MODULE Triangular -----------------------------
(***************************************************************************)
(* One call of TriangularMitigator.execute_triangle                        *)
(* (backend/execution/triangular.py): three concurrent IOC legs on one     *)
(* exchange and the unwinding of a partly accepted triangle.  Quantities   *)
(* are lots of equal quote value, so one lot of the target asset is paid   *)
(* with one lot of the bridge asset; prices and fees are left out.         *)
(***************************************************************************)
EXTENDS Integers

CONSTANT Amount      \* lots each leg trades: bridge_qty, and target_qty

ASSUME AmountAssumption == Amount \in Nat \ {0}

\* leg1 buys the bridge asset with the quote asset, leg2 the target asset with
\* the bridge asset, leg3 sells the target asset for the quote asset.
Legs == {"leg1", "leg2", "leg3"}
Assets == {"bridge", "target"}

\* How a fill of f lots of leg l moves the position in asset a.
Moves(l, a, f) == CASE l = "leg1" /\ a = "bridge" -> f
                    [] l = "leg2" /\ a = "bridge" -> -f
                    [] l = "leg2" /\ a = "target" -> f
                    [] l = "leg3" /\ a = "target" -> -f
                    [] OTHER -> 0

VARIABLES
    pc,         \* the await the coroutine is suspended at, or how it ended
    legState,   \* what is known of each leg's IOC order
    filled,     \* `filled_amount` of each leg's LegResult
    unwinding,  \* the asset the market order sells back, or "none"
    order,      \* amount of that market order
    unwound,    \* `filled_amount` of its LegResult
    status,     \* `status` of the TradeExecutionResult, or "none"
    position    \* exchange: net position the triangle leaves in each asset

vars == <<pc, legState, filled, unwinding, order, unwound, status, position>>

Init == /\ pc = "call"
        /\ legState = [l \in Legs |-> "unsent"]
        /\ filled = [l \in Legs |-> 0]
        /\ unwinding = "none"
        /\ order = 0
        /\ unwound = 0
        /\ status = "none"
        /\ position = [a \in Assets |-> 0]

-----------------------------------------------------------------------------
(* The three IOC orders.                                                   *)

FireLegs == /\ pc = "call"
            /\ pc' = "gather"
            /\ legState' = [l \in Legs |-> "sent"]
            /\ UNCHANGED <<filled, unwinding, order, unwound, status, position>>

Traded(l, f) == position' = [a \in Assets |-> position[a] + Moves(l, a, f)]

LegAccepted(l) == \E f \in 0..Amount :
    /\ legState[l] = "sent"
    /\ legState' = [legState EXCEPT ![l] = "accepted"]
    /\ filled' = [filled EXCEPT ![l] = f]
    /\ Traded(l, f)
    /\ UNCHANGED <<pc, unwinding, order, unwound, status>>

LegRejected(l) == /\ legState[l] = "sent"
                  /\ legState' = [legState EXCEPT ![l] = "rejected"]
                  /\ UNCHANGED <<pc, filled, unwinding, order, unwound, status, position>>

\* The client raises: the answer is lost, whatever the exchange filled.
LegRaised(l) == \E f \in 0..Amount :
    /\ legState[l] = "sent"
    /\ legState' = [legState EXCEPT ![l] = "raised"]
    /\ Traded(l, f)
    /\ UNCHANGED <<pc, filled, unwinding, order, unwound, status>>

\* gather raises as soon as one leg has; the others' tasks keep running.
GatherRaises == /\ pc = "gather"
                /\ \E l \in Legs : legState[l] = "raised"
                /\ pc' = "raised"
                /\ UNCHANGED <<legState, filled, unwinding, order, unwound, status, position>>

-----------------------------------------------------------------------------
(* What the caller is told, and the unwinding order it may take first.     *)

Accepted(l) == legState[l] = "accepted"

\* All three answers are in: end with status s, and no order to place.
Return(s) == /\ pc = "gather"
             /\ \A l \in Legs : legState[l] \in {"accepted", "rejected"}
             /\ pc' = "returned"
             /\ status' = s
             /\ UNCHANGED <<legState, filled, unwinding, order, unwound, position>>

AllAccepted == (\A l \in Legs : Accepted(l)) /\ Return("SUCCESS")

NoneAccepted == (\A l \in Legs : ~Accepted(l)) /\ Return("REJECTED")

\* Sell back, at market, amount f of asset a.
PlaceUnwind(a, f) == /\ pc = "gather"
                     /\ \A l \in Legs : legState[l] \in {"accepted", "rejected"}
                     /\ pc' = "market"
                     /\ unwinding' = a
                     /\ order' = f
                     /\ UNCHANGED <<legState, filled, unwound, status, position>>

\* Mutant: sells what leg1 ordered, not what it filled.
UnwindWholeBridge == Accepted("leg1") /\ ~Accepted("leg2") /\ PlaceUnwind("bridge", Amount)

UnwindBridge == Accepted("leg1") /\ ~Accepted("leg2") /\ PlaceUnwind("bridge", filled["leg1"])

\* Mutant: sells the bridge asset, which leg2 has already spent.
UnwindSpentBridge == /\ Accepted("leg1") /\ Accepted("leg2") /\ ~Accepted("leg3")
                     /\ PlaceUnwind("bridge", filled["leg1"])

UnwindTarget == /\ Accepted("leg1") /\ Accepted("leg2") /\ ~Accepted("leg3")
                /\ PlaceUnwind("target", filled["leg2"])

\* The partial outcomes neither branch names place no order at all.
NothingUnwound == /\ ~Accepted("leg1")
                  /\ Accepted("leg2") \/ Accepted("leg3")
                  /\ Return("PARTIAL_FILL")

\* Mutant: buys where it should sell.
Bought(f) == position' = [position EXCEPT ![unwinding] = @ + f]

Sold(f) == position' = [position EXCEPT ![unwinding] = @ - f]

UnwindAnswered == \E f \in 0..order :
    /\ pc = "market"
    /\ Sold(f)
    /\ unwound' = f
    /\ pc' = "returned"
    /\ status' = IF f > 0 THEN "HEDGED" ELSE "PARTIAL_FILL"
    /\ UNCHANGED <<legState, filled, unwinding, order>>

UnwindRaises == \E f \in 0..order :
    /\ pc = "market"
    /\ Sold(f)
    /\ pc' = "raised"
    /\ UNCHANGED <<legState, filled, unwinding, order, unwound, status>>

-----------------------------------------------------------------------------
Answer == \/ \E l \in Legs : LegAccepted(l) \/ LegRejected(l) \/ LegRaised(l)
          \/ UnwindAnswered
          \/ UnwindRaises

Resume == \/ FireLegs
          \/ GatherRaises
          \/ AllAccepted
          \/ NoneAccepted
          \/ UnwindBridge
          \/ UnwindTarget
          \/ NothingUnwound

Terminated == /\ pc \in {"returned", "raised"}
              /\ \A l \in Legs : legState[l] # "sent"
              /\ UNCHANGED vars

Next == Resume \/ Answer \/ Terminated

Spec == Init /\ [][Next]_vars

-----------------------------------------------------------------------------
(* Properties.                                                             *)

TypeOK ==
    /\ pc \in {"call", "gather", "market", "returned", "raised"}
    /\ legState \in [Legs -> {"unsent", "sent", "accepted", "rejected", "raised"}]
    /\ filled \in [Legs -> 0..Amount]
    /\ unwinding \in Assets \cup {"none"}
    /\ order \in 0..Amount
    /\ unwound \in 0..Amount
    /\ status \in {"none", "SUCCESS", "REJECTED", "HEDGED", "PARTIAL_FILL"}
    /\ position \in [Assets -> -Amount..Amount]

Distance(n) == IF n < 0 THEN -n ELSE n

\* The unwinding order never turns a position over: it brings the asset it
\* sells closer to zero and leaves the other one alone (triangular.py 149-158).
UnwindOnlyShrinks ==
    [][pc = "market" => \A a \in Assets : Distance(position'[a]) <= Distance(position[a])]_vars

\* The exchange filled every accepted leg, and the unwinding order, in full.
FilledInFull == /\ \A l \in Legs : Accepted(l) => filled[l] = Amount
                /\ unwound = order

\* The legs were accepted up to some point of the cycle and rejected after it.
AcceptedInCycleOrder == /\ Accepted("leg3") => Accepted("leg2")
                        /\ Accepted("leg2") => Accepted("leg1")

\* When the legs fail in cycle order and the exchange fills in full, whatever
\* the triangle acquired is back in the quote asset when the caller gets its
\* status, and the status says whether anything had to be sold back.
CycleOrderIsUnwound ==
    pc = "returned" /\ FilledInFull /\ AcceptedInCycleOrder =>
        /\ \A a \in Assets : position[a] = 0
        /\ status # "PARTIAL_FILL"

\* triangular.py 139-141: "unwind whatever legs succeeded back into the quote
\* asset immediately at market, so we don't end up holding an unwanted position
\* in the bridge or target asset".
NoUnwantedPosition ==
    pc = "returned" /\ FilledInFull => \A a \in Assets : position[a] = 0
=============================================================================
