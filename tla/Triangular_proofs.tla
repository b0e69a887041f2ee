------------------------- MODULE Triangular_proofs -------------------------
(***************************************************************************)
(* The triangle for every leg size: its types, that the unwinding order    *)
(* only shrinks a position, and that a triangle whose legs fail in cycle   *)
(* order ends flat.                                                        *)
(***************************************************************************)
EXTENDS Triangular, TLAPS

USE AmountAssumption DEF Legs, Assets

-----------------------------------------------------------------------------
(* The inductive invariant: where each position comes from.                *)

Answered == \A l \in Legs : legState[l] \in {"accepted", "rejected"}

\* What the exchange may have filled of leg l, as far as its answer tells.
Fills(l) == CASE legState[l] = "accepted" -> {filled[l]}
              [] legState[l] = "raised" -> 0..Amount
              [] OTHER -> {0}

\* And of the unwinding order.
Sales == CASE unwinding = "none" \/ pc = "market" -> {0}
           [] pc = "returned" -> {unwound}
           [] OTHER -> 0..order

\* Every lot the triangle holds was filled by a leg and not sold since.
PositionsTraced ==
    \E f1 \in Fills("leg1"), f2 \in Fills("leg2"), f3 \in Fills("leg3"), s \in Sales :
        /\ position["bridge"] = f1 - f2 - (IF unwinding = "bridge" THEN s ELSE 0)
        /\ position["target"] = f2 - f3 - (IF unwinding = "target" THEN s ELSE 0)

\* The unwinding order sells what the last accepted leg of the cycle filled.
UnwindSound ==
    /\ unwinding = "none" => order = 0 /\ unwound = 0
    /\ unwinding # "none" => Answered /\ pc \in {"market", "returned", "raised"}
    /\ unwinding = "bridge" => /\ Accepted("leg1") /\ ~Accepted("leg2")
                               /\ order = filled["leg1"]
    /\ unwinding = "target" => /\ Accepted("leg1") /\ Accepted("leg2") /\ ~Accepted("leg3")
                               /\ order = filled["leg2"]
    /\ pc = "market" => unwinding # "none"

\* A caller that gets a status got it after all answers, and without an
\* unwinding order only where no branch places one.
StatusSound ==
    /\ pc = "call" => \A l \in Legs : legState[l] = "unsent"
    /\ pc = "returned" => /\ Answered
                          /\ unwinding = "none" =>
                                \/ status = "SUCCESS" /\ \A l \in Legs : Accepted(l)
                                \/ status = "REJECTED" /\ \A l \in Legs : ~Accepted(l)
                                \/ ~Accepted("leg1") /\ (Accepted("leg2") \/ Accepted("leg3"))
                          /\ unwinding # "none" =>
                                /\ unwound \in 0..order
                                /\ status = IF unwound > 0 THEN "HEDGED" ELSE "PARTIAL_FILL"

\* The types but the bounds of the positions, which PositionsTraced implies.
CoreTypeOK ==
    /\ pc \in {"call", "gather", "market", "returned", "raised"}
    /\ legState \in [Legs -> {"unsent", "sent", "accepted", "rejected", "raised"}]
    /\ filled \in [Legs -> 0..Amount]
    /\ unwinding \in Assets \cup {"none"}
    /\ order \in 0..Amount
    /\ unwound \in 0..Amount
    /\ status \in {"none", "SUCCESS", "REJECTED", "HEDGED", "PARTIAL_FILL"}
    /\ position \in [Assets -> Int]

IInv == CoreTypeOK /\ PositionsTraced /\ UnwindSound /\ StatusSound

LEMMA InitInv == Init => IInv
<1> SUFFICES ASSUME Init PROVE IInv
  OBVIOUS
<1>1. CoreTypeOK /\ UnwindSound /\ StatusSound
  BY DEF Init, CoreTypeOK, UnwindSound, StatusSound
<1>2. (\A l \in Legs : Fills(l) = {0}) /\ Sales = {0}
  BY DEF Init, Fills, Sales
<1>3. PositionsTraced
  BY <1>2 DEF Init, PositionsTraced
<1>4. QED
  BY <1>1, <1>3 DEF IInv

-----------------------------------------------------------------------------
(* Facts about the helpers.                                                *)

\* What is filled, or sold, is a number of lots.
LEMMA FillsInt ==
    ASSUME CoreTypeOK
    PROVE  /\ \A l \in Legs : \A f \in Fills(l) : f \in 0..Amount
           /\ \A s \in Sales : s \in 0..Amount
BY DEF CoreTypeOK, Fills, Sales

\* A fill of each leg moves the two positions as the cycle says.
LEMMA MovesOf ==
    ASSUME CoreTypeOK, NEW l \in Legs, NEW f \in 0..Amount, Traded(l, f)
    PROVE  /\ position' \in [Assets -> Int]
           /\ l = "leg1" => /\ position'["bridge"] = position["bridge"] + f
                            /\ position'["target"] = position["target"]
           /\ l = "leg2" => /\ position'["bridge"] = position["bridge"] - f
                            /\ position'["target"] = position["target"] + f
           /\ l = "leg3" => /\ position'["bridge"] = position["bridge"]
                            /\ position'["target"] = position["target"] - f
<1>1. \A a \in Assets : Moves(l, a, f) \in Int
  BY DEF Moves
<1>2. position' \in [Assets -> Int]
  BY <1>1 DEF Traded, CoreTypeOK
<1>3. \A a \in Assets : position'[a] = position[a] + Moves(l, a, f) /\ position[a] \in Int
  BY DEF Traded, CoreTypeOK
<1>4. QED
  BY <1>2, <1>3 DEF Moves

-----------------------------------------------------------------------------
(* The legs' answers.                                                      *)

\* An answer, or its loss, comes before any unwinding and any status.
LEMMA BeforeAnswered ==
    ASSUME IInv, NEW l \in Legs, legState[l] = "sent"
    PROVE  unwinding = "none" /\ pc \in {"gather", "raised"} /\ Sales = {0}
BY DEF IInv, CoreTypeOK, UnwindSound, StatusSound, Answered, Sales

LEMMA LegFilledInv ==
    ASSUME IInv, NEW l \in Legs, NEW f \in 0..Amount, legState[l] = "sent",
           \/ /\ legState' = [legState EXCEPT ![l] = "accepted"]
              /\ filled' = [filled EXCEPT ![l] = f]
           \/ /\ legState' = [legState EXCEPT ![l] = "raised"]
              /\ filled' = filled,
           Traded(l, f), UNCHANGED <<pc, unwinding, order, unwound, status>>
    PROVE  IInv'
<1>1. unwinding = "none" /\ pc \in {"gather", "raised"} /\ Sales = {0} /\ Sales' = {0}
  BY BeforeAnswered DEF Sales
<1>2. CoreTypeOK'
  BY MovesOf DEF IInv, CoreTypeOK
<1>3. UnwindSound' /\ StatusSound'
  BY <1>1 DEF IInv, CoreTypeOK, UnwindSound, StatusSound
<1>4. Fills(l) = {0} /\ f \in Fills(l)'
  BY DEF IInv, CoreTypeOK, Fills
<1>5. \A k \in Legs \ {l} : Fills(k)' = Fills(k)
  BY DEF IInv, CoreTypeOK, Fills
<1>6. PICK f1 \in Fills("leg1"), f2 \in Fills("leg2"), f3 \in Fills("leg3") :
         position["bridge"] = f1 - f2 /\ position["target"] = f2 - f3
  <2>1. PICK f1 \in Fills("leg1"), f2 \in Fills("leg2"), f3 \in Fills("leg3"), s \in Sales :
           /\ position["bridge"] = f1 - f2 - (IF unwinding = "bridge" THEN s ELSE 0)
           /\ position["target"] = f2 - f3 - (IF unwinding = "target" THEN s ELSE 0)
    BY DEF IInv, PositionsTraced
  <2>2. f1 \in Int /\ f2 \in Int /\ f3 \in Int
    BY FillsInt DEF IInv
  <2>3. QED
    BY <1>1, <2>1, <2>2
<1>7. f1 \in Int /\ f2 \in Int /\ f3 \in Int
  BY FillsInt DEF IInv
<1>8. PositionsTraced'
  <2>1. CASE l = "leg1"
    <3>1. f1 = 0 /\ f \in Fills("leg1")' /\ f2 \in Fills("leg2")' /\ f3 \in Fills("leg3")'
      BY <1>4, <1>5, <1>6, <2>1
    <3>2. position'["bridge"] = f - f2 /\ position'["target"] = f2 - f3
      BY <1>6, <1>7, <2>1, <3>1, MovesOf DEF IInv
    <3>3. QED
      BY <1>1, <1>7, <3>1, <3>2 DEF PositionsTraced
  <2>2. CASE l = "leg2"
    <3>1. f2 = 0 /\ f1 \in Fills("leg1")' /\ f \in Fills("leg2")' /\ f3 \in Fills("leg3")'
      BY <1>4, <1>5, <1>6, <2>2
    <3>2. position'["bridge"] = f1 - f /\ position'["target"] = f - f3
      BY <1>6, <1>7, <2>2, <3>1, MovesOf DEF IInv
    <3>3. QED
      BY <1>1, <1>7, <3>1, <3>2 DEF PositionsTraced
  <2>3. CASE l = "leg3"
    <3>1. f3 = 0 /\ f1 \in Fills("leg1")' /\ f2 \in Fills("leg2")' /\ f \in Fills("leg3")'
      BY <1>4, <1>5, <1>6, <2>3
    <3>2. position'["bridge"] = f1 - f2 /\ position'["target"] = f2 - f
      BY <1>6, <1>7, <2>3, <3>1, MovesOf DEF IInv
    <3>3. QED
      BY <1>1, <1>7, <3>1, <3>2 DEF PositionsTraced
  <2>4. QED
    BY <2>1, <2>2, <2>3
<1>9. QED
  BY <1>2, <1>3, <1>8 DEF IInv

\* Nothing but pc and what is known of the legs changes, and no position.
LEMMA SamePositions ==
    ASSUME IInv, \A l \in Legs : Fills(l)' = Fills(l), Sales' = Sales,
           UNCHANGED <<unwinding, position>>
    PROVE  PositionsTraced'
BY DEF IInv, PositionsTraced

LEMMA LegRejectedInv ==
    ASSUME IInv, NEW l \in Legs, LegRejected(l)
    PROVE  IInv'
<1>1. unwinding = "none" /\ pc \in {"gather", "raised"} /\ Sales = {0} /\ Sales' = {0}
  BY BeforeAnswered DEF LegRejected, Sales
<1>2. CoreTypeOK'
  BY DEF LegRejected, IInv, CoreTypeOK
<1>3. UnwindSound' /\ StatusSound'
  BY <1>1 DEF LegRejected, IInv, CoreTypeOK, UnwindSound, StatusSound
<1>4. \A k \in Legs : Fills(k)' = Fills(k)
  BY DEF LegRejected, IInv, CoreTypeOK, Fills
<1>5. PositionsTraced'
  BY <1>1, <1>4, SamePositions DEF LegRejected
<1>6. QED
  BY <1>2, <1>3, <1>5 DEF IInv

-----------------------------------------------------------------------------
(* The coroutine.                                                          *)

LEMMA FireLegsInv == ASSUME IInv, FireLegs PROVE IInv'
<1>1. CoreTypeOK' /\ UnwindSound' /\ StatusSound'
  BY DEF FireLegs, IInv, CoreTypeOK, UnwindSound, StatusSound
<1>2. (\A l \in Legs : Fills(l)' = Fills(l)) /\ Sales' = Sales
  BY DEF FireLegs, IInv, CoreTypeOK, UnwindSound, StatusSound, Fills, Sales
<1>3. QED
  BY <1>1, <1>2, SamePositions DEF FireLegs, IInv

LEMMA GatherRaisesInv == ASSUME IInv, GatherRaises PROVE IInv'
<1>1. unwinding = "none"
  BY DEF GatherRaises, IInv, UnwindSound
<1>2. CoreTypeOK' /\ UnwindSound' /\ StatusSound'
  BY <1>1 DEF GatherRaises, IInv, CoreTypeOK, UnwindSound, StatusSound, Answered, Accepted
<1>3. (\A l \in Legs : Fills(l)' = Fills(l)) /\ Sales' = Sales
  BY <1>1 DEF GatherRaises, Fills, Sales
<1>4. QED
  BY <1>2, <1>3, SamePositions DEF GatherRaises, IInv

LEMMA ReturnInv == ASSUME IInv, AllAccepted \/ NoneAccepted \/ NothingUnwound PROVE IInv'
<1>1. PICK s \in {"SUCCESS", "REJECTED", "PARTIAL_FILL"} :
         /\ Return(s)
         /\ \/ s = "SUCCESS" /\ \A l \in Legs : Accepted(l)
            \/ s = "REJECTED" /\ \A l \in Legs : ~Accepted(l)
            \/ ~Accepted("leg1") /\ (Accepted("leg2") \/ Accepted("leg3"))
  BY DEF AllAccepted, NoneAccepted, NothingUnwound
<1>2. unwinding = "none" /\ unwound = 0
  BY <1>1 DEF Return, IInv, UnwindSound
<1>3. CoreTypeOK' /\ UnwindSound' /\ StatusSound'
  BY <1>1, <1>2 DEF Return, IInv, CoreTypeOK, UnwindSound, StatusSound, Answered, Accepted
<1>4. (\A l \in Legs : Fills(l)' = Fills(l)) /\ Sales' = Sales
  BY <1>1, <1>2 DEF Return, Fills, Sales
<1>5. QED
  BY <1>1, <1>3, <1>4, SamePositions DEF Return, IInv

LEMMA PlaceUnwindInv == ASSUME IInv, UnwindBridge \/ UnwindTarget PROVE IInv'
<1>1. \/ /\ Accepted("leg1") /\ ~Accepted("leg2")
         /\ PlaceUnwind("bridge", filled["leg1"])
      \/ /\ Accepted("leg1") /\ Accepted("leg2") /\ ~Accepted("leg3")
         /\ PlaceUnwind("target", filled["leg2"])
  BY DEF UnwindBridge, UnwindTarget
<1>2. /\ pc = "gather" /\ unwinding = "none" /\ Answered
      /\ pc' = "market" /\ unwinding' \in Assets
      /\ UNCHANGED <<legState, filled, unwound, status, position>>
  BY <1>1 DEF PlaceUnwind, IInv, UnwindSound, Answered
<1>3. CoreTypeOK' /\ UnwindSound' /\ StatusSound'
  BY <1>1, <1>2 DEF PlaceUnwind, IInv, CoreTypeOK, UnwindSound, StatusSound, Answered, Accepted
<1>4. (\A l \in Legs : Fills(l)' = Fills(l)) /\ Sales = {0} /\ Sales' = {0}
  BY <1>2 DEF Fills, Sales
<1>5. PositionsTraced'
  <2>1. PICK f1 \in Fills("leg1"), f2 \in Fills("leg2"), f3 \in Fills("leg3") :
           position["bridge"] = f1 - f2 - 0 /\ position["target"] = f2 - f3 - 0
    BY <1>2, <1>4 DEF IInv, PositionsTraced
  <2>2. QED
    BY <1>2, <1>4, <2>1 DEF PositionsTraced
<1>6. QED
  BY <1>3, <1>5 DEF IInv

\* While the market order is out, the position it unwinds is just that order.
LEMMA MarketPosition ==
    ASSUME IInv, pc = "market"
    PROVE  /\ unwinding \in Assets /\ order \in 0..Amount
           /\ position[unwinding] = order
           /\ position \in [Assets -> Int]
<1>1. /\ unwinding \in Assets /\ order \in 0..Amount /\ Answered /\ Sales = {0}
      /\ position \in [Assets -> Int] /\ \A l \in Legs : filled[l] \in 0..Amount
  BY DEF IInv, CoreTypeOK, UnwindSound, Sales
<1>2. PICK f1 \in Fills("leg1"), f2 \in Fills("leg2"), f3 \in Fills("leg3") :
         position["bridge"] = f1 - f2 - 0 /\ position["target"] = f2 - f3 - 0
  BY <1>1 DEF IInv, PositionsTraced
<1>3. \A l \in Legs : Fills(l) = IF Accepted(l) THEN {filled[l]} ELSE {0}
  BY <1>1 DEF Fills, Answered, Accepted
<1>4. CASE unwinding = "bridge"
  <2>1. f1 = order /\ f2 = 0
    BY <1>2, <1>3, <1>4 DEF IInv, UnwindSound
  <2>2. QED
    BY <1>1, <1>2, <1>4, <2>1
<1>5. CASE unwinding = "target"
  <2>1. f2 = order /\ f3 = 0
    BY <1>2, <1>3, <1>5 DEF IInv, UnwindSound
  <2>2. QED
    BY <1>1, <1>2, <1>5, <2>1
<1>6. QED
  BY <1>1, <1>4, <1>5

LEMMA UnwindEndsInv == ASSUME IInv, UnwindAnswered \/ UnwindRaises PROVE IInv'
<1>1. PICK f \in 0..order :
         /\ pc = "market" /\ Sold(f)
         /\ \/ /\ unwound' = f /\ pc' = "returned"
               /\ status' = IF f > 0 THEN "HEDGED" ELSE "PARTIAL_FILL"
            \/ unwound' = unwound /\ pc' = "raised" /\ status' = status
         /\ UNCHANGED <<legState, filled, unwinding, order>>
  BY DEF UnwindAnswered, UnwindRaises
<1>2. /\ unwinding \in Assets /\ order \in 0..Amount /\ position \in [Assets -> Int]
      /\ f \in 0..Amount
  BY <1>1, MarketPosition
<1>3. CoreTypeOK' /\ UnwindSound' /\ StatusSound'
  BY <1>1, <1>2 DEF Sold, IInv, CoreTypeOK, UnwindSound, StatusSound, Answered, Accepted
<1>4. (\A l \in Legs : Fills(l)' = Fills(l)) /\ Sales = {0} /\ f \in Sales'
  BY <1>1, <1>2 DEF Fills, Sales
<1>5. PICK f1 \in Fills("leg1"), f2 \in Fills("leg2"), f3 \in Fills("leg3") :
         position["bridge"] = f1 - f2 - 0 /\ position["target"] = f2 - f3 - 0
  BY <1>2, <1>4 DEF IInv, PositionsTraced
<1>6. f1 \in Int /\ f2 \in Int /\ f3 \in Int
  BY FillsInt DEF IInv
<1>7. /\ position'["bridge"] = f1 - f2 - (IF unwinding' = "bridge" THEN f ELSE 0)
      /\ position'["target"] = f2 - f3 - (IF unwinding' = "target" THEN f ELSE 0)
  BY <1>1, <1>2, <1>5, <1>6 DEF Sold
<1>8. PositionsTraced'
  BY <1>4, <1>7 DEF PositionsTraced
<1>9. QED
  BY <1>3, <1>8 DEF IInv

LEMMA NextInv == IInv /\ [Next]_vars => IInv'
<1> SUFFICES ASSUME IInv, [Next]_vars PROVE IInv'
  OBVIOUS
<1>1. ASSUME NEW l \in Legs, LegAccepted(l) \/ LegRaised(l) PROVE IInv'
  BY <1>1, LegFilledInv DEF LegAccepted, LegRaised
<1>2. CASE Terminated \/ UNCHANGED vars
  <2>1. UNCHANGED vars
    BY <1>2 DEF Terminated
  <2>2. (\A l \in Legs : Fills(l)' = Fills(l)) /\ Sales' = Sales
    BY <2>1 DEF vars, Fills, Sales
  <2>3. QED
    BY <2>1, <2>2, SamePositions DEF vars, IInv, CoreTypeOK, UnwindSound, StatusSound,
                                     Answered, Accepted
<1>3. QED
  BY <1>1, <1>2, LegRejectedInv, FireLegsInv, GatherRaisesInv, ReturnInv, PlaceUnwindInv,
     UnwindEndsInv DEF Next, Resume, Answer

-----------------------------------------------------------------------------
(* The theorems.                                                           *)

\* Whatever the exchange fills, rejects or fails to answer, each position stays
\* within one leg of flat (execute_triangle, triangular.py 91-170).
THEOREM TypeCorrect == Spec => []TypeOK
<1>1. IInv => TypeOK
  <2> SUFFICES ASSUME IInv PROVE TypeOK
    OBVIOUS
  <2>1. PICK f1 \in Fills("leg1"), f2 \in Fills("leg2"), f3 \in Fills("leg3"), s \in Sales :
           /\ position["bridge"] = f1 - f2 - (IF unwinding = "bridge" THEN s ELSE 0)
           /\ position["target"] = f2 - f3 - (IF unwinding = "target" THEN s ELSE 0)
    BY DEF IInv, PositionsTraced
  <2>2. f1 \in 0..Amount /\ f2 \in 0..Amount /\ f3 \in 0..Amount /\ s \in 0..Amount
    BY FillsInt DEF IInv
  <2>3. /\ unwinding = "bridge" => f1 = order /\ f2 = 0 /\ s <= order
        /\ unwinding = "target" => f2 = order /\ f3 = 0 /\ s <= order
    <3>1. CASE unwinding = "none"
      BY <3>1
    <3>2. CASE unwinding # "none"
      <4>1. Answered /\ order \in 0..Amount
        BY <3>2 DEF IInv, UnwindSound, CoreTypeOK
      <4>2. \A l \in Legs : Fills(l) = IF Accepted(l) THEN {filled[l]} ELSE {0}
        BY <4>1 DEF Fills, Answered, Accepted
      <4>3. s <= order
        BY <3>2, <4>1 DEF IInv, CoreTypeOK, StatusSound, Sales
      <4>4. QED
        BY <2>1, <4>2, <4>3 DEF IInv, UnwindSound
    <3>3. QED
      BY <3>1, <3>2
  <2>4. position["bridge"] \in -Amount..Amount /\ position["target"] \in -Amount..Amount
    BY <2>1, <2>2, <2>3
  <2>5. QED
    BY <2>4 DEF IInv, CoreTypeOK, TypeOK
<1>2. QED
  BY InitInv, NextInv, <1>1, PTL DEF Spec

\* The market order of the unwinding never enlarges a position nor turns one
\* over, whatever part of it fills and whether or not its answer arrives
\* (triangular.py 149-158).
THEOREM UnwindShrinks == Spec => UnwindOnlyShrinks
<1>1. ASSUME IInv, Next, pc = "market", NEW a \in Assets
      PROVE  Distance(position'[a]) <= Distance(position[a])
  <2>1. /\ unwinding \in Assets /\ order \in 0..Amount /\ position[unwinding] = order
        /\ position \in [Assets -> Int]
    BY <1>1, MarketPosition
  <2>2. \A l \in Legs : legState[l] # "sent"
    BY <1>1 DEF IInv, CoreTypeOK, UnwindSound, Answered
  <2>3. CASE UnwindAnswered \/ UnwindRaises
    <3>1. PICK f \in 0..order : Sold(f)
      BY <2>3 DEF UnwindAnswered, UnwindRaises
    <3>2. position'[a] = IF a = unwinding THEN order - f ELSE position[a]
      BY <2>1, <3>1 DEF Sold
    <3>3. order - f \in Nat /\ order - f <= order /\ order \in Nat
      BY <2>1
    <3>4. QED
      BY <2>1, <3>2, <3>3 DEF Distance
  <2>4. CASE UNCHANGED position
    BY <2>1, <2>4 DEF Distance
  <2>5. QED
    BY <1>1, <2>2, <2>3, <2>4 DEF Next, Resume, Answer, Terminated, vars, LegAccepted, LegRejected,
       LegRaised, FireLegs, GatherRaises, AllAccepted, NoneAccepted, NothingUnwound, Return,
       UnwindBridge, UnwindTarget, PlaceUnwind
<1>2. IInv /\ [Next]_vars =>
        [pc = "market" => \A a \in Assets : Distance(position'[a]) <= Distance(position[a])]_vars
  BY <1>1
<1>3. QED
  BY <1>2, InitInv, NextInv, PTL DEF Spec, UnwindOnlyShrinks

\* A triangle whose legs were accepted up to some point of the cycle, on an
\* exchange that fills in full, ends flat and says so (triangular.py 120-170).
THEOREM CycleUnwound == Spec => []CycleOrderIsUnwound
<1>1. IInv => CycleOrderIsUnwound
  <2> SUFFICES ASSUME IInv, pc = "returned", FilledInFull, AcceptedInCycleOrder
               PROVE  (\A a \in Assets : position[a] = 0) /\ status # "PARTIAL_FILL"
    BY DEF CycleOrderIsUnwound
  <2>1. Answered /\ order \in 0..Amount
    BY DEF IInv, StatusSound, CoreTypeOK
  <2>2. \A l \in Legs : Fills(l) = IF Accepted(l) THEN {Amount} ELSE {0}
    BY <2>1 DEF Fills, Answered, Accepted, FilledInFull
  <2>3. unwinding # "none" => Sales = {order} /\ order = Amount
    BY DEF Sales, FilledInFull, IInv, UnwindSound, CoreTypeOK
  <2>4. PICK f1 \in Fills("leg1"), f2 \in Fills("leg2"), f3 \in Fills("leg3"), s \in Sales :
           /\ position["bridge"] = f1 - f2 - (IF unwinding = "bridge" THEN s ELSE 0)
           /\ position["target"] = f2 - f3 - (IF unwinding = "target" THEN s ELSE 0)
    BY DEF IInv, PositionsTraced
  <2>5. CASE unwinding = "none"
    <3>1. \/ status = "SUCCESS" /\ \A l \in Legs : Accepted(l)
          \/ status = "REJECTED" /\ \A l \in Legs : ~Accepted(l)
      BY <2>5 DEF IInv, StatusSound, AcceptedInCycleOrder
    <3>2. QED
      BY <2>2, <2>4, <2>5, <3>1
  <2>6. CASE unwinding = "bridge"
    <3>1. f1 = Amount /\ f2 = 0 /\ f3 = 0 /\ s = Amount
      BY <2>2, <2>3, <2>4, <2>6 DEF IInv, UnwindSound, AcceptedInCycleOrder
    <3>2. status = "HEDGED"
      BY <2>3, <2>6 DEF IInv, StatusSound, FilledInFull
    <3>3. QED
      BY <2>4, <2>6, <3>1, <3>2
  <2>7. CASE unwinding = "target"
    <3>1. f1 = Amount /\ f2 = Amount /\ f3 = 0 /\ s = Amount
      BY <2>2, <2>3, <2>4, <2>7 DEF IInv, UnwindSound
    <3>2. status = "HEDGED"
      BY <2>3, <2>7 DEF IInv, StatusSound, FilledInFull
    <3>3. QED
      BY <2>4, <2>7, <3>1, <3>2
  <2>8. QED
    BY <2>5, <2>6, <2>7 DEF IInv, CoreTypeOK
<1>2. QED
  BY InitInv, NextInv, <1>1, PTL DEF Spec
=============================================================================
