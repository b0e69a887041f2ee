---------------------------- MODULE PairedTrade ----------------------------
(***************************************************************************)
(* What a paired execution promises its caller, whatever orders it places: *)
(* a trade fills on each venue, at most one leg of it is broken, a broken  *)
(* leg is only ever flattened, and a status it reports is true of what is  *)
(* held on the venues.  BrokenLeg implements it.                           *)
(***************************************************************************)
EXTENDS Integers

CONSTANT Amount      \* base-asset quantity of each leg

Legs == {"buy", "sell"}
NoLeg == "none"
Statuses == {"SUCCESS", "REJECTED", "HEDGED", "PARTIAL_FILL"}

VARIABLES
    held,      \* base asset the trade holds (buy) or owes (sell) on each venue
    broken,    \* the leg being flattened, or NoLeg
    outcome    \* "pending", a status returned to the caller, or "raised"

vars == <<held, broken, outcome>>

Flat == \A l \in Legs : held[l] = 0

Init == /\ held = [l \in Legs |-> 0]
        /\ broken = NoLeg
        /\ outcome = "pending"

\* An order of leg l fills on its venue, perhaps after the caller has been
\* told that the execution failed.
Fill(l) == /\ outcome \in {"pending", "raised"}
           /\ broken = NoLeg
           /\ held[l] = 0
           /\ \E f \in 1..Amount : held' = [held EXCEPT ![l] = f]
           /\ UNCHANGED <<broken, outcome>>

\* Leg l turns out to be the only accepted one.
Break(l) == /\ outcome = "pending"
            /\ broken = NoLeg
            /\ \A k \in Legs \ {l} : held[k] = 0
            /\ broken' = l
            /\ UNCHANGED <<held, outcome>>

\* A broken leg shrinks towards zero and never beyond it.
Flatten == /\ outcome = "pending"
           /\ broken # NoLeg
           /\ \E r \in 0..held[broken] : held' = [held EXCEPT ![broken] = r]
           /\ outcome' \in {"pending", "HEDGED", "PARTIAL_FILL", "raised"}
           /\ outcome' = "HEDGED" => held'[broken] = 0
           /\ outcome' = "PARTIAL_FILL" => held'[broken] > 0
           /\ UNCHANGED broken

\* The execution ends without a leg to flatten.
Settle == /\ outcome = "pending"
          /\ broken = NoLeg
          /\ \/ outcome' = "SUCCESS"
             \/ outcome' = "REJECTED" /\ Flat
             \/ outcome' = "raised"
          /\ UNCHANGED <<held, broken>>

\* An accepted order that filled nothing needs no flattening.
SettleBroken(l) == /\ outcome = "pending"
                   /\ broken = NoLeg
                   /\ Flat
                   /\ broken' = l
                   /\ outcome' = "HEDGED"
                   /\ UNCHANGED held

Next == \/ \E l \in Legs : Fill(l) \/ Break(l) \/ SettleBroken(l)
        \/ Flatten
        \/ Settle

Spec == Init /\ [][Next]_vars

-----------------------------------------------------------------------------
\* What a caller who sees nothing but the contract can rely on: REJECTED and
\* HEDGED leave nothing behind, PARTIAL_FILL says what is open, and beside a broken
\* leg there is nothing (broken_leg.py 104-173).
Promise == /\ outcome \in {"REJECTED", "HEDGED"} => Flat
           /\ outcome = "PARTIAL_FILL" => broken # NoLeg /\ held[broken] > 0
           /\ broken # NoLeg => \A l \in Legs \ {broken} : held[l] = 0
=============================================================================
