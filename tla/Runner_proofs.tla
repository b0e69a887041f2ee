--------------------------- MODULE Runner_proofs ---------------------------
(***************************************************************************)
(* The lock, the kill switch, the daily use, the age of decisions and the  *)
(* executions that are in no row, for every set of monitors, whatever      *)
(* books they read and however long their awaits take; and Runner's types. *)
(***************************************************************************)
EXTENDS Runner, SequenceTheorems, FiniteSetTheorems, TLAPS

USE RunnerAssumption

\* The part of TypeOK that the lock, the switch and the cap rest on.
CoreTypeOK ==
    /\ DOMAIN feed = Monitors
    /\ \A m \in Monitors : DOMAIN feed[m] = Feeds(m)
    /\ pc \in [Monitors -> Stages]
    /\ used \in [Monitors -> Nat]

\* What passed the gate still fits under the cap, until the use is booked.
GateHolds ==
    \A m \in Monitors :
        pc[m] \in {"approved", "orders"} => used[m] + Notional <= DailyCap

IInv == CoreTypeOK /\ OneEvaluationInFlight /\ ApprovalsPredateEngage
            /\ GateHolds /\ DailyUsePerMonitor

LEMMA InitInv == Init => IInv
<1> SUFFICES ASSUME Init PROVE IInv
  OBVIOUS
<1>1. CoreTypeOK
  BY DEF Init, CoreTypeOK, Stages
<1>2. OneEvaluationInFlight
  BY DEF Init, OneEvaluationInFlight
<1>3. ApprovalsPredateEngage
  BY DEF Init, ApprovalsPredateEngage
<1>4. GateHolds /\ DailyUsePerMonitor
  BY DEF Init, GateHolds, DailyUsePerMonitor
<1>5. QED
  BY <1>1, <1>2, <1>3, <1>4 DEF IInv

-----------------------------------------------------------------------------
(* The two ways an evaluation moves.                                       *)

\* Moving on to another await: only the gate must be minded.
LEMMA AwaitInv ==
    ASSUME IInv, NEW m \in Monitors, NEW p \in Stages \ {"idle"}, NEW s, Await(m, p, s),
           pc[m] # "idle", UNCHANGED <<feed, used, engaged>>,
           p = "approved" => ~engaged,
           p \in {"approved", "orders"} => used[m] + Notional <= DailyCap,
           \A n \in Monitors \ {m} : n \in spared => n \in spared'
    PROVE  IInv'
<1>1. /\ pc' \in [Monitors -> Stages] /\ pc'[m] = p
      /\ \A n \in Monitors \ {m} : pc'[n] = pc[n]
  BY DEF IInv, CoreTypeOK, Await
<1>2. CoreTypeOK'
  BY <1>1 DEF IInv, CoreTypeOK
<1>3. OneEvaluationInFlight'
  BY <1>1 DEF IInv, OneEvaluationInFlight
<1>4. ApprovalsPredateEngage'
  BY <1>1 DEF IInv, ApprovalsPredateEngage
<1>5. GateHolds' /\ DailyUsePerMonitor'
  BY <1>1 DEF IInv, GateHolds, DailyUsePerMonitor
<1>6. QED
  BY <1>2, <1>3, <1>4, <1>5 DEF IInv

\* Leaving the evaluation frees the one feed that was busy with it.
LEMMA LeaveInv ==
    ASSUME IInv, NEW m \in Monitors, NEW f \in {"fetch", "crashed"}, Leave(m, f),
           UNCHANGED <<used, engaged, spared>>
    PROVE  IInv'
<1>1. /\ pc' \in [Monitors -> Stages] /\ pc'[m] = "idle"
      /\ \A n \in Monitors \ {m} : pc'[n] = pc[n]
  BY DEF IInv, CoreTypeOK, Leave, Await, Stages
<1>2. /\ DOMAIN feed' = Monitors
      /\ feed'[m] = [i \in Feeds(m) |-> IF feed[m][i] = "busy" THEN f ELSE feed[m][i]]
      /\ \A n \in Monitors \ {m} : feed'[n] = feed[n]
  BY DEF IInv, CoreTypeOK, Leave
<1>3. CoreTypeOK'
  BY <1>1, <1>2 DEF IInv, CoreTypeOK
<1>4. OneEvaluationInFlight'
  <2>1. ASSUME NEW i \in Feeds(m) PROVE feed'[m][i] # "busy"
    <3>1. feed'[m][i] = IF feed[m][i] = "busy" THEN f ELSE feed[m][i]
      BY <1>2, Zenon
    <3>2. f # "busy"
      OBVIOUS
    <3>3. QED
      BY <3>1, <3>2
  <2>2. ASSUME NEW n \in Monitors, NEW i \in Feeds(n), NEW j \in Feeds(n)
        PROVE  /\ feed'[n][i] = "busy" /\ feed'[n][j] = "busy" => i = j
               /\ feed'[n][i] = "busy" => pc'[n] # "idle"
    <3>1. CASE n = m
      BY <2>1, <3>1, Zenon
    <3>2. CASE n # m
      <4>1. feed'[n] = feed[n] /\ pc'[n] = pc[n]
        BY <1>1, <1>2, <3>2
      <4>2. QED
        BY <4>1 DEF IInv, OneEvaluationInFlight
    <3>3. QED
      BY <3>1, <3>2
  <2>3. QED
    BY <2>2, Zenon DEF OneEvaluationInFlight
<1>5. ApprovalsPredateEngage'
  BY <1>1 DEF IInv, ApprovalsPredateEngage
<1>6. GateHolds' /\ DailyUsePerMonitor'
  BY <1>1 DEF IInv, GateHolds, DailyUsePerMonitor
<1>7. QED
  BY <1>3, <1>4, <1>5, <1>6 DEF IInv

-----------------------------------------------------------------------------
(* The actions.                                                            *)

LEMMA DeliverInv ==
    ASSUME IInv, NEW m \in Monitors, NEW i \in Feeds(m), Deliver(m, i)
    PROVE  IInv'
<1>1. CASE UNCHANGED <<evaluation, feed>>
  BY <1>1 DEF Deliver, IInv, CoreTypeOK, OneEvaluationInFlight, ApprovalsPredateEngage,
              GateHolds, DailyUsePerMonitor, evaluation, books
<1>2. CASE pc[m] = "idle" /\ Await(m, "read", <<>>) /\ feed' = [feed EXCEPT ![m][i] = "busy"]
  <2>1. /\ pc' \in [Monitors -> Stages] /\ pc'[m] = "read"
        /\ \A n \in Monitors \ {m} : pc'[n] = pc[n]
    BY <1>2 DEF IInv, CoreTypeOK, Await, Stages
  <2>2. /\ DOMAIN feed' = Monitors
        /\ \A n \in Monitors : DOMAIN feed'[n] = Feeds(n)
        /\ \A n \in Monitors \ {m} : feed'[n] = feed[n]
        /\ \A j \in Feeds(m) \ {i} : feed'[m][j] = feed[m][j]
    <3>1. DOMAIN feed = Monitors /\ \A n \in Monitors : DOMAIN feed[n] = Feeds(n)
      BY DEF IInv, CoreTypeOK
    <3>2. /\ DOMAIN feed' = Monitors
          /\ feed'[m] = [feed[m] EXCEPT ![i] = "busy"]
          /\ \A n \in Monitors \ {m} : feed'[n] = feed[n]
      BY <1>2, <3>1
    <3>3. QED
      BY <3>1, <3>2
  <2>3. UNCHANGED <<used, engaged, spared>>
    BY DEF Deliver, books
  <2>4. CoreTypeOK'
    BY <2>1, <2>2, <2>3 DEF IInv, CoreTypeOK
  <2>5. \A j \in Feeds(m) : feed[m][j] # "busy"
    BY <1>2 DEF IInv, OneEvaluationInFlight
  <2>6. OneEvaluationInFlight'
    <3>1. ASSUME NEW n \in Monitors, NEW j \in Feeds(n), NEW k \in Feeds(n)
          PROVE  /\ feed'[n][j] = "busy" /\ feed'[n][k] = "busy" => j = k
                 /\ feed'[n][j] = "busy" => pc'[n] # "idle"
      <4>1. CASE n = m
        <5>1. \A l \in Feeds(m) : feed'[m][l] = "busy" => l = i
          BY <2>2, <2>5, Zenon
        <5>2. QED
          BY <2>1, <4>1, <5>1
      <4>2. CASE n # m
        <5>1. feed'[n] = feed[n] /\ pc'[n] = pc[n]
          BY <2>1, <2>2, <4>2
        <5>2. QED
          BY <5>1 DEF IInv, OneEvaluationInFlight
      <4>3. QED
        BY <4>1, <4>2
    <3>2. QED
      BY <3>1, Zenon DEF OneEvaluationInFlight
  <2>7. ApprovalsPredateEngage'
    BY <2>1, <2>3 DEF IInv, ApprovalsPredateEngage
  <2>8. GateHolds' /\ DailyUsePerMonitor'
    BY <2>1, <2>3 DEF IInv, GateHolds, DailyUsePerMonitor
  <2>9. QED
    BY <2>4, <2>6, <2>7, <2>8 DEF IInv
<1>3. QED
  BY <1>1, <1>2 DEF Deliver, Starts

LEMMA FeedFailsInv ==
    ASSUME IInv, NEW m \in Monitors, NEW i \in Feeds(m), FeedFails(m, i)
    PROVE  IInv'
<1>1. /\ DOMAIN feed' = Monitors
      /\ \A n \in Monitors : DOMAIN feed'[n] = Feeds(n)
      /\ \A n \in Monitors : \A j \in Feeds(n) : feed'[n][j] = "busy" => feed[n][j] = "busy"
  BY DEF FeedFails, IInv, CoreTypeOK
<1>2. UNCHANGED <<pc, used, engaged, spared>>
  BY DEF FeedFails, evaluation, books
<1>3. QED
  BY <1>1, <1>2 DEF IInv, CoreTypeOK, OneEvaluationInFlight, ApprovalsPredateEngage,
                    GateHolds, DailyUsePerMonitor

LEMMA BuildFeedsInv ==
    ASSUME IInv, NEW m \in Monitors, BuildFeeds(m)
    PROVE  IInv'
<1>1. /\ DOMAIN feed' = Monitors
      /\ \A n \in Monitors : DOMAIN feed'[n] = Feeds(n)
      /\ \A n \in Monitors : \A j \in Feeds(n) : feed'[n][j] = "busy" => feed[n][j] = "busy"
  BY DEF BuildFeeds, IInv, CoreTypeOK
<1>2. UNCHANGED <<pc, used, engaged, spared>>
  BY DEF BuildFeeds, evaluation, books
<1>3. QED
  BY <1>1, <1>2 DEF IInv, CoreTypeOK, OneEvaluationInFlight, ApprovalsPredateEngage,
                    GateHolds, DailyUsePerMonitor

LEMMA GateInv ==
    ASSUME IInv, NEW m \in Monitors, NEW s, Gate(m, s), pc[m] # "idle",
           UNCHANGED <<used, engaged, spared>>
    PROVE  IInv'
<1>1. PICK good \in BOOLEAN : IF Approves(m, good)
                              THEN Await(m, "approved", s) /\ UNCHANGED feed
                              ELSE Finish(m)
  BY DEF Gate
<1>2. CASE Approves(m, good)
  <2>1. ~engaged /\ used[m] + Notional <= DailyCap
    BY <1>2 DEF Approves
  <2>2. Await(m, "approved", s) /\ UNCHANGED feed
    BY <1>1, <1>2
  <2>3. QED
    BY <2>1, <2>2, AwaitInv DEF Stages
<1>3. CASE ~Approves(m, good)
  BY <1>1, <1>3, LeaveInv DEF Finish
<1>4. QED
  BY <1>2, <1>3

LEMMA ReadBookInv ==
    ASSUME IInv, NEW m \in Monitors, ReadBook(m)
    PROVE  IInv'
<1> DEFINE s == Append(snaps[m], cache[Books[m][Len(snaps[m]) + 1]])
<1>1. pc[m] # "idle" /\ UNCHANGED <<used, engaged, spared>>
  BY DEF ReadBook, books
<1>2. \/ \E p \in {"read", "log"} : Await(m, p, s) /\ UNCHANGED feed
      \/ Finish(m)
      \/ Gate(m, s)
  BY DEF ReadBook
<1> HIDE DEF s
<1>3. CASE \E p \in {"read", "log"} : Await(m, p, s) /\ UNCHANGED feed
  BY <1>1, <1>3, AwaitInv DEF Stages
<1>4. CASE Finish(m)
  BY <1>1, <1>4, LeaveInv DEF Finish
<1>5. CASE Gate(m, s)
  BY <1>1, <1>5, GateInv
<1>6. QED
  BY <1>2, <1>3, <1>4, <1>5

LEMMA LoggedInv == ASSUME IInv, NEW m \in Monitors, Logged(m) PROVE IInv'
BY GateInv DEF Logged, books

LEMMA PlaceOrdersInv == ASSUME IInv, NEW m \in Monitors, PlaceOrders(m) PROVE IInv'
<1>1. pc[m] = "approved" /\ Await(m, "orders", snaps[m]) /\ UNCHANGED <<feed, used, engaged>>
  BY DEF PlaceOrders, books
<1>2. used[m] + Notional <= DailyCap
  BY <1>1 DEF IInv, GateHolds
<1>3. \A n \in Monitors \ {m} : n \in spared => n \in spared'
  BY DEF PlaceOrders
<1>4. QED
  BY <1>1, <1>2, <1>3, AwaitInv DEF Stages

LEMMA TradeReturnsInv == ASSUME IInv, NEW m \in Monitors, TradeReturns(m) PROVE IInv'
<1>1. PICK v \in 0..MaxVolume : used' = [used EXCEPT ![m] = @ + v]
  BY DEF TradeReturns
<1>2. /\ pc[m] = "orders" /\ pc'[m] = "persist" /\ pc' \in [Monitors -> Stages]
      /\ \A n \in Monitors \ {m} : pc'[n] = pc[n]
      /\ UNCHANGED <<feed, engaged, spared>>
  BY DEF TradeReturns, Await, IInv, CoreTypeOK, Stages
<1>3. used[m] + Notional <= DailyCap /\ used \in [Monitors -> Nat]
  BY <1>2 DEF IInv, GateHolds, CoreTypeOK
<1>4. /\ used' \in [Monitors -> Nat] /\ used'[m] <= DailyCap + (MaxVolume - Notional)
      /\ \A n \in Monitors \ {m} : used'[n] = used[n]
  BY <1>1, <1>3
<1>5. CoreTypeOK'
  BY <1>2, <1>4 DEF IInv, CoreTypeOK
<1>6. OneEvaluationInFlight' /\ ApprovalsPredateEngage'
  BY <1>2 DEF IInv, OneEvaluationInFlight, ApprovalsPredateEngage
<1>7. GateHolds' /\ DailyUsePerMonitor'
  BY <1>2, <1>4 DEF IInv, GateHolds, DailyUsePerMonitor
<1>8. QED
  BY <1>5, <1>6, <1>7 DEF IInv

LEMMA NextInv == IInv /\ [Next]_vars => IInv'
<1> SUFFICES ASSUME IInv, [Next]_vars PROVE IInv'
  OBVIOUS
<1> USE DEF evaluation, books
<1>1. ASSUME NEW m \in Monitors, Evaluate(m) \/ EvaluationRaises(m) PROVE IInv'
  BY <1>1, ReadBookInv, LoggedInv, PlaceOrdersInv, TradeReturnsInv, LeaveInv
     DEF Evaluate, Persisted, EvaluationRaises, Finish, Crash
<1>2. CASE Engage \/ Disengage
  BY <1>2 DEF Engage, Disengage, IInv, CoreTypeOK, OneEvaluationInFlight,
              ApprovalsPredateEngage, GateHolds, DailyUsePerMonitor
<1>3. CASE UNCHANGED <<feed, pc, used, engaged, spared>>
  BY <1>3 DEF IInv, CoreTypeOK, OneEvaluationInFlight, ApprovalsPredateEngage,
              GateHolds, DailyUsePerMonitor
<1>4. CASE \/ \E m \in Monitors : BuildRaises(m) \/ MonitorCrashes(m)
           \/ RunReturns \/ Tick \/ UNCHANGED vars
  BY <1>3, <1>4 DEF BuildRaises, MonitorCrashes, RunReturns, Tick, vars
<1>5. QED
  BY <1>1, <1>2, <1>4, DeliverInv, FeedFailsInv, BuildFeedsInv DEF Next

\* Every monitor evaluates in one task at a time: for any number of monitors,
\* books and feeds, any timing and any crash (runner.py 121-127, 283-287).
THEOREM OneTaskEvaluates == Spec => []OneEvaluationInFlight
<1>1. IInv => OneEvaluationInFlight
  BY DEF IInv
<1>2. QED
  BY InitInv, NextInv, <1>1, PTL DEF Spec

\* After the kill switch is engaged, a monitor sends only orders that were
\* approved before (runner.py 168-227, 343-366).
THEOREM EngageStopsApprovals == Spec => []ApprovalsPredateEngage
<1>1. IInv => ApprovalsPredateEngage
  BY DEF IInv
<1>2. QED
  BY InitInv, NextInv, <1>1, PTL DEF Spec

\* A monitor overshoots its own daily cap by at most one trade's price excess
\* (decision.py 70-75, runner.py 193-231).
THEOREM DailyUseCapped == Spec => []DailyUsePerMonitor
<1>1. IInv => DailyUsePerMonitor
  BY DEF IInv
<1>2. QED
  BY InitInv, NextInv, <1>1, PTL DEF Spec

-----------------------------------------------------------------------------
(* The second inductive invariant: types, and what each stage of an        *)
(* evaluation implies about what it has read and executed.                 *)

StagesSound ==
    \A m \in Monitors :
        /\ pc[m] = "read" => Len(snaps[m]) < Len(Books[m])
        /\ pc[m] \in {"log", "approved"} => Len(snaps[m]) = Len(Books[m])
        /\ pc[m] = "log" => m \in Logging
        /\ pc[m] = "persist" => unsaved[m] > 0

\* Whether an evaluation that stands at p has waited for the sample logger.
LogAwaits(m, p) == IF p = "approved" /\ m \in Logging THEN 1 ELSE 0

\* The most that a snapshot's age can be after so many awaits, w ticks into the next.
Oldest(awaits, w) == TTL - 1 + AwaitTicks * awaits + w

\* A snapshot ages by AwaitTicks at most per await, from the age it was read at.
AgesBounded ==
    \A m \in Monitors : pc[m] \in {"read", "log", "approved"} =>
        \A i \in 1..Len(snaps[m]) :
            /\ snaps[m][i] <= Oldest((Len(snaps[m]) - i) + LogAwaits(m, pc[m]), waited[m])
            /\ snaps[m][i] >= (IF pc[m] = "read" THEN Missing ELSE 0)

\* An evaluation runs in the callback of a trigger feed, which its exception
\* will end; no feed runs before it is built.
TriggerBusy ==
    \A m \in Monitors :
        /\ pc[m] # "idle" => \E i \in Triggers[m] : feed[m][i] = "busy"
        /\ monitor[m] = "starting" => \A i \in Feeds(m) : feed[m][i] = "unbuilt"

EvalTypeOK ==
    /\ pc \in [Monitors -> Stages]
    /\ snaps \in [Monitors -> Seq(Int)]
    /\ \A m \in Monitors : Len(snaps[m]) <= Len(Books[m])
    /\ waited \in [Monitors -> 0..AwaitTicks]

FeedTypeOK ==
    /\ DOMAIN feed = Monitors
    /\ \A m \in Monitors : feed[m] \in [Feeds(m) -> {"unbuilt", "fetch", "busy", "crashed"}]

RestTypeOK ==
    /\ cache \in [AllBooks -> Missing..(TTL - 1)]
    /\ warm \in [Monitors -> Nat] /\ \A m \in Monitors : warm[m] <= WarmUp[m]
    /\ used \in [Monitors -> Nat]
    /\ monitor \in [Monitors -> {"starting", "running", "crashed", "exited"}]
    /\ errors \in Seq(Labels) /\ Len(errors) <= ErrorsKept
    /\ running \in BOOLEAN /\ engaged \in BOOLEAN
    /\ spared \subseteq Monitors
    /\ unsaved \in [Monitors -> Nat]

LEMMA TypeParts == TypeOK <=> EvalTypeOK /\ FeedTypeOK /\ RestTypeOK
BY Zenon DEF TypeOK, EvalTypeOK, FeedTypeOK, RestTypeOK

LEMMA BooksProperties ==
    ASSUME NEW m \in Monitors
    PROVE  /\ Len(Books[m]) \in Nat \ {0}
           /\ \A i \in Feeds(m) : Books[m][i] \in AllBooks
<1>1. Books[m] \in Seq(STRING) /\ Books[m] # <<>>
  OBVIOUS
<1>2. QED
  BY <1>1, EmptySeq, LenProperties DEF AllBooks

-----------------------------------------------------------------------------
(* Moving on to another await.                                             *)

LEMMA AwaitMoves ==
    ASSUME EvalTypeOK, NEW m \in Monitors, NEW p \in Stages, NEW s \in Seq(Int), Await(m, p, s)
    PROVE  /\ pc' \in [Monitors -> Stages] /\ snaps' \in [Monitors -> Seq(Int)]
           /\ waited' \in [Monitors -> 0..AwaitTicks]
           /\ pc'[m] = p /\ snaps'[m] = s /\ waited'[m] = 0
           /\ \A n \in Monitors \ {m} :
                 pc'[n] = pc[n] /\ snaps'[n] = snaps[n] /\ waited'[n] = waited[n]
<1>1. pc' \in [Monitors -> Stages] /\ pc'[m] = p /\ \A n \in Monitors \ {m} : pc'[n] = pc[n]
  BY DEF EvalTypeOK, Await
<1>2. /\ snaps' \in [Monitors -> Seq(Int)] /\ snaps'[m] = s
      /\ \A n \in Monitors \ {m} : snaps'[n] = snaps[n]
  BY DEF EvalTypeOK, Await
<1>3. /\ waited' \in [Monitors -> 0..AwaitTicks] /\ waited'[m] = 0
      /\ \A n \in Monitors \ {m} : waited'[n] = waited[n]
  <2>1. 0 \in 0..AwaitTicks
    OBVIOUS
  <2>2. waited \in [Monitors -> 0..AwaitTicks] /\ waited' = [waited EXCEPT ![m] = 0]
    BY DEF EvalTypeOK, Await
  <2>3. QED
    BY <2>1, <2>2, Zenon
<1>4. QED
  BY <1>1, <1>2, <1>3, Zenon

\* What a stage asks for when an evaluation of m, having read s, enters it.
Enters(m, p, s) ==
    /\ Len(s) <= Len(Books[m])
    /\ p = "read" => Len(s) < Len(Books[m])
    /\ p \in {"log", "approved"} => Len(s) = Len(Books[m])
    /\ p = "log" => m \in Logging

LEMMA AwaitSound ==
    ASSUME EvalTypeOK, StagesSound, NEW m \in Monitors, NEW p \in Stages, NEW s \in Seq(Int),
           Await(m, p, s), Enters(m, p, s),
           p = "persist" => unsaved'[m] > 0,
           \A n \in Monitors \ {m} : unsaved'[n] = unsaved[n]
    PROVE  EvalTypeOK' /\ StagesSound'
<1>1. /\ pc' \in [Monitors -> Stages] /\ snaps' \in [Monitors -> Seq(Int)]
      /\ waited' \in [Monitors -> 0..AwaitTicks]
      /\ pc'[m] = p /\ snaps'[m] = s /\ waited'[m] = 0
      /\ \A n \in Monitors \ {m} :
            pc'[n] = pc[n] /\ snaps'[n] = snaps[n] /\ waited'[n] = waited[n]
  BY AwaitMoves, Zenon
<1>2. ASSUME NEW n \in Monitors
      PROVE  /\ Len(snaps'[n]) <= Len(Books[n])
             /\ pc'[n] = "read" => Len(snaps'[n]) < Len(Books[n])
             /\ pc'[n] \in {"log", "approved"} => Len(snaps'[n]) = Len(Books[n])
             /\ pc'[n] = "log" => n \in Logging
             /\ pc'[n] = "persist" => unsaved'[n] > 0
  <2>1. CASE n = m
    BY <1>1, <2>1 DEF Enters
  <2>2. CASE n # m
    BY <1>1, <2>2 DEF EvalTypeOK, StagesSound
  <2>3. QED
    BY <2>1, <2>2
<1>3. EvalTypeOK'
  BY <1>1, <1>2 DEF EvalTypeOK
<1>4. StagesSound'
  BY <1>2, Zenon DEF StagesSound
<1>5. QED
  BY <1>3, <1>4

LEMMA LeaveMoves ==
    ASSUME FeedTypeOK, NEW m \in Monitors, NEW f \in {"fetch", "crashed"}, Leave(m, f)
    PROVE  /\ FeedTypeOK'
           /\ \A i \in Feeds(m) : feed'[m][i] = IF feed[m][i] = "busy" THEN f ELSE feed[m][i]
           /\ \A n \in Monitors \ {m} : feed'[n] = feed[n]
<1>1. /\ DOMAIN feed' = Monitors
      /\ feed'[m] = [i \in Feeds(m) |-> IF feed[m][i] = "busy" THEN f ELSE feed[m][i]]
      /\ \A n \in Monitors \ {m} : feed'[n] = feed[n]
  BY DEF FeedTypeOK, Leave
<1>2. feed[m] \in [Feeds(m) -> {"unbuilt", "fetch", "busy", "crashed"}]
  BY DEF FeedTypeOK
<1>3. feed'[m] \in [Feeds(m) -> {"unbuilt", "fetch", "busy", "crashed"}]
  BY <1>1, <1>2
<1>4. ASSUME NEW n \in Monitors
      PROVE  feed'[n] \in [Feeds(n) -> {"unbuilt", "fetch", "busy", "crashed"}]
  BY <1>1, <1>3 DEF FeedTypeOK
<1>5. FeedTypeOK'
  BY <1>1, <1>4, Zenon DEF FeedTypeOK
<1>6. QED
  BY <1>1, <1>5, Zenon

LEMMA LeaveSound ==
    ASSUME EvalTypeOK, FeedTypeOK, StagesSound, NEW m \in Monitors,
           NEW f \in {"fetch", "crashed"}, Leave(m, f),
           \A n \in Monitors \ {m} : unsaved'[n] = unsaved[n]
    PROVE  EvalTypeOK' /\ FeedTypeOK' /\ StagesSound'
<1>1. Await(m, "idle", <<>>) /\ "idle" \in Stages /\ <<>> \in Seq(Int) /\ Len(<<>>) = 0
  BY EmptySeq DEF Leave, Stages
<1>2. Enters(m, "idle", <<>>)
  BY <1>1, BooksProperties DEF Enters
<1>3. EvalTypeOK' /\ StagesSound'
  BY <1>1, <1>2, AwaitSound
<1>4. QED
  BY <1>3, LeaveMoves

-----------------------------------------------------------------------------
(* Types, action by action.                                                *)

KindsInv == TypeOK /\ StagesSound

LEMMA KindsInit == Init => KindsInv
<1> SUFFICES ASSUME Init PROVE KindsInv
  OBVIOUS
<1>1. <<>> \in Seq(Int) /\ <<>> \in Seq(Labels) /\ Len(<<>>) = 0
  BY EmptySeq
<1>2. EvalTypeOK
  <2>1. pc \in [Monitors -> Stages] /\ snaps \in [Monitors -> Seq(Int)]
        /\ \A m \in Monitors : snaps[m] = <<>>
    BY <1>1 DEF Init, Stages
  <2>2. waited \in [Monitors -> 0..AwaitTicks]
    BY DEF Init
  <2>3. \A m \in Monitors : Len(snaps[m]) <= Len(Books[m])
    BY <1>1, <2>1, BooksProperties
  <2>4. QED
    BY <2>1, <2>2, <2>3 DEF EvalTypeOK
<1>3. FeedTypeOK
  BY DEF Init, FeedTypeOK
<1>4. RestTypeOK
  <2>1. cache \in [AllBooks -> Missing..(TTL - 1)]
    BY DEF Init, Missing
  <2>2. warm \in [Monitors -> Nat] /\ \A m \in Monitors : warm[m] <= WarmUp[m]
    BY DEF Init
  <2>3. /\ used \in [Monitors -> Nat] /\ unsaved \in [Monitors -> Nat]
        /\ monitor \in [Monitors -> {"starting", "running", "crashed", "exited"}]
    BY DEF Init
  <2>4. errors \in Seq(Labels) /\ Len(errors) <= ErrorsKept
    <3>1. errors = <<>>
      BY DEF Init
    <3>2. QED
      BY <1>1, <3>1
  <2>5. running \in BOOLEAN /\ engaged \in BOOLEAN /\ spared \subseteq Monitors
    BY DEF Init
  <2>6. QED
    BY <2>1, <2>2, <2>3, <2>4, <2>5, Zenon DEF RestTypeOK
<1>5. StagesSound
  BY DEF Init, StagesSound
<1>6. QED
  BY <1>2, <1>3, <1>4, <1>5, TypeParts DEF KindsInv

\* A step of an evaluation that, besides its stage, changes no type.
LEMMA AwaitKinds ==
    ASSUME KindsInv, NEW m \in Monitors, NEW p \in Stages \ {"persist"}, NEW s \in Seq(Int),
           Await(m, p, s), Enters(m, p, s), UNCHANGED <<feed, unsaved>>, RestTypeOK'
    PROVE  KindsInv'
<1>1. EvalTypeOK /\ FeedTypeOK /\ StagesSound
  BY TypeParts DEF KindsInv
<1>2. EvalTypeOK' /\ StagesSound'
  BY <1>1, AwaitSound
<1>3. FeedTypeOK'
  BY <1>1 DEF FeedTypeOK
<1>4. TypeOK'
  BY <1>2, <1>3, TypeParts DEF TypeOK, EvalTypeOK, FeedTypeOK, RestTypeOK
<1>5. QED
  BY <1>2, <1>4 DEF KindsInv

LEMMA LeaveKinds ==
    ASSUME KindsInv, NEW m \in Monitors, NEW f \in {"fetch", "crashed"}, Leave(m, f),
           \A n \in Monitors \ {m} : unsaved'[n] = unsaved[n], RestTypeOK'
    PROVE  KindsInv'
<1>1. EvalTypeOK /\ FeedTypeOK /\ StagesSound
  BY TypeParts DEF KindsInv
<1>2. EvalTypeOK' /\ FeedTypeOK' /\ StagesSound'
  BY <1>1, LeaveSound
<1>3. TypeOK'
  BY <1>2 DEF TypeOK, EvalTypeOK, FeedTypeOK, RestTypeOK
<1>4. QED
  BY <1>2, <1>3 DEF KindsInv

\* What the steps of _evaluate_once leave alone keeps its type.
LEMMA RestKept ==
    ASSUME RestTypeOK,
           UNCHANGED <<cache, warm, books, monitor, errors, running, engaged>>,
           spared' \subseteq Monitors
    PROVE  RestTypeOK'
BY Zenon DEF RestTypeOK, books

LEMMA GateKinds ==
    ASSUME KindsInv, NEW m \in Monitors, NEW s \in Seq(Int), Len(s) = Len(Books[m]),
           Gate(m, s), unsaved' = unsaved, RestTypeOK'
    PROVE  KindsInv'
<1>1. CASE Await(m, "approved", s) /\ UNCHANGED feed
  <2>1. Enters(m, "approved", s)
    BY BooksProperties DEF Enters
  <2>2. QED
    BY <1>1, <2>1, AwaitKinds DEF Stages
<1>2. CASE Finish(m)
  BY <1>2, LeaveKinds DEF Finish
<1>3. QED
  BY <1>1, <1>2 DEF Gate

LEMMA AppendLast ==
    ASSUME NEW S, NEW q \in Seq(S), NEW e \in S
    PROVE  /\ Append(q, e) \in Seq(S) /\ Len(Append(q, e)) = Len(q) + 1
           /\ \A i \in 1..Len(q) : Append(q, e)[i] = q[i]
           /\ Append(q, e)[Len(Append(q, e))] = e
BY AppendProperties

LEMMA FunctionIsSeq ==
    ASSUME NEW S, NEW n \in Nat, NEW f \in [1..n -> S]
    PROVE  f \in Seq(S) /\ Len(f) = n
<1>1. f \in Seq(S)
  BY SeqDef
<1>2. DOMAIN f = 1..n /\ DOMAIN f = 1..Len(f) /\ Len(f) \in Nat
  BY <1>1, LenProperties
<1>3. QED
  BY <1>1, <1>2

\* The evaluation of m goes from the ages it had to s by one more snapshot.
OneMore(m, s) ==
    /\ s \in Seq(Int) /\ Len(snaps[m]) \in Nat
    /\ Len(s) = Len(snaps[m]) + 1 /\ Len(s) <= Len(Books[m])
    /\ \A i \in 1..Len(snaps[m]) : s[i] = snaps[m][i]
    /\ s[Len(s)] \in Missing..(TTL - 1)

\* The age of one more snapshot is appended to what the evaluation has read.
LEMMA ReadProperties ==
    ASSUME KindsInv, NEW m \in Monitors, pc[m] = "read"
    PROVE  OneMore(m, Append(snaps[m], cache[Books[m][Len(snaps[m]) + 1]]))
<1> DEFINE k == Len(snaps[m]) + 1
           a == cache[Books[m][k]]
           s == Append(snaps[m], a)
<1>1. snaps[m] \in Seq(Int) /\ Len(snaps[m]) < Len(Books[m])
  BY DEF KindsInv, TypeOK, StagesSound
<1>2. k \in Feeds(m) /\ Len(snaps[m]) \in Nat
  BY <1>1, LenProperties, BooksProperties DEF Feeds
<1>3. Books[m][k] \in AllBooks
  BY <1>2, BooksProperties
<1>4. a \in Missing..(TTL - 1) /\ a \in Int
  BY <1>3 DEF KindsInv, TypeOK, Missing
<1>5. s = Append(snaps[m], a)
  OBVIOUS
<1> HIDE DEF a, s
<1>6. /\ s \in Seq(Int) /\ Len(s) = Len(snaps[m]) + 1
      /\ \A i \in 1..Len(snaps[m]) : s[i] = snaps[m][i]
      /\ s[Len(s)] = a
  <2> DEFINE r == Append(snaps[m], a)
  <2>1. /\ r \in Seq(Int) /\ Len(r) = Len(snaps[m]) + 1
        /\ \A i \in 1..Len(snaps[m]) : r[i] = snaps[m][i]
        /\ r[Len(r)] = a
    BY <1>1, <1>4, AppendLast
  <2>2. s = r
    BY <1>5
  <2> HIDE DEF r
  <2>3. QED
    BY <2>1, <2>2, Zenon
<1>7. Len(s) <= Len(Books[m])
  BY <1>1, <1>2, <1>6, BooksProperties
<1>8. OneMore(m, s)
  BY <1>2, <1>4, <1>6, <1>7, Zenon DEF OneMore
<1>9. QED
  BY <1>8 DEF s, a

LEMMA ReadBookKinds == ASSUME KindsInv, NEW m \in Monitors, ReadBook(m) PROVE KindsInv'
<1> DEFINE s == Append(snaps[m], cache[Books[m][Len(snaps[m]) + 1]])
<1>1. pc[m] = "read" /\ UNCHANGED <<cache, warm, books, monitor, errors, running, engaged, spared>>
  BY DEF ReadBook
<1>2. \/ Len(s) < Len(Books[m]) /\ Await(m, "read", s) /\ UNCHANGED feed
      \/ Finish(m)
      \/ /\ Len(s) = Len(Books[m])
         /\ \/ m \in Logging /\ Await(m, "log", s) /\ UNCHANGED feed
            \/ Gate(m, s)
  BY DEF ReadBook
<1>3. s = Append(snaps[m], cache[Books[m][Len(snaps[m]) + 1]])
  OBVIOUS
<1> HIDE DEF s
<1>4. s \in Seq(Int) /\ Len(s) \in Nat
  BY <1>1, <1>3, ReadProperties, LenProperties DEF OneMore
<1>5. RestTypeOK' /\ unsaved' = unsaved
  BY <1>1, RestKept, TypeParts DEF KindsInv, RestTypeOK, books
<1>6. CASE Len(s) < Len(Books[m]) /\ Await(m, "read", s) /\ UNCHANGED feed
  <2>1. Enters(m, "read", s)
    BY <1>4, <1>6, BooksProperties DEF Enters
  <2>2. QED
    BY <1>4, <1>5, <1>6, <2>1, AwaitKinds DEF Stages
<1>7. CASE Finish(m)
  BY <1>5, <1>7, LeaveKinds DEF Finish
<1>8. CASE Len(s) = Len(Books[m]) /\ m \in Logging /\ Await(m, "log", s) /\ UNCHANGED feed
  <2>1. Enters(m, "log", s)
    BY <1>4, <1>8, BooksProperties DEF Enters
  <2>2. QED
    BY <1>4, <1>5, <1>8, <2>1, AwaitKinds DEF Stages
<1>9. CASE Len(s) = Len(Books[m]) /\ Gate(m, s)
  BY <1>4, <1>5, <1>9, GateKinds
<1>10. QED
  BY <1>2, <1>6, <1>7, <1>8, <1>9

LEMMA LoggedKinds == ASSUME KindsInv, NEW m \in Monitors, Logged(m) PROVE KindsInv'
<1>1. /\ pc[m] = "log" /\ Gate(m, snaps[m])
      /\ UNCHANGED <<cache, warm, books, monitor, errors, running, engaged, spared>>
  BY DEF Logged
<1>2. snaps[m] \in Seq(Int) /\ Len(snaps[m]) = Len(Books[m])
  BY <1>1 DEF KindsInv, TypeOK, StagesSound
<1>3. RestTypeOK' /\ unsaved' = unsaved
  BY <1>1, RestKept, TypeParts DEF KindsInv, RestTypeOK, books
<1>4. QED
  BY <1>1, <1>2, <1>3, GateKinds

LEMMA PlaceOrdersKinds == ASSUME KindsInv, NEW m \in Monitors, PlaceOrders(m) PROVE KindsInv'
<1>1. pc[m] = "approved" /\ Await(m, "orders", snaps[m]) /\ UNCHANGED <<feed, unsaved>>
  BY DEF PlaceOrders, books
<1>2. snaps[m] \in Seq(Int) /\ Enters(m, "orders", snaps[m])
  BY DEF KindsInv, TypeOK, Enters
<1>3. RestTypeOK'
  BY RestKept, TypeParts DEF PlaceOrders, KindsInv, RestTypeOK, books
<1>4. QED
  BY <1>1, <1>2, <1>3, AwaitKinds DEF Stages

LEMMA TradeReturnsKinds == ASSUME KindsInv, NEW m \in Monitors, TradeReturns(m) PROVE KindsInv'
<1>1. PICK v \in 0..MaxVolume : used' = [used EXCEPT ![m] = @ + v]
  BY DEF TradeReturns
<1>2. /\ Await(m, "persist", <<>>) /\ unsaved' = [unsaved EXCEPT ![m] = @ + 1]
      /\ UNCHANGED <<cache, feed, warm, monitor, errors, running, engaged, spared>>
  BY DEF TradeReturns
<1>3. EvalTypeOK /\ FeedTypeOK /\ RestTypeOK /\ StagesSound
  BY TypeParts DEF KindsInv
<1>4. /\ unsaved' \in [Monitors -> Nat] /\ unsaved'[m] > 0
      /\ \A n \in Monitors \ {m} : unsaved'[n] = unsaved[n]
  BY <1>2, <1>3 DEF RestTypeOK
<1>5. used' \in [Monitors -> Nat]
  BY <1>1, <1>3 DEF RestTypeOK
<1>6. RestTypeOK'
  BY <1>2, <1>3, <1>4, <1>5, Zenon DEF RestTypeOK
<1>7. EvalTypeOK' /\ StagesSound'
  <2>1. <<>> \in Seq(Int) /\ Len(<<>>) = 0 /\ "persist" \in Stages
    BY EmptySeq DEF Stages
  <2>2. Enters(m, "persist", <<>>)
    BY <2>1, BooksProperties DEF Enters
  <2>3. QED
    BY <1>2, <1>3, <1>4, <2>1, <2>2, AwaitSound
<1>8. FeedTypeOK'
  BY <1>2, <1>3 DEF FeedTypeOK
<1>9. TypeOK'
  BY <1>6, <1>7, <1>8 DEF TypeOK, EvalTypeOK, FeedTypeOK, RestTypeOK
<1>10. QED
  BY <1>7, <1>9 DEF KindsInv

LEMMA PersistedKinds == ASSUME KindsInv, NEW m \in Monitors, Persisted(m) PROVE KindsInv'
<1>1. /\ pc[m] = "persist" /\ unsaved' = [unsaved EXCEPT ![m] = @ - 1] /\ Finish(m)
      /\ UNCHANGED <<cache, warm, used, monitor, errors, running, engaged, spared>>
  BY DEF Persisted
<1>2. RestTypeOK /\ unsaved[m] > 0
  BY <1>1, TypeParts DEF KindsInv, StagesSound
<1>3. /\ unsaved' \in [Monitors -> Nat]
      /\ \A n \in Monitors \ {m} : unsaved'[n] = unsaved[n]
  BY <1>1, <1>2 DEF RestTypeOK
<1>4. RestTypeOK'
  BY <1>1, <1>2, <1>3, Zenon DEF RestTypeOK
<1>5. QED
  BY <1>1, <1>3, <1>4, LeaveKinds DEF Finish

LEMMA EvaluationRaisesKinds ==
    ASSUME KindsInv, NEW m \in Monitors, EvaluationRaises(m) PROVE KindsInv'
<1>1. Crash(m) /\ UNCHANGED <<cache, warm, books, monitor, errors, running, engaged, spared>>
  BY DEF EvaluationRaises
<1>2. RestTypeOK' /\ unsaved' = unsaved
  BY <1>1, RestKept, TypeParts DEF KindsInv, RestTypeOK, books
<1>3. QED
  BY <1>1, <1>2, LeaveKinds DEF Crash

LEMMA DeliverKinds ==
    ASSUME KindsInv, NEW m \in Monitors, NEW i \in Feeds(m), Deliver(m, i)
    PROVE  KindsInv'
<1>1. EvalTypeOK /\ FeedTypeOK /\ RestTypeOK /\ StagesSound
  BY TypeParts DEF KindsInv
<1>2. UNCHANGED <<books, monitor, errors, running, engaged, spared>>
  BY DEF Deliver
<1>3. cache' \in [AllBooks -> Missing..(TTL - 1)]
  <2>1. 0 \in Missing..(TTL - 1)
    BY DEF Missing
  <2>2. cache \in [AllBooks -> Missing..(TTL - 1)] /\ cache' = [cache EXCEPT ![Books[m][i]] = 0]
    BY <1>1 DEF Deliver, RestTypeOK
  <2>3. QED
    BY <2>1, <2>2, Zenon
<1>4. warm' \in [Monitors -> Nat] /\ \A n \in Monitors : warm'[n] <= WarmUp[n]
  <2>1. warm' = [warm EXCEPT ![m] = IF i \in Triggers[m] /\ warm[m] < WarmUp[m]
                                    THEN warm[m] + 1 ELSE warm[m]]
    BY DEF Deliver
  <2>2. WarmUp[m] \in Nat
    OBVIOUS
  <2>3. QED
    BY <1>1, <2>1, <2>2 DEF RestTypeOK
<1>5. RestTypeOK'
  BY <1>1, <1>2, <1>3, <1>4, Zenon DEF RestTypeOK, books
<1>6. CASE UNCHANGED <<evaluation, feed>>
  <2>1. EvalTypeOK' /\ FeedTypeOK' /\ StagesSound'
    BY <1>1, <1>2, <1>6 DEF EvalTypeOK, FeedTypeOK, StagesSound, evaluation, books
  <2>2. QED
    BY <1>5, <2>1 DEF KindsInv, TypeOK, EvalTypeOK, FeedTypeOK, RestTypeOK
<1>7. CASE Await(m, "read", <<>>) /\ feed' = [feed EXCEPT ![m][i] = "busy"]
  <2>1. <<>> \in Seq(Int) /\ Len(<<>>) = 0 /\ "read" \in Stages
    BY EmptySeq DEF Stages
  <2>2. Enters(m, "read", <<>>)
    BY <2>1, BooksProperties DEF Enters
  <2>3. EvalTypeOK' /\ StagesSound'
    BY <1>1, <1>2, <1>7, <2>1, <2>2, AwaitSound DEF books
  <2>4. FeedTypeOK'
    BY <1>1, <1>7 DEF FeedTypeOK
  <2>5. QED
    BY <1>5, <2>3, <2>4 DEF KindsInv, TypeOK, EvalTypeOK, FeedTypeOK, RestTypeOK
<1>8. QED
  BY <1>6, <1>7 DEF Deliver

LEMMA FeedFailsKinds ==
    ASSUME KindsInv, NEW m \in Monitors, NEW i \in Feeds(m), FeedFails(m, i)
    PROVE  KindsInv'
<1>1. EvalTypeOK /\ FeedTypeOK /\ RestTypeOK /\ StagesSound
  BY TypeParts DEF KindsInv
<1>2. /\ feed' = [feed EXCEPT ![m][i] = "crashed"]
      /\ UNCHANGED <<cache, warm, evaluation, books, monitor, errors, running, engaged, spared>>
  BY DEF FeedFails
<1>3. EvalTypeOK' /\ StagesSound'
  BY <1>1, <1>2 DEF EvalTypeOK, StagesSound, evaluation, books
<1>4. FeedTypeOK'
  BY <1>1, <1>2 DEF FeedTypeOK
<1>5. RestTypeOK'
  BY <1>1, <1>2, Zenon DEF RestTypeOK, books
<1>6. QED
  BY <1>3, <1>4, <1>5 DEF KindsInv, TypeOK, EvalTypeOK, FeedTypeOK, RestTypeOK

LEMMA BuildKinds ==
    ASSUME KindsInv, NEW m \in Monitors, BuildFeeds(m) \/ BuildRaises(m)
    PROVE  KindsInv'
<1>1. EvalTypeOK /\ FeedTypeOK /\ RestTypeOK /\ StagesSound
  BY TypeParts DEF KindsInv
<1>2. UNCHANGED <<cache, warm, evaluation, books, errors, running, engaged, spared>>
  BY DEF BuildFeeds, BuildRaises
<1>3. EvalTypeOK' /\ StagesSound'
  BY <1>1, <1>2 DEF EvalTypeOK, StagesSound, evaluation, books
<1>4. FeedTypeOK'
  <2>1. CASE BuildFeeds(m)
    <3>1. /\ DOMAIN feed' = Monitors /\ feed'[m] = [i \in Feeds(m) |-> "fetch"]
          /\ \A n \in Monitors \ {m} : feed'[n] = feed[n]
      BY <1>1, <2>1 DEF BuildFeeds, FeedTypeOK
    <3>2. feed'[m] \in [Feeds(m) -> {"unbuilt", "fetch", "busy", "crashed"}]
      BY <3>1
    <3>3. QED
      BY <1>1, <3>1, <3>2 DEF FeedTypeOK
  <2>2. CASE BuildRaises(m)
    BY <1>1, <2>2 DEF BuildRaises, FeedTypeOK
  <2>3. QED
    BY <2>1, <2>2
<1>5. monitor' \in [Monitors -> {"starting", "running", "crashed", "exited"}]
  BY <1>1 DEF BuildFeeds, BuildRaises, RestTypeOK
<1>6. RestTypeOK'
  BY <1>1, <1>2, <1>5, Zenon DEF RestTypeOK, books
<1>7. QED
  BY <1>3, <1>4, <1>6 DEF KindsInv, TypeOK, EvalTypeOK, FeedTypeOK, RestTypeOK

\* How many of the oldest messages a full deque drops.
Dropped(s) == IF Len(s) > ErrorsKept THEN Len(s) - ErrorsKept ELSE 0

\* A deque keeps the last messages, in their order, and no more than it may.
LEMMA KeptProperties ==
    ASSUME NEW S, NEW s \in Seq(S)
    PROVE  /\ Kept(s) \in Seq(S) /\ Len(s) \in Nat /\ Dropped(s) \in 0..Len(s)
           /\ Len(Kept(s)) = Len(s) - Dropped(s) /\ Len(Kept(s)) <= ErrorsKept
           /\ \A i \in 1..Len(Kept(s)) : Kept(s)[i] = s[i + Dropped(s)]
<1> DEFINE first == IF Len(s) > ErrorsKept THEN Len(s) - ErrorsKept + 1 ELSE 1
           d == Dropped(s)
<1>1. Len(s) \in Nat /\ \A i \in 1..Len(s) : s[i] \in S
  BY LenProperties, ElementOfSeq
<1>2. d \in 0..Len(s) /\ Len(s) - d <= ErrorsKept /\ first = d + 1
  BY <1>1 DEF Dropped
<1>3. Kept(s) = SubSeq(s, first, Len(s))
  BY Zenon DEF Kept
<1> HIDE DEF first, d
<1>4. \A i \in first..Len(s) : s[i] \in S
  BY <1>1, <1>2
<1>5. /\ SubSeq(s, first, Len(s)) \in Seq(S)
      /\ Len(SubSeq(s, first, Len(s))) = IF first <= Len(s) THEN Len(s) - first + 1 ELSE 0
      /\ \A i \in 1..(Len(s) - first + 1) : SubSeq(s, first, Len(s))[i] = s[first + i - 1]
  BY <1>1, <1>2, <1>4, SubSeqProperties
<1>6. Len(Kept(s)) = Len(s) - d
  BY <1>1, <1>2, <1>3, <1>5
<1>7. \A i \in 1..(Len(s) - d) : Kept(s)[i] = s[i + d]
  <2>1. ASSUME NEW i \in 1..(Len(s) - d) PROVE Kept(s)[i] = s[i + d]
    <3>1. i \in 1..(Len(s) - first + 1) /\ first + i - 1 = i + d
      BY <1>1, <1>2
    <3>2. QED
      BY <1>3, <1>5, <3>1
  <2>2. QED
    BY <2>1
<1>8. QED
  BY <1>1, <1>2, <1>3, <1>5, <1>6, <1>7 DEF d

\* A list of all monitors that repeats none leaves none out; the labels of them.
LEMMA OrdersCover ==
    ASSUME NEW s \in Orders
    PROVE  /\ Len(s) = Cardinality(Monitors) /\ DOMAIN s = 1..Len(s)
           /\ \A m \in Monitors : \E k \in 1..Len(s) : s[k] = m
           /\ [i \in DOMAIN s |-> Label[s[i]]] \in Seq(Labels)
           /\ Len([i \in DOMAIN s |-> Label[s[i]]]) = Len(s)
<1> DEFINE n == Cardinality(Monitors)
           f == [i \in 1..n |-> Label[s[i]]]
<1>1. n \in Nat
  BY FS_CardinalityType
<1>2. s \in [1..n -> Monitors] /\ \A i, j \in 1..n : s[i] = s[j] => i = j
  BY DEF Orders
<1>3. IsFiniteSet(1..n) /\ Cardinality(1..n) = n
  BY <1>1, FS_Interval
<1>4. f \in [1..n -> Labels]
  BY <1>2 DEF Labels
<1> HIDE DEF n
<1>5. s \in Injection(1..n, Monitors)
  BY <1>2, Zenon DEF Injection, IsInjective
<1>6. s \in Surjection(1..n, Monitors)
  BY <1>3, <1>5, FS_Injection DEF n
<1>7. \A m \in Monitors : \E k \in 1..n : s[k] = m
  BY <1>6, Zenon DEF Surjection
<1>8. s \in Seq(Monitors) /\ Len(s) = n /\ DOMAIN s = 1..n
  BY <1>1, <1>2, FunctionIsSeq
<1>9. f = [i \in DOMAIN s |-> Label[s[i]]]
  BY <1>8
<1> HIDE DEF f
<1>10. f \in Seq(Labels) /\ Len(f) = n
  BY <1>1, <1>4, FunctionIsSeq
<1>11. QED
  BY <1>7, <1>8, <1>9, <1>10 DEF n

LEMMA ReportsKinds ==
    ASSUME KindsInv, RunReturns \/ \E m \in Monitors : MonitorCrashes(m)
    PROVE  KindsInv'
<1>1. EvalTypeOK /\ FeedTypeOK /\ RestTypeOK /\ StagesSound
  BY TypeParts DEF KindsInv
<1>2. UNCHANGED <<cache, feed, warm, evaluation, books, engaged, spared>>
  BY DEF RunReturns, MonitorCrashes
<1>3. PICK s \in Seq(Labels) : errors' = Kept(s)
  <2>1. CASE RunReturns
    <3>1. PICK t \in Orders : errors' = Kept(errors \o [i \in DOMAIN t |-> Label[t[i]]])
      BY <2>1 DEF RunReturns
    <3>2. [i \in DOMAIN t |-> Label[t[i]]] \in Seq(Labels)
      BY OrdersCover
    <3>3. errors \o [i \in DOMAIN t |-> Label[t[i]]] \in Seq(Labels)
      BY <1>1, <3>2, ConcatProperties DEF RestTypeOK
    <3>4. QED
      BY <3>1, <3>3
  <2>2. CASE \E m \in Monitors : MonitorCrashes(m)
    <3>1. PICK m \in Monitors : errors' = Kept(Append(errors, Label[m]))
      BY <2>2 DEF MonitorCrashes
    <3>2. Append(errors, Label[m]) \in Seq(Labels)
      BY <1>1, AppendProperties DEF RestTypeOK, Labels
    <3>3. QED
      BY <3>1, <3>2
  <2>3. QED
    BY <2>1, <2>2
<1>4. errors' \in Seq(Labels) /\ Len(errors') <= ErrorsKept
  BY <1>3, KeptProperties
<1>5. monitor' \in [Monitors -> {"starting", "running", "crashed", "exited"}]
  BY <1>1 DEF RunReturns, MonitorCrashes, RestTypeOK
<1>6. running' \in BOOLEAN
  <2>1. running \in BOOLEAN
    BY <1>1, Zenon DEF RestTypeOK
  <2>2. running' = FALSE \/ running' = running
    BY DEF RunReturns, MonitorCrashes
  <2>3. QED
    BY <2>1, <2>2, Zenon
<1>7. RestTypeOK'
  BY <1>1, <1>2, <1>4, <1>5, <1>6, Zenon DEF RestTypeOK, books
<1>8. EvalTypeOK' /\ FeedTypeOK' /\ StagesSound'
  BY <1>1, <1>2 DEF EvalTypeOK, FeedTypeOK, StagesSound, evaluation, books
<1>9. QED
  BY <1>7, <1>8 DEF KindsInv, TypeOK, EvalTypeOK, FeedTypeOK, RestTypeOK

LEMMA SwitchKinds == ASSUME KindsInv, Engage \/ Disengage PROVE KindsInv'
<1>1. EvalTypeOK /\ FeedTypeOK /\ RestTypeOK /\ StagesSound
  BY TypeParts DEF KindsInv
<1>2. UNCHANGED <<cache, feed, warm, evaluation, books, monitor, errors, running>>
  BY DEF Engage, Disengage
<1>3. engaged' \in BOOLEAN /\ spared' \subseteq Monitors
  BY DEF Engage, Disengage
<1>4. RestTypeOK'
  BY <1>1, <1>2, <1>3, Zenon DEF RestTypeOK, books
<1>5. EvalTypeOK' /\ FeedTypeOK' /\ StagesSound'
  BY <1>1, <1>2 DEF EvalTypeOK, FeedTypeOK, StagesSound, evaluation, books
<1>6. QED
  BY <1>4, <1>5 DEF KindsInv, TypeOK, EvalTypeOK, FeedTypeOK, RestTypeOK

\* Time passes over everything an evaluation has read.
LEMMA OlderSnaps ==
    ASSUME EvalTypeOK, Tick, NEW m \in Monitors
    PROVE  /\ snaps'[m] \in Seq(Int) /\ Len(snaps'[m]) = Len(snaps[m])
           /\ \A i \in 1..Len(snaps[m]) : snaps'[m][i] = Older(snaps[m][i])
<1> DEFINE n == Len(snaps[m])
           older == [i \in 1..n |-> Older(snaps[m][i])]
<1>1. snaps[m] \in Seq(Int) /\ n \in Nat /\ DOMAIN snaps[m] = 1..n
  BY LenProperties DEF EvalTypeOK
<1>2. \A i \in 1..n : snaps[m][i] \in Int
  BY <1>1, ElementOfSeq
<1>3. \A i \in 1..n : Older(snaps[m][i]) \in Int
  BY <1>2 DEF Older, Missing
<1>4. older \in [1..n -> Int] /\ \A i \in 1..n : older[i] = Older(snaps[m][i])
  BY <1>3
<1>5. snaps'[m] = older
  BY <1>1 DEF Tick
<1> HIDE DEF older
<1>6. older \in Seq(Int) /\ Len(older) = n
  BY <1>1, <1>4, FunctionIsSeq
<1>7. QED
  BY <1>4, <1>5, <1>6

LEMMA TickKinds == ASSUME KindsInv, Tick PROVE KindsInv'
<1>1. EvalTypeOK /\ FeedTypeOK /\ RestTypeOK /\ StagesSound
  BY TypeParts DEF KindsInv
<1>2. UNCHANGED <<feed, warm, pc, books, monitor, errors, running, engaged, spared>>
  BY DEF Tick
<1>3. cache' \in [AllBooks -> Missing..(TTL - 1)]
  <2>1. \A a \in Missing..(TTL - 1) : Cached(a) \in Missing..(TTL - 1)
    BY DEF Cached, Older, Missing
  <2>2. \A b \in AllBooks : Cached(cache[b]) \in Missing..(TTL - 1)
    BY <1>1, <2>1 DEF RestTypeOK
  <2>3. QED
    BY <2>2 DEF Tick
<1>4. waited' \in [Monitors -> 0..AwaitTicks]
  <2>1. \A m \in Monitors : pc[m] # "idle" => waited[m] + 1 \in 0..AwaitTicks
    BY <1>1 DEF Tick, EvalTypeOK
  <2>2. 0 \in 0..AwaitTicks
    OBVIOUS
  <2>3. \A m \in Monitors : (IF pc[m] = "idle" THEN 0 ELSE waited[m] + 1) \in 0..AwaitTicks
    BY <2>1, <2>2
  <2>4. QED
    BY <2>3 DEF Tick
<1>5. snaps' \in [Monitors -> Seq(Int)] /\ \A m \in Monitors : Len(snaps'[m]) = Len(snaps[m])
  <2>1. DOMAIN snaps' = Monitors /\ snaps' = [m \in Monitors |-> snaps'[m]]
    BY DEF Tick
  <2>2. QED
    BY <1>1, <2>1, OlderSnaps
<1>6. EvalTypeOK' /\ StagesSound'
  BY <1>1, <1>2, <1>4, <1>5 DEF EvalTypeOK, StagesSound, books
<1>7. FeedTypeOK'
  BY <1>1, <1>2 DEF FeedTypeOK
<1>8. RestTypeOK'
  BY <1>1, <1>2, <1>3, Zenon DEF RestTypeOK, books
<1>9. QED
  BY <1>6, <1>7, <1>8 DEF KindsInv, TypeOK, EvalTypeOK, FeedTypeOK, RestTypeOK

LEMMA KindsNext == KindsInv /\ [Next]_vars => KindsInv'
<1> SUFFICES ASSUME KindsInv, [Next]_vars PROVE KindsInv'
  OBVIOUS
<1>1. ASSUME NEW m \in Monitors, Evaluate(m) \/ EvaluationRaises(m) PROVE KindsInv'
  BY <1>1, ReadBookKinds, LoggedKinds, PlaceOrdersKinds, TradeReturnsKinds, PersistedKinds,
     EvaluationRaisesKinds DEF Evaluate
<1>2. ASSUME NEW m \in Monitors, NEW i \in Feeds(m), Deliver(m, i) \/ FeedFails(m, i)
      PROVE  KindsInv'
  BY <1>2, DeliverKinds, FeedFailsKinds
<1>3. ASSUME NEW m \in Monitors, BuildFeeds(m) \/ BuildRaises(m) \/ MonitorCrashes(m)
      PROVE  KindsInv'
  BY <1>3, BuildKinds, ReportsKinds
<1>4. CASE RunReturns \/ Engage \/ Disengage \/ Tick
  BY <1>4, ReportsKinds, SwitchKinds, TickKinds
<1>5. CASE UNCHANGED vars
  BY <1>5 DEF vars, KindsInv, TypeOK, StagesSound
<1>6. QED
  BY <1>1, <1>2, <1>3, <1>4, <1>5 DEF Next

\* Every variable of the runner has its type: the cache keeps live ages, a
\* window no more than its warm-up, an evaluation no more ages than it reads
\* books, and STATE.errors no more than its maxlen, however many failures there
\* are and even when it is 0 (runner.py 99-234, runtime_state.py 42).
THEOREM TypeCorrect == Spec => []TypeOK
<1>1. KindsInv => TypeOK
  BY DEF KindsInv
<1>2. QED
  BY KindsInit, KindsNext, <1>1, PTL DEF Spec

-----------------------------------------------------------------------------
(* The ages of what an evaluation has read.                                *)

\* The ages s are fit for the stage p that m enters with them.
AgesFit(m, p, s) ==
    p \in {"read", "log", "approved"} =>
        \A i \in 1..Len(s) :
            /\ s[i] <= Oldest((Len(s) - i) + LogAwaits(m, p), 0)
            /\ s[i] >= (IF p = "read" THEN Missing ELSE 0)

\* One await more lets AwaitTicks more ticks pass, and no snapshot gets younger.
LEMMA OldestMore ==
    ASSUME NEW k \in Nat, NEW w \in 0..AwaitTicks
    PROVE  /\ Oldest(k, w) \in Int /\ Oldest(k + 1, 0) \in Int
           /\ Oldest(k, w) <= Oldest(k + 1, 0)
           /\ Oldest(k, w + 1) = Oldest(k, w) + 1
           /\ TTL - 1 <= Oldest(k, w)
<1> DEFINE a == AwaitTicks * k
<1>1. AwaitTicks * (k + 1) = a + AwaitTicks
  OBVIOUS
<1>2. a \in Nat /\ AwaitTicks \in Nat /\ TTL \in Nat /\ w \in 0..AwaitTicks
  OBVIOUS
<1>3. /\ Oldest(k, w) = TTL - 1 + a + w /\ Oldest(k, w + 1) = TTL - 1 + a + (w + 1)
      /\ Oldest(k + 1, 0) = TTL - 1 + (a + AwaitTicks) + 0
  BY <1>1, Zenon DEF Oldest
<1> HIDE DEF a
<1>4. QED
  BY <1>2, <1>3

LEMMA AwaitAges ==
    ASSUME KindsInv, AgesBounded, NEW m \in Monitors, NEW p \in Stages, NEW s \in Seq(Int),
           Await(m, p, s), AgesFit(m, p, s)
    PROVE  AgesBounded'
<1>1. EvalTypeOK
  BY TypeParts DEF KindsInv
<1>2. /\ pc' \in [Monitors -> Stages] /\ snaps' \in [Monitors -> Seq(Int)]
      /\ waited' \in [Monitors -> 0..AwaitTicks]
      /\ pc'[m] = p /\ snaps'[m] = s /\ waited'[m] = 0
      /\ \A n \in Monitors \ {m} :
            pc'[n] = pc[n] /\ snaps'[n] = snaps[n] /\ waited'[n] = waited[n]
  BY <1>1, AwaitMoves, Zenon
<1>3. ASSUME NEW n \in Monitors, n # m, pc'[n] \in {"read", "log", "approved"},
             NEW i \in 1..Len(snaps'[n])
      PROVE  /\ snaps'[n][i] <= Oldest((Len(snaps'[n]) - i) + LogAwaits(n, pc'[n]), waited'[n])
             /\ snaps'[n][i] >= (IF pc'[n] = "read" THEN Missing ELSE 0)
  <2>1. pc'[n] = pc[n] /\ snaps'[n] = snaps[n] /\ waited'[n] = waited[n]
    BY <1>2, <1>3
  <2>2. pc[n] \in {"read", "log", "approved"} /\ i \in 1..Len(snaps[n])
    BY <1>3, <2>1
  <2>3. /\ snaps[n][i] <= Oldest((Len(snaps[n]) - i) + LogAwaits(n, pc[n]), waited[n])
        /\ snaps[n][i] >= (IF pc[n] = "read" THEN Missing ELSE 0)
    BY <2>2, Zenon DEF AgesBounded
  <2>4. QED
    BY <2>1, <2>3, Zenon
<1>4. ASSUME p \in {"read", "log", "approved"}, NEW i \in 1..Len(s)
      PROVE  /\ s[i] <= Oldest((Len(s) - i) + LogAwaits(m, p), 0)
             /\ s[i] >= (IF p = "read" THEN Missing ELSE 0)
  BY <1>4, Zenon DEF AgesFit
<1>5. ASSUME NEW i \in 1..Len(snaps'[m]), pc'[m] \in {"read", "log", "approved"}
      PROVE  /\ snaps'[m][i] <= Oldest((Len(snaps'[m]) - i) + LogAwaits(m, pc'[m]), waited'[m])
             /\ snaps'[m][i] >= (IF pc'[m] = "read" THEN Missing ELSE 0)
  BY <1>2, <1>4, <1>5, Zenon
<1>6. QED
  BY <1>3, <1>5, Zenon DEF AgesBounded

LEMMA LeaveAges ==
    ASSUME KindsInv, AgesBounded, NEW m \in Monitors, NEW f, Leave(m, f)
    PROVE  AgesBounded'
BY AwaitAges, EmptySeq DEF Leave, AgesFit, Stages

LEMMA GateAges ==
    ASSUME KindsInv, AgesBounded, NEW m \in Monitors, NEW s \in Seq(Int), Gate(m, s),
           AgesFit(m, "approved", s)
    PROVE  AgesBounded'
BY AwaitAges, LeaveAges DEF Gate, Finish, Stages

\* A read lets AwaitTicks pass at most, and adds an age that was alive.
LEMMA ReadBookAges ==
    ASSUME KindsInv, AgesBounded, NEW m \in Monitors, ReadBook(m)
    PROVE  AgesBounded'
<1> DEFINE s == Append(snaps[m], cache[Books[m][Len(snaps[m]) + 1]])
<1>1. pc[m] = "read"
  BY DEF ReadBook
<1>2. \/ Await(m, "read", s)
      \/ Finish(m)
      \/ /\ Len(s) = Len(Books[m]) /\ \A i \in Feeds(m) : s[i] # Missing
         /\ \/ Await(m, "log", s)
            \/ m \notin Logging /\ Gate(m, s)
  BY DEF ReadBook
<1>3. OneMore(m, s)
  BY <1>1, ReadProperties
<1> HIDE DEF s
<1>4. /\ s \in Seq(Int) /\ Len(snaps[m]) \in Nat /\ Len(s) = Len(snaps[m]) + 1
      /\ Len(s) <= Len(Books[m])
      /\ \A i \in 1..Len(snaps[m]) : s[i] = snaps[m][i]
      /\ s[Len(s)] \in Missing..(TTL - 1)
  BY <1>3, Zenon DEF OneMore
<1>5. ASSUME NEW i \in 1..Len(s)
      PROVE  s[i] \in Int /\ s[i] <= Oldest(Len(s) - i, 0) /\ s[i] >= Missing
  <2>1. CASE i = Len(s)
    <3>1. s[i] \in Missing..(TTL - 1)
      BY <1>4, <2>1, Zenon
    <3>2. TTL - 1 <= Oldest(Len(s) - i, 0)
      <4>1. Len(s) - i = 0 /\ 0 \in Nat /\ 0 \in 0..AwaitTicks
        BY <1>4, <2>1
      <4>2. TTL - 1 <= Oldest(0, 0)
        BY <4>1, OldestMore
      <4>3. QED
        BY <4>1, <4>2
    <3>3. s[i] \in Int /\ s[i] <= TTL - 1 /\ s[i] >= Missing
      BY <3>1 DEF Missing
    <3>4. Oldest(Len(s) - i, 0) \in Int
      BY <1>4, <2>1, OldestMore
    <3>5. QED
      BY <3>2, <3>3, <3>4
  <2>2. CASE i # Len(s)
    <3>1. i \in 1..Len(snaps[m])
      BY <1>4, <2>2
    <3>2. s[i] = snaps[m][i] /\ s[i] \in Int
      BY <1>4, <3>1, ElementOfSeq
    <3> DEFINE a == snaps[m][i]
               k == Len(snaps[m]) - i
               w == waited[m]
    <3>3. w \in 0..AwaitTicks /\ k \in Nat /\ Len(s) - i = k + 1 /\ k + 0 = k
      BY <1>4, <3>1 DEF KindsInv, TypeOK
    <3>4. a <= Oldest(k + LogAwaits(m, pc[m]), w) /\ a >= Missing
      BY <1>1, <3>1 DEF AgesBounded
    <3>5. LogAwaits(m, pc[m]) = 0
      BY <1>1 DEF LogAwaits
    <3>6. s[i] = a /\ a \in Int
      BY <3>2
    <3> HIDE DEF a, k, w
    <3>7. a <= Oldest(k, w)
      BY <3>3, <3>4, <3>5
    <3>8. /\ Oldest(k, w) \in Int /\ Oldest(k + 1, 0) \in Int
          /\ Oldest(k, w) <= Oldest(k + 1, 0)
      BY <3>3, OldestMore
    <3>9. a <= Oldest(k + 1, 0)
      BY <3>6, <3>7, <3>8
    <3>10. QED
      BY <3>3, <3>4, <3>6, <3>9
  <2>3. QED
    BY <2>1, <2>2
<1>6. AgesFit(m, "read", s)
  <2>1. \A i \in 1..Len(s) : (Len(s) - i) + LogAwaits(m, "read") = Len(s) - i
    BY <1>4 DEF LogAwaits
  <2>2. QED
    BY <1>5, <2>1 DEF AgesFit
<1>7. CASE Await(m, "read", s)
  BY <1>4, <1>6, <1>7, AwaitAges DEF Stages
<1>8. CASE Finish(m)
  BY <1>8, LeaveAges DEF Finish
<1>9. CASE /\ Len(s) = Len(Books[m]) /\ \A i \in Feeds(m) : s[i] # Missing
           /\ Await(m, "log", s) \/ (m \notin Logging /\ Gate(m, s))
  <2>1. ASSUME NEW i \in 1..Len(s) PROVE s[i] >= 0
    <3>1. s[i] # Missing
      BY <1>9 DEF Feeds
    <3>2. s[i] \in Int /\ s[i] >= Missing
      BY <1>5
    <3>3. QED
      BY <3>1, <3>2 DEF Missing
  <2>2. \A i \in 1..Len(s) :
           /\ (Len(s) - i) + LogAwaits(m, "log") = Len(s) - i
           /\ m \notin Logging => (Len(s) - i) + LogAwaits(m, "approved") = Len(s) - i
    BY <1>4 DEF LogAwaits
  <2>3. AgesFit(m, "log", s)
    BY <1>5, <2>1, <2>2 DEF AgesFit
  <2>4. m \notin Logging => AgesFit(m, "approved", s)
    BY <1>5, <2>1, <2>2 DEF AgesFit
  <2>5. QED
    BY <1>4, <1>9, <2>3, <2>4, AwaitAges, GateAges DEF Stages
<1>10. QED
  BY <1>2, <1>7, <1>8, <1>9

\* The sample logger is one more await.
LEMMA LoggedAges ==
    ASSUME KindsInv, AgesBounded, NEW m \in Monitors, Logged(m)
    PROVE  AgesBounded'
<1>1. pc[m] = "log" /\ Gate(m, snaps[m]) /\ m \in Logging /\ snaps[m] \in Seq(Int)
  BY DEF Logged, KindsInv, StagesSound, TypeOK
<1>2. Len(snaps[m]) \in Nat /\ \A i \in 1..Len(snaps[m]) : snaps[m][i] \in Int
  BY <1>1, LenProperties, ElementOfSeq
<1>3. \A i \in 1..Len(snaps[m]) :
         /\ snaps[m][i] <= Oldest((Len(snaps[m]) - i) + LogAwaits(m, pc[m]), waited[m])
         /\ snaps[m][i] >= 0
  BY <1>1 DEF AgesBounded
<1>4. /\ waited[m] \in 0..AwaitTicks
      /\ LogAwaits(m, pc[m]) = 0 /\ LogAwaits(m, "approved") = 1
  BY <1>1 DEF LogAwaits, KindsInv, TypeOK
<1>5. ASSUME NEW i \in 1..Len(snaps[m])
      PROVE  /\ snaps[m][i] <= Oldest((Len(snaps[m]) - i) + LogAwaits(m, "approved"), 0)
             /\ snaps[m][i] >= 0
  <2> DEFINE a == snaps[m][i]
             k == Len(snaps[m]) - i
             w == waited[m]
  <2>1. a \in Int /\ k \in Nat /\ w \in 0..AwaitTicks /\ k + 0 = k
    BY <1>2, <1>4
  <2>2. a <= Oldest(k + LogAwaits(m, pc[m]), w) /\ a >= 0
    BY <1>3
  <2> HIDE DEF a, k, w
  <2>3. a <= Oldest(k, w)
    BY <1>4, <2>1, <2>2
  <2>4. /\ Oldest(k, w) \in Int /\ Oldest(k + 1, 0) \in Int
        /\ Oldest(k, w) <= Oldest(k + 1, 0)
    BY <2>1, OldestMore
  <2>5. a <= Oldest(k + 1, 0)
    BY <2>1, <2>3, <2>4
  <2>6. a <= Oldest(k + LogAwaits(m, "approved"), 0) /\ a >= 0
    BY <1>4, <2>2, <2>5
  <2>7. QED
    BY <2>6, Zenon DEF a, k
<1>6. AgesFit(m, "approved", snaps[m])
  BY <1>1, <1>5, Zenon DEF AgesFit
<1>7. QED
  BY <1>1, <1>6, GateAges

LEMMA TickAges == ASSUME KindsInv, AgesBounded, Tick PROVE AgesBounded'
<1> SUFFICES ASSUME NEW m \in Monitors, pc'[m] \in {"read", "log", "approved"},
                    NEW i \in 1..Len(snaps'[m])
             PROVE  /\ snaps'[m][i] <= Oldest((Len(snaps'[m]) - i) + LogAwaits(m, pc'[m]),
                                              waited'[m])
                    /\ snaps'[m][i] >= (IF pc'[m] = "read" THEN Missing ELSE 0)
  BY Zenon DEF AgesBounded
<1>1. EvalTypeOK
  BY TypeParts DEF KindsInv
<1>2. Len(snaps'[m]) = Len(snaps[m]) /\ i \in 1..Len(snaps[m]) /\ snaps'[m][i] = Older(snaps[m][i])
  BY <1>1, OlderSnaps
<1>3. /\ pc'[m] = pc[m] /\ pc[m] # "idle" /\ waited[m] < AwaitTicks
      /\ waited'[m] = waited[m] + 1
  BY DEF Tick
<1>4. /\ snaps[m][i] <= Oldest((Len(snaps[m]) - i) + LogAwaits(m, pc[m]), waited[m])
      /\ snaps[m][i] >= (IF pc[m] = "read" THEN Missing ELSE 0)
  BY <1>2, <1>3, Zenon DEF AgesBounded
<1>5. waited[m] \in 0..AwaitTicks /\ LogAwaits(m, pc[m]) \in {0, 1}
  BY DEF LogAwaits, KindsInv, TypeOK
<1>6. snaps[m][i] \in Int /\ Len(snaps[m]) \in Nat
  <2>1. snaps[m] \in Seq(Int)
    BY <1>1 DEF EvalTypeOK
  <2>2. QED
    BY <1>2, <2>1, ElementOfSeq, LenProperties
<1> DEFINE a == snaps[m][i]
           k == (Len(snaps[m]) - i) + LogAwaits(m, pc[m])
           w == waited[m]
<1>7. /\ a \in Int /\ k \in Nat /\ w \in 0..AwaitTicks /\ a <= Oldest(k, w)
      /\ a >= (IF pc[m] = "read" THEN Missing ELSE 0)
  BY <1>2, <1>4, <1>5, <1>6
<1> HIDE DEF a, k, w
<1>8. /\ Oldest(k, w) \in Int /\ Oldest(k, w + 1) = Oldest(k, w) + 1
      /\ TTL - 1 <= Oldest(k, w)
  BY <1>7, OldestMore
<1>9. /\ Older(a) <= Oldest(k, w + 1)
      /\ Older(a) >= (IF pc[m] = "read" THEN Missing ELSE 0)
  BY <1>7, <1>8 DEF Older, Missing
<1>10. QED
  BY <1>2, <1>3, <1>9, Zenon DEF a, k, w

LEMMA AgesNext == KindsInv /\ AgesBounded /\ [Next]_vars => AgesBounded'
<1> SUFFICES ASSUME KindsInv, AgesBounded, [Next]_vars PROVE AgesBounded'
  OBVIOUS
<1>1. CASE UNCHANGED evaluation
  BY <1>1 DEF evaluation, AgesBounded
<1>2. ASSUME NEW m \in Monitors, PlaceOrders(m) \/ TradeReturns(m) PROVE AgesBounded'
  <2>1. PICK p \in {"orders", "persist"}, s \in Seq(Int) : Await(m, p, s)
    BY <1>2, EmptySeq DEF PlaceOrders, TradeReturns, KindsInv, TypeOK
  <2>2. AgesFit(m, p, s) /\ p \in Stages
    BY DEF AgesFit, Stages
  <2>3. QED
    BY <2>1, <2>2, AwaitAges
<1>3. ASSUME NEW m \in Monitors, Persisted(m) \/ EvaluationRaises(m) PROVE AgesBounded'
  BY <1>3, LeaveAges DEF Persisted, EvaluationRaises, Finish, Crash
<1>4. ASSUME NEW m \in Monitors, NEW i \in Feeds(m), Deliver(m, i) PROVE AgesBounded'
  <2>1. CASE Await(m, "read", <<>>)
    <3>1. <<>> \in Seq(Int) /\ 1..Len(<<>>) = {} /\ "read" \in Stages
      BY EmptySeq DEF Stages
    <3>2. AgesFit(m, "read", <<>>)
      BY <3>1, Zenon DEF AgesFit
    <3>3. QED
      BY <2>1, <3>1, <3>2, AwaitAges
  <2>2. QED
    BY <1>1, <1>4, <2>1 DEF Deliver
<1>5. ASSUME NEW m \in Monitors, Evaluate(m) PROVE AgesBounded'
  BY <1>2, <1>3, <1>5, ReadBookAges, LoggedAges DEF Evaluate
<1>6. CASE \/ \E m \in Monitors : BuildFeeds(m) \/ BuildRaises(m) \/ MonitorCrashes(m)
                                  \/ \E i \in Feeds(m) : FeedFails(m, i)
           \/ RunReturns \/ Engage \/ Disengage \/ UNCHANGED vars
  <2>1. UNCHANGED evaluation
    BY <1>6 DEF BuildFeeds, BuildRaises, MonitorCrashes, FeedFails, RunReturns, Engage,
                Disengage, vars, evaluation
  <2>2. QED
    BY <1>1, <2>1
<1>7. QED
  BY <1>3, <1>4, <1>5, <1>6, TickAges DEF Next

\* A trade is decided on snapshots no older than their TTL and the awaits since
\* they were read, however long those take (runner.py 130-177, 290-292).
THEOREM DecisionsFresh == Spec => []DecisionAgeBounded
<1>1. Init => AgesBounded
  BY DEF Init, AgesBounded
<1>2. ASSUME KindsInv, AgesBounded PROVE DecisionAgeBounded
  <2> SUFFICES ASSUME NEW m \in Monitors, pc[m] = "approved", waited[m] = 0, NEW i \in Feeds(m)
               PROVE  snaps[m][i] \in 0..(TTL - 1 + AwaitTicks * ((Len(Books[m]) - i)
                                            + (IF m \in Logging THEN 1 ELSE 0)))
    BY Zenon DEF DecisionAgeBounded
  <2>1. snaps[m] \in Seq(Int) /\ Len(snaps[m]) = Len(Books[m])
    BY <1>2 DEF KindsInv, TypeOK, StagesSound
  <2>2. i \in 1..Len(snaps[m]) /\ snaps[m][i] \in Int /\ Len(snaps[m]) \in Nat
    BY <2>1, ElementOfSeq, LenProperties DEF Feeds
  <2>3. /\ snaps[m][i] <= Oldest((Len(snaps[m]) - i) + LogAwaits(m, pc[m]), 0)
        /\ snaps[m][i] >= 0
    BY <1>2, <2>2, Zenon DEF AgesBounded
  <2> DEFINE k == (Len(Books[m]) - i) + (IF m \in Logging THEN 1 ELSE 0)
  <2>4. (Len(snaps[m]) - i) + LogAwaits(m, pc[m]) = k /\ k \in Nat
    BY <2>1, <2>2 DEF LogAwaits
  <2> HIDE DEF k
  <2>5. Oldest(k, 0) = TTL - 1 + AwaitTicks * k /\ AwaitTicks * k \in Nat
    BY <2>4 DEF Oldest
  <2>6. snaps[m][i] \in 0..(TTL - 1 + AwaitTicks * k)
    BY <2>2, <2>3, <2>4, <2>5
  <2>7. QED
    BY <2>6 DEF k
<1>3. QED
  BY KindsInit, KindsNext, AgesNext, <1>1, <1>2, PTL DEF Spec

-----------------------------------------------------------------------------
(* The feeds that a lost row has cost.                                     *)

CrashedTriggers(m) == {i \in Triggers[m] : feed[m][i] = "crashed"}

LEMMA CrashedFinite ==
    ASSUME NEW m \in Monitors
    PROVE  /\ IsFiniteSet(CrashedTriggers(m)) /\ Cardinality(CrashedTriggers(m)) \in Nat
           /\ IsFiniteSet(CrashedTriggers(m)') /\ Cardinality(CrashedTriggers(m)') \in Nat
<1>1. IsFiniteSet(1..Len(Books[m]))
  BY BooksProperties, FS_Interval
<1>2. IsFiniteSet(Triggers[m])
  BY <1>1, FS_Subset
<1>3. CrashedTriggers(m) \subseteq Triggers[m] /\ CrashedTriggers(m)' \subseteq Triggers[m]
  BY DEF CrashedTriggers
<1>4. QED
  BY <1>2, <1>3, FS_Subset, FS_CardinalityType

\* No feed of m comes back to life, so the room for lost rows never shrinks.
LEMMA CrashedGrow ==
    ASSUME NEW m \in Monitors,
           \A i \in Triggers[m] : feed[m][i] = "crashed" => feed'[m][i] = "crashed"
    PROVE  Cardinality(CrashedTriggers(m)) <= Cardinality(CrashedTriggers(m)')
<1>1. CrashedTriggers(m) \subseteq CrashedTriggers(m)'
  BY DEF CrashedTriggers
<1>2. QED
  BY <1>1, CrashedFinite, FS_Subset

\* A trigger feed that crashes makes room for one more.
LEMMA CrashedGrowsByOne ==
    ASSUME NEW m \in Monitors, NEW i \in Triggers[m],
           feed[m][i] # "crashed", feed'[m][i] = "crashed",
           \A j \in Triggers[m] : feed[m][j] = "crashed" => feed'[m][j] = "crashed"
    PROVE  Cardinality(CrashedTriggers(m)) + 1 <= Cardinality(CrashedTriggers(m)')
<1> DEFINE T == CrashedTriggers(m) \cup {i}
<1>1. i \notin CrashedTriggers(m) /\ T \subseteq CrashedTriggers(m)'
  BY DEF CrashedTriggers
<1>2. IsFiniteSet(T) /\ Cardinality(T) = Cardinality(CrashedTriggers(m)) + 1
  BY <1>1, CrashedFinite, FS_AddElement
<1> HIDE DEF T
<1>3. Cardinality(T) <= Cardinality(CrashedTriggers(m)')
  BY <1>1, CrashedFinite, FS_Subset
<1>4. QED
  BY <1>2, <1>3

LossInv == TriggerBusy /\ UnsavedBounded

\* One monitor moves; what it must keep.
LEMMA LossStep ==
    ASSUME KindsInv, LossInv, NEW m \in Monitors,
           \A n \in Monitors \ {m} :
              pc'[n] = pc[n] /\ feed'[n] = feed[n] /\ monitor'[n] = monitor[n]
                 /\ unsaved'[n] = unsaved[n],
           pc'[m] # "idle" => \E i \in Triggers[m] : feed'[m][i] = "busy",
           monitor'[m] = "starting" => \A i \in Feeds(m) : feed'[m][i] = "unbuilt",
           unsaved'[m] <= Cardinality(CrashedTriggers(m)')
                             + (IF pc'[m] = "persist" THEN 1 ELSE 0)
    PROVE  LossInv'
<1>1. ASSUME NEW n \in Monitors
      PROVE  unsaved'[n] <= Cardinality(CrashedTriggers(n)')
                               + (IF pc'[n] = "persist" THEN 1 ELSE 0)
  <2>1. CASE n = m
    BY <2>1
  <2>2. CASE n # m
    <3>1. feed'[n] = feed[n] /\ pc'[n] = pc[n] /\ unsaved'[n] = unsaved[n]
      BY <2>2
    <3>2. CrashedTriggers(n)' = CrashedTriggers(n)
      BY <3>1 DEF CrashedTriggers
    <3>3. unsaved[n] <= Cardinality(CrashedTriggers(n)) + (IF pc[n] = "persist" THEN 1 ELSE 0)
      BY Zenon DEF LossInv, UnsavedBounded, CrashedTriggers
    <3>4. QED
      BY <3>1, <3>2, <3>3, Zenon
  <2>3. QED
    BY <2>1, <2>2
<1>2. UnsavedBounded'
  BY <1>1, Zenon DEF UnsavedBounded, CrashedTriggers
<1>3. ASSUME NEW n \in Monitors
      PROVE  /\ pc'[n] # "idle" => \E i \in Triggers[n] : feed'[n][i] = "busy"
             /\ monitor'[n] = "starting" => \A i \in Feeds(n) : feed'[n][i] = "unbuilt"
  <2>1. CASE n = m
    BY <2>1
  <2>2. CASE n # m
    <3>1. feed'[n] = feed[n] /\ pc'[n] = pc[n] /\ monitor'[n] = monitor[n]
      BY <2>2
    <3>2. QED
      BY <3>1 DEF LossInv, TriggerBusy
  <2>3. QED
    BY <2>1, <2>2
<1>4. TriggerBusy'
  BY <1>3, Zenon DEF TriggerBusy
<1>5. QED
  BY <1>2, <1>4 DEF LossInv

LEMMA LossAt ==
    ASSUME LossInv, NEW m \in Monitors
    PROVE  /\ pc[m] # "idle" => \E i \in Triggers[m] : feed[m][i] = "busy"
           /\ monitor[m] = "starting" => \A i \in Feeds(m) : feed[m][i] = "unbuilt"
           /\ unsaved[m] <= Cardinality(CrashedTriggers(m))
                               + (IF pc[m] = "persist" THEN 1 ELSE 0)
BY Zenon DEF LossInv, TriggerBusy, UnsavedBounded, CrashedTriggers

\* While m evaluates, its feeds have been built.
LEMMA EvaluatingIsBuilt ==
    ASSUME LossInv, NEW m \in Monitors, pc[m] # "idle"
    PROVE  monitor[m] # "starting"
<1>1. PICK i \in Triggers[m] : feed[m][i] = "busy"
  BY LossAt
<1>2. i \in Feeds(m)
  BY DEF Feeds
<1>3. QED
  BY <1>1, <1>2, LossAt

LEMMA AwaitLoss ==
    ASSUME KindsInv, LossInv, NEW m \in Monitors, NEW p \in Stages \ {"persist"},
           NEW s \in Seq(Int), pc[m] \notin {"idle", "persist"}, Await(m, p, s),
           UNCHANGED <<feed, monitor, unsaved>>
    PROVE  LossInv'
<1>1. pc'[m] = p /\ \A n \in Monitors \ {m} : pc'[n] = pc[n]
  BY AwaitMoves, TypeParts DEF KindsInv
<1>2. CrashedTriggers(m)' = CrashedTriggers(m)
  BY DEF CrashedTriggers
<1>3. monitor'[m] # "starting" /\ \E i \in Triggers[m] : feed'[m][i] = "busy"
  BY EvaluatingIsBuilt, LossAt
<1>4. unsaved'[m] <= Cardinality(CrashedTriggers(m)') + (IF pc'[m] = "persist" THEN 1 ELSE 0)
  BY <1>1, <1>2, LossAt
<1>5. QED
  BY <1>1, <1>3, <1>4, LossStep

\* The end of an evaluation, at any await: one that is not stored is paid for.
LEMMA LeaveLoss ==
    ASSUME KindsInv, LossInv, NEW m \in Monitors, NEW f \in {"fetch", "crashed"},
           pc[m] # "idle", Leave(m, f), UNCHANGED monitor,
           \A n \in Monitors \ {m} : unsaved'[n] = unsaved[n],
           \/ unsaved'[m] = unsaved[m] /\ (pc[m] = "persist" => f = "crashed")
           \/ unsaved'[m] = unsaved[m] - 1
    PROVE  LossInv'
<1>1. EvalTypeOK /\ FeedTypeOK /\ unsaved[m] \in Nat
  BY TypeParts DEF KindsInv, RestTypeOK
<1>2. pc'[m] = "idle" /\ \A n \in Monitors \ {m} : pc'[n] = pc[n]
  BY <1>1, EmptySeq, AwaitMoves DEF Leave, Stages
<1>3. /\ \A i \in Feeds(m) : feed'[m][i] = IF feed[m][i] = "busy" THEN f ELSE feed[m][i]
      /\ \A n \in Monitors \ {m} : feed'[n] = feed[n]
  BY <1>1, LeaveMoves
<1>4. monitor'[m] # "starting"
  BY EvaluatingIsBuilt
<1>5. \A i \in Triggers[m] : i \in Feeds(m)
  BY DEF Feeds
<1>6. Cardinality(CrashedTriggers(m)) <= Cardinality(CrashedTriggers(m)')
  BY <1>3, <1>5, CrashedGrow
<1>7. f = "crashed" => Cardinality(CrashedTriggers(m)) + 1 <= Cardinality(CrashedTriggers(m)')
  BY <1>3, <1>5, LossAt, CrashedGrowsByOne
<1>8. unsaved'[m] <= Cardinality(CrashedTriggers(m)')
  BY <1>1, <1>6, <1>7, LossAt, CrashedFinite
<1>9. unsaved'[m] <= Cardinality(CrashedTriggers(m)') + (IF pc'[m] = "persist" THEN 1 ELSE 0)
  BY <1>2, <1>8, CrashedFinite
<1>10. QED
  BY <1>2, <1>3, <1>4, <1>9, LossStep

LEMMA GateLoss ==
    ASSUME KindsInv, LossInv, NEW m \in Monitors, NEW s \in Seq(Int), Gate(m, s),
           pc[m] \in {"read", "log"}, UNCHANGED <<monitor, unsaved>>
    PROVE  LossInv'
BY AwaitLoss, LeaveLoss DEF Gate, Finish, Stages

LEMMA EvaluateLoss == ASSUME KindsInv, LossInv, NEW m \in Monitors, Evaluate(m) PROVE LossInv'
<1>1. CASE ReadBook(m)
  <2> DEFINE s == Append(snaps[m], cache[Books[m][Len(snaps[m]) + 1]])
  <2>1. pc[m] = "read" /\ UNCHANGED <<monitor, unsaved>>
    BY <1>1 DEF ReadBook, books
  <2>2. \/ Await(m, "read", s) /\ UNCHANGED feed
        \/ Finish(m)
        \/ Await(m, "log", s) /\ UNCHANGED feed
        \/ Gate(m, s)
    BY <1>1 DEF ReadBook
  <2>3. s \in Seq(Int)
    BY <2>1, ReadProperties DEF OneMore
  <2> HIDE DEF s
  <2>4. QED
    BY <2>1, <2>2, <2>3, AwaitLoss, LeaveLoss, GateLoss DEF Finish, Stages
<1>2. CASE Logged(m)
  BY <1>2, GateLoss DEF Logged, books, KindsInv, TypeOK
<1>3. CASE PlaceOrders(m)
  BY <1>3, AwaitLoss DEF PlaceOrders, books, KindsInv, TypeOK, Stages
<1>4. CASE TradeReturns(m)
  <2>1. /\ pc[m] = "orders" /\ unsaved' = [unsaved EXCEPT ![m] = @ + 1]
        /\ Await(m, "persist", <<>>) /\ UNCHANGED <<feed, monitor>>
    BY <1>4 DEF TradeReturns
  <2>2. /\ unsaved[m] \in Nat /\ unsaved'[m] = unsaved[m] + 1
        /\ \A n \in Monitors \ {m} : unsaved'[n] = unsaved[n]
    BY <2>1 DEF KindsInv, TypeOK
  <2>3. pc'[m] = "persist" /\ \A n \in Monitors \ {m} : pc'[n] = pc[n]
    BY <2>1, EmptySeq, AwaitMoves, TypeParts DEF KindsInv, Stages
  <2>4. CrashedTriggers(m)' = CrashedTriggers(m)
    BY <2>1 DEF CrashedTriggers
  <2>5. unsaved'[m] <= Cardinality(CrashedTriggers(m)') + (IF pc'[m] = "persist" THEN 1 ELSE 0)
    <3>1. unsaved[m] <= Cardinality(CrashedTriggers(m)) + 0
      BY <2>1, LossAt, CrashedFinite
    <3>2. unsaved'[m] <= Cardinality(CrashedTriggers(m)) + 1
      BY <2>2, <3>1, CrashedFinite
    <3>3. QED
      BY <2>3, <2>4, <3>2, Zenon
  <2>6. monitor'[m] # "starting" /\ \E i \in Triggers[m] : feed'[m][i] = "busy"
    BY <2>1, EvaluatingIsBuilt, LossAt
  <2>7. QED
    BY <2>1, <2>2, <2>3, <2>5, <2>6, LossStep
<1>5. CASE Persisted(m)
  <2>1. /\ pc[m] = "persist" /\ Leave(m, "fetch") /\ UNCHANGED monitor
        /\ unsaved' = [unsaved EXCEPT ![m] = @ - 1]
    BY <1>5 DEF Persisted, Finish
  <2>2. unsaved'[m] = unsaved[m] - 1 /\ \A n \in Monitors \ {m} : unsaved'[n] = unsaved[n]
    BY <2>1 DEF KindsInv, TypeOK
  <2>3. QED
    BY <2>1, <2>2, LeaveLoss
<1>6. QED
  BY <1>1, <1>2, <1>3, <1>4, <1>5 DEF Evaluate

\* Feeds start once, and a snapshot makes its own feed busy.
LEMMA FeedsLoss ==
    ASSUME KindsInv, LossInv, NEW m \in Monitors,
           BuildFeeds(m) \/ \E i \in Feeds(m) : Deliver(m, i) \/ FeedFails(m, i)
    PROVE  LossInv'
<1>1. FeedTypeOK /\ EvalTypeOK /\ monitor \in [Monitors -> {"starting", "running", "crashed", "exited"}]
  BY TypeParts DEF KindsInv, RestTypeOK
<1>2. \A i \in Triggers[m] : i \in Feeds(m)
  BY DEF Feeds
<1>3. UNCHANGED unsaved
  BY DEF BuildFeeds, Deliver, FeedFails, books
<1>4. CASE BuildFeeds(m)
  <2>1. /\ monitor[m] = "starting" /\ UNCHANGED pc
        /\ feed' = [feed EXCEPT ![m] = [i \in Feeds(m) |-> "fetch"]]
        /\ monitor' = [monitor EXCEPT ![m] = "running"]
    BY <1>4 DEF BuildFeeds, evaluation
  <2>2. \A i \in Feeds(m) : feed[m][i] = "unbuilt"
    BY <2>1, LossAt
  <2>3. pc[m] = "idle"
    BY <1>2, <2>2, LossAt
  <2>4. /\ monitor'[m] # "starting" /\ \A n \in Monitors \ {m} : monitor'[n] = monitor[n]
        /\ \A n \in Monitors \ {m} : feed'[n] = feed[n]
    BY <1>1, <2>1 DEF FeedTypeOK
  <2>5. Cardinality(CrashedTriggers(m)) <= Cardinality(CrashedTriggers(m)')
    BY <1>2, <2>2, CrashedGrow
  <2>6. unsaved'[m] <= Cardinality(CrashedTriggers(m)') + (IF pc'[m] = "persist" THEN 1 ELSE 0)
    <3>1. unsaved[m] \in Nat
      BY DEF KindsInv, TypeOK
    <3>2. QED
      BY <1>3, <2>1, <2>5, <3>1, LossAt, CrashedFinite
  <2>7. QED
    BY <1>3, <2>1, <2>3, <2>4, <2>6, LossStep
<1>5. ASSUME NEW i \in Feeds(m), feed[m][i] = "fetch", UNCHANGED monitor,
             \/ UNCHANGED <<pc, feed>>
             \/ UNCHANGED pc /\ feed' = [feed EXCEPT ![m][i] = "crashed"]
             \/ /\ i \in Triggers[m] /\ Await(m, "read", <<>>) /\ pc[m] = "idle"
                /\ feed' = [feed EXCEPT ![m][i] = "busy"]
      PROVE  LossInv'
  <2>1. \/ feed'[m] = feed[m]
        \/ feed'[m] = [feed[m] EXCEPT ![i] = "crashed"]
        \/ feed'[m] = [feed[m] EXCEPT ![i] = "busy"]
    BY <1>1, <1>5 DEF FeedTypeOK
  <2>2. \A j \in Feeds(m) : j # i => feed'[m][j] = feed[m][j]
    BY <1>1, <2>1 DEF FeedTypeOK
  <2>3. \A n \in Monitors \ {m} : feed'[n] = feed[n]
    BY <1>1, <1>5 DEF FeedTypeOK
  <2>4. monitor[m] # "starting"
    BY <1>5, LossAt
  <2>5. Cardinality(CrashedTriggers(m)) <= Cardinality(CrashedTriggers(m)')
    BY <1>2, <1>5, <2>2, CrashedGrow
  <2>6. /\ pc'[m] = pc[m] \/ (pc'[m] = "read" /\ pc[m] = "idle")
        /\ \A n \in Monitors \ {m} : pc'[n] = pc[n]
    BY <1>1, <1>5, EmptySeq, AwaitMoves DEF Stages
  <2>7. pc'[m] # "idle" => \E j \in Triggers[m] : feed'[m][j] = "busy"
    <3>1. CASE Await(m, "read", <<>>) /\ i \in Triggers[m] /\ feed' = [feed EXCEPT ![m][i] = "busy"]
      <4>1. feed'[m][i] = "busy"
        BY <1>1, <3>1 DEF FeedTypeOK
      <4>2. QED
        BY <3>1, <4>1
    <3>2. ASSUME UNCHANGED pc, pc[m] # "idle" PROVE \E j \in Triggers[m] : feed'[m][j] = "busy"
      <4>1. PICK j \in Triggers[m] : feed[m][j] = "busy"
        BY <3>2, LossAt, Zenon
      <4>2. j \in Feeds(m) /\ j # i
        BY <1>2, <1>5, <4>1
      <4>3. QED
        BY <2>2, <4>1, <4>2
    <3>3. QED
      BY <1>5, <3>1, <3>2
  <2>8. unsaved'[m] <= Cardinality(CrashedTriggers(m)') + (IF pc'[m] = "persist" THEN 1 ELSE 0)
    <3>1. unsaved[m] \in Nat
      BY DEF KindsInv, TypeOK
    <3>2. QED
      BY <1>3, <2>5, <2>6, <3>1, LossAt, CrashedFinite
  <2>9. QED
    BY <1>3, <1>5, <2>3, <2>4, <2>6, <2>7, <2>8, LossStep
<1>6. QED
  BY <1>4, <1>5 DEF Deliver, FeedFails, Starts, evaluation

LEMMA LossNext == KindsInv /\ LossInv /\ [Next]_vars => LossInv'
<1> SUFFICES ASSUME KindsInv, LossInv, [Next]_vars PROVE LossInv'
  OBVIOUS
<1>1. ASSUME NEW m \in Monitors, EvaluationRaises(m) PROVE LossInv'
  BY <1>1, LeaveLoss DEF EvaluationRaises, Crash, books
<1>2. ASSUME NEW m \in Monitors, BuildRaises(m) \/ MonitorCrashes(m) PROVE LossInv'
  <2>1. UNCHANGED <<feed, pc, unsaved>>
    BY <1>2 DEF BuildRaises, MonitorCrashes, evaluation, books
  <2>2. \A n \in Monitors : monitor'[n] = "starting" => monitor[n] = "starting"
    BY <1>2 DEF BuildRaises, MonitorCrashes, KindsInv, TypeOK
  <2>3. UnsavedBounded'
    BY <2>1, Zenon DEF LossInv, UnsavedBounded
  <2>4. TriggerBusy'
    BY <2>1, <2>2 DEF LossInv, TriggerBusy
  <2>5. QED
    BY <2>3, <2>4 DEF LossInv
<1>3. CASE UNCHANGED <<feed, pc, monitor, unsaved>>
  BY <1>3, Zenon DEF LossInv, TriggerBusy, UnsavedBounded
<1>4. CASE RunReturns \/ Engage \/ Disengage \/ Tick \/ UNCHANGED vars
  BY <1>3, <1>4 DEF RunReturns, Engage, Disengage, Tick, vars, evaluation, books
<1>5. QED
  BY <1>1, <1>2, <1>4, EvaluateLoss, FeedsLoss DEF Next

LEMMA LossInit == Init => LossInv
<1> SUFFICES ASSUME Init PROVE LossInv
  OBVIOUS
<1>1. TriggerBusy
  BY DEF Init, TriggerBusy
<1>2. UnsavedBounded
  <2> SUFFICES ASSUME NEW m \in Monitors
               PROVE  unsaved[m] <= Cardinality(CrashedTriggers(m))
                                       + (IF pc[m] = "persist" THEN 1 ELSE 0)
    BY Zenon DEF UnsavedBounded, CrashedTriggers
  <2>1. unsaved[m] = 0
    BY DEF Init
  <2>2. QED
    BY <2>1, CrashedFinite
<1>3. QED
  BY <1>1, <1>2 DEF LossInv

\* Every execution that is in no row has ended the feed that made it, so that a
\* failing database leaves at most one per trigger feed (runner.py 229-234,
\* 379-384).
THEOREM LostRowsPaid == Spec => []UnsavedBounded
<1>1. LossInv => UnsavedBounded
  BY DEF LossInv
<1>2. QED
  BY KindsInit, KindsNext, LossInit, LossNext, <1>1, PTL DEF Spec

\* The lock of m is held exactly while one task, of a trigger feed that lives, is in
\* its evaluation.
LockHeldByTask ==
    \A m \in Monitors :
        pc[m] # "idle" <=> \E i \in Triggers[m] :
                               /\ feed[m][i] = "busy"
                               /\ \A j \in Feeds(m) \ {i} : feed[m][j] # "busy"

\* No crash, of whichever feed, leaves a lock behind, so that the next snapshot of a
\* trigger feed that lives finds it free or its evaluation under way: what
\* IsolatedMonitors needs apart from fairness (runner.py 121-127, 283-287).
THEOREM LocksReleased == Spec => []LockHeldByTask
<1>1. IInv /\ LossInv => LockHeldByTask
  <2> SUFFICES ASSUME IInv, LossInv, NEW m \in Monitors
               PROVE  pc[m] # "idle" <=>
                         \E i \in Triggers[m] :
                             /\ feed[m][i] = "busy"
                             /\ \A j \in Feeds(m) \ {i} : feed[m][j] # "busy"
    BY DEF LockHeldByTask
  <2>1. \A i \in Triggers[m] : i \in Feeds(m)
    BY DEF Feeds
  <2>2. \A i, j \in Feeds(m) : /\ feed[m][i] = "busy" /\ feed[m][j] = "busy" => i = j
                               /\ feed[m][i] = "busy" => pc[m] # "idle"
    BY DEF IInv, OneEvaluationInFlight
  <2>3. pc[m] # "idle" => \E i \in Triggers[m] : feed[m][i] = "busy"
    BY LossAt
  <2>4. QED
    BY <2>1, <2>2, <2>3, Zenon
<1>2. QED
  BY InitInv, NextInv, KindsInit, KindsNext, LossInit, LossNext, <1>1, PTL DEF Spec

-----------------------------------------------------------------------------
(* What a dead feed silences: the safety half of CrashedFeedStopsTrading.  *)

\* Feed i of m is dead, its book has left the cache, and no evaluation of m is
\* past the read of that book with more than nothing in its hands.
Silenced(m, i) ==
    /\ feed[m][i] = "crashed" /\ cache[Books[m][i]] = Missing
    /\ pc[m] \notin {"log", "approved"}
    /\ pc[m] = "read" /\ i \in 1..Len(snaps[m]) => snaps[m][i] = Missing

\* One step of the evaluation of n, whichever it is.
LEMMA EvaluationMoves ==
    ASSUME KindsInv, NEW n \in Monitors, Evaluate(n) \/ EvaluationRaises(n)
    PROVE  /\ UNCHANGED cache
           /\ \E p \in Stages, s \in Seq(Int) : Await(n, p, s)
           /\ UNCHANGED feed \/ \E f \in {"fetch", "crashed"} : Leave(n, f)
<1>1. snaps[n] \in Seq(Int) /\ <<>> \in Seq(Int)
  BY EmptySeq DEF KindsInv, TypeOK
<1>2. CASE ReadBook(n)
  <2> DEFINE s == Append(snaps[n], cache[Books[n][Len(snaps[n]) + 1]])
  <2>1. s \in Seq(Int)
    BY <1>2, ReadProperties DEF ReadBook, OneMore
  <2>2. /\ UNCHANGED cache
        /\ \/ \E p \in {"read", "log"} : Await(n, p, s) /\ UNCHANGED feed
           \/ Finish(n)
           \/ Gate(n, s)
    BY <1>2 DEF ReadBook
  <2> HIDE DEF s
  <2>3. QED
    BY <1>1, <2>1, <2>2 DEF Gate, Finish, Leave, Stages
<1>3. CASE Logged(n)
  BY <1>1, <1>3 DEF Logged, Gate, Finish, Leave, Stages
<1>4. CASE PlaceOrders(n) \/ TradeReturns(n)
  BY <1>1, <1>4 DEF PlaceOrders, TradeReturns, Stages
<1>5. CASE Persisted(n) \/ EvaluationRaises(n)
  BY <1>1, <1>5 DEF Persisted, EvaluationRaises, Finish, Crash, Leave, Stages
<1>6. QED
  BY <1>2, <1>3, <1>4, <1>5 DEF Evaluate

\* Nothing revives a feed.
LEMMA CrashedStays ==
    ASSUME KindsInv, LossInv, [Next]_vars,
           NEW m \in Monitors, NEW i \in Feeds(m), feed[m][i] = "crashed"
    PROVE  feed'[m][i] = "crashed"
<1>1. FeedTypeOK
  BY TypeParts DEF KindsInv
<1>2. ASSUME NEW n \in Monitors, NEW f \in {"fetch", "crashed"}, Leave(n, f)
      PROVE  feed'[m][i] = "crashed"
  BY <1>1, <1>2, LeaveMoves
<1>3. ASSUME NEW n \in Monitors, Evaluate(n) \/ EvaluationRaises(n)
      PROVE  feed'[m][i] = "crashed"
  BY <1>2, <1>3, EvaluationMoves
<1>4. ASSUME NEW n \in Monitors, NEW j \in Feeds(n), Deliver(n, j) \/ FeedFails(n, j)
      PROVE  feed'[m][i] = "crashed"
  <2>1. feed[n][j] = "fetch"
    BY <1>4 DEF Deliver, FeedFails
  <2>2. feed' = feed \/ \E f \in {"busy", "crashed"} : feed' = [feed EXCEPT ![n][j] = f]
    BY <1>4 DEF Deliver, FeedFails
  <2>3. ASSUME NEW f, feed' = [feed EXCEPT ![n][j] = f] PROVE feed'[m][i] = "crashed"
    <3>1. CASE n # m
      BY <1>1, <2>3, <3>1 DEF FeedTypeOK
    <3>2. CASE n = m
      <4>1. feed'[m] = [feed[m] EXCEPT ![j] = f] /\ DOMAIN feed[m] = Feeds(m)
        BY <1>1, <2>3, <3>2 DEF FeedTypeOK
      <4>2. QED
        BY <2>1, <3>2, <4>1
    <3>3. QED
      BY <3>1, <3>2
  <2>4. QED
    BY <2>2, <2>3
<1>5. ASSUME NEW n \in Monitors, BuildFeeds(n) PROVE feed'[m][i] = "crashed"
  <2>1. \A j \in Feeds(n) : feed[n][j] = "unbuilt"
    BY <1>5, LossAt DEF BuildFeeds
  <2>2. n # m
    BY <2>1
  <2>3. QED
    BY <1>1, <1>5, <2>2 DEF BuildFeeds, FeedTypeOK
<1>6. CASE UNCHANGED feed
  BY <1>6
<1>7. QED
  BY <1>3, <1>4, <1>5, <1>6
     DEF Next, vars, BuildRaises, MonitorCrashes, RunReturns, Engage, Disengage, Tick

\* Only a feed of its own brings a book back into the cache.
LEMMA BookStaysAway ==
    ASSUME KindsInv, [Next]_vars, NEW m \in Monitors, NEW i \in Feeds(m), SoleFeed(m, i),
           feed[m][i] = "crashed", cache[Books[m][i]] = Missing
    PROVE  cache'[Books[m][i]] = Missing
<1>1. /\ DOMAIN cache = AllBooks /\ Books[m][i] \in AllBooks
      /\ \A n \in Monitors : \A j \in Feeds(n) : Books[n][j] \in AllBooks
  BY BooksProperties DEF KindsInv, TypeOK
<1>2. ASSUME NEW n \in Monitors, NEW j \in Feeds(n), Deliver(n, j)
      PROVE  cache'[Books[m][i]] = Missing
  <2>1. feed[n][j] = "fetch" /\ cache' = [cache EXCEPT ![Books[n][j]] = 0]
    BY <1>2 DEF Deliver
  <2>2. Books[n][j] # Books[m][i]
    BY <2>1 DEF SoleFeed
  <2>3. QED
    BY <1>1, <2>1, <2>2
<1>3. CASE Tick
  <2>1. cache'[Books[m][i]] = Cached(Missing)
    BY <1>1, <1>3 DEF Tick
  <2>2. QED
    BY <2>1 DEF Cached, Older, Missing
<1>4. CASE UNCHANGED cache
  BY <1>4
<1>5. ASSUME NEW n \in Monitors, Evaluate(n) \/ EvaluationRaises(n)
      PROVE  UNCHANGED cache
  BY <1>5, EvaluationMoves
<1>6. QED
  BY <1>2, <1>3, <1>4, <1>5
     DEF Next, vars, FeedFails, BuildFeeds, BuildRaises, MonitorCrashes, RunReturns, Engage,
         Disengage

\* Where the evaluation of a monitor that lacks a book can go.
LEMMA SilencedEvaluation ==
    ASSUME KindsInv, NEW m \in Monitors, NEW i \in Feeds(m), Silenced(m, i),
           Evaluate(m) \/ EvaluationRaises(m)
    PROVE  /\ pc'[m] \notin {"log", "approved"}
           /\ pc'[m] = "read" /\ i \in 1..Len(snaps'[m]) => snaps'[m][i] = Missing
<1>1. EvalTypeOK
  BY TypeParts DEF KindsInv
<1>2. ASSUME NEW f \in {"fetch", "crashed"}, Leave(m, f) PROVE pc'[m] = "idle"
  BY <1>1, <1>2, EmptySeq, AwaitMoves DEF Leave, Stages
<1>3. CASE ReadBook(m)
  <2> DEFINE s == Append(snaps[m], cache[Books[m][Len(snaps[m]) + 1]])
  <2>1. pc[m] = "read"
    BY <1>3 DEF ReadBook
  <2>2. /\ s \in Seq(Int) /\ Len(snaps[m]) \in Nat /\ Len(s) = Len(snaps[m]) + 1
        /\ \A j \in 1..Len(snaps[m]) : s[j] = snaps[m][j]
    BY <2>1, ReadProperties DEF OneMore
  <2>3. s[Len(s)] = cache[Books[m][Len(s)]]
    <3>1. cache[Books[m][Len(snaps[m]) + 1]] \in Int
      <4>1. Len(snaps[m]) + 1 \in Feeds(m)
        BY <2>1, <2>2, BooksProperties DEF KindsInv, StagesSound, Feeds
      <4>2. Books[m][Len(snaps[m]) + 1] \in AllBooks
        BY <4>1, BooksProperties
      <4>3. QED
        BY <4>2 DEF KindsInv, TypeOK, Missing
    <3>2. snaps[m] \in Seq(Int)
      BY DEF KindsInv, TypeOK
    <3>3. QED
      BY <2>2, <3>1, <3>2, AppendLast
  <2>4. \/ Len(s) < Len(Books[m]) /\ Await(m, "read", s)
        \/ Finish(m)
        \/ Len(s) = Len(Books[m]) /\ \A j \in Feeds(m) : s[j] # Missing
    BY <1>3 DEF ReadBook
  <2>5. i \in 1..Len(s) => s[i] = Missing
    <3>1. CASE i \in 1..Len(snaps[m])
      BY <2>1, <2>2, <3>1 DEF Silenced
    <3>2. CASE i = Len(s)
      BY <2>3, <3>2 DEF Silenced
    <3>3. QED
      BY <2>2, <3>1, <3>2
  <2> HIDE DEF s
  <2>6. ~(Len(s) = Len(Books[m]) /\ \A j \in Feeds(m) : s[j] # Missing)
    BY <2>5 DEF Feeds
  <2>7. CASE Await(m, "read", s)
    <3>1. "read" \in Stages /\ s \in Seq(Int)
      BY <2>2 DEF Stages
    <3>2. pc'[m] = "read" /\ snaps'[m] = s
      BY <1>1, <2>7, <3>1, AwaitMoves, Zenon
    <3>3. QED
      BY <2>5, <3>2
  <2>8. QED
    BY <1>2, <2>4, <2>6, <2>7 DEF Finish
<1>4. CASE TradeReturns(m)
  <2>1. Await(m, "persist", <<>>)
    BY <1>4 DEF TradeReturns
  <2>2. pc'[m] = "persist"
    BY <1>1, <2>1, EmptySeq, AwaitMoves DEF Stages
  <2>3. QED
    BY <2>2
<1>5. CASE Persisted(m) \/ EvaluationRaises(m)
  BY <1>2, <1>5 DEF Persisted, EvaluationRaises, Finish, Crash
<1>6. QED
  BY <1>3, <1>4, <1>5 DEF Evaluate, Logged, PlaceOrders, Silenced

LEMMA SilencedNext ==
    ASSUME KindsInv, LossInv, [Next]_vars, NEW m \in Monitors, NEW i \in Feeds(m),
           SoleFeed(m, i), Silenced(m, i)
    PROVE  Silenced(m, i)'
<1> DEFINE Quiet == /\ pc'[m] \notin {"log", "approved"}
                    /\ pc'[m] = "read" /\ i \in 1..Len(snaps'[m]) => snaps'[m][i] = Missing
<1>1. feed'[m][i] = "crashed" /\ cache'[Books[m][i]] = Missing
  BY CrashedStays, BookStaysAway DEF Silenced
<1>2. EvalTypeOK
  BY TypeParts DEF KindsInv
<1>3. ASSUME pc'[m] = pc[m], snaps'[m] = snaps[m] PROVE Quiet
  BY <1>3 DEF Silenced
<1>4. ASSUME pc'[m] = "read", snaps'[m] = <<>> PROVE Quiet
  <2>1. Len(snaps'[m]) = 0
    BY <1>4
  <2>2. QED
    BY <1>4, <2>1
<1>5. ASSUME NEW n \in Monitors, Evaluate(n) \/ EvaluationRaises(n) PROVE Quiet
  <2>1. CASE n = m
    BY <1>5, <2>1, SilencedEvaluation
  <2>2. CASE n # m
    <3>1. PICK p \in Stages, s \in Seq(Int) : Await(n, p, s)
      BY <1>5, EvaluationMoves
    <3>2. \A q \in Monitors \ {n} : pc'[q] = pc[q] /\ snaps'[q] = snaps[q]
      BY <1>2, <3>1, AwaitMoves, Zenon
    <3>3. pc'[m] = pc[m] /\ snaps'[m] = snaps[m]
      BY <2>2, <3>2
    <3>4. QED
      BY <1>3, <3>3
  <2>3. QED
    BY <2>1, <2>2
<1>6. ASSUME NEW n \in Monitors, NEW j \in Feeds(n), Deliver(n, j) PROVE Quiet
  <2>1. UNCHANGED evaluation \/ Await(n, "read", <<>>)
    BY <1>6 DEF Deliver
  <2>2. CASE Await(n, "read", <<>>)
    <3>1. /\ pc'[n] = "read" /\ snaps'[n] = <<>>
          /\ n # m => pc'[m] = pc[m] /\ snaps'[m] = snaps[m]
      BY <1>2, <2>2, EmptySeq, AwaitMoves DEF Stages
    <3>2. QED
      BY <1>3, <1>4, <3>1
  <2>3. QED
    BY <1>3, <2>1, <2>2 DEF evaluation
<1>7. ASSUME Tick PROVE Quiet
  <2>1. pc' = pc /\ Len(snaps'[m]) = Len(snaps[m])
        /\ \A j \in 1..Len(snaps[m]) : snaps'[m][j] = Older(snaps[m][j])
    BY <1>2, <1>7, OlderSnaps DEF Tick
  <2>2. QED
    BY <2>1 DEF Silenced, Older
<1>8. ASSUME UNCHANGED evaluation PROVE Quiet
  BY <1>3, <1>8 DEF evaluation
<1>9. Quiet
  BY <1>5, <1>6, <1>7, <1>8
     DEF Next, vars, evaluation, FeedFails, BuildFeeds, BuildRaises, MonitorCrashes, RunReturns,
         Engage, Disengage
<1>10. QED
  BY <1>1, <1>9 DEF Silenced

\* Once the book that only a dead feed filled has expired, and the evaluation that
\* may have read it before is over, m approves no trade ever again, whatever its
\* other feeds deliver (runner.py 131-133, orderbook_cache.py 58-66).
THEOREM DeadFeedSilences ==
    ASSUME NEW m \in Monitors, NEW i \in Feeds(m), SoleFeed(m, i)
    PROVE  Spec => [](Silenced(m, i) => [](pc[m] # "approved"))
<1>1. KindsInv /\ LossInv /\ Silenced(m, i) /\ [Next]_vars => Silenced(m, i)'
  BY SilencedNext
<1>2. Silenced(m, i) => pc[m] # "approved"
  BY DEF Silenced
<1>3. QED
  BY KindsInit, KindsNext, LossInit, LossNext, <1>1, <1>2, PTL DEF Spec

-----------------------------------------------------------------------------
(* What STATE.errors keeps: the safety half of FailuresReported.           *)

Reporters == {m \in Monitors : monitor[m] = "crashed"}

\* A monitor's crash leaves one message.  When run_forever returns every monitor
\* has ended, and nothing is reported after that.
NamesInv ==
    IF running
    THEN Len(errors) <= Cardinality(Reporters) /\ Named(Reporters)
    ELSE (\A m \in Monitors : monitor[m] \in {"crashed", "exited"}) /\ Named(Monitors)

LEMMA ReportersFinite ==
    /\ IsFiniteSet(Reporters) /\ Cardinality(Reporters) \in Nat
    /\ Cardinality(Reporters) <= Cardinality(Monitors)
    /\ Cardinality(Reporters') \in Nat /\ Cardinality(Reporters') <= Cardinality(Monitors)
<1>1. Reporters \subseteq Monitors /\ Reporters' \subseteq Monitors
  BY DEF Reporters
<1>2. QED
  BY <1>1, FS_Subset, FS_CardinalityType

\* A message of e for each monitor of S, as Named has it of errors.
OneEach(S, e) == \E f \in [S -> DOMAIN e] : /\ \A m \in S : e[f[m]] = Label[m]
                                            /\ \A m, n \in S : f[m] = f[n] => m = n

\* Where all of T have a message each, all of a part of T do.
LEMMA OneEachSubset ==
    ASSUME NEW T, NEW S \in SUBSET T, NEW e, OneEach(T, e)
    PROVE  OneEach(S, e)
<1>1. PICK f \in [T -> DOMAIN e] : /\ \A m \in T : e[f[m]] = Label[m]
                                   /\ \A m, n \in T : f[m] = f[n] => m = n
  BY DEF OneEach
<1> DEFINE g == [m \in S |-> f[m]]
<1>2. g \in [S -> DOMAIN e] /\ \A m \in S : g[m] = f[m] /\ m \in T
  BY <1>1
<1> HIDE DEF g
<1>3. QED
  BY <1>1, <1>2 DEF OneEach

LEMMA NamedSubset ==
    ASSUME NEW T, NEW S \in SUBSET T
    PROVE  (Named(T) => Named(S)) /\ (Named(T)' => Named(S)')
<1>1. \A e : OneEach(T, e) => OneEach(S, e)
  BY OneEachSubset
<1>2. OneEach(T, errors) => OneEach(S, errors)
  BY <1>1
<1>3. OneEach(T, errors') => OneEach(S, errors')
  BY <1>1
<1>4. QED
  BY <1>2, <1>3, Zenon DEF Named, OneEach

\* A message more on a list with room for it takes no other message's place.
LEMMA NamedGrows ==
    ASSUME NEW S, Named(S), DOMAIN errors \subseteq DOMAIN errors',
           \A i \in DOMAIN errors : errors'[i] = errors[i]
    PROVE  Named(S)'
<1>1. PICK f \in [S -> DOMAIN errors] :
         /\ \A m \in S : errors[f[m]] = Label[m]
         /\ \A m, n \in S : f[m] = f[n] => m = n
  BY DEF Named
<1>2. f \in [S -> DOMAIN errors']
  BY <1>1
<1>3. \A m \in S : errors'[f[m]] = Label[m]
  BY <1>1
<1>4. QED
  BY <1>1, <1>2, <1>3, Zenon DEF Named

\* A crash while there is room: its monitor has a message, and no one's is dropped.
LEMMA CrashNames ==
    ASSUME TypeOK, NamesInv, Cardinality(Monitors) <= ErrorsKept,
           NEW m \in Monitors, MonitorCrashes(m)
    PROVE  NamesInv' /\ \A S \in SUBSET Monitors : Named(S) => Named(S)'
<1>1. /\ monitor[m] = "running" /\ monitor' = [monitor EXCEPT ![m] = "crashed"]
      /\ errors' = Kept(Append(errors, Label[m])) /\ running' = running
  BY DEF MonitorCrashes
<1>2. /\ errors \in Seq(Labels) /\ Len(errors) \in Nat /\ DOMAIN errors = 1..Len(errors)
      /\ monitor \in [Monitors -> {"starting", "running", "crashed", "exited"}]
  BY LenProperties DEF TypeOK
<1>3. running /\ Len(errors) <= Cardinality(Reporters) /\ Named(Reporters)
  BY <1>1 DEF NamesInv
<1>4. /\ m \notin Reporters /\ Reporters' = Reporters \cup {m}
      /\ Cardinality(Reporters') = Cardinality(Reporters) + 1
  <2>1. m \notin Reporters /\ Reporters' = Reporters \cup {m}
    BY <1>1, <1>2 DEF Reporters
  <2>2. QED
    BY <2>1, ReportersFinite, FS_AddElement
<1> DEFINE s == Append(errors, Label[m])
           n == Len(errors)
<1>5. /\ s \in Seq(Labels) /\ Len(s) = n + 1 /\ s[n + 1] = Label[m]
      /\ \A i \in 1..n : s[i] = errors[i]
  <2>1. Label[m] \in Labels
    BY DEF Labels
  <2>2. QED
    BY <1>2, <2>1, AppendLast
<1>6. errors' = Kept(s)
  BY <1>1
<1> HIDE DEF s
<1>7. Len(s) <= Cardinality(Reporters') /\ Dropped(s) = 0
  BY <1>2, <1>3, <1>4, <1>5, ReportersFinite, FS_CardinalityType DEF Dropped
<1>8. /\ Len(errors') = n + 1 /\ errors'[n + 1] = Label[m] /\ DOMAIN errors' = 1..(n + 1)
      /\ \A i \in 1..n : errors'[i] = errors[i]
  <2>1. /\ errors' \in Seq(Labels) /\ Len(errors') = n + 1
        /\ \A i \in 1..(n + 1) : errors'[i] = s[i + 0]
    BY <1>2, <1>5, <1>6, <1>7, KeptProperties
  <2>2. DOMAIN errors' = 1..(n + 1)
    BY <2>1, LenProperties
  <2>3. \A i \in 1..(n + 1) : errors'[i] = s[i]
    BY <1>2, <2>1
  <2>4. QED
    BY <1>2, <1>5, <2>1, <2>2, <2>3
<1>9. \A S \in SUBSET Monitors : Named(S) => Named(S)'
  <2>1. /\ DOMAIN errors \subseteq DOMAIN errors'
        /\ \A i \in DOMAIN errors : errors'[i] = errors[i]
    BY <1>2, <1>8
  <2>2. ASSUME NEW S \in SUBSET Monitors, Named(S) PROVE Named(S)'
    BY <2>1, <2>2, NamedGrows
  <2>3. QED
    BY <2>2
<1>10. Named(Reporters)'
  <2>1. PICK f \in [Reporters -> 1..n] :
           /\ \A q \in Reporters : errors[f[q]] = Label[q]
           /\ \A q, r \in Reporters : f[q] = f[r] => q = r
    BY <1>2, <1>3 DEF Named
  <2> DEFINE g == [q \in Reporters' |-> IF q = m THEN n + 1 ELSE f[q]]
  <2>2. /\ g[m] = n + 1
        /\ \A q \in Reporters : g[q] = f[q] /\ f[q] \in 1..n /\ g[q] # n + 1
    BY <1>2, <1>4, <2>1
  <2>3. g \in [Reporters' -> DOMAIN errors']
    BY <1>2, <1>4, <1>8, <2>1
  <2> HIDE DEF g
  <2>4. \A q \in Reporters' : errors'[g[q]] = Label[q]
    BY <1>4, <1>8, <2>1, <2>2
  <2>5. \A q, r \in Reporters' : g[q] = g[r] => q = r
    BY <1>4, <2>1, <2>2
  <2>6. QED
    BY <2>3, <2>4, <2>5 DEF Named
<1>11. Len(errors') <= Cardinality(Reporters')
  BY <1>5, <1>7, <1>8
<1>12. QED
  BY <1>1, <1>3, <1>9, <1>10, <1>11 DEF NamesInv

\* The end of run_forever reports every monitor once more, after all the rest.
LEMMA ReturnNames ==
    ASSUME TypeOK, Cardinality(Monitors) <= ErrorsKept, RunReturns
    PROVE  NamesInv' /\ \A S \in SUBSET Monitors : Named(S)'
<1>1. PICK s \in Orders : errors' = Kept(errors \o [i \in DOMAIN s |-> Label[s[i]]])
  BY DEF RunReturns
<1>2. running' = FALSE /\ \A m \in Monitors : monitor'[m] \in {"crashed", "exited"}
  BY DEF RunReturns
<1> DEFINE u == [i \in DOMAIN s |-> Label[s[i]]]
           t == errors \o u
           n == Len(errors)
           k == Len(s)
           d == Dropped(t)
<1>3. errors \in Seq(Labels) /\ n \in Nat /\ k \in Nat /\ k <= ErrorsKept
  BY LenProperties, OrdersCover, FS_CardinalityType DEF TypeOK
<1>4. /\ u \in Seq(Labels) /\ Len(u) = k
      /\ \A i \in 1..k : u[i] = Label[s[i]]
      /\ \A m \in Monitors : \E i \in 1..k : s[i] = m
  BY OrdersCover
<1> HIDE DEF u, k
<1>5. /\ t \in Seq(Labels) /\ Len(t) = n + k
      /\ \A i \in 1..(n + k) : t[i] = IF i <= n THEN errors[i] ELSE u[i - n]
  <2>1. /\ errors \o u \in Seq(Labels) /\ Len(errors \o u) = Len(errors) + Len(u)
        /\ \A i \in 1..Len(errors) + Len(u) :
              (errors \o u)[i] = IF i <= Len(errors) THEN errors[i] ELSE u[i - Len(errors)]
    <3>1. errors \in Seq(Labels) /\ u \in Seq(Labels)
      BY <1>3, <1>4
    <3>2. QED
      BY <3>1, ConcatProperties, Zenon
  <2>2. QED
    BY <1>4, <2>1, Zenon
<1>6. errors' = Kept(t)
  BY <1>1 DEF u
<1> HIDE DEF t
<1>7. d \in 0..n /\ DOMAIN errors' = 1..(n + k - d)
      /\ \A i \in 1..(n + k - d) : errors'[i] = t[i + d]
  <2>1. d \in 0..n
    BY <1>3, <1>5 DEF Dropped
  <2>2. errors' \in Seq(Labels) /\ Len(errors') = n + k - d
        /\ \A i \in 1..(n + k - d) : errors'[i] = t[i + d]
    <3>1. /\ Kept(t) \in Seq(Labels) /\ Len(Kept(t)) = Len(t) - Dropped(t)
          /\ \A i \in 1..Len(Kept(t)) : Kept(t)[i] = t[i + Dropped(t)]
      BY <1>5, KeptProperties
    <3>2. Len(Kept(t)) = n + k - d
      <4>1. Len(t) = n + k
        BY <1>5, Zenon
      <4>2. Len(Kept(t)) = Len(t) - d
        BY <3>1, Zenon
      <4>3. n \in Nat /\ k \in Nat /\ d \in Nat
        BY <1>3, <2>1
      <4> HIDE DEF n, d
      <4>4. QED
        BY <4>1, <4>2, <4>3
    <3>3. QED
      BY <1>6, <3>1, <3>2, Zenon
  <2>3. QED
    BY <2>1, <2>2, LenProperties
<1> HIDE DEF n, d
<1> DEFINE pos(m) == CHOOSE i \in 1..k : s[i] = m
           g == [m \in Monitors |-> n + pos(m) - d]
<1>8. \A m \in Monitors : pos(m) \in 1..k /\ s[pos(m)] = m
  BY <1>4
<1> HIDE DEF pos
<1>9. \A m \in Monitors : g[m] = n + pos(m) - d /\ g[m] \in 1..(n + k - d)
  BY <1>3, <1>7, <1>8
<1>10. g \in [Monitors -> DOMAIN errors']
  BY <1>7, <1>9
<1> HIDE DEF g
<1>11. \A m \in Monitors : errors'[g[m]] = Label[m]
  <2>1. ASSUME NEW m \in Monitors PROVE errors'[g[m]] = Label[m]
    <3>1. g[m] + d = n + pos(m) /\ n + pos(m) \in 1..(n + k)
      BY <1>3, <1>7, <1>8, <1>9
    <3>2. ~(n + pos(m) <= n) /\ (n + pos(m)) - n = pos(m)
      BY <1>3, <1>8
    <3>3. errors'[g[m]] = u[pos(m)]
      BY <1>5, <1>7, <1>9, <3>1, <3>2
    <3>4. QED
      BY <1>4, <1>8, <3>3
  <2>2. QED
    BY <2>1
<1>12. \A m, q \in Monitors : g[m] = g[q] => m = q
  <2>1. ASSUME NEW m \in Monitors, NEW q \in Monitors, g[m] = g[q] PROVE m = q
    <3>1. n + pos(m) - d = n + pos(q) - d /\ pos(m) \in Nat /\ pos(q) \in Nat
      BY <1>8, <1>9, <2>1
    <3>2. n \in Int /\ d \in Int
      BY <1>3, <1>7
    <3>3. pos(m) = pos(q)
      BY <3>1, <3>2
    <3>4. QED
      BY <1>8, <3>3, Zenon
  <2>2. QED
    BY <2>1
<1>13. Named(Monitors)'
  BY <1>10, <1>11, <1>12 DEF Named
<1>14. \A S \in SUBSET Monitors : Named(S)'
  BY <1>13, NamedSubset
<1>15. QED
  BY <1>2, <1>13, <1>14 DEF NamesInv

LEMMA NamesNext ==
    ASSUME TypeOK, NamesInv, Cardinality(Monitors) <= ErrorsKept, [Next]_vars
    PROVE  NamesInv' /\ \A S \in SUBSET Monitors : Named(S) => Named(S)'
<1>1. CASE UNCHANGED <<errors, running, monitor>>
  <2>1. \A S \in SUBSET Monitors : Named(S) <=> Named(S)'
    BY <1>1 DEF Named
  <2>2. Reporters' = Reporters /\ Reporters \in SUBSET Monitors
    BY <1>1 DEF Reporters
  <2>3. Named(Reporters)' <=> Named(Reporters)
    BY <2>2, <1>1 DEF Named
  <2>4. QED
    BY <1>1, <2>1, <2>2, <2>3 DEF NamesInv
<1>2. ASSUME NEW m \in Monitors, BuildFeeds(m) \/ BuildRaises(m)
      PROVE  NamesInv' /\ \A S \in SUBSET Monitors : Named(S) => Named(S)'
  <2>1. /\ monitor[m] = "starting" /\ UNCHANGED <<errors, running>>
        /\ \A n \in Monitors : monitor'[n] = "crashed" <=> monitor[n] = "crashed"
    BY <1>2 DEF BuildFeeds, BuildRaises, TypeOK
  <2>2. running
    BY <2>1 DEF NamesInv
  <2>3. Reporters' = Reporters
    BY <2>1 DEF Reporters
  <2>4. \A S \in SUBSET Monitors : Named(S) <=> Named(S)'
    BY <2>1 DEF Named
  <2>5. Named(Reporters)' <=> Named(Reporters)
    BY <2>1, <2>3 DEF Named
  <2>6. QED
    BY <2>1, <2>2, <2>3, <2>4, <2>5 DEF NamesInv
<1>3. ASSUME NEW m \in Monitors, Evaluate(m) \/ EvaluationRaises(m)
      PROVE  UNCHANGED <<errors, running, monitor>>
  BY <1>3 DEF Evaluate, EvaluationRaises, ReadBook, Logged, PlaceOrders, TradeReturns, Persisted
<1>4. QED
  BY <1>1, <1>2, <1>3, CrashNames, ReturnNames
     DEF Next, vars, Deliver, FeedFails, Engage, Disengage, Tick

FailuresNamed ==
    \A S \in SUBSET Monitors : (\A m \in S : monitor[m] = "crashed" \/ ~running) => Named(S)
NamesStay == [][\A S \in SUBSET Monitors : Named(S) => Named(S)']_vars

\* As long as STATE.errors has room for every monitor: those that ended on a crash
\* have a message each there, with their label, also when several share it; all of
\* them do when run_forever has returned; and no message about another pushes the
\* last one about a monitor out (runner.py 108-110, 416-423, runtime_state.py 42).
THEOREM FailuresStayNamed ==
    ASSUME Cardinality(Monitors) <= ErrorsKept
    PROVE  Spec => []FailuresNamed /\ NamesStay
<1>1. Init => NamesInv
  <2> SUFFICES ASSUME Init PROVE NamesInv
    OBVIOUS
  <2>1. running /\ Reporters = {} /\ Len(errors) = 0
    BY DEF Init, Reporters
  <2>2. Named({})
    <3> DEFINE f == [m \in {} |-> m]
    <3>1. f \in [{} -> DOMAIN errors]
      OBVIOUS
    <3> HIDE DEF f
    <3>2. QED
      BY <3>1 DEF Named
  <2>3. QED
    BY <2>1, <2>2, ReportersFinite DEF NamesInv
<1>2. KindsInv => TypeOK
  BY DEF KindsInv
<1>3. NamesInv /\ TypeOK /\ [Next]_vars => NamesInv'
  BY NamesNext
<1>4. NamesInv => FailuresNamed
  <2> SUFFICES ASSUME NamesInv, NEW S \in SUBSET Monitors,
                      \A m \in S : monitor[m] = "crashed" \/ ~running
               PROVE  Named(S)
    BY DEF FailuresNamed
  <2>1. CASE running
    <3>1. S \in SUBSET Reporters
      BY <2>1 DEF Reporters
    <3>2. QED
      BY <2>1, <3>1, NamedSubset DEF NamesInv
  <2>2. CASE ~running
    BY <2>2, NamedSubset DEF NamesInv
  <2>3. QED
    BY <2>1, <2>2
<1>5. NamesInv /\ TypeOK /\ [Next]_vars
         => [\A S \in SUBSET Monitors : Named(S) => Named(S)']_vars
  BY NamesNext
<1>6. QED
  BY KindsInit, KindsNext, <1>1, <1>2, <1>3, <1>4, <1>5, PTL DEF Spec, NamesStay
=============================================================================
