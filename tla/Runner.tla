------------------------------- MODULE Runner -------------------------------
(***************************************************************************)
(* The autonomous runner (backend/marketdata/runner.py): PairMonitors and  *)
(* TriangleMonitors on one asyncio event loop, their feeds                 *)
(* (ws_ingestion.py), the Redis cache of order books (orderbook_cache.py), *)
(* the kill switch and error list of runtime_state.STATE, and the risk     *)
(* gate (decision.py).  What runs between two awaits is one action.  A     *)
(* trade is one await here: BrokenLeg and Triangular are what happens in   *)
(* it.  Prices are abstracted to whether the signal passes the gate.       *)
(***************************************************************************)
EXTENDS Integers, Sequences, FiniteSets

CONSTANTS
    Monitors,   \* the configured pairs and triangles
    Books,      \* Books[m]: the (exchange, symbol) books m feeds and reads, in order
    Triggers,   \* Triggers[m]: the feeds of m whose snapshots start an evaluation
    Label,      \* Label[m]: a pair's symbol or a triangle's label; several may share it
    Logging,    \* the monitors that log every evaluated tick (pairs, if enabled)
    WarmUp,     \* WarmUp[m]: trigger snapshots m needs before its windows are ready
    TTL,        \* lifetime of a cached snapshot, in ticks of the clock
    AwaitTicks, \* bound: the most ticks that pass during one await of an evaluation
    Notional,   \* notional_per_trade_usd
    MaxVolume,  \* most that one trade reports as executed (fills above the best ask)
    DailyCap,   \* max_daily_notional_usd
    ErrorsKept  \* messages STATE.errors keeps

ASSUME RunnerAssumption ==
    /\ IsFiniteSet(Monitors)
    /\ Books \in [Monitors -> Seq(STRING)]
    /\ \A m \in Monitors : Books[m] # <<>> /\ Triggers[m] \subseteq 1..Len(Books[m])
    /\ Label \in [Monitors -> STRING]
    /\ Logging \subseteq Monitors
    /\ WarmUp \in [Monitors -> Nat]
    /\ TTL \in Nat \ {0}
    /\ AwaitTicks \in Nat
    /\ Notional \in Nat \ {0} /\ MaxVolume \in Nat /\ Notional <= MaxVolume
    /\ DailyCap \in Nat
    /\ ErrorsKept \in Nat

Feeds(m) == 1..Len(Books[m])
AllBooks == UNION {{Books[m][i] : i \in Feeds(m)} : m \in Monitors}
Missing == -1                     \* get_snapshot returned None

VARIABLES
    cache,      \* age of each cached snapshot, or Missing
    feed,       \* feed[m][i]: "unbuilt", "fetch", "busy" (its callback evaluates)
                \* or "crashed"
    warm,       \* trigger snapshots seen, up to WarmUp[m]
    pc,         \* the await m's evaluation is suspended at; "idle": lock free
    snaps,      \* ages of the snapshots the evaluation has read so far
    waited,     \* ticks that have passed during the current await of m
    used,       \* _daily_notional_used_usd
    monitor,    \* "starting", "running", "crashed" (its gather raised) or "exited"
                \* (a feed could not be built)
    errors,     \* STATE.errors, as the labels its messages begin with
    running,    \* run_forever has not returned
    engaged,    \* STATE.kill_switch.engaged
    spared,     \* history: monitors already past the gate at the last engage
    unsaved     \* history: executions of m that no database row records

evaluation == <<pc, snaps, waited>>
books == <<used, unsaved>>
vars == <<cache, feed, warm, pc, snaps, waited, used, monitor, errors, running,
          engaged, spared, unsaved>>

Init == /\ cache = [b \in AllBooks |-> Missing]
        /\ feed = [m \in Monitors |-> [i \in Feeds(m) |-> "unbuilt"]]
        /\ warm = [m \in Monitors |-> 0]
        /\ pc = [m \in Monitors |-> "idle"]
        /\ snaps = [m \in Monitors |-> <<>>]
        /\ waited = [m \in Monitors |-> 0]
        /\ used = [m \in Monitors |-> 0]
        /\ monitor = [m \in Monitors |-> "starting"]
        /\ errors = <<>>
        /\ running = TRUE
        /\ engaged = FALSE
        /\ spared = {}
        /\ unsaved = [m \in Monitors |-> 0]

-----------------------------------------------------------------------------
(* Where an evaluation stands.                                             *)

\* m now awaits at p, having read s.
Await(m, p, s) == /\ pc' = [pc EXCEPT ![m] = p]
                  /\ snaps' = [snaps EXCEPT ![m] = s]
                  /\ waited' = [waited EXCEPT ![m] = 0]

\* The feed whose callback runs the evaluation of m goes on as state f, and
\* the evaluation releases the lock.
Leave(m, f) == /\ Await(m, "idle", <<>>)
               /\ feed' = [feed EXCEPT ![m] =
                              [i \in Feeds(m) |-> IF @[i] = "busy" THEN f ELSE @[i]]]

Finish(m) == Leave(m, "fetch")

\* Mutant: the feed swallows what its callback raises.
CrashSwallowed(m) == Leave(m, "fetch")

\* The exception leaves the callback and ends the feed's task.
Crash(m) == Leave(m, "crashed")

-----------------------------------------------------------------------------
(* Feeds.                                                                  *)

\* Mutant: nothing asks whether the lock is held.
StartsUnlocked(m, i) == i \in Triggers[m] /\ warm'[m] = WarmUp[m]

\* Mutant: all monitors share one lock.
StartsAlone(m, i) == /\ i \in Triggers[m] /\ warm'[m] = WarmUp[m]
                     /\ \A n \in Monitors : pc[n] = "idle"

\* A snapshot of feed i starts an evaluation.
Starts(m, i) == i \in Triggers[m] /\ warm'[m] = WarmUp[m] /\ pc[m] = "idle"

\* The snapshot of feed i is cached; a trigger also updates the windows and,
\* when they are ready and no evaluation is in flight, starts one.  The cache's
\* answer is awaited in between: an evaluation that reads the new snapshot in that
\* time reads it right after this step instead.
Deliver(m, i) ==
    /\ feed[m][i] = "fetch"
    /\ cache' = [cache EXCEPT ![Books[m][i]] = 0]
    /\ warm' = [warm EXCEPT ![m] = IF i \in Triggers[m] /\ @ < WarmUp[m] THEN @ + 1 ELSE @]
    /\ IF Starts(m, i)
       THEN /\ Await(m, "read", <<>>)
            /\ feed' = [feed EXCEPT ![m][i] = "busy"]
       ELSE UNCHANGED <<evaluation, feed>>
    /\ UNCHANGED <<books, monitor, errors, running, engaged, spared>>

\* The venue, the cache or the feature window raises in the feed's loop.
FeedFails(m, i) ==
    /\ feed[m][i] = "fetch"
    /\ feed' = [feed EXCEPT ![m][i] = "crashed"]
    /\ UNCHANGED <<cache, warm, evaluation, books, monitor, errors, running, engaged, spared>>

-----------------------------------------------------------------------------
(* _evaluate_once.                                                         *)

\* Mutant: the kill switch is not asked.
ApprovesEngaged(m, good) == good /\ used[m] + Notional <= DailyCap

\* Mutant: the cap is compared with the use before this trade.
ApprovesAtCap(m, good) == ~engaged /\ good /\ used[m] <= DailyCap

\* should_execute, on the switch and the daily use as they are now; `good`
\* stands for alpha, probability and hazard within their limits.
Approves(m, good) == ~engaged /\ good /\ used[m] + Notional <= DailyCap

\* The last step before the orders: nothing awaits between the kill switch
\* being read and the gate's answer.
Gate(m, s) == \E good \in BOOLEAN :
    IF Approves(m, good)
    THEN Await(m, "approved", s) /\ UNCHANGED feed
    ELSE Finish(m)

\* One awaited cache read.  After the last one: no trade without all books;
\* thin books and non-positive prices return too.
ReadBook(m) ==
    LET s == Append(snaps[m], cache[Books[m][Len(snaps[m]) + 1]])
    IN  /\ pc[m] = "read"
        /\ \/ Len(s) < Len(Books[m]) /\ Await(m, "read", s) /\ UNCHANGED feed
           \/ Len(s) = Len(Books[m]) /\ Finish(m)
           \/ /\ Len(s) = Len(Books[m])
              /\ \A i \in Feeds(m) : s[i] # Missing
              /\ IF m \in Logging THEN Await(m, "log", s) /\ UNCHANGED feed
                                  ELSE Gate(m, s)
        /\ UNCHANGED <<cache, warm, books, monitor, errors, running, engaged, spared>>

\* The sample logger's thread is done.
Logged(m) == /\ pc[m] = "log"
             /\ Gate(m, snaps[m])
             /\ UNCHANGED <<cache, warm, books, monitor, errors, running, engaged, spared>>

\* The legs run as tasks of their own, a turn of the event loop after the gate.
PlaceOrders(m) == /\ pc[m] = "approved"
                  /\ Await(m, "orders", snaps[m])
                  /\ spared' = spared \ {m}
                  /\ UNCHANGED <<cache, feed, warm, books, monitor, errors, running, engaged>>

\* The mitigator returns a result of volume v.
TradeReturns(m) == \E v \in 0..MaxVolume :
    /\ pc[m] = "orders"
    /\ used' = [used EXCEPT ![m] = @ + v]
    /\ unsaved' = [unsaved EXCEPT ![m] = @ + 1]
    /\ Await(m, "persist", <<>>)
    /\ UNCHANGED <<cache, feed, warm, monitor, errors, running, engaged, spared>>

\* The database row is committed.
Persisted(m) == /\ pc[m] = "persist"
                /\ unsaved' = [unsaved EXCEPT ![m] = @ - 1]
                /\ Finish(m)
                /\ UNCHANGED <<cache, warm, used, monitor, errors, running, engaged, spared>>

\* A cache read, the logger, the mitigator or the database raises.
EvaluationRaises(m) ==
    /\ pc[m] \in {"read", "log", "orders", "persist"}
    /\ Crash(m)
    /\ UNCHANGED <<cache, warm, books, monitor, errors, running, engaged, spared>>

-----------------------------------------------------------------------------
(* run and run_forever.                                                    *)

\* The feeds of m are built, on exchange clients shared by all monitors, and
\* their loops start.
BuildFeeds(m) ==
    /\ monitor[m] = "starting"
    /\ feed' = [feed EXCEPT ![m] = [i \in Feeds(m) |-> "fetch"]]
    /\ monitor' = [monitor EXCEPT ![m] = "running"]
    /\ UNCHANGED <<cache, warm, evaluation, books, errors, running, engaged, spared>>

\* No such exchange: this is before the `try` that would record it.
BuildRaises(m) ==
    /\ monitor[m] = "starting"
    /\ monitor' = [monitor EXCEPT ![m] = "exited"]
    /\ UNCHANGED <<cache, feed, warm, evaluation, books, errors, running, engaged, spared>>

\* A deque with a maxlen drops its oldest entries.
Kept(s) == SubSeq(s, IF Len(s) > ErrorsKept THEN Len(s) - ErrorsKept + 1 ELSE 1, Len(s))

\* gather, without return_exceptions, raises for the first feed that crashed;
\* the monitor's other feeds keep running.
MonitorCrashes(m) ==
    /\ monitor[m] = "running"
    /\ \E i \in Feeds(m) : feed[m][i] = "crashed"
    /\ monitor' = [monitor EXCEPT ![m] = "crashed"]
    /\ errors' = Kept(Append(errors, Label[m]))
    /\ UNCHANGED <<cache, feed, warm, evaluation, books, running, engaged, spared>>

\* The monitors in some order; the code's is that of the configuration.
Orders == {s \in [1..Cardinality(Monitors) -> Monitors] :
              \A i, j \in DOMAIN s : s[i] = s[j] => i = j}

\* Mutant: gather without return_exceptions raises for the first one.
RaisesWithFirst ==
    /\ running
    /\ \E m \in Monitors : monitor[m] \in {"crashed", "exited"}
    /\ running' = FALSE
    /\ UNCHANGED <<cache, feed, warm, evaluation, books, monitor, errors, engaged, spared>>

\* gather with return_exceptions waits for every monitor; then each is reported,
\* by its label.
RunReturns ==
    /\ running
    /\ \A m \in Monitors : monitor[m] \in {"crashed", "exited"}
    /\ running' = FALSE
    /\ \E s \in Orders : errors' = Kept(errors \o [i \in DOMAIN s |-> Label[s[i]]])
    /\ UNCHANGED <<cache, feed, warm, evaluation, books, monitor, engaged, spared>>

-----------------------------------------------------------------------------
(* The dashboard and the clock.                                            *)

Engage == /\ engaged' = TRUE
          /\ spared' = {m \in Monitors : pc[m] = "approved"}
          /\ UNCHANGED <<cache, feed, warm, evaluation, books, monitor, errors, running>>

Disengage == /\ engaged' = FALSE
             /\ spared' = {}
             /\ UNCHANGED <<cache, feed, warm, evaluation, books, monitor, errors, running>>

Older(a) == IF a = Missing THEN Missing ELSE a + 1

\* Mutants: the key outlives its TTL by a tick; the key has no TTL.
CachedOneMore(a) == IF a = TTL THEN Missing ELSE Older(a)
CachedForever(a) == a

\* A cached snapshot a tick later: Redis drops it at its TTL.
Cached(a) == IF a + 1 = TTL THEN Missing ELSE Older(a)

\* Time passes: cached snapshots expire at TTL.  Nothing in the code bounds an
\* await of an evaluation; here it takes AwaitTicks ticks at most, whatever they are.
Tick == /\ \A m \in Monitors : pc[m] = "idle" \/ waited[m] < AwaitTicks
        /\ cache' = [b \in AllBooks |-> Cached(cache[b])]
        /\ snaps' = [m \in Monitors |-> [i \in DOMAIN snaps[m] |-> Older(snaps[m][i])]]
        /\ waited' = [m \in Monitors |-> IF pc[m] = "idle" THEN 0 ELSE waited[m] + 1]
        /\ UNCHANGED <<feed, warm, pc, books, monitor, errors, running, engaged, spared>>

-----------------------------------------------------------------------------
Evaluate(m) == ReadBook(m) \/ Logged(m) \/ PlaceOrders(m) \/ TradeReturns(m) \/ Persisted(m)

Next == \/ \E m \in Monitors :
              \/ \E i \in Feeds(m) : Deliver(m, i) \/ FeedFails(m, i)
              \/ Evaluate(m)
              \/ EvaluationRaises(m)
              \/ BuildFeeds(m) \/ BuildRaises(m) \/ MonitorCrashes(m)
        \/ RunReturns
        \/ Engage
        \/ Disengage
        \/ Tick

Spec == Init /\ [][Next]_vars

\* Books keep streaming, awaits end, the event loop resumes what is ready and
\* time passes.  Nothing has to fail, and nobody has to press a button.
FairSpec == /\ Spec
            /\ \A m \in Monitors : /\ \A i \in Feeds(m) : WF_vars(Deliver(m, i))
                                   /\ WF_vars(Evaluate(m))
                                   /\ WF_vars(BuildFeeds(m) \/ BuildRaises(m))
                                   /\ WF_vars(MonitorCrashes(m))
            /\ WF_vars(Tick)
            /\ WF_vars(RunReturns)

-----------------------------------------------------------------------------
(* Properties.                                                             *)

Stages == {"idle", "read", "log", "approved", "orders", "persist"}

\* What a message of STATE.errors begins with.
Labels == {Label[m] : m \in Monitors}

TypeOK ==
    /\ cache \in [AllBooks -> Missing..(TTL - 1)]
    /\ DOMAIN feed = Monitors
    /\ \A m \in Monitors : feed[m] \in [Feeds(m) -> {"unbuilt", "fetch", "busy", "crashed"}]
    /\ warm \in [Monitors -> Nat] /\ \A m \in Monitors : warm[m] <= WarmUp[m]
    /\ pc \in [Monitors -> Stages]
    /\ snaps \in [Monitors -> Seq(Int)]
    /\ \A m \in Monitors : Len(snaps[m]) <= Len(Books[m])
    /\ waited \in [Monitors -> 0..AwaitTicks]
    /\ used \in [Monitors -> Nat]
    /\ monitor \in [Monitors -> {"starting", "running", "crashed", "exited"}]
    /\ errors \in Seq(Labels) /\ Len(errors) <= ErrorsKept
    /\ running \in BOOLEAN /\ engaged \in BOOLEAN
    /\ spared \subseteq Monitors
    /\ unsaved \in [Monitors -> Nat]

\* The check of locked() before `async with` is enough: the evaluation in
\* flight belongs to exactly one feed task, however the feeds of a triangle
\* interleave and crash, and no task is left waiting for the lock
\* (runner.py 121-127, 283-287).
OneEvaluationInFlight ==
    \A m \in Monitors : \A i, j \in Feeds(m) :
        /\ feed[m][i] = "busy" /\ feed[m][j] = "busy" => i = j
        /\ feed[m][i] = "busy" => pc[m] # "idle"

\* While the kill switch is engaged, an approved trade that has not reached
\* the venues yet was approved before it was engaged: the gate reads the switch
\* after the last await that precedes the orders (runner.py 168-227, 343-366).
ApprovalsPredateEngage ==
    engaged => \A m \in Monitors : pc[m] = "approved" => m \in spared

\* Each monitor's own daily use overshoots the cap by no more than the price of
\* one trade above its notional: the gate is asked again before every trade, and
\* no trade starts between a gate and the use it leads to (decision.py 70-75,
\* runner.py 193-231).  It is each monitor's own: nothing bounds the sum, which
\* DEPLOY.md 173-175 has the cap do.
DailyUsePerMonitor ==
    \A m \in Monitors : used[m] <= DailyCap + (MaxVolume - Notional)

\* A trade is decided on snapshots that were alive when they were read, and that
\* have aged by no more than the awaits between the read and the gate: one per
\* later read and one for the sample logger (runner.py 130-177, 290-292).  Nobody
\* asks again how old they are, so this is as far as the TTL reaches: to the
\* longest await, times their number.
DecisionAgeBounded ==
    \A m \in Monitors : pc[m] = "approved" /\ waited[m] = 0 =>
        \A i \in Feeds(m) :
            LET awaits == (Len(Books[m]) - i) + (IF m \in Logging THEN 1 ELSE 0)
            IN  snaps[m][i] \in 0..(TTL - 1 + AwaitTicks * awaits)

\* An execution the database did not store kills the feed that evaluated it, so
\* a failing database leaves at most one unstored execution per trigger feed,
\* besides the one being stored (runner.py 229-234, 379-384).
UnsavedBounded ==
    \A m \in Monitors :
        unsaved[m] <= Cardinality({i \in Triggers[m] : feed[m][i] = "crashed"})
                      + (IF pc[m] = "persist" THEN 1 ELSE 0)

\* No other feed fills the book of feed i of m.
SoleFeed(m, i) == \A n \in Monitors : \A j \in Feeds(n) :
                      Books[n][j] = Books[m][i] => n = m /\ j = i

\* When a feed of m dies, m's other feeds go on evaluating, but the book that
\* only the dead feed filled expires from the cache, and m stops approving
\* trades for good (runner.py 102-110, 131-133, orderbook_cache.py 58-66).
CrashedFeedStopsTrading ==
    \A m \in Monitors : \A i \in Feeds(m) :
        SoleFeed(m, i) => (feed[m][i] = "crashed" ~> [](pc[m] # "approved"))

\* runner.py 390-392: a monitor is isolated.  Whatever happens to the others,
\* m keeps evaluating as long as one of its trigger feeds lives, unless its
\* feeds cannot be built.
IsolatedMonitors ==
    \A m \in Monitors : \/ []<>(pc[m] = "read")
                       \/ <>(\A i \in Triggers[m] : feed[m][i] = "crashed")
                       \/ <>(monitor[m] = "exited")

\* STATE.errors holds a message for each monitor of S, no two of them the same one,
\* with that monitor's label.  Which of two monitors with one label a message is
\* about it does not say.
Named(S) == \E message \in [S -> DOMAIN errors] :
                /\ \A m \in S : errors[message[m]] = Label[m]
                /\ \A m, n \in S : message[m] = message[n] => m = n

\* The monitors that lost a feed, and all of them once run_forever has returned.
Failing == {m \in Monitors : ~running \/ \E i \in Feeds(m) : feed[m][i] = "crashed"}

\* As long as STATE.errors has room for every monitor: each that lost a feed gets a
\* message of its own there, monitors that share a label too, and keeps it although
\* every failure leaves two messages; one whose feeds could not be built has its
\* own at the latest when run_forever returns.  Feeds crash, and run_forever
\* returns, once (runner.py 99-110, 416-423, runtime_state.py 42).
FailuresReported == Cardinality(Monitors) <= ErrorsKept => <>[]Named(Failing)
=============================================================================
