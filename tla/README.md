# Verification of the bimodal arbitrage engine

TLA+ models of the engine's core, the TLC runs that check them on small
instances, and the TLAPS proofs of the theorems that hold for every instance.
`PROJECT.json` maps every definition that models code to the lines it stands
for, and lists the runs, the hazards they are aimed at, the mutants that show
each property can fail, and the findings.

## The system

The backend is one Python process: a FastAPI application whose lifespan starts
`run_forever`. Everything in it runs on one asyncio event loop, except the
threads of the API's synchronous dependencies and of `asyncio.to_thread`.

| Component | State | Operations | Talks to |
| --- | --- | --- | --- |
| Feeds (`marketdata/ws_ingestion.py`) | one task per (monitor, book) | fetch, callback, crash | the callback of their monitor |
| Order-book cache (`orderbook_cache.py`) | one key per (exchange, symbol), with a TTL | set, get | Redis; shared by all monitors and the paper client |
| Feature builders (`features.py`) | previous snapshot, rolling rows | update, ready | fed by a pair's buy feed |
| PairMonitor, TriangleMonitor (`runner.py`) | lock, daily use, heuristic history | deliver a snapshot, evaluate, run | cache, gate, mitigator, logger, database, STATE |
| Heuristic signal (`ml/heuristic.py`) | two rolling histories | update | read by the gate |
| Risk gate (`execution/decision.py`) | none | should_execute | kill switch, daily use |
| Kill switch (`kill_switch.py`, `runtime_state.py`) | engaged, optionally a file | engage, disengage, apply | dashboard, monitors |
| BrokenLegMitigator (`broken_leg.py`) | one coroutine per trade | execute_paired_orders, _auto_hedge | two venues |
| TriangularMitigator (`triangular.py`) | one coroutine per trade | execute_triangle | one venue |
| Paper exchange (`paper_exchange.py`) | fills | orders, best_bid | cache |
| Persistence (`db/`) | users with unique emails, executions | record_execution, get_or_create_user_by_email, get_recent_executions | database; shared by all processes |
| Dashboard (`api/dashboard.py`) | none; STATE and the database are behind it. The page: its config, refreshes in flight, what is drawn | status, executions, kill-switch endpoints; the page's timer and buttons | STATE, database; the page over HTTP |
| API gateway (`api/main.py`, `auth.py`, `rate_limit.py`, `ml/inference.py`) | token buckets, the shared model | authenticate, allow, reset, one handler | worker threads, gate; its dispatch always raises |
| Android app (`android/`) | screen state, encrypted session | toggle, stream telemetry, key form | API |

What is hard here, and what makes each part correct:

* **Paired execution.** Two orders in flight at once, either of which may fill,
  be rejected or never answer; a loop of partly filled orders. The books of the
  hedge must match the venue, a flattened position must never be turned over,
  and the status must be true.
* **Triangles.** Eight combinations of accepted legs, and any number of lots
  filled of each. What was bought must be sold back.
* **Runner.** Callbacks of several feeds interleave at every await. One
  evaluation per monitor at a time; the kill switch and the cap must be read
  late enough; books must not be stale; crashes must be seen and contained.
* **Start-up and page.** Processes that die and race over one database, a
  bootstrap nobody looks at when it fails, and a page whose refreshes overtake
  each other and fail as a whole. There must be one user, a restart must find
  it and its executions again, and the page must settle on the truth.
* **Kill switch.** A file rewritten in place, and a process that can die.
* **Gateway.** Threads that read a clock before they take a lock, one token paid
  for by one user and spent by another, one model in several forward passes.
* **Signal.** Walks through books, a triangle's each for what the one before
  would buy and none for what is ordered, rolling windows that only move on evaluated
  ticks, and limits in different units. An approved trade must pay.
* **Feature rows.** Two builders that skip and evict on their own must agree.
* **App.** The user taps what was drawn, not what is; calls are lost after they
  have acted. The screen must come back in step, and must not load for ever.

## Modules

| Module | Models | State and actions |
| --- | --- | --- |
| `PairedTrade` | the contract of a paired execution | what is held on the venues, the broken leg, what the caller was told |
| `BrokenLeg` | `BrokenLegMitigator` | `pc` is the await the coroutine is suspended at. `FireLegs`; `LegAccepted`, `LegRejected`, `LegRaised` are the venues; `GatherRaises`, `BothAccepted`, `BothRejected`, `LegBroken` the four ways on from `gather`; `BestBidKnown`, `BestBidRaises`, `LimitAnswered`, `MarketAnswered`, `HedgeOrderRaises` the awaits of `_auto_hedge`. `held` is the truth on the venues, all else is the program's |
| `BrokenLeg_proofs` | | its invariants, its action property, how short it is, the refinement of `PairedTrade` and what that contract promises |
| `Triangular` | `TriangularMitigator` | as `BrokenLeg`, with one action per combination the code names and `NothingUnwound` for the rest |
| `Triangular_proofs` | | where each position comes from, and what the unwinding may do to it |
| `Runner` | both monitors, feeds, cache, gate, dashboard, clock | `feed[m][i]` is a task, `pc[m]` the await of the evaluation in flight. `Deliver` is a feed's callback up to the evaluation's first read, the await of `set_snapshot` merged into it: what that await may be overtaken by comes right after it instead; `ReadBook`, `Logged`, `PlaceOrders`, `TradeReturns`, `Persisted`, `EvaluationRaises` continue it; `MonitorCrashes` and `RunReturns` are the two `gather`s; `Tick` ages and expires what is cached. `BuildFeeds` and `BuildRaises` are the start of a monitor's `run`; `errors` is STATE's list, as the symbol or label each message begins with, which is all that it says of its monitor |
| `MCRunner` | | a triangle, and two pairs of one symbol, so with the same label, that share their books |
| `Runner_proofs` | | the lock, the kill switch, the daily use, the age of decisions, the executions in no row, the types, and what a dead feed and a failure leave for good |
| `WebDashboard` | the bootstrap of `run_forever`, STATE and the database, the endpoints, the page's script | `boot` is the await of the bootstrap: `FindUser`, `CreateUser`, `ReloadUser`, `BootstrapRaises`; `OtherCreates` is another process. `refresh[r]` is one call of the page's `refresh()`, its requests not yet answered and the answers so far: `TimerFires`, `ConfigAnswered`, `StatusAnswered`, `ExecutionsAnswered`, `RefreshFails`, `Render`; `press[p]` one button: `Press`, `Posted`, `PostReturns`, `PostFails`. `Kill`, `Restart`, `DatabaseFails` and `DatabaseRecovers` are the faults |
| `WebDashboard_proofs` | | the user and the owner of the executions, the types of service and page, and what a settled page needs |
| `KillSwitch` | the switch with a file | `SwitchInit`, `SwitchNext`: `Set`, `Truncate`, `Write`, `PersistRaises`, `Kill`, `Restart` |
| `Signal` | the evaluation of a pair or a triangle from its books to the gate's answer | `kind` says whose; `PairTick` and `TriangleTick` are one tick each: `TooThin`, or `EvaluatePair` and `EvaluateTriangle`. Prices and limits are integers and a triangle's quantities fractions in lowest terms, so that every comparison is exact; each venue of a pair has a fee. `prev` is the mid price a triangle's next return is measured from; `trace` is history, the ticks of the window. `Walks` is `compute_vwap` level by level, `Sums` the sums over a window; both are recursive functions |
| `MCSignal` | | books, of a pair's venues and of a triangle's legs, that are thin, deep at once, or deep only in their second level |
| `RateLimiter` | one bucket | `ReadClock` is before the lock, `Decide` under it; `setBack` and `granted` are history, how far late threads have set `last_refill` back and what was let through |
| `Gateway` | requests around that bucket, and the shared model | extends `RateLimiter`: `CallLimiter` and `LimiterAnswers` are its `ReadClock` and `Decide`; `stage[t]` is where a request is, in a thread or on the loop |
| `Gateway_proofs` | | the budget of a bucket; that the gateway only calls `allow`, evaluates what is paid for, and in eval mode |
| `Signal_proofs` | | that what is approved pays and has seen no swing, and that no move of a triangle's price is missed |
| `Features` | `TemporalFeatureWindow` and `DepthMatrixBuilder` | a row is the pair of snapshots it compares; `flow` is the newest row's order-flow imbalance |
| `Features_proofs` | | that rows join up and both inputs agree, and the sign of the imbalance |
| `AppDashboard` | the app's view model, screen and stream | `ui` is the state, `shown` what was last drawn; `calls[i]` is a toggle on its way; `running` is the backend. A call is sent, applied by the backend or not, and confirmed, refused or lost; `Skipped` is a line of the stream that the client passes over |
| `Switches_proofs` | | both ends of the switch: that the app's screen is in step, its retries are bounded and its loading ends once; that the file is what was last answered |

Abstractions, everywhere: prices are left out where no branch depends on them;
volumes are counted in lots; what runs between two awaits is one action.
`Runner` makes a trade one await, because `BrokenLeg` and `Triangular` are what
happens in it: `TradeReturns` allows any volume up to `MaxVolume` and
`EvaluationRaises` the exceptions they can end in. The part of the gate that
compares the signal with its limits is one nondeterministic answer in `Runner`
and computed in `Signal`. `Features` keeps one number of each row, the one with
cases in it, and `DeepenBy` is the other builder's update. In `Gateway` another user's bucket answers at random, and a token
is the owner's, another user's or no good. `WebDashboard` starts where `Runner`
does, before anything is configured, and keeps the monitors as one action that
stores an execution; an execution is its owner and its time, and the email of
the local user stays the same over restarts. The page's statistics are of all the
executions it got and its feed of the first ten: `shown` is what both come from.
In `Gateway` a body that is no JSON is answered before any dependency runs, by no
step at all.
Operators introduced by a comment "Mutant" are wrong versions of the definition
that follows them; nothing uses them but the mutants of `PROJECT.json`.

## Runs

| Run | Bounds | Shows |
| --- | --- | --- |
| `broken_leg` | 3 lots, 3 re-pegs, both volatility regimes | `HedgeBooksMatchVenue`, `StatusTruthful`, `ExposureOnlyShrinks`, `ExecutionEnds`, `ImplementsPairedTrade` |
| `triangular` | 2 lots | `CycleOrderIsUnwound`, `UnwindOnlyShrinks` |
| `runner_triangle` | 1 triangle, 3 trigger feeds, TTL 2, a cap of 2 notionals, trades of up to 2, a list of 1 error | `OneEvaluationInFlight`, `ApprovalsPredateEngage`, `DailyUsePerMonitor`, `UnsavedBounded`, `CrashedFeedStopsTrading` |
| `runner_two_pairs` | 2 pairs on the same two books, with one label, one with logger and warm-up, TTL 1, a list of 2 errors | `DecisionAgeBounded`, `IsolatedMonitors`, `FailuresReported` |
| `web_dashboard` | 2 ids, 2 overlapping refreshes, 1 press, 2 executions on a page of 1, 1 fault | `OneOwner`, `RestartsBootstrap`, `PillSettles`, `ExecutionsReappear` |
| `signal` | 4 ask and 6 bid books of a pair, 18 triples of a triangle's, 2 returns, 2 mid prices, 2 fees, a window of 7 | `ApprovedTradesPay`, `TriangleSeesEveryMove`, `NoSwingBeforeTrade` |
| `kill_switch` | 3 restarts | `SurvivesRestart` |
| `gateway` | 2 requests in flight, a bucket of 2 tokens, 2 ticks | `EvaluationsWithinRate`, `InferenceInEvalMode`, `WindowKeepsRate`, `ImplementsLimiter` |
| `features` | 9 snapshots, 4 and 2 rows, 16 quotes | `RowsChained`, `InputsAligned`, `FlowFollowsPressure` |
| `app_dashboard` | 3 taps, 2 retries | `ScreenInStep`, `LoadingEnds` |

Each run but `runner_two_pairs` and `kill_switch` also checks the type invariant of
its module; the types of `Runner` are checked by `runner_triangle`.

Why these are enough: three lots give a limit order a partial fill, a second
one and a remainder for the market order; three re-pegs are the code's default.
Two lots tell a partial fill of a triangle's leg from none and from all. A TTL
of two ticks lets a book age without expiring and expire without being
replaced. A trade may execute for twice its notional (fills above the best ask), and a
cap of two notionals is then reached by one trade, by two, or passed by the second,
which is the overshoot `DailyUsePerMonitor` bounds. Two books are
shared by the smallest deployment in which a monitor can be kept alive by
another; there a TTL of one tick makes every age above zero due to awaits, which
is what `DecisionAgeBounded` counts. `AwaitTicks`, one tick there, is the bound that ties
the age of a decision to the number of awaits before it; the code has none, so that the
TTL alone says nothing of the age of a book a trade is decided on, and the property is
proved for any `AwaitTicks`. A window of seven ticks
is the shortest in which six profitable ticks of seven pass the limit of 85 % and
five of six do not, and in which old ticks fall out. A pair's move of 38
is beyond the limit of volatility, and the bound of `NoSwingBeforeTrade`, even in a full
window, so that every tick of it counts, the oldest too; a triangle's single move of 25 is
within both in windows of six and seven only, and a move there and back in none. A pair pays different fees on its two venues, and a bid book
is deep enough only in its second level. A triangle's notional of 8
buys two of the bridge asset at the best price, the first alone on its level or
not, so that each of its walks ends in the first level or in the second, and the
third may find too little; its taker fee is a tenth, for numbers as small as
these to show it. The second, third and fourth
restart of the switch start from every content of the file the code can leave.
Two requests are what a race of two calls, or of two forward passes, takes; a rate
of one and a half tokens per tick leaves half a token over, and two ticks fill
the bucket from any level. Nine snapshots evict from both builders, and two
prices and two volumes a side make each of the nine pairs of moves of
bid and ask. Three taps are one confirmed, one overtaken and one after the
overtaking; two retries are one that is followed by another and one that is not.
Two errors are the least that can name two monitors, and the four messages two
failures leave push out two of them. Two refreshes are what an older and a newer
one take, the second of which may be the button's; two executions on a page of
one leave one out, with the same time or an earlier one; two ids let a restart,
or another process, insert a second user where the code allows it. One fault, a
kill or an outage, is enough for `WebDashboard`'s history of `excused`; two
faults pass as well, and take three times as long.
The engine's sizes (100 and 50 rows, a TTL of 5 s, a cap of 500 USD) only repeat
these cases.

Findings, each a run that TLC ends with a violation of what a comment or a
document says:

| Run | Property | What happens |
| --- | --- | --- |
| `broken_leg_unflattened` | `BrokenLegFlattened` | `best_bid` or a hedge order raises; nothing catches it and the open leg stays |
| `triangular_unwind` | `NoUnwantedPosition` | leg2 or leg3 without leg1, and leg1 and leg3 without leg2, leave a position |

Met while modelling, plain from the code, and in the models as the code has
them (no run is spent on them):

* one leg's call raises: `gather` abandons the other one, which may still fill
  (`broken_leg.py` 99). The caller gets the exception; a status, says
  `StatusTruthful`, it is never given while an order may still fill;
* both legs fill unequally: SUCCESS reports the smaller fill, which is what
  `StatusTruthful` promises of it, and the difference stays open (104-117);
* a crash while the switch's file is rewritten leaves no JSON in it, and the next
  start reads that as disengaged, even when `engage` was only being repeated
  (`kill_switch.py` 54 and 63-64, against 4-5); `SurvivesRestart` says when the
  file can be relied on, and no part of the service uses one;
* a monitor's feeds are built outside its `try` (`runner.py` 100-101, 271): an
  exchange that does not exist is not recorded when the monitor ends, but only
  when all others have ended too, against 390-392;
* nothing looks at the task of `run_forever` before the shutdown (`main.py` 64-68):
  a bootstrap that fails, or a configuration that cannot be parsed, leaves a
  service that serves the page and never trades, with no error on it;
* one request that fails, the executions' for instance, keeps the page from
  drawing anything of that refresh, the pill included (`dashboard.py` 498-502);
  an answer that was overtaken is drawn over a newer one until the next refresh;
* every monitor has a daily cap of its own (`runner.py` 96, 193), where `DEPLOY.md`
  173-175 has one bound the day's aggregate: with n monitors n times as much can
  be used. Nothing resets the use, so that it is not of a day either.
  `DailyUsePerMonitor` says what the code keeps, which is what its name says;
* the messages of `STATE.errors` name a symbol or a label only (`runner.py` 108,
  275, 416-423), which pairs of one symbol, as in `.env.example`, share: the list
  tells how many of them failed, and not which. `FailuresReported` is about the
  messages and their labels, which is as much as they say;
* the age of a book is looked at when it is read, by the cache's TTL, and never
  again: how old it is when a trade is decided depends on how long the awaits
  since then took, the sample logger's thread among them (169), which nothing bounds;
* the switch can be engaged one turn of the event loop before the orders of an
  approved trade go out; `ApprovalsPredateEngage` says that is all;
* a late thread sets the bucket's `last_refill` back (`rate_limit.py` 40), and an
  interval is refilled twice; `setBack` adds these intervals up, and the two rate
  properties say that they, and nothing else, can be granted beyond the rate;
* the gateway's gate sees neither the kill switch nor the daily use (`main.py`
  145, against `DEPLOY.md` 177-181);
* the first feature row compares nothing and counts; a book whose best levels
  have no volume raises instead of being skipped;
* the imbalance takes a worse quote's new volume, where the formula of Cont,
  Kukanov and Stoikov, which its docstring names, takes the old one;
* persistence counts the tick that is being decided, and a history of one tick is
  enough: a first tick with a positive alpha has persisted 1 of 1 and can be
  approved, against `heuristic.py` 19-21 (a single positive tick is a bad bet). No
  property here says that an approved alpha has persisted;
* ticks have no age: the histories move on evaluated ticks only, so the window may
  span a minute or a day of thin books. A triangle's return counts from the last
  evaluated tick, so no move is lost (`TriangleSeesEveryMove`); a pair's is that of
  its last book alone (`runner.py` 179), so a move during skipped ticks, or
  books that arrived while an evaluation was in flight, is in no return;
* the high-volatility branch of the hedge cannot be
  taken from the runner: its threshold (`runner.py` 72) is above the hazard the
  gate allows;
* in the app, a balance erases the error of a failed toggle before it is drawn, a
  stream that the server ends before the first balance leaves the screen loading, as does
  one it keeps alive with lines that are no data, which are skipped and keep the read from
  timing out (`TelemetryStreamClient.kt` 63-67), the retries are counted
  over the stream's whole life, and overlapping toggles can end in either order.
  The endpoints the app calls are not in the backend yet.

The largest runs are `web_dashboard` (528,650 distinct states), `runner_triangle`
(196,574), `runner_two_pairs` (126,886), `app_dashboard` (101,182) and `signal`
(60,554). With two workers each takes one to two minutes: the runners for their
liveness properties, `signal` for the arithmetic of its walks and windows.

Every property of a passing run has a mutant in `PROJECT.json`: a plausible bug
in one mapped definition under which TLC finds the property violated.

### Fairness

`BrokenLeg`: the event loop resumes a coroutine whose await is over
(`WF(Resume)`), and an order call ends in an answer or an exception
(`WF(Answer)`); nothing makes a venue fill. `Runner`: books keep streaming
(`WF(Deliver)` for each feed that lives), awaits end (`WF(Evaluate)`, which is
also what asyncio gives a ready task), a monitor's feeds are built or fail to be,
crashed tasks are noticed by `gather`, and time passes. No failure and no button is fair. Engaging the switch for
ever, or rejecting every signal, is allowed; `IsolatedMonitors` therefore speaks
of evaluations, not of trades. `WebDashboard`: the page's
timer fires (`setInterval`), a request is answered or fails, as the browser ends
every request, and what is answered is drawn; nothing restarts, repairs or presses,
and its two liveness properties speak of a service and a database that stay up
from some time on. `Triangular`, `KillSwitch`, `Signal`, `Features` and `Gateway` have no
liveness property and no fairness. `AppDashboard`: frames are drawn,
delays end, and OkHttp's timeouts end every read of a line of the stream and every call:
one of a balance, a skipped line, a failure and the end of the response is always next.
Which one, nothing says: a server may send keep-alives for ever, and `LoadingEnds` names
that (`[]<><<Skipped>>_vars`) beside the end of the stream as the two ways in which
loading need not end. `skips` is there to make a skipped line a step. The backend need
not answer, nor the user tap.

`Features` stops after its last snapshot or a crash, and `AppDashboard` when the
stream has ended and the taps are used up, so their runs do not check deadlock.
All others do; `BrokenLeg` and `Triangular` stutter explicitly once
the call has ended and no order of it is outstanding.

## Proofs

Every safety invariant and every action property that a passing run checks is a
theorem, and so are both refinements. They hold for every value of the constants that
the modules assume: any amount and number of re-pegs; any finite set of monitors, their books and triggers; any
number of threads or requests, any capacity and rate; any ids, faults, refreshes
and presses; any taps and retries, and any number of restarts of the switch; any sizes of the
rolling inputs; any books, window and limits. The assumptions on these constants are the code's: books are sorted,
best level first, and not empty (`microstructure.py` 17-18); the limits of the
gate are shares of one; a deque has room for an element; a set of prices, books
or monitors is what one deployment has.

* `BrokenLeg_proofs`: `TypeCorrect`, `HedgeBooksKept` and `StatusKept`, from one
  invariant. Neither property is inductive: they hold because of what is true *before*
  the hedge starts. `IInv` adds `LegsSound` (an accepted leg holds what its result
  says until the hedge touches it, a rejected one nothing) and `PhaseSound` (where the
  coroutine can be with which legs). One lemma per action. `ShrinkSafety`, the
  action property, follows from it: hedge orders are bounded by `remaining`, and
  `remaining` is what is held.
  `ExecutionShort`: the measure `StepsLeft` (what is left of the coroutine and of the
  answers to its legs) is at most 2 * MaxRepegs + 6 and falls at every step.
* `BrokenLeg_proofs.Refinement`: every step is a step of `PairedTrade` or invisible in it.
  The broken leg is `openLeg` and the outcome is what the caller sees; a leg that
  filled after `gather` raised is a `Fill` after the outcome is known.
  `ContractKept`: `PairedTrade` by itself keeps its `Promise`, and the refinement
  carries it over to the mitigator.
* `Triangular_proofs`: `TypeCorrect`, `UnwindShrinks` and `CycleUnwound`.
  `PositionsTraced` says that every lot held was filled by some leg and not sold
  since, where a leg that raised, and an order on its way, may have filled
  anything; `UnwindSound` that the order sells what the last accepted leg of the
  cycle filled; `StatusSound` with which answers a status can be returned. The
  bounds of the positions are not inductive without it.
* `Runner_proofs`: three invariants for what a decision may do, the second resting
  on the first.
  `OneTaskEvaluates`, `EngageStopsApprovals` and `DailyUseCapped` need `GateHolds`: from
  the approval until the volume is booked the trade still fits under the cap,
  since no other evaluation of that monitor can book anything. `TypeCorrect` and
  `DecisionsFresh` need `StagesSound` (how many books an evaluation has read, and
  whether it logs, at each await) and `AgesBounded`: each await lets a snapshot age by at
  most one tick from the age it was read at, which the TTL bounds. `LostRowsPaid`
  needs `TriggerBusy`: an evaluation runs in the callback of a trigger feed, which
  its exception ends, so that lost executions and dead feeds are counted together.
  Two lemmas say how an evaluation moves (`Await`, `Leave`), once for each
  invariant, and the actions follow from them. `LocksReleased` puts the first and
  `TriggerBusy` together: a lock is held exactly while the task of one trigger
  feed is in its callback. `DeadFeedSilences`: `Silenced` says that a feed is dead, that
  the book only it fills has expired, and that no evaluation under way has read
  that book; it is kept by every step. `FailuresStayNamed` assumes that there
  are no more monitors than `STATE.errors` keeps (nothing in `run_forever`, which
  reads the pairs from the configuration, makes it so): `NamesInv` says
  that while it runs there are no more messages than monitors that crashed, one for each
  with its label, so that none pushes another out; when it returns the last messages are one for each
  monitor, in some order, and a list with room for as many leaves none out.
* `WebDashboard_proofs`: `UserUnique` and `BootstrapRepeats`, with
  `BootstrapHolds`: at each await of the bootstrap, what it has learnt is still
  true, or something it could not know of has come in between. The page cannot
  disturb any of it. `TypeCorrect` adds that no answer in flight, and nothing
  drawn, lists more executions than the page asks for (`PageOK`). `HistoryIsOwned`
  follows from the first invariant; `PageStaysSettled` is about
  `PageSettled`: not only what the page shows is true, but also what every refresh
  under way has been answered, which it has yet to draw.
* `Gateway_proofs`: `BudgetHolds` and `RateKept`, of a bucket by itself: what was let
  through, and the tokens left, fit in the capacity and the refill since the bucket
  was made, and so from any moment on. A reading of the clock that is older than the
  last one sets `last_refill` back and lets an interval count twice; `setBack` is
  how much, and part of the budget. The nonlinear arithmetic of the refill is a lemma
  of its own. `GatewayCallsLimiter`:
  the gateway implements `RateLimiter`, hence `RateKeptBehindGateway`.
  `EvaluationsPaid`: an evaluation for a user was paid for by that user; the
  invariant counts the requests between the limiter and the handler, which together
  with the evaluations are no more than the tokens granted. `EvalModeKept`: the flag is
  never TRUE once the model is made, nor in any thread's memory, so no restore
  can bring it back. `TypeCorrect` combines them.
* `Features_proofs`: `TypeCorrect`, `WindowChained` and `InputsAgree`. Both
  properties are inductive with the types; the work is `PushProperties`, what a bounded
  deque keeps and by how much it moves up. `FlowSigned`, the action
  property, is by cases on how the best prices move.
* `Switches_proofs`: of the app, `TypeCorrect` and `ScreenStaysInStep`, for which late,
  lost and reordered answers are anywhere in the past. `OnlyLastActs` says that, when the last
  call was made alone, no other one can still act; `InStep(k)` what the screen and the
  backend say of each other, given that every call from the k-th on was made alone and
  none of them is abandoned or lost. `LoadingEndsOnce`: a flow that
  is over has left no screen loading. Of the file, `SwitchSurvives`: `AnswerOnFile`
  says that the file reads as the last answer whether the service is up or down, and
  that the memory agrees with it while the service is up.
* `Signal_proofs`: `TypeCorrect`, `TradesPay`, `EveryMoveSeen` and `NoSwing`.
  `HistoriesTraced` makes the returns a column of the window of ticks, and `PrevTraced`
  `prev` the mid price of its last one, from which the next return is measured. `TradesPay`
  rests on what the recursive functions compute for all books: `WalkIsTotal`, a
  walk costs what its lots cost one by one; `Proportion`, of sorted asks a smaller
  quantity costs no more per lot, and of bids it brings no less (two walks over
  the same prices, one never behind the other); `NoneBelowFirst` and
  `BoughtIsLess`, what money buys at the VWAP is no more than what it buys at the best
  price; hence `PartIsPaid`, the part of it that is ordered after fees costs no
  more than that part of the money, although no walk was for that quantity. `NoSwing`
  rests on `SpreadOfSwing`, which bounds the spread of a window from below by any two
  of its returns.

The induction that these functions need is a lemma, not the library's theorem
(that one takes a predicate as a parameter, which the installed provers cannot
instantiate): `Induct` says that a set of naturals with 0 and its members' successors
is all of them, by the pigeonhole theorem for finite sets, and `Recursion` that
a function defined by steps exists. This is why `Signal` has recursive functions and
no RECURSIVE operator.

Each of these invariants was checked by TLC on the run's instance before it was
proved.

Only model-checked: the liveness properties (`ExecutionEnds`,
`CrashedFeedStopsTrading`, `IsolatedMonitors`, `FailuresReported`, `PillSettles`,
`ExecutionsReappear`, `LoadingEnds`), since liveness under fairness needs ENABLED, which is
beyond the prover. What each needs apart from fairness is proved:

| liveness | what is proved of it | what is left to TLC |
|---|---|---|
| `ExecutionEnds` | `ExecutionShort`: every step uses up a bounded measure | that steps are taken |
| `CrashedFeedStopsTrading` | `DeadFeedSilences`: once silenced, silent for good | that the book expires and the evaluation under way ends |
| `IsolatedMonitors` | `LocksReleased`: no crash leaves a lock behind | that the evaluation that holds it ends |
| `FailuresReported` | `FailuresStayNamed`: reported once ended, and never pushed out | that a monitor which cannot go on ends |
| `PillSettles`, `ExecutionsReappear` | `PageStaysSettled`, `HistoryIsOwned` | that the page is refreshed and settles |
| `LoadingEnds` | `LoadingEndsOnce`: never again, once over | that the first load ends or the retries do |

## Not modelled

The neural network and its training (numerical, untrained, unused by the
runner; the life of the shared model is in `Gateway`);
STATE's history of signals and what the page computes from it (ticker, streak,
radar, candles: rendering, apart from the deque's bound); the cryptographic
helpers and the key validation (straight-line, unused by the runner); the app's
key form (no screen opens it, and its use case has no implementation); the
parsing of the configuration, deployment scripts. `PROJECT.json` lists each with
its reason.

## Plan

Done first, in the order of what could lose money: the paired execution and its
contract, the triangle, the runner with its gate and switch, the signal of pairs
and of triangles, then the
persisted switch, the gateway with its limiter, the feature rows and the app's
dashboard; after them the start of the service, its database and its page, and
the start and the errors of the monitors. Next:

1. Composition: `Runner` with `BrokenLeg` in the place of its one await, so that
   what a crash of the mitigator leaves open is seen by the monitor's properties.
2. The key form (an answer that arrives while the snackbar of the one before
   ends), and the history of signals with the page's streak over it.
3. The permissions of an exchange key as a function of their raw payload,
   against a reference definition over small payloads.
4. Proofs: that `Signal`'s walks and `Features`' deques are what `Runner` assumes
   of them once 1 is done; for the composition of 1, `BrokenLeg_proofs` lifted
   through the refinement.
