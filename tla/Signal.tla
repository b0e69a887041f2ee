------------------------------- MODULE Signal -------------------------------
(***************************************************************************)
(* How one evaluation of a PairMonitor or a TriangleMonitor gets from its  *)
(* order books to the gate's answer (runner.py 129-215, 289-380): the walk *)
(* through the books (microstructure.py), the net alpha (alpha.py), the    *)
(* rolling history of the heuristic signal (heuristic.py, depth_signal.py) *)
(* and the comparison with RiskLimits (decision.py).  This is what Runner  *)
(* calls `good`.  Prices are integers and volumes lots; quantities are     *)
(* fractions of lots, so every comparison of the code is exact.            *)
(***************************************************************************)
EXTENDS Integers, Sequences, FiniteSets, SequencesExt, FiniteSetsExt

CONSTANTS
    AskBooks,        \* asks of the buying venue: levels [price, volume], best first
    BidBooks,        \* bids of the selling venue
    BridgeAsks,      \* asks of the triangle's first leg, in the quote asset
    TargetAsks,      \* asks of its second leg, in the bridge asset
    TargetBids,      \* bids of its third leg, in the quote asset
    Returns,         \* the move of a pair's mid price with its last book, in bps
    Mids,            \* mid prices of the triangle's third leg, around 10,000
    BuyFee, SellFee, \* get_taker_fee_bps of a pair's exchanges, in thousandths
    Quantity,        \* lots that a pair's notional buys at a best ask of 500
    Notional,        \* a triangle's notional
    Window,          \* HeuristicConfig.window_size
    Scale,           \* volatility_hazard_scale_bps
    MinProbability,  \* min_execution_probability, in percent
    MaxHazard        \* max_adverse_hazard, in percent

Levels == [price : Nat \ {0}, volume : Nat]

ASSUME BooksAssumption ==
    /\ \A books \in {AskBooks, BidBooks, BridgeAsks, TargetAsks, TargetBids} :
          books \subseteq Seq(Levels) \ {<<>>}
    /\ \A asks \in AskBooks \cup BridgeAsks \cup TargetAsks :
          \A i \in 2..Len(asks) : asks[i - 1].price <= asks[i].price
    /\ \A bids \in BidBooks \cup TargetBids :
          \A i \in 2..Len(bids) : bids[i - 1].price >= bids[i].price
ASSUME QuantityAssumption == Quantity \in Nat \ {0} /\ Notional \in Nat \ {0}
ASSUME FeeAssumption == BuyFee \in 0..1000 /\ SellFee \in 0..1000
ASSUME WindowAssumption == Window \in Nat \ {0}
ASSUME PricesAssumption == Returns \subseteq Int /\ Mids \subseteq Nat \ {0}
ASSUME LimitsAssumption == /\ MinProbability \in 0..100 /\ MaxHazard \in 0..100
                           /\ Scale \in Nat \ {0}

Slippage == 1        \* slippage_est = 0.0005, in two-thousandths
MinAlpha == 3        \* min_alpha_bps = 15, in two-thousandths

TriangleKeeps == 9   \* 1 - tau on the triangle's exchange, in tenths

VARIABLES
    kind,       \* "pair" or "triangle": whose evaluations these are
    positive,   \* _alpha_history: whether each net alpha was positive
    returns,    \* _return_history
    prev,       \* _prev_target_quote_mid, 0 for None; a pair has none
    orders,     \* what the last evaluation trades: nothing, or one trade, its books
                \* and the quantities of its legs
    trace       \* history: the last Window evaluated ticks, the move each counted
                \* and a triangle's mid price (0 for a pair)

vars == <<kind, positive, returns, prev, orders, trace>>

Smaller(a, b) == IF a <= b THEN a ELSE b
Square(x) == x * x
Cube(x) == x * x * x

Gcd(a, b) == Max({d \in 1..b : a % d = 0 /\ b % d = 0})

\* The quantity a / b, as n d-ths in lowest terms.
Ratio(a, b) == LET g == Gcd(a, b) IN [n |-> a \div g, d |-> b \div g]
Lots(n) == [n |-> n, d |-> 1]

-----------------------------------------------------------------------------
(* Alpha.                                                                  *)

\* Mutant: every level sells at the best price.
WalkAtBest(levels, q) ==
    LET total == MapThenSumSet(LAMBDA i : levels[i].volume, DOMAIN levels)
        taken == Smaller(total * q.d, q.n)
    IN  [filled |-> taken, notional |-> levels[1].price * taken]

\* One level more of compute_vwap's walk for q: what fills so far, and for how
\* much, in d-ths.
TakeLevel(level, q, sofar) ==
    LET take == Smaller(level.volume * q.d, q.n - sofar.filled)
    IN  [filled |-> sofar.filled + take, notional |-> sofar.notional + level.price * take]

\* The walk after each level, and in the end.
Walks(levels, q) ==
    LET walk[i \in 0..Len(levels)] ==
            IF i = 0 THEN [filled |-> 0, notional |-> 0]
            ELSE TakeLevel(levels[i], q, walk[i - 1])
    IN  walk
Walk(levels, q) == Walks(levels, q)[Len(levels)]

\* compute_vwap does not raise.
Deep(levels, q) == Walk(levels, q).filled >= q.n

\* compute_net_alpha exceeds x two-thousandths.
AlphaExceeds(asks, bids, x) ==
    Walk(bids, Lots(Quantity)).notional * (1000 - SellFee) * 2000
        > Walk(asks, Lots(Quantity)).notional * (1000 + BuyFee) * (2000 + Slippage + x)

\* What `money` would buy at the best price.
Estimated(levels, money) == Ratio(money.n, money.d * levels[1].price)

\* What it buys at the VWAP of that quantity.
Bought(levels, money) ==
    LET q == Estimated(levels, money)
    IN  Ratio(money.n * q.n, money.d * Walk(levels, q).notional)

\* bridge_qty_rough and target_qty_rough
Bridge(b) == Bought(b.bridge, Lots(Notional))
Target(b) == Bought(b.target, Bridge(b))

\* The three walks through the triangle's books b find enough depth.
TriangleDeep(b) == /\ Deep(b.bridge, Estimated(b.bridge, Lots(Notional)))
                   /\ Deep(b.target, Estimated(b.target, Bridge(b)))
                   /\ Deep(b.back, Target(b))

\* compute_triangular_net_alpha exceeds x two-thousandths.
TriangleAlphaExceeds(b, x) ==
    LET target == Target(b)
        quote == Walk(b.back, target).notional * Cube(TriangleKeeps)
        capital == Notional * target.d * Cube(10)
    IN  (quote - capital) * 2000 > capital * x

\* TriangularAlpha.bridge_qty and target_qty
BridgeQty(b) == LET q == Bridge(b) IN Ratio(q.n * TriangleKeeps, q.d * 10)
TargetQty(b) == LET q == Target(b) IN Ratio(q.n * Square(TriangleKeeps), q.d * 100)

-----------------------------------------------------------------------------
(* The heuristic.                                                          *)

\* Mutant: the deque keeps one element too many.
PushOneMore(q, x) == IF Len(q) <= Window THEN Append(q, x) ELSE Append(Tail(q), x)

\* deque(maxlen = Window).append(x)
Push(q, x) == IF Len(q) < Window THEN Append(q, x) ELSE Append(Tail(q), x)

\* Persistence is above p percent.
PersistenceExceeds(history, p) ==
    100 * Cardinality({i \in DOMAIN history : history[i]}) > p * Len(history)

\* The sums of the first elements of s.
Sums(s) ==
    LET sum[i \in 0..Len(s)] == IF i = 0 THEN 0 ELSE sum[i - 1] + s[i]
    IN  sum
Sum(s) == Sums(s)[Len(s)]

\* Their variance, times the cube of how many they are.
Spread(s) ==
    LET total == Sum(s)
    IN  Sum([i \in DOMAIN s |-> Square(Len(s) * s[i] - total)])

\* Mutant: only the last three ticks count.
VolatilityOfThree(history, h) ==
    LET last == SubSeq(history, Len(history) - Smaller(Len(history), 3) + 1, Len(history))
    IN  10000 * Spread(last) < Square(h * Scale) * Cube(Len(last))

\* The deviation of the returns, over Scale, is below h percent; a single
\* return has none.
VolatilityBelow(history, h) ==
    10000 * Spread(history) < Square(h * Scale) * Cube(Len(history))

\* compute_depth_liquidity_hazard is below h percent, of `near` lots resting
\* near the touch.
LiquidityBelow(near, h) == near > 0 /\ 100 * Quantity < h * near

\* adverse_hazard, the larger of the two, is below h percent.
HazardBelow(history, near, h) == VolatilityBelow(history, h) /\ LiquidityBelow(near, h)

-----------------------------------------------------------------------------
(* Evaluations.                                                            *)

Init == /\ kind \in {"pair", "triangle"}
        /\ positive = <<>>
        /\ returns = <<>>
        /\ prev = 0
        /\ orders = {}
        /\ trace = <<>>

\* A walk finds too little depth: nothing changes, the last mid price included.
TooThin == /\ orders' = {}
           /\ UNCHANGED <<kind, positive, returns, prev, trace>>

\* One tick of the signal at a mid price, and the orders it leads to.
Update(alpha, r, mid, ordered) ==
    LET last == Append(trace, [return |-> r, mid |-> mid])
    IN  /\ positive' = Push(positive, alpha)
        /\ returns' = Push(returns, r)
        /\ prev' = mid
        /\ orders' = ordered
        /\ trace' = SubSeq(last, Len(last) - Smaller(Len(last), Window) + 1, Len(last))
        /\ UNCHANGED kind

\* With a wide spread no ask rests near the touch.  These are the limits of
\* should_execute that the books decide; the kill switch and the caps are
\* Runner's.  The return is the move of the last book of the buying venue
\* (temporal.window[-1]), whichever book before it was evaluated.
EvaluatePair(asks, bids, wide, r) ==
    LET near == IF wide THEN 0
                ELSE MapThenSumSet(LAMBDA i : asks[i].volume, DOMAIN asks)
        good == /\ AlphaExceeds(asks, bids, MinAlpha)
                /\ PersistenceExceeds(positive', MinProbability)
                /\ HazardBelow(returns', near, MaxHazard)
    IN  Update(AlphaExceeds(asks, bids, 0), r, 0,
               IF good THEN {[asks |-> asks, bids |-> bids]} ELSE {})

\* How far the mid price is from the one before.  The code divides by the latter;
\* around 10,000 the difference is the move in bps.
Return(before, mid) == IF before > 0 THEN mid - before ELSE 0

\* The same limits, without the hazard of depth.
EvaluateTriangle(b, mid) ==
    LET good == /\ TriangleAlphaExceeds(b, MinAlpha)
                /\ PersistenceExceeds(positive', MinProbability)
                /\ VolatilityBelow(returns', MaxHazard)
    IN  Update(TriangleAlphaExceeds(b, 0), Return(prev, mid), mid,
               IF good THEN {[books |-> b, bridgeQty |-> BridgeQty(b),
                              targetQty |-> TargetQty(b)]}
               ELSE {})

PairTick ==
    /\ kind = "pair"
    /\ \E asks \in AskBooks, bids \in BidBooks :
          IF Deep(asks, Lots(Quantity)) /\ Deep(bids, Lots(Quantity))
          THEN \E wide \in BOOLEAN, r \in Returns : EvaluatePair(asks, bids, wide, r)
          ELSE TooThin

\* Mutant: the mid price is remembered before the depth is known.
TickRemembersFirst ==
    /\ kind = "triangle"
    /\ \E b \in [bridge : BridgeAsks, target : TargetAsks, back : TargetBids], mid \in Mids :
          IF TriangleDeep(b) THEN EvaluateTriangle(b, mid)
          ELSE orders' = {} /\ prev' = mid /\ UNCHANGED <<kind, positive, returns, trace>>

TriangleTick ==
    /\ kind = "triangle"
    /\ \E b \in [bridge : BridgeAsks, target : TargetAsks, back : TargetBids], mid \in Mids :
          IF TriangleDeep(b) THEN EvaluateTriangle(b, mid) ELSE TooThin

Next == PairTick \/ TriangleTick

Spec == Init /\ [][Next]_vars

-----------------------------------------------------------------------------
(* Properties.                                                             *)

Fractions == [n : Nat, d : Nat \ {0}]

\* What a tick can count as the move of the mid price.
Moves == Returns \cup {0} \cup {mid - before : mid, before \in Mids}

TypeOK == /\ kind \in {"pair", "triangle"}
          /\ positive \in Seq(BOOLEAN) /\ Len(positive) <= Window
          /\ returns \in Seq(Moves) /\ Len(returns) = Len(positive)
          /\ prev \in Mids \cup {0}
          /\ trace \in Seq([return : Moves, mid : Mids \cup {0}])
          /\ orders \subseteq
                 IF kind = "pair" THEN [asks : AskBooks, bids : BidBooks]
                 ELSE [books : [bridge : BridgeAsks, target : TargetAsks, back : TargetBids],
                       bridgeQty : Fractions, targetQty : Fractions]

\* The lots of a book, one by one: how many there are up to each level, the price
\* of the k-th, and what each of the first q of them costs, in d-ths.
Depths(levels) == Sums([i \in DOMAIN levels |-> levels[i].volume])
LotPrice(levels, k) ==
    levels[CHOOSE i \in DOMAIN levels :
               Depths(levels)[i - 1] < k /\ k <= Depths(levels)[i]].price
LotCosts(levels, q) ==
    [k \in 1..((q.n + q.d - 1) \div q.d) |->
        LotPrice(levels, k) * Smaller(q.d, q.n - (k - 1) * q.d)]
Total(levels, q) == Sum(LotCosts(levels, q))

\* Bought and sold lot by lot, each with its venue's fee, and with the slippage
\* reserve, a pair returns more than the minimum alpha on what was spent.
PairPays(order) ==
    LET cost == Total(order.asks, Lots(Quantity)) * (1000 + BuyFee)
        proceeds == Total(order.bids, Lots(Quantity)) * (1000 - SellFee)
    IN  (proceeds - cost) * 2000 > cost * (Slippage + MinAlpha)

\* A triangle's first two legs cost no more than the notional and than what the
\* first one buys, and the last one returns more than the minimum alpha on the
\* notional: although each walk was for another quantity than is ordered.
TrianglePays(order) ==
    LET q1 == order.bridgeQty
        q2 == order.targetQty
        proceeds == Total(order.books.back, q2) * TriangleKeeps
        capital == Notional * q2.d * 10
    IN  /\ Total(order.books.bridge, q1) <= Notional * q1.d
        /\ Total(order.books.target, q2) * q1.d <= q1.n * q2.d
        /\ (proceeds - capital) * 2000 > capital * MinAlpha

\* An approved trade pays on the books it was decided on, lot by lot
\* (microstructure.py 14-41, alpha.py 45-56, 107-117, runner.py 309-319,
\* decision.py 45-49).
ApprovedTradesPay ==
    \A order \in orders : IF kind = "pair" THEN PairPays(order) ELSE TrianglePays(order)

\* No move of a triangle's price is lost to the signal: from one evaluated tick
\* to the next, however many ticks between them had too little depth, it counts
\* in full as one of the returns the volatility is taken of (runner.py 315-322,
\* 335-341).  A pair has no such property: its return is its last book's alone.
TriangleSeesEveryMove ==
    kind = "triangle" =>
        \A i \in 2..Len(trace) : returns[i] = trace[i].mid - trace[i - 1].mid

\* Whatever two moves of the price lie in the window, an approved trade has not
\* seen them differ by more than the volatility limit allows: n ticks that
\* contain a swing D deviate by at least D / sqrt(2n) (heuristic.py 83-90).
NoSwingBeforeTrade ==
    orders # {} =>
        \A i, j \in DOMAIN trace :
            10000 * Square(trace[i].return - trace[j].return)
                < 2 * Len(trace) * Square(MaxHazard * Scale)
=============================================================================
