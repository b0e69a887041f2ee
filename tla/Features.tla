------------------------------ MODULE Features ------------------------------
(***************************************************************************)
(* The two rolling inputs a PairMonitor builds from its buy feed           *)
(* (backend/marketdata/features.py, fed by runner.py 112-116): the rows of *)
(* TemporalFeatureWindow, each a difference from the previous accepted     *)
(* snapshot, and the rows of DepthMatrixBuilder.  A snapshot is its number *)
(* in the stream; of the numbers in a row only the order flow imbalance    *)
(* (microstructure.py) is kept, which reads the best level of each side.   *)
(* Prices are positive, so a two-sided book has a positive mid price.      *)
(***************************************************************************)
EXTENDS Integers, Sequences

CONSTANTS
    WindowSize,    \* TemporalFeatures.WINDOW_SIZE
    DepthSize,     \* DepthMatrix.SIZE
    Bids, Asks,    \* prices of the best levels, in ticks
    Volumes,       \* volumes of the best levels, in lots
    MaxSnapshots   \* named bound: snapshots the feed delivers

ASSUME SizeAssumption == WindowSize \in Nat \ {0} /\ DepthSize \in Nat \ {0}
ASSUME PricesAssumption == /\ Bids # {} /\ Asks # {}
                           /\ \A b \in Bids, a \in Asks : b \in Nat /\ a \in Nat /\ b < a
ASSUME VolumesAssumption == Volumes # {} /\ Volumes \subseteq Nat \ {0}
ASSUME MaxSnapshotsAssumption == MaxSnapshots \in Nat

None == 0    \* no previous snapshot

VARIABLES
    seen,        \* snapshots delivered so far
    prev,        \* _prev_snapshot
    best,        \* its best levels, of any book while there is none
    flow,        \* order flow imbalance of the newest row
    temporal,    \* _rows of the window: which snapshot, compared with which
    depth,       \* _rows of the depth matrix
    crashed      \* update raised, which ended the feed

vars == <<seen, prev, best, flow, temporal, depth, crashed>>

Quote == [bid : Bids, bidVolume : Volumes, ask : Asks, askVolume : Volumes]

Init == /\ seen = 0
        /\ prev = None
        /\ best = CHOOSE q \in Quote : TRUE
        /\ flow = 0
        /\ temporal = <<>>
        /\ depth = <<>>
        /\ crashed = FALSE

\* Mutant: one row more than maxlen.
PushOneMore(q, x, n) == IF Len(q) <= n THEN Append(q, x) ELSE Append(Tail(q), x)

\* deque(maxlen = n).append(x)
Push(q, x, n) == IF Len(q) < n THEN Append(q, x) ELSE Append(Tail(q), x)

\* The bid's contribution between two quotes p and c.
BidFlow(p, c) == CASE c.bid > p.bid -> c.bidVolume
                   [] c.bid = p.bid -> c.bidVolume - p.bidVolume
                   [] c.bid < p.bid -> -c.bidVolume

\* Mutant: the ask is treated as the bid is.
AskFlowAsBid(p, c) == CASE c.ask > p.ask -> c.askVolume
                        [] c.ask = p.ask -> c.askVolume - p.askVolume
                        [] c.ask < p.ask -> -c.askVolume

\* The ask's: a lower ask is more supply.
AskFlow(p, c) == CASE c.ask > p.ask -> -c.askVolume
                   [] c.ask = p.ask -> c.askVolume - p.askVolume
                   [] c.ask < p.ask -> c.askVolume

\* The depth matrix gets a row of snapshot s.
DeepenBy(s) == depth' = Push(depth, s, DepthSize)

\* A book with both sides and some volume at the best prices: both builders take it.
TwoSided == /\ seen < MaxSnapshots /\ ~crashed
            /\ seen' = seen + 1
            /\ best' \in Quote
            /\ flow' = IF prev = None THEN 0 ELSE BidFlow(best, best') - AskFlow(best, best')
            /\ temporal' = Push(temporal, [of |-> seen + 1, from |-> prev], WindowSize)
            /\ DeepenBy(seen + 1)
            /\ prev' = seen + 1
            /\ UNCHANGED crashed

\* Mutant: the previous snapshot is replaced before the book is looked at.
OneSidedKept == /\ seen < MaxSnapshots /\ ~crashed
                /\ seen' = seen + 1
                /\ prev' = seen + 1
                /\ UNCHANGED <<best, flow, temporal, depth, crashed>>

\* A book without bids or without asks: both builders return.
OneSided == /\ seen < MaxSnapshots /\ ~crashed
            /\ seen' = seen + 1
            /\ UNCHANGED <<prev, best, flow, temporal, depth, crashed>>

\* Mutant: the window skips the book, the depth matrix does not.
NoVolumeSkipped == /\ seen < MaxSnapshots /\ ~crashed
                   /\ seen' = seen + 1
                   /\ DeepenBy(seen + 1)
                   /\ UNCHANGED <<prev, best, flow, temporal, crashed>>

\* Both best levels have no volume: compute_micro_price raises in the window's
\* update, before the window or the depth matrix changes.
NoVolume == /\ seen < MaxSnapshots /\ ~crashed
            /\ seen' = seen + 1
            /\ crashed' = TRUE
            /\ UNCHANGED <<prev, best, flow, temporal, depth>>

Next == TwoSided \/ OneSided \/ NoVolume

Spec == Init /\ [][Next]_vars

\* PairMonitor evaluates.
IsReady == Len(temporal) = WindowSize /\ Len(depth) = DepthSize

-----------------------------------------------------------------------------
(* Properties.                                                             *)

Row == [of : 1..seen, from : {None} \cup 1..seen]

TypeOK == /\ seen \in 0..MaxSnapshots
          /\ prev \in {None} \cup 1..seen
          /\ best \in Quote /\ flow \in Int
          /\ temporal \in Seq(Row) /\ Len(temporal) <= WindowSize
          /\ depth \in Seq(1..seen) /\ Len(depth) <= DepthSize
          /\ crashed \in BOOLEAN

\* Each row of the window measures the change since the row before it, also
\* after skipped books and evictions, and the next one will measure it since
\* the last row (features.py 83-129).
RowsChained ==
    /\ \A k \in 1..(Len(temporal) - 1) : temporal[k + 1].from = temporal[k].of
    /\ temporal # <<>> => prev = temporal[Len(temporal)].of

Smaller(a, b) == IF a <= b THEN a ELSE b

\* The two inputs of one evaluation describe the same recent snapshots, row by
\* row, although each builder decides on its own what to skip (features.py
\* 57-59, 158-165).
InputsAligned ==
    \A k \in 0..(Smaller(Len(temporal), Len(depth)) - 1) :
        temporal[Len(temporal) - k].of = depth[Len(depth) - k]

\* Demand gains from quote p to c: nobody bids less and nobody offers more.
DemandGains(p, c) ==
    /\ \/ c.bid > p.bid
       \/ c.bid = p.bid /\ c.bidVolume >= p.bidVolume
    /\ \/ c.ask > p.ask
       \/ c.ask = p.ask /\ c.askVolume <= p.askVolume

\* The imbalance of a row has the sign of the pressure between the two books
\* it compares, whatever was skipped between them: it is never negative when
\* demand gains, and never positive when it was the older book that had gained
\* (microstructure.py 64-103, features.py 83-91).
FlowFollowsPressure ==
    [][prev # None /\ prev' # prev =>
           /\ (DemandGains(best, best') => flow' >= 0)
           /\ (DemandGains(best', best) => flow' <= 0)]_vars
=============================================================================
