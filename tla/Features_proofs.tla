-------------------------- MODULE Features_proofs --------------------------
(***************************************************************************)
(* The rolling inputs for every size of the window and of the depth        *)
(* matrix, all prices and volumes, and streams of any length.              *)
(***************************************************************************)
EXTENDS Features, SequenceTheorems, TLAPS

USE SizeAssumption, MaxSnapshotsAssumption

-----------------------------------------------------------------------------
(* What a deque with a maxlen does.                                        *)

\* The new element comes last, at most one falls out, and what stays moves up.
LEMMA PushProperties ==
    ASSUME NEW S, NEW q \in Seq(S), NEW x \in S, NEW n \in Nat \ {0}, Len(q) <= n
    PROVE  /\ Push(q, x, n) \in Seq(S)
           /\ Len(Push(q, x, n)) \in 1..n
           /\ Len(Push(q, x, n)) <= Len(q) + 1
           /\ Push(q, x, n)[Len(Push(q, x, n))] = x
           /\ \A k \in 1..(Len(Push(q, x, n)) - 1) :
                 /\ k + Len(q) + 1 - Len(Push(q, x, n)) \in 1..Len(q)
                 /\ Push(q, x, n)[k] = q[k + Len(q) + 1 - Len(Push(q, x, n))]
<1>1. Len(q) \in Nat
  BY LenProperties
<1>2. CASE Len(q) < n
  <2>1. Push(q, x, n) = Append(q, x)
    BY <1>2 DEF Push
  <2>2. QED
    BY <1>1, <1>2, <2>1, AppendProperties
<1>3. CASE ~(Len(q) < n)
  <2>1. Push(q, x, n) = Append(Tail(q), x) /\ Len(q) = n /\ q # <<>>
    BY <1>1, <1>3, EmptySeq DEF Push
  <2>2. /\ Tail(q) \in Seq(S) /\ Len(Tail(q)) = n - 1
        /\ \A i \in 1..(n - 1) : Tail(q)[i] = q[i + 1]
    BY <2>1, HeadTailProperties
  <2>3. /\ Append(Tail(q), x) \in Seq(S) /\ Len(Append(Tail(q), x)) = n
        /\ \A i \in 1..(n - 1) : Append(Tail(q), x)[i] = Tail(q)[i]
        /\ Append(Tail(q), x)[n] = x
    BY <2>2, AppendProperties
  <2>4. QED
    BY <2>1, <2>2, <2>3
<1>4. QED
  BY <1>2, <1>3

-----------------------------------------------------------------------------
(* The inductive invariant, and one lemma per action.                      *)

IInv == TypeOK /\ RowsChained /\ InputsAligned

LEMMA InitInv == Init => IInv
<1> SUFFICES ASSUME Init PROVE IInv
  OBVIOUS
<1>1. best \in Quote
  <2>1. PICK b \in Bids, v \in Volumes, a \in Asks : TRUE
    BY PricesAssumption, VolumesAssumption
  <2>2. [bid |-> b, bidVolume |-> v, ask |-> a, askVolume |-> v] \in Quote
    BY DEF Quote
  <2>3. QED
    BY <2>2 DEF Init
<1>2. TypeOK
  <2>1. seen = 0 /\ prev = None /\ flow = 0 /\ crashed = FALSE
    BY DEF Init
  <2>2. temporal \in Seq(Row) /\ depth \in Seq(1..seen) /\ Len(temporal) = 0 /\ Len(depth) = 0
    BY EmptySeq DEF Init
  <2>3. /\ seen \in 0..MaxSnapshots /\ prev \in {None} \cup 1..seen /\ flow \in Int
        /\ Len(temporal) <= WindowSize /\ Len(depth) <= DepthSize
    BY <2>1, <2>2
  <2>4. QED
    BY <1>1, <2>1, <2>2, <2>3, Zenon DEF TypeOK
<1>3. Len(temporal) = 0 /\ Len(depth) = 0 /\ temporal = <<>>
  BY DEF Init
<1>4. RowsChained /\ InputsAligned
  BY <1>3 DEF RowsChained, InputsAligned, Smaller
<1>5. QED
  BY <1>2, <1>4 DEF IInv

\* Skipped books: the rows stay, and remain rows of a longer stream.
LEMMA SkippedInv ==
    ASSUME IInv, seen < MaxSnapshots, seen' = seen + 1, crashed' \in BOOLEAN,
           UNCHANGED <<prev, best, flow, temporal, depth>>
    PROVE  IInv'
<1>1. seen \in Nat /\ 1..seen \subseteq 1..seen' /\ seen' \in 0..MaxSnapshots
  BY DEF IInv, TypeOK
<1>2. Row \subseteq Row'
  BY <1>1 DEF Row
<1>3. temporal' \in Seq(Row)' /\ depth' \in Seq(1..seen')
  BY <1>1, <1>2, SeqMonotonic DEF IInv, TypeOK
<1>4. TypeOK'
  BY <1>1, <1>3 DEF IInv, TypeOK
<1>5. RowsChained' /\ InputsAligned'
  BY DEF IInv, RowsChained, InputsAligned
<1>6. QED
  BY <1>4, <1>5 DEF IInv

\* Quotes are made of numbers, and no best level is empty.
LEMMA QuoteNumbers ==
    ASSUME NEW p \in Quote
    PROVE  /\ p.bid \in Nat /\ p.ask \in Nat
           /\ p.bidVolume \in Nat \ {0} /\ p.askVolume \in Nat \ {0}
BY PricesAssumption, VolumesAssumption DEF Quote

\* The three cases of a contribution exclude each other.
LEMMA FlowCases ==
    ASSUME NEW p \in Quote, NEW c \in Quote
    PROVE  /\ c.bid > p.bid => BidFlow(p, c) = c.bidVolume
           /\ c.bid = p.bid => BidFlow(p, c) = c.bidVolume - p.bidVolume
           /\ c.bid < p.bid => BidFlow(p, c) = -c.bidVolume
           /\ c.ask > p.ask => AskFlow(p, c) = -c.askVolume
           /\ c.ask = p.ask => AskFlow(p, c) = c.askVolume - p.askVolume
           /\ c.ask < p.ask => AskFlow(p, c) = c.askVolume
<1>1. /\ ~(c.bid > p.bid /\ c.bid = p.bid) /\ ~(c.bid > p.bid /\ c.bid < p.bid)
      /\ ~(c.bid = p.bid /\ c.bid < p.bid)
      /\ ~(c.ask > p.ask /\ c.ask = p.ask) /\ ~(c.ask > p.ask /\ c.ask < p.ask)
      /\ ~(c.ask = p.ask /\ c.ask < p.ask)
  BY QuoteNumbers
<1>2. QED
  BY <1>1, Zenon DEF BidFlow, AskFlow

LEMMA FlowInt == ASSUME NEW p \in Quote, NEW c \in Quote
                 PROVE  BidFlow(p, c) \in Int /\ AskFlow(p, c) \in Int
<1>1. /\ c.bid > p.bid \/ c.bid = p.bid \/ c.bid < p.bid
      /\ c.ask > p.ask \/ c.ask = p.ask \/ c.ask < p.ask
  BY QuoteNumbers
<1>2. QED
  BY <1>1, QuoteNumbers, FlowCases

LEMMA TwoSidedInv == ASSUME IInv, TwoSided PROVE IInv'
<1> DEFINE row == [of |-> seen + 1, from |-> prev]
<1>1. /\ seen \in Nat /\ seen < MaxSnapshots /\ seen' = seen + 1 /\ crashed' = crashed
      /\ prev' = seen + 1 /\ best' \in Quote /\ prev \in {None} \cup 1..seen
      /\ temporal' = Push(temporal, row, WindowSize) /\ depth' = Push(depth, seen + 1, DepthSize)
  BY DEF TwoSided, DeepenBy, IInv, TypeOK
<1>2. 1..seen \subseteq 1..seen' /\ Row \subseteq Row' /\ row \in Row'
  BY <1>1 DEF Row
<1>3. temporal \in Seq(Row') /\ depth \in Seq(1..seen')
  BY <1>2, SeqMonotonic DEF IInv, TypeOK
<1>4. Len(temporal) \in 0..WindowSize /\ Len(depth) \in 0..DepthSize
  BY <1>3, LenProperties DEF IInv, TypeOK
<1>5. /\ temporal' \in Seq(Row') /\ Len(temporal') \in 1..WindowSize
      /\ Len(temporal') <= Len(temporal) + 1
      /\ temporal'[Len(temporal')] = row
      /\ \A k \in 1..(Len(temporal') - 1) :
            /\ k + Len(temporal) + 1 - Len(temporal') \in 1..Len(temporal)
            /\ temporal'[k] = temporal[k + Len(temporal) + 1 - Len(temporal')]
  <2> HIDE DEF row
  <2> DEFINE q == Push(temporal, row, WindowSize)
  <2>0. WindowSize \in Nat \ {0} /\ Len(temporal) <= WindowSize
    BY <1>4, SizeAssumption
  <2>1. /\ q \in Seq(Row') /\ Len(q) \in 1..WindowSize
        /\ Len(q) <= Len(temporal) + 1
        /\ q[Len(q)] = row
        /\ \A k \in 1..(Len(q) - 1) : /\ k + Len(temporal) + 1 - Len(q) \in 1..Len(temporal)
                                      /\ q[k] = temporal[k + Len(temporal) + 1 - Len(q)]
    BY <1>2, <1>3, <2>0, PushProperties
  <2>2. temporal' = q
    BY <1>1
  <2> HIDE DEF q
  <2>3. QED
    BY <2>1, <2>2, Zenon
<1>6. /\ depth' \in Seq(1..seen') /\ Len(depth') \in 1..DepthSize
      /\ Len(depth') <= Len(depth) + 1
      /\ depth'[Len(depth')] = seen + 1
      /\ \A k \in 1..(Len(depth') - 1) :
            /\ k + Len(depth) + 1 - Len(depth') \in 1..Len(depth)
            /\ depth'[k] = depth[k + Len(depth) + 1 - Len(depth')]
  <2> DEFINE x == seen + 1
             N == 1..seen'
             q == Push(depth, x, DepthSize)
  <2>1. /\ x \in N /\ depth \in Seq(N)
        /\ DepthSize \in Nat \ {0} /\ Len(depth) <= DepthSize
    BY <1>1, <1>3, <1>4, SizeAssumption
  <2> HIDE DEF x, N
  <2>2. /\ q \in Seq(N) /\ Len(q) \in 1..DepthSize
        /\ Len(q) <= Len(depth) + 1
        /\ q[Len(q)] = x
        /\ \A k \in 1..(Len(q) - 1) : /\ k + Len(depth) + 1 - Len(q) \in 1..Len(depth)
                                      /\ q[k] = depth[k + Len(depth) + 1 - Len(q)]
    BY <2>1, PushProperties
  <2>3. depth' = q
    BY <1>1 DEF x
  <2> HIDE DEF q
  <2>4. QED
    BY <2>2, <2>3, Zenon DEF x, N
<1>7. TypeOK'
  <2>1. flow' \in Int
    BY <1>1, FlowInt DEF TwoSided, DeepenBy, IInv, TypeOK
  <2>2. QED
    BY <1>1, <1>5, <1>6, <2>1 DEF IInv, TypeOK
<1>8. RowsChained'
  <2>1. temporal' # <<>> => prev' = temporal'[Len(temporal')].of
    BY <1>1, <1>5
  <2>2. ASSUME NEW k \in 1..(Len(temporal') - 1)
        PROVE  temporal'[k + 1].from = temporal'[k].of
    <3> DEFINE i == k + Len(temporal) + 1 - Len(temporal')
    <3>1. i \in 1..Len(temporal) /\ temporal'[k] = temporal[i]
      BY <1>5
    <3>2. CASE k + 1 = Len(temporal')
      <4>1. i = Len(temporal)
        BY <1>4, <1>5, <3>2
      <4>2. Len(temporal) # 0 /\ temporal # <<>>
        BY <1>4, <3>1, EmptySeq
      <4>3. QED
        BY <1>5, <3>1, <3>2, <4>1, <4>2 DEF IInv, RowsChained
    <3>3. CASE k + 1 # Len(temporal')
      <4>1. k + 1 \in 1..(Len(temporal') - 1)
        BY <1>5, <3>3
      <4>2. temporal'[k + 1] = temporal[i + 1] /\ i \in 1..(Len(temporal) - 1)
        <5>1. (k + 1) + Len(temporal) + 1 - Len(temporal') = i + 1
          BY <1>4, <1>5
        <5>2. i + 1 \in 1..Len(temporal) /\ temporal'[k + 1] = temporal[i + 1]
          BY <1>5, <4>1, <5>1
        <5> HIDE DEF i
        <5>3. QED
          BY <1>4, <3>1, <5>2
      <4>3. QED
        BY <3>1, <4>2 DEF IInv, RowsChained
    <3>4. QED
      BY <3>2, <3>3
  <2>3. QED
    BY <2>1, <2>2 DEF RowsChained
<1>9. InputsAligned'
  <2>1. ASSUME NEW k \in 0..(Smaller(Len(temporal'), Len(depth')) - 1)
        PROVE  temporal'[Len(temporal') - k].of = depth'[Len(depth') - k]
    <3>1. k \in 0..(Len(temporal') - 1) /\ k \in 0..(Len(depth') - 1)
      BY <1>5, <1>6, <2>1 DEF Smaller
    <3>2. CASE k = 0
      BY <1>5, <1>6, <3>2
    <3>3. CASE k # 0
      <4>1. /\ Len(temporal') - k \in 1..(Len(temporal') - 1)
            /\ Len(depth') - k \in 1..(Len(depth') - 1)
        BY <1>5, <1>6, <3>1, <3>3
      <4>2. /\ temporal'[Len(temporal') - k] = temporal[Len(temporal) - (k - 1)]
            /\ depth'[Len(depth') - k] = depth[Len(depth) - (k - 1)]
        <5>1. /\ (Len(temporal') - k) + Len(temporal) + 1 - Len(temporal')
                     = Len(temporal) - (k - 1)
              /\ (Len(depth') - k) + Len(depth) + 1 - Len(depth') = Len(depth) - (k - 1)
          BY <1>4, <1>5, <1>6, <3>1
        <5>2. temporal'[Len(temporal') - k] = temporal[Len(temporal) - (k - 1)]
          BY <1>5, <4>1, <5>1
        <5>3. depth'[Len(depth') - k] = depth[Len(depth) - (k - 1)]
          BY <1>6, <4>1, <5>1
        <5>4. QED
          BY <5>2, <5>3
      <4>3. k - 1 \in 0..(Smaller(Len(temporal), Len(depth)) - 1)
        BY <1>4, <1>5, <1>6, <3>1, <3>3 DEF Smaller
      <4>4. QED
        BY <4>2, <4>3 DEF IInv, InputsAligned
    <3>4. QED
      BY <3>2, <3>3
  <2>2. QED
    BY <2>1 DEF InputsAligned
<1>10. QED
  BY <1>7, <1>8, <1>9 DEF IInv

LEMMA NextInv == IInv /\ [Next]_vars => IInv'
<1> SUFFICES ASSUME IInv, [Next]_vars PROVE IInv'
  OBVIOUS
<1>1. CASE OneSided \/ NoVolume
  BY <1>1, SkippedInv DEF OneSided, NoVolume, IInv, TypeOK
<1>2. CASE UNCHANGED vars
  BY <1>2 DEF vars, IInv, TypeOK, Row, RowsChained, InputsAligned
<1>3. QED
  BY <1>1, <1>2, TwoSidedInv DEF Next

-----------------------------------------------------------------------------
(* The theorems.                                                           *)

\* Rows are pairs of snapshots that came in, and neither deque outgrows its size,
\* whatever is skipped (features.py 51-59, 83-84, 155-165).
THEOREM TypeCorrect == Spec => []TypeOK
<1>1. IInv => TypeOK
  BY DEF IInv
<1>2. QED
  BY InitInv, NextInv, <1>1, PTL DEF Spec

\* Whatever books are skipped and whatever rows evicted, the rows of the window
\* join up (features.py 83-129).
THEOREM WindowChained == Spec => []RowsChained
<1>1. IInv => RowsChained
  BY DEF IInv
<1>2. QED
  BY InitInv, NextInv, <1>1, PTL DEF Spec

\* Counted from the newest, the rows of both inputs are of the same snapshots,
\* for any two sizes (features.py 57-59, 158-165).
THEOREM InputsAgree == Spec => []InputsAligned
<1>1. IInv => InputsAligned
  BY DEF IInv
<1>2. QED
  BY InitInv, NextInv, <1>1, PTL DEF Spec

\* The sign of the order flow imbalance between any two quotes.
LEMMA FlowSign ==
    ASSUME NEW p \in Quote, NEW c \in Quote
    PROVE  /\ DemandGains(p, c) => BidFlow(p, c) - AskFlow(p, c) >= 0
           /\ DemandGains(c, p) => BidFlow(p, c) - AskFlow(p, c) <= 0
<1>1. /\ DemandGains(p, c) => BidFlow(p, c) >= 0 /\ AskFlow(p, c) <= 0
      /\ DemandGains(c, p) => BidFlow(p, c) <= 0 /\ AskFlow(p, c) >= 0
  BY QuoteNumbers, FlowCases DEF DemandGains
<1>2. QED
  BY <1>1, FlowInt

\* For any prices and volumes, the imbalance of a new row has the sign of the
\* pressure between the books it compares (microstructure.py 64-103).
THEOREM FlowSigned == Spec => FlowFollowsPressure
<1>1. ASSUME IInv, Next, prev # None, prev' # prev
      PROVE  /\ DemandGains(best, best') => flow' >= 0
             /\ DemandGains(best', best) => flow' <= 0
  <2>1. TwoSided
    BY <1>1 DEF Next, OneSided, NoVolume
  <2>2. best \in Quote /\ best' \in Quote /\ flow' = BidFlow(best, best') - AskFlow(best, best')
    BY <1>1, <2>1 DEF TwoSided, DeepenBy, IInv, TypeOK
  <2>3. QED
    BY <2>2, FlowSign
<1>2. IInv /\ [Next]_vars =>
        [prev # None /\ prev' # prev =>
            /\ (DemandGains(best, best') => flow' >= 0)
            /\ (DemandGains(best', best) => flow' <= 0)]_vars
  BY <1>1
<1>3. QED
  BY <1>2, InitInv, NextInv, PTL DEF Spec, FlowFollowsPressure
=============================================================================
