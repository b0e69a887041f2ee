--------------------------- MODULE Signal_proofs ---------------------------
(***************************************************************************)
(* What Signal approves, for all sorted books, every quantity, window and  *)
(* limit.  The module's functions are recursive, so the proofs start with  *)
(* induction itself; then the walk through a book is what its lots cost    *)
(* one by one, a smaller quantity comes no dearer per lot, and what is     *)
(* bought at a VWAP can be paid for.                                       *)
(***************************************************************************)
EXTENDS Signal, SequenceTheorems, FiniteSetTheorems, TLAPS

-----------------------------------------------------------------------------
(* Induction, and functions defined by recursion.                          *)

\* A set with 0 and the successors of its members is Nat: if it lacked n, the
\* successor would map its members up to n into those but 0, one fewer.
LEMMA Induct ==
    ASSUME NEW C \in SUBSET Nat, 0 \in C, \A c \in C : c + 1 \in C
    PROVE  C = Nat
<1> SUFFICES ASSUME NEW n \in Nat, n \notin C PROVE FALSE
  OBVIOUS
<1> DEFINE B == C \cap (0..n)
           D == B \ {0}
           next == [c \in B |-> c + 1]
<1>1. IsFiniteSet(B) /\ 0 \in B
  <2>1. IsFiniteSet(0..n)
    BY FS_Interval
  <2>2. QED
    BY <2>1, FS_Subset
<1>2. IsFiniteSet(D) /\ Cardinality(D) = Cardinality(B) - 1
  BY <1>1, FS_RemoveElement
<1>3. Cardinality(D) < Cardinality(B)
  BY <1>1, <1>2, FS_CardinalityType
<1>4. next \in [B -> D]
  OBVIOUS
<1>5. \E x, y \in B : x # y /\ next[x] = next[y]
  <2> HIDE DEF B, D, next
  <2>1. QED
    BY <1>1, <1>2, <1>3, <1>4, FS_PigeonHole
<1>6. QED
  BY <1>5

\* f starts at `base` and takes the first n steps of `step`.
Follows(f, n, base, step) ==
    f[0] = base /\ \A i \in 1..n : f[i] = step[i][f[i - 1]]

\* Such an f exists.
LEMMA Recursion ==
    ASSUME NEW n \in Nat, NEW S, NEW base \in S, NEW step \in [1..n -> [S -> S]]
    PROVE  \E f \in [0..n -> S] : Follows(f, n, base, step)
<1> DEFINE C == {k \in Nat : k > n \/ \E f \in [0..k -> S] : Follows(f, k, base, step)}
<1>1. 0 \in C
  <2> DEFINE f == [i \in 0..0 |-> base]
  <2>1. f \in [0..0 -> S] /\ Follows(f, 0, base, step)
    BY DEF Follows
  <2>2. QED
    BY <2>1
<1>2. ASSUME NEW k \in C PROVE k + 1 \in C
  <2>1. CASE k + 1 > n
    BY <2>1
  <2>2. CASE k + 1 <= n
    <3>1. PICK f \in [0..k -> S] : Follows(f, k, base, step)
      BY <2>2
    <3> DEFINE g == [i \in 0..(k + 1) |-> IF i = k + 1 THEN step[k + 1][f[k]] ELSE f[i]]
    <3>2. k + 1 \in 1..n /\ k \in 0..k
      BY <2>2
    <3>3. step[k + 1][f[k]] \in S
      BY <3>2
    <3>4. g \in [0..(k + 1) -> S]
      BY <3>3
    <3>5. g[0] = base
      BY <3>1 DEF Follows
    <3>6. ASSUME NEW i \in 1..(k + 1) PROVE g[i] = step[i][g[i - 1]]
      <4>1. CASE i = k + 1
        BY <4>1
      <4>2. CASE i \in 1..k
        <5>1. g[i] = f[i] /\ g[i - 1] = f[i - 1]
          BY <4>2
        <5>2. QED
          BY <3>1, <4>2, <5>1 DEF Follows
      <4>3. QED
        BY <4>1, <4>2
    <3>7. Follows(g, k + 1, base, step)
      BY <3>5, <3>6 DEF Follows
    <3> HIDE DEF g
    <3>8. QED
      BY <3>4, <3>7
  <2>3. QED
    <3>1. k \in Nat
      OBVIOUS
    <3> HIDE DEF C
    <3>2. QED
      BY <2>1, <2>2, <3>1
<1>3. n \in C
  <2> HIDE DEF C
  <2>1. C \subseteq Nat
    BY DEF C
  <2>2. QED
    BY <1>1, <1>2, <2>1, Induct
<1>4. QED
  BY <1>3

LEMMA FunctionIsSeq ==
    ASSUME NEW S, NEW n \in Nat, NEW f \in [1..n -> S]
    PROVE  f \in Seq(S) /\ Len(f) = n
<1>1. f \in Seq(S)
  BY SeqDef
<1>2. DOMAIN f = 1..n /\ DOMAIN f = 1..Len(f) /\ Len(f) \in Nat
  BY <1>1, LenProperties
<1>3. QED
  BY <1>1, <1>2

-----------------------------------------------------------------------------
(* Sums.                                                                   *)

LEMMA SumsDef ==
    ASSUME NEW s \in Seq(Int)
    PROVE  /\ Sums(s) \in [0..Len(s) -> Int]
           /\ Sums(s)[0] = 0
           /\ \A i \in 1..Len(s) : Sums(s)[i] = Sums(s)[i - 1] + s[i]
<1> DEFINE n == Len(s)
           Solves(f) == f = [i \in 0..n |-> IF i = 0 THEN 0 ELSE f[i - 1] + s[i]]
           step == [i \in 1..n |-> [v \in Int |-> v + s[i]]]
<1>1. n \in Nat /\ \A i \in 1..n : s[i] \in Int
  OBVIOUS
<1>2. step \in [1..n -> [Int -> Int]]
  BY <1>1
<1>3. \E f : Solves(f)
  <2>1. PICK f \in [0..n -> Int] : Follows(f, n, 0, step)
    <3>1. 0 \in Int
      OBVIOUS
    <3> HIDE DEF n, step
    <3>2. QED
      BY <1>1, <1>2, <3>1, Recursion, Zenon
  <2>2. ASSUME NEW i \in 0..n PROVE f[i] = IF i = 0 THEN 0 ELSE f[i - 1] + s[i]
    <3>1. CASE i = 0
      BY <2>1, <3>1 DEF Follows
    <3>2. CASE i # 0
      <4>1. i \in 1..n /\ i - 1 \in 0..n
        BY <1>1, <3>2
      <4>2. f[i] = step[i][f[i - 1]]
        BY <2>1, <4>1 DEF Follows
      <4>3. QED
        BY <3>2, <4>1, <4>2
    <3>3. QED
      BY <3>1, <3>2
  <2>3. f = [i \in 0..n |-> IF i = 0 THEN 0 ELSE f[i - 1] + s[i]]
    BY <2>2
  <2>4. QED
    BY <2>3
<1>4. Solves(Sums(s))
  BY <1>3 DEF Sums
<1> DEFINE f == Sums(s)
<1> HIDE DEF f
<1>5. f[0] = 0 /\ \A i \in 1..n : f[i] = f[i - 1] + s[i]
  BY <1>1, <1>4 DEF f
<1>6. DOMAIN f = 0..n
  BY <1>4 DEF f
<1>7. ASSUME NEW i \in 0..n PROVE f[i] \in Int
  <2> DEFINE C == {k \in Nat : k <= n => f[k] \in Int}
  <2>1. 0 \in C
    BY <1>5
  <2>2. ASSUME NEW k \in C PROVE k + 1 \in C
    <3>1. CASE k + 1 <= n
      <4>1. f[k + 1] = f[k] + s[k + 1] /\ f[k] \in Int /\ s[k + 1] \in Int
        BY <1>1, <1>5, <3>1
      <4>2. QED
        BY <4>1
    <3>2. CASE ~(k + 1 <= n)
      BY <3>2
    <3>3. QED
      BY <3>1, <3>2
  <2>3. C = Nat
    <3> HIDE DEF C
    <3>1. C \subseteq Nat
      BY DEF C
    <3>2. QED
      BY <2>1, <2>2, <3>1, Induct
  <2>4. QED
    BY <1>1, <2>3
<1>8. QED
  BY <1>4, <1>5, <1>6, <1>7 DEF f

\* No element of a sequence of naturals is lost in its sums, nor are two.
LEMMA SumsHold ==
    ASSUME NEW s \in Seq(Nat), NEW n \in 0..Len(s)
    PROVE  /\ Sums(s)[n] \in Nat
           /\ \A i \in 1..n : s[i] <= Sums(s)[n]
           /\ \A i, j \in 1..n : i # j => s[i] + s[j] <= Sums(s)[n]
<1> DEFINE f == Sums(s)
           Holds(k) == /\ f[k] \in Nat
                       /\ \A i \in 1..k : s[i] <= f[k]
                       /\ \A i, j \in 1..k : i # j => s[i] + s[j] <= f[k]
           C == {k \in Nat : k <= Len(s) => Holds(k)}
<1>1. s \in Seq(Int) /\ Len(s) \in Nat /\ \A i \in 1..Len(s) : s[i] \in Nat
  OBVIOUS
<1>2. f[0] = 0 /\ \A i \in 1..Len(s) : f[i] = f[i - 1] + s[i]
  BY <1>1, SumsDef
<1> HIDE DEF f
<1>3. 0 \in C
  BY <1>2
<1>4. ASSUME NEW k \in C PROVE k + 1 \in C
  <2>1. k \in Nat
    OBVIOUS
  <2>2. ASSUME k + 1 <= Len(s) PROVE Holds(k + 1)
    <3>1. Holds(k) /\ k + 1 \in 1..Len(s)
      BY <2>2
    <3>2. f[k + 1] = f[k] + s[k + 1] /\ s[k + 1] \in Nat
      BY <1>1, <1>2, <3>1
    <3>3. \A i \in 1..k : s[i] \in Nat
      BY <1>1, <2>1, <2>2
    <3>4. f[k + 1] \in Nat /\ f[k] <= f[k + 1] /\ s[k + 1] <= f[k + 1]
      BY <3>1, <3>2
    <3>5. ASSUME NEW i \in 1..(k + 1) PROVE s[i] <= f[k + 1]
      BY <2>1, <3>1, <3>2, <3>3
    <3>6. ASSUME NEW i \in 1..(k + 1), NEW j \in 1..(k + 1), i # j
          PROVE  s[i] + s[j] <= f[k + 1]
      <4>0. f[k] \in Nat /\ f[k + 1] \in Nat /\ \A h \in 1..k : s[h] <= f[k]
        BY <3>1, <3>4
      <4>1. CASE i = k + 1
        <5>1. j \in 1..k /\ s[j] \in Nat /\ s[j] <= f[k]
          BY <2>1, <3>3, <3>6, <4>0, <4>1
        <5>2. QED
          BY <3>2, <4>0, <4>1, <5>1
      <4>2. CASE j = k + 1
        <5>1. i \in 1..k /\ s[i] \in Nat /\ s[i] <= f[k]
          BY <2>1, <3>3, <3>6, <4>0, <4>2
        <5>2. QED
          BY <3>2, <4>0, <4>2, <5>1
      <4>3. CASE i \in 1..k /\ j \in 1..k
        <5>1. s[i] + s[j] <= f[k] /\ s[i] \in Nat /\ s[j] \in Nat
          <6>1. s[i] + s[j] <= f[k]
            BY <3>1, <3>6, <4>3
          <6>2. QED
            BY <3>3, <4>3, <6>1
        <5> DEFINE both == s[i] + s[j]
        <5>2. both \in Nat /\ both <= f[k] /\ f[k] \in Nat
          BY <4>0, <5>1
        <5> HIDE DEF both
        <5>3. both <= f[k + 1]
          BY <3>4, <5>2
        <5>4. QED
          BY <5>3 DEF both
      <4>4. QED
        BY <2>1, <4>1, <4>2, <4>3
    <3>7. QED
      BY <3>4, <3>5, <3>6
  <2>3. QED
    BY <2>1, <2>2
<1>5. C = Nat
  <2> HIDE DEF C
  <2>1. C \subseteq Nat
    BY DEF C
  <2>2. QED
    BY <1>3, <1>4, <2>1, Induct
<1>6. Holds(n)
  <2>1. n \in Nat /\ n <= Len(s)
    BY <1>1
  <2>2. QED
    BY <1>5, <2>1
<1>7. QED
  BY <1>6 DEF f

LEMMA SumIsInt == ASSUME NEW s \in Seq(Int) PROVE Sum(s) \in Int
BY SumsDef DEF Sum

-----------------------------------------------------------------------------
(* Volatility.                                                             *)

LEMMA SquareIsNat == ASSUME NEW x \in Int PROVE Square(x) \in Nat
BY DEF Square

\* Two squares add up to half the square of the difference, at least.
LEMMA SquaresOfTwo ==
    ASSUME NEW a \in Int, NEW b \in Int
    PROVE  Square(a - b) <= 2 * (Square(a) + Square(b))
<1>1. 0 <= (a + b) * (a + b)
  OBVIOUS
<1>2. (a - b) * (a - b) + (a + b) * (a + b) = 2 * (a * a + b * b)
  OBVIOUS
<1>3. QED
  BY <1>1, <1>2 DEF Square

\* Any two returns of a window bound its spread from below, so that no window, of
\* whatever length, hides a swing (heuristic.py 83-86).
THEOREM SpreadOfSwing ==
    ASSUME NEW s \in Seq(Int), NEW i \in DOMAIN s, NEW j \in DOMAIN s
    PROVE  /\ Spread(s) \in Nat
           /\ Square(Len(s)) * Square(s[i] - s[j]) <= 2 * Spread(s)
<1> DEFINE n == Len(s)
           m == Sum(s)
           u == [k \in DOMAIN s |-> Square(n * s[k] - m)]
<1>1. n \in Nat /\ m \in Int /\ DOMAIN s = 1..n /\ \A k \in 1..n : s[k] \in Int
  BY SumIsInt
<1>2. \A k \in 1..n : u[k] = Square(n * s[k] - m) /\ u[k] \in Nat
  <2> TAKE k \in 1..n
  <2>1. u[k] = Square(n * s[k] - m)
    BY <1>1
  <2>2. n * s[k] - m \in Int
    <3> DEFINE x == s[k]
    <3>1. x \in Int
      BY <1>1
    <3> HIDE DEF n, m, x
    <3>2. n * x - m \in Int
      BY <1>1, <3>1
    <3>3. QED
      BY <3>2 DEF x
  <2>3. Square(n * s[k] - m) \in Nat
    BY <2>2, SquareIsNat
  <2> HIDE DEF u, n, m
  <2>4. QED
    BY <2>1, <2>3
<1>3. u \in Seq(Nat) /\ Len(u) = n
  <2>1. u = [k \in 1..n |-> u[k]]
    BY <1>1
  <2> HIDE DEF u, n
  <2>2. u \in [1..n -> Nat]
    BY <1>2, <2>1
  <2>3. QED
    BY <1>1, <2>2, FunctionIsSeq
<1>4. Spread(s) = Sums(u)[n]
  BY <1>3 DEF Spread, Sum
<1>5. /\ Sums(u)[n] \in Nat
      /\ u[i] <= Sums(u)[n]
      /\ i # j => u[i] + u[j] <= Sums(u)[n]
  <2> HIDE DEF u, n
  <2>1. n \in 0..Len(u) /\ i \in 1..n /\ j \in 1..n
    BY <1>1, <1>3
  <2>2. QED
    BY <1>3, <2>1, SumsHold
<1>6. Square(n) * Square(s[i] - s[j]) <= 2 * Spread(s)
  <2> DEFINE x == s[i]
             y == s[j]
             a == n * x - m
             b == n * y - m
             v == Sums(u)[n]
  <2>1. x \in Int /\ y \in Int
    BY <1>1
  <2>2. v \in Nat /\ (i # j => Square(a) + Square(b) <= v)
    <3>1. i \in 1..n /\ j \in 1..n
      BY <1>1
    <3>2. u[i] = Square(a) /\ u[j] = Square(b)
      BY <1>2, <3>1
    <3> HIDE DEF u, a, b, n
    <3>3. QED
      BY <1>5, <3>2
  <2>3. i = j => x = y
    OBVIOUS
  <2> HIDE DEF n, m, x, y, v, u
  <2>4. a \in Int /\ b \in Int
    BY <1>1, <2>1
  <2>5. Square(n) * Square(x - y) = Square(a - b)
    BY <1>1, <2>1 DEF Square
  <2>6. Square(a - b) <= 2 * v
    <3>1. CASE i = j
      BY <1>1, <2>1, <2>2, <2>3, <3>1 DEF Square
    <3>2. CASE i # j
      <4> DEFINE p == Square(a)
                 q == Square(b)
                 r == Square(a - b)
      <4>1. p \in Nat /\ q \in Nat /\ r \in Nat
        <5>1. a - b \in Int
          BY <2>4
        <5>2. QED
          BY <2>4, <5>1, SquareIsNat
      <4>2. r <= 2 * (p + q)
        BY <2>4, SquaresOfTwo
      <4>3. p + q <= v
        BY <2>2, <3>2
      <4> HIDE DEF p, q, r
      <4>4. r <= 2 * v
        BY <2>2, <4>1, <4>2, <4>3
      <4>5. QED
        BY <4>4 DEF r
    <3>3. QED
      BY <3>1, <3>2
  <2>7. QED
    BY <1>4, <2>5, <2>6 DEF n, v, x, y
<1>7. QED
  BY <1>4, <1>5, <1>6

\* When the volatility is below the limit, no two returns of the window are far
\* apart.
LEMMA SwingBelow ==
    ASSUME NEW s \in Seq(Int), NEW i \in DOMAIN s, NEW j \in DOMAIN s,
           VolatilityBelow(s, MaxHazard)
    PROVE  10000 * Square(s[i] - s[j]) < 2 * Len(s) * Square(MaxHazard * Scale)
<1> DEFINE n == Len(s)
           d == Square(s[i] - s[j])
           k == Square(MaxHazard * Scale)
           v == Spread(s)
<1>1. n \in Nat \ {0}
  <2>1. i \in 1..Len(s) /\ Len(s) \in Nat
    OBVIOUS
  <2>2. QED
    BY <2>1
<1>2. d \in Nat
  <2>1. s[i] \in Int /\ s[j] \in Int
    OBVIOUS
  <2>2. s[i] - s[j] \in Int
    BY <2>1
  <2>3. QED
    BY <2>2, SquareIsNat
<1>3. k \in Nat
  <2>1. MaxHazard * Scale \in Int
    BY LimitsAssumption
  <2>2. QED
    BY <2>1, SquareIsNat
<1>4. v \in Nat /\ n * n * d <= 2 * v
  BY SpreadOfSwing DEF Square
<1>5. 10000 * v < k * (n * n * n)
  BY DEF VolatilityBelow, Cube
<1> HIDE DEF n, d, k, v
<1>6. n * n * (10000 * d) < n * n * (2 * n * k)
  BY <1>1, <1>2, <1>3, <1>4, <1>5
<1>7. 10000 * d < 2 * n * k
  <2> DEFINE m == n * n
             a == 10000 * d
             b == 2 * n * k
  <2>1. m \in Nat /\ a \in Nat /\ b \in Nat
    BY <1>1, <1>2, <1>3
  <2>2. m * a < m * b
    BY <1>6
  <2> HIDE DEF m, a, b
  <2>3. SUFFICES ASSUME b <= a PROVE FALSE
    BY <2>1 DEF a, b
  <2>4. m * b <= m * a
    BY <2>1, <2>3
  <2>5. QED
    BY <2>1, <2>2, <2>4
<1>8. QED
  BY <1>7 DEF n, d, k

-----------------------------------------------------------------------------
(* The window.                                                             *)

\* The new element comes last, one falls out when there is no place for it, and
\* what stays moves up.
LEMMA PushProperties ==
    ASSUME NEW S, NEW q \in Seq(S), Len(q) <= Window, NEW x \in S
    PROVE  /\ Push(q, x) \in Seq(S)
           /\ Len(Push(q, x)) = Smaller(Len(q) + 1, Window)
           /\ \A i \in 1..Smaller(Len(q) + 1, Window) :
                 LET k == i + Len(q) + 1 - Smaller(Len(q) + 1, Window)
                 IN  Push(q, x)[i] = IF k = Len(q) + 1 THEN x ELSE q[k]
<1>1. Len(q) \in Nat
  BY LenProperties
<1>2. CASE Len(q) < Window
  <2>1. Push(q, x) = Append(q, x) /\ Smaller(Len(q) + 1, Window) = Len(q) + 1
    BY <1>1, <1>2, WindowAssumption DEF Push, Smaller
  <2>2. /\ Append(q, x) \in Seq(S) /\ Len(Append(q, x)) = Len(q) + 1
        /\ \A i \in 1..Len(q) : Append(q, x)[i] = q[i]
        /\ Append(q, x)[Len(q) + 1] = x
    BY AppendProperties
  <2>3. QED
    BY <1>1, <2>1, <2>2
<1>3. CASE ~(Len(q) < Window)
  <2>1. /\ Push(q, x) = Append(Tail(q), x) /\ Len(q) = Window /\ q # <<>>
        /\ Smaller(Len(q) + 1, Window) = Window
    BY <1>1, <1>3, EmptySeq, WindowAssumption DEF Push, Smaller
  <2>2. /\ Tail(q) \in Seq(S) /\ Len(Tail(q)) = Window - 1
        /\ \A i \in 1..(Window - 1) : Tail(q)[i] = q[i + 1]
    BY <2>1, HeadTailProperties
  <2>3. /\ Append(Tail(q), x) \in Seq(S) /\ Len(Append(Tail(q), x)) = Window
        /\ \A i \in 1..(Window - 1) : Append(Tail(q), x)[i] = Tail(q)[i]
        /\ Append(Tail(q), x)[Window] = x
    BY <2>2, AppendProperties, WindowAssumption
  <2>4. QED
    BY <2>1, <2>2, <2>3, WindowAssumption
<1>4. QED
  BY <1>2, <1>3

\* The last Window elements are what the deque holds.
LEMMA PushKeepsLast ==
    ASSUME NEW S, NEW q \in Seq(S), Len(q) <= Window, NEW x \in S
    PROVE  SubSeq(Append(q, x),
                  Len(Append(q, x)) - Smaller(Len(Append(q, x)), Window) + 1,
                  Len(Append(q, x))) = Push(q, x)
<1> DEFINE last == Append(q, x)
           n == Smaller(Len(q) + 1, Window)
           d == (Len(q) + 1) - n
           p == Push(q, x)
           r == SubSeq(last, d + 1, Len(q) + 1)
<1>1. /\ Len(q) \in Nat /\ n \in 1..(Len(q) + 1) /\ d \in Nat
  BY LenProperties, WindowAssumption DEF Smaller
<1>2. /\ last \in Seq(S) /\ Len(last) = Len(q) + 1
      /\ \A i \in 1..Len(q) : last[i] = q[i]
      /\ last[Len(q) + 1] = x
  BY AppendProperties
<1>3. /\ p \in Seq(S) /\ Len(p) = n
      /\ \A i \in 1..n : p[i] = IF i + d = Len(q) + 1 THEN x ELSE q[i + d]
  <2> HIDE DEF p
  <2>1. \A i \in 1..n : i + Len(q) + 1 - n = i + d
    BY <1>1
  <2>2. QED
    BY <1>1, <2>1, PushProperties DEF p
<1>4. /\ r \in Seq(S) /\ Len(r) = n
      /\ \A i \in 1..n : r[i] = last[i + d]
  <2> HIDE DEF last, n
  <2>1. \A i \in (d + 1)..(Len(q) + 1) : last[i] \in S
    BY <1>1, <1>2
  <2>2. d + 1 \in Int /\ Len(q) + 1 \in Int
    BY <1>1
  <2> HIDE DEF d
  <2>3. /\ r \in Seq(S)
        /\ Len(r) = IF d + 1 <= Len(q) + 1 THEN Len(q) + 1 - (d + 1) + 1 ELSE 0
        /\ \A i \in 1..(Len(q) + 1 - (d + 1) + 1) : r[i] = last[d + 1 + i - 1]
    BY <2>1, <2>2, SubSeqProperties
  <2>4. Len(q) + 1 - (d + 1) + 1 = n /\ d + 1 <= Len(q) + 1
    BY <1>1 DEF d
  <2>5. \A i \in 1..n : d + 1 + i - 1 = i + d
    BY <1>1
  <2> HIDE DEF r
  <2>6. QED
    BY <2>3, <2>4, <2>5
<1>5. \A i \in 1..n : r[i] = p[i]
  <2> HIDE DEF last, n, p, r, d
  <2>1. \A i \in 1..n : i + d \in 1..(Len(q) + 1)
    BY <1>1 DEF d
  <2>2. \A i \in 1..n : i + d = Len(q) + 1 \/ i + d \in 1..Len(q)
    BY <1>1, <2>1
  <2>3. QED
    BY <1>2, <1>3, <1>4, <2>2
<1>6. r = p
  <2> HIDE DEF r, p
  <2>1. QED
    BY <1>3, <1>4, <1>5, SeqEqual
<1>7. SubSeq(last, Len(last) - Smaller(Len(last), Window) + 1, Len(last)) = r
  <2> DEFINE Part(k) == SubSeq(last, k - Smaller(k, Window) + 1, k)
  <2> HIDE DEF last, Part
  <2>1. Part(Len(last)) = Part(Len(q) + 1)
    BY <1>2
  <2>2. Part(Len(q) + 1) = r
    BY DEF Part
  <2>3. Part(Len(last)) = r
    BY <2>1, <2>2
  <2>4. QED
    BY <2>3 DEF Part
<1>8. QED
  BY <1>6, <1>7, Zenon

Ticks == [return : Moves, mid : Mids \cup {0}]

\* Both histories are as long as the window of ticks, and the returns a column of it.
HistoriesTraced ==
    /\ positive \in Seq(BOOLEAN) /\ Len(positive) = Len(trace)
    /\ returns \in Seq(Moves) /\ Len(returns) = Len(trace)
    /\ trace \in Seq(Ticks) /\ Len(trace) <= Window
    /\ \A i \in 1..Len(trace) : returns[i] = trace[i].return

\* The next return of a triangle is measured from the last tick evaluated.
PrevTraced ==
    /\ prev \in Mids \cup {0}
    /\ kind = "triangle" =>
          /\ \A i \in 1..Len(trace) : trace[i].mid \in Mids
          /\ Len(trace) > 0 => prev = trace[Len(trace)].mid

\* What is ordered passed the limits of the signal.
OrdersApproved ==
    orders # {} => /\ PersistenceExceeds(positive, MinProbability)
                   /\ VolatilityBelow(returns, MaxHazard)

LEMMA UpdateTraces ==
    ASSUME HistoriesTraced, PrevTraced, TriangleSeesEveryMove,
           NEW alpha \in BOOLEAN, NEW r \in Moves, NEW mid \in Mids \cup {0}, NEW ordered,
           kind = "triangle" => mid \in Mids /\ r = Return(prev, mid),
           Update(alpha, r, mid, ordered)
    PROVE  HistoriesTraced' /\ PrevTraced' /\ TriangleSeesEveryMove'
<1> DEFINE x == [return |-> r, mid |-> mid]
           n == Smaller(Len(trace) + 1, Window)
           d == Len(trace) + 1 - n
<1>1. x \in Ticks
  BY DEF Ticks
<1>2. /\ positive' = Push(positive, alpha) /\ returns' = Push(returns, r)
      /\ trace' = Push(trace, x)
  <2>1. trace' = SubSeq(Append(trace, x),
                        Len(Append(trace, x)) - Smaller(Len(Append(trace, x)), Window) + 1,
                        Len(Append(trace, x)))
    BY DEF Update
  <2> HIDE DEF x
  <2>2. QED
    BY <1>1, <2>1, PushKeepsLast DEF Update, HistoriesTraced
<1>3. /\ Len(trace) \in Nat /\ n \in 1..Window /\ d \in Nat
      /\ \A i \in 1..n : i + d \in 1..(Len(trace) + 1)
  BY LenProperties, WindowAssumption DEF HistoriesTraced, Smaller
<1> HIDE DEF x
<1>4. /\ trace' \in Seq(Ticks) /\ Len(trace') = n
      /\ \A i \in 1..n : trace'[i] = IF i + d = Len(trace) + 1 THEN x ELSE trace[i + d]
  <2> DEFINE p == Push(trace, x)
  <2>1. /\ p \in Seq(Ticks) /\ Len(p) = n
        /\ \A i \in 1..n : p[i] = IF i + Len(trace) + 1 - n = Len(trace) + 1
                                    THEN x ELSE trace[i + Len(trace) + 1 - n]
    <3>1. trace \in Seq(Ticks) /\ Len(trace) <= Window
      BY DEF HistoriesTraced
    <3>2. QED
      BY <1>1, <3>1, PushProperties
  <2>2. \A i \in 1..n : i + Len(trace) + 1 - n = i + d
    BY <1>3
  <2>3. trace' = p
    BY <1>2
  <2> HIDE DEF p, n, d
  <2>4. QED
    BY <2>1, <2>2, <2>3
<1>5. positive' \in Seq(BOOLEAN) /\ Len(positive') = n
  <2> DEFINE p == Push(positive, alpha)
             k == Smaller(Len(positive) + 1, Window)
  <2>1. positive \in Seq(BOOLEAN) /\ Len(positive) = Len(trace) /\ Len(positive) <= Window
    BY DEF HistoriesTraced
  <2>2. p \in Seq(BOOLEAN) /\ Len(p) = k
    BY <2>1, PushProperties
  <2>3. positive' = p /\ k = n
    BY <1>2, <2>1
  <2> HIDE DEF p, k, n
  <2>4. QED
    BY <2>2, <2>3
<1>6. /\ returns' \in Seq(Moves) /\ Len(returns') = n
      /\ \A i \in 1..n :
            returns'[i] = IF i + d = Len(trace) + 1 THEN r ELSE returns[i + d]
  <2> DEFINE p == Push(returns, r)
  <2>1. /\ p \in Seq(Moves) /\ Len(p) = n
        /\ \A i \in 1..n : p[i] = IF i + Len(trace) + 1 - n = Len(trace) + 1
                                    THEN r ELSE returns[i + Len(trace) + 1 - n]
    <3>1. returns \in Seq(Moves) /\ Len(returns) = Len(trace) /\ Len(returns) <= Window
      BY DEF HistoriesTraced
    <3> DEFINE k == Smaller(Len(returns) + 1, Window)
    <3>2. /\ p \in Seq(Moves) /\ Len(p) = k
          /\ \A i \in 1..k : p[i] = IF i + Len(returns) + 1 - k = Len(returns) + 1
                                      THEN r ELSE returns[i + Len(returns) + 1 - k]
      BY <3>1, PushProperties
    <3>3. k = n
      BY <3>1
    <3> HIDE DEF k, n, p
    <3>4. QED
      BY <3>1, <3>2, <3>3
  <2>2. \A i \in 1..n : i + Len(trace) + 1 - n = i + d
    BY <1>3
  <2>3. returns' = p
    BY <1>2
  <2> HIDE DEF p, n, d
  <2>4. QED
    BY <2>1, <2>2, <2>3
<1>7. ASSUME NEW i \in 1..n PROVE returns'[i] = trace'[i].return
  <2> HIDE DEF n, d
  <2>1. CASE i + d = Len(trace) + 1
    <3>1. trace'[i] = x /\ returns'[i] = r
      BY <1>4, <1>6, <2>1, Zenon
    <3>2. x.return = r
      BY DEF x
    <3>3. QED
      BY <3>1, <3>2, Zenon
  <2>2. CASE i + d # Len(trace) + 1
    <3>1. i + d \in 1..Len(trace)
      BY <1>3, <2>2 DEF d, n
    <3>2. trace'[i] = trace[i + d] /\ returns'[i] = returns[i + d]
      BY <1>4, <1>6, <2>2, Zenon
    <3>3. returns[i + d] = trace[i + d].return
      BY <3>1 DEF HistoriesTraced
    <3>4. QED
      BY <3>2, <3>3, Zenon
  <2>3. QED
    BY <2>1, <2>2
<1>8. HistoriesTraced'
  <2>1. n <= Window
    BY <1>3
  <2> HIDE DEF n
  <2>2. QED
    BY <1>4, <1>5, <1>6, <1>7, <2>1 DEF HistoriesTraced
<1>9. prev' = mid /\ kind' = kind /\ x.mid = mid
  BY DEF Update, x
<1>10. n + d = Len(trace) + 1 /\ n > 0
  BY <1>3
<1>11. PrevTraced'
  <2> SUFFICES ASSUME kind = "triangle"
               PROVE  /\ \A i \in 1..n : trace'[i].mid \in Mids
                      /\ mid = trace'[n].mid
    <3> HIDE DEF n, d
    <3>1. QED
      BY <1>4, <1>9 DEF PrevTraced
  <2> HIDE DEF n, d
  <2>1. ASSUME NEW i \in 1..n PROVE trace'[i].mid \in Mids
    <3>1. CASE i + d = Len(trace) + 1
      BY <1>4, <1>9, <3>1
    <3>2. CASE i + d # Len(trace) + 1
      <4>1. i + d \in 1..Len(trace)
        BY <1>3, <3>2
      <4>2. trace'[i] = trace[i + d]
        BY <1>4, <3>2, Zenon
      <4>3. QED
        BY <4>1, <4>2 DEF PrevTraced
    <3>3. QED
      BY <3>1, <3>2
  <2>2. mid = trace'[n].mid
    BY <1>3, <1>4, <1>9, <1>10
  <2>3. QED
    BY <2>1, <2>2
<1>12. TriangleSeesEveryMove'
  <2> SUFFICES ASSUME kind = "triangle", NEW i \in 2..n
               PROVE  returns'[i] = trace'[i].mid - trace'[i - 1].mid
    <3> HIDE DEF n, d
    <3>1. QED
      BY <1>4, <1>9 DEF TriangleSeesEveryMove
  <2>1. /\ i \in 1..n /\ i - 1 \in 1..n /\ i + d - 1 \in 1..Len(trace)
        /\ (i - 1) + d = i + d - 1 /\ (i - 1) + d # Len(trace) + 1
    BY <1>3, <1>10
  <2> HIDE DEF n, d
  <2>2. trace'[i - 1] = trace[i + d - 1]
    BY <1>4, <2>1
  <2>3. CASE i + d = Len(trace) + 1
    <3>1. trace'[i] = x /\ returns'[i] = r
      BY <1>4, <1>6, <2>1, <2>3, Zenon
    <3>2. i + d - 1 = Len(trace) /\ Len(trace) > 0
      BY <1>3, <2>1, <2>3
    <3>3. prev = trace[i + d - 1].mid /\ prev \in Mids
      BY <2>1, <3>2 DEF PrevTraced
    <3>4. prev > 0
      BY <3>3, PricesAssumption
    <3>5. r = mid - prev
      BY <3>4 DEF Return
    <3>6. trace'[i].mid = mid /\ trace'[i - 1].mid = prev
      BY <1>9, <2>2, <3>1, <3>3, Zenon
    <3>7. mid - prev = trace'[i].mid - trace'[i - 1].mid
      BY <3>6
    <3>8. QED
      BY <3>1, <3>5, <3>7
  <2>4. CASE i + d # Len(trace) + 1
    <3>1. i + d \in 2..Len(trace)
      BY <1>3, <2>1, <2>4
    <3>2. trace'[i] = trace[i + d] /\ returns'[i] = returns[i + d]
      BY <1>4, <1>6, <2>1, <2>4, Zenon
    <3>3. returns[i + d] = trace[i + d].mid - trace[i + d - 1].mid
      <4>1. returns[i + d] = trace[i + d].mid - trace[(i + d) - 1].mid
        BY <3>1 DEF TriangleSeesEveryMove
      <4>2. (i + d) - 1 = i + d - 1
        BY <1>3, <2>1
      <4>3. QED
        BY <4>1, <4>2
    <3>4. trace[i + d].mid - trace[i + d - 1].mid = trace'[i].mid - trace'[i - 1].mid
      BY <2>2, <3>2
    <3>5. QED
      BY <3>2, <3>3, <3>4
  <2>5. QED
    BY <2>3, <2>4
<1>13. QED
  BY <1>8, <1>11, <1>12

-----------------------------------------------------------------------------
(* Walks.                                                                  *)

\* What a walk for q can be at.
Filled(q) == {v \in [filled : 0..q.n, notional : Nat] : v.filled <= v.notional}

LEMMA TakeLevelFills ==
    ASSUME NEW q \in Fractions, NEW level \in Levels, NEW v \in Filled(q)
    PROVE  TakeLevel(level, q, v) \in Filled(q)
<1> DEFINE take == Smaller(level.volume * q.d, q.n - v.filled)
           f == v.filled
           m == v.notional
           p == level.price
<1>1. /\ q.n \in Nat /\ q.d \in Nat /\ level.volume \in Nat /\ p \in Nat \ {0}
      /\ f \in 0..q.n /\ m \in Nat /\ f <= m
  BY DEF Fractions, Levels, Filled
<1>2. take \in Nat /\ f + take <= q.n
  <2> DEFINE w == level.volume * q.d
  <2>1. w \in Nat
    BY <1>1
  <2> HIDE DEF w
  <2>2. QED
    BY <1>1, <2>1 DEF Smaller, w
<1> HIDE DEF take, f, m, p
<1>3. p * take \in Nat /\ take <= p * take
  BY <1>1, <1>2
<1>4. f + take \in 0..q.n /\ m + p * take \in Nat /\ f + take <= m + p * take
  <2> DEFINE c == p * take
  <2>1. c \in Nat /\ take <= c
    BY <1>3
  <2> HIDE DEF c
  <2>2. f + take \in 0..q.n /\ m + c \in Nat /\ f + take <= m + c
    BY <1>1, <1>2, <2>1
  <2>3. QED
    BY <2>2 DEF c
<1>5. TakeLevel(level, q, v) = [filled |-> f + take, notional |-> m + p * take]
  BY DEF TakeLevel, take, f, m, p
<1>6. QED
  BY <1>4, <1>5 DEF Filled

LEMMA WalksDef ==
    ASSUME NEW levels \in Seq(Levels), NEW q \in Fractions
    PROVE  /\ Walks(levels, q) \in [0..Len(levels) -> Filled(q)]
           /\ Walks(levels, q)[0] = [filled |-> 0, notional |-> 0]
           /\ \A i \in 1..Len(levels) :
                 Walks(levels, q)[i] = TakeLevel(levels[i], q, Walks(levels, q)[i - 1])
<1> DEFINE n == Len(levels)
           zero == [filled |-> 0, notional |-> 0]
           Solves(f) == f = [i \in 0..n |-> IF i = 0 THEN zero
                                            ELSE TakeLevel(levels[i], q, f[i - 1])]
           step == [i \in 1..n |-> [v \in Filled(q) |-> TakeLevel(levels[i], q, v)]]
<1>1. n \in Nat /\ \A i \in 1..n : levels[i] \in Levels
  OBVIOUS
<1>2. zero \in Filled(q)
  BY DEF Filled, Fractions
<1>3. step \in [1..n -> [Filled(q) -> Filled(q)]]
  <2> HIDE DEF n
  <2>1. \A i \in 1..n, v \in Filled(q) : TakeLevel(levels[i], q, v) \in Filled(q)
    BY <1>1, TakeLevelFills
  <2>2. QED
    BY <2>1
<1> HIDE DEF zero
<1>4. \E f : Solves(f)
  <2>1. PICK f \in [0..n -> Filled(q)] : Follows(f, n, zero, step)
    <3> HIDE DEF n, step
    <3>1. QED
      BY <1>1, <1>2, <1>3, Recursion, Zenon
  <2>2. ASSUME NEW i \in 0..n
        PROVE  f[i] = IF i = 0 THEN zero ELSE TakeLevel(levels[i], q, f[i - 1])
    <3>1. CASE i = 0
      BY <2>1, <3>1 DEF Follows
    <3>2. CASE i # 0
      <4>1. i \in 1..n /\ i - 1 \in 0..n
        BY <1>1, <3>2
      <4>2. f[i] = step[i][f[i - 1]] /\ f[i - 1] \in Filled(q)
        BY <2>1, <4>1 DEF Follows
      <4>3. step[i][f[i - 1]] = TakeLevel(levels[i], q, f[i - 1])
        BY <4>1, <4>2
      <4> HIDE DEF step, n
      <4>4. QED
        BY <3>2, <4>2, <4>3
    <3>3. QED
      BY <3>1, <3>2
  <2>3. f = [i \in 0..n |-> IF i = 0 THEN zero ELSE TakeLevel(levels[i], q, f[i - 1])]
    BY <2>2
  <2>4. QED
    BY <2>3
<1>5. Solves(Walks(levels, q))
  BY <1>4 DEF Walks, zero
<1> DEFINE f == Walks(levels, q)
<1> HIDE DEF f
<1>6. f[0] = zero /\ \A i \in 1..n : f[i] = TakeLevel(levels[i], q, f[i - 1])
  BY <1>1, <1>5 DEF f
<1>7. DOMAIN f = 0..n /\ f = [i \in 0..n |-> f[i]]
  BY <1>5 DEF f
<1>8. ASSUME NEW i \in 0..n PROVE f[i] \in Filled(q)
  <2> DEFINE C == {k \in Nat : k <= n => f[k] \in Filled(q)}
  <2>1. 0 \in C
    BY <1>2, <1>6
  <2>2. ASSUME NEW k \in C PROVE k + 1 \in C
    <3>1. k \in Nat
      OBVIOUS
    <3>2. ASSUME k + 1 <= n PROVE f[k + 1] \in Filled(q)
      <4>1. f[k + 1] = TakeLevel(levels[k + 1], q, f[k]) /\ k + 1 \in 1..n
        BY <1>1, <1>6, <3>1, <3>2
      <4>2. f[k] \in Filled(q) /\ levels[k + 1] \in Levels
        BY <1>1, <3>1, <3>2, <4>1
      <4>3. QED
        BY <4>1, <4>2, TakeLevelFills
    <3>3. QED
      BY <3>1, <3>2
  <2>3. C = Nat
    <3> HIDE DEF C
    <3>1. C \subseteq Nat
      BY DEF C
    <3>2. QED
      BY <2>1, <2>2, <3>1, Induct
  <2>4. QED
    BY <1>1, <2>3
<1>9. f \in [0..n -> Filled(q)]
  <2> HIDE DEF n
  <2>1. QED
    BY <1>7, <1>8
<1>10. QED
  BY <1>6, <1>9 DEF f, zero

\* A walk that fills q has cost at least as much as it filled.
LEMMA WalkType ==
    ASSUME NEW levels \in Seq(Levels), NEW q \in Fractions
    PROVE  /\ Walk(levels, q) \in Filled(q)
           /\ Walk(levels, q).notional \in Nat
           /\ Deep(levels, q) => q.n <= Walk(levels, q).notional
<1>1. Walk(levels, q) \in Filled(q)
  BY WalksDef, LenProperties DEF Walk
<1>2. QED
  BY <1>1 DEF Deep, Filled, Fractions

-----------------------------------------------------------------------------
(* Lot by lot.                                                             *)

\* The quantities of an order are positive.
Positive == [n : Nat \ {0}, d : Nat \ {0}]

LEMMA DepthsDef ==
    ASSUME NEW levels \in Seq(Levels)
    PROVE  /\ Depths(levels) \in [0..Len(levels) -> Nat]
           /\ Depths(levels)[0] = 0
           /\ \A i \in 1..Len(levels) :
                 Depths(levels)[i] = Depths(levels)[i - 1] + levels[i].volume
<1> DEFINE n == Len(levels)
           v == [i \in DOMAIN levels |-> levels[i].volume]
<1>1. n \in Nat /\ DOMAIN levels = 1..n /\ \A i \in 1..n : levels[i].volume \in Nat
  <2>1. n \in Nat /\ DOMAIN levels = 1..n /\ \A i \in 1..n : levels[i] \in Levels
    OBVIOUS
  <2>2. \A x \in Levels : x.volume \in Nat
    BY DEF Levels
  <2> HIDE DEF n
  <2>3. QED
    BY <2>1, <2>2
<1>2. v \in [1..n -> Nat] /\ \A i \in 1..n : v[i] = levels[i].volume
  BY <1>1
<1> HIDE DEF v, n
<1>3. v \in Seq(Nat) /\ v \in Seq(Int) /\ Len(v) = n
  <2>1. v \in [1..n -> Int]
    BY <1>2
  <2>2. QED
    BY <1>1, <1>2, <2>1, FunctionIsSeq
<1>4. Depths(levels) = Sums(v)
  BY DEF Depths, v
<1>5. /\ Sums(v) \in [0..n -> Int] /\ Sums(v)[0] = 0
      /\ \A i \in 1..n : Sums(v)[i] = Sums(v)[i - 1] + v[i]
  BY <1>3, SumsDef
<1>6. \A i \in 0..n : Sums(v)[i] \in Nat
  BY <1>3, SumsHold
<1> DEFINE f == Sums(v)
<1>7. f \in [0..n -> Nat]
  <2> HIDE DEF f
  <2>1. f \in [0..n -> Int] /\ \A i \in 0..n : f[i] \in Nat
    BY <1>5, <1>6 DEF f
  <2>2. QED
    BY <2>1
<1>8. QED
  BY <1>2, <1>4, <1>5, <1>7 DEF n

LEMMA DepthsGrow ==
    ASSUME NEW levels \in Seq(Levels), NEW j \in 0..Len(levels), NEW i \in 0..j
    PROVE  Depths(levels)[i] <= Depths(levels)[j]
<1> DEFINE n == Len(levels)
           f == Depths(levels)
           C == {k \in Nat : k <= n => \A m \in 0..k : f[m] <= f[k]}
<1>1. n \in Nat /\ \A k \in 0..n : f[k] \in Nat
  <2>1. n \in Nat /\ f \in [0..n -> Nat]
    BY DepthsDef
  <2> HIDE DEF f, n
  <2>2. QED
    BY <2>1
<1>2. \A k \in 1..n : f[k - 1] <= f[k]
  <2> TAKE k \in 1..n
  <2>1. f[k] = f[k - 1] + levels[k].volume /\ levels[k].volume \in Nat
    <3>1. f[k] = f[k - 1] + levels[k].volume
      BY DepthsDef
    <3>2. levels[k] \in Levels
      OBVIOUS
    <3>3. levels[k].volume \in Nat
      BY <3>2 DEF Levels
    <3>4. QED
      BY <3>1, <3>3
  <2>2. f[k - 1] \in Nat
    BY <1>1
  <2> HIDE DEF f
  <2>3. QED
    BY <2>1, <2>2
<1> HIDE DEF f, n
<1>3. 0 \in C
  BY <1>1
<1>4. ASSUME NEW k \in C PROVE k + 1 \in C
  <2>1. k \in Nat
    OBVIOUS
  <2>2. ASSUME k + 1 <= n, NEW m \in 0..(k + 1) PROVE f[m] <= f[k + 1]
    <3>1. f[k] <= f[k + 1] /\ f[k] \in Nat /\ f[k + 1] \in Nat /\ f[m] \in Nat
      BY <1>1, <1>2, <2>1, <2>2
    <3>2. CASE m = k + 1
      BY <3>1, <3>2
    <3>3. CASE m \in 0..k
      <4>1. f[m] <= f[k]
        BY <1>1, <2>1, <2>2, <3>3
      <4>2. QED
        BY <3>1, <4>1
    <3>4. QED
      BY <2>1, <3>2, <3>3
  <2>3. QED
    BY <2>1, <2>2
<1>5. C = Nat
  <2> HIDE DEF C
  <2>1. C \subseteq Nat
    BY DEF C
  <2>2. QED
    BY <1>3, <1>4, <2>1, Induct
<1>6. j \in C /\ j <= n
  BY <1>1, <1>5 DEF n
<1>7. QED
  BY <1>6 DEF f

LEMMA LotPriceIs ==
    ASSUME NEW levels \in Seq(Levels), NEW i \in 1..Len(levels), NEW k \in Nat,
           Depths(levels)[i - 1] < k, k <= Depths(levels)[i]
    PROVE  LotPrice(levels, k) = levels[i].price
<1> DEFINE f == Depths(levels)
           Has(j) == f[j - 1] < k /\ k <= f[j]
           c == CHOOSE j \in DOMAIN levels : Has(j)
<1>1. DOMAIN levels = 1..Len(levels) /\ Len(levels) \in Nat
  OBVIOUS
<1>2. c \in 1..Len(levels) /\ Has(c)
  <2>1. i \in DOMAIN levels /\ Has(i)
    BY <1>1
  <2> HIDE DEF Has
  <2>2. QED
    BY <1>1, <2>1
<1>3. LotPrice(levels, k) = levels[c].price
  BY DEF LotPrice
<1>4. c = i
  <2> HIDE DEF c
  <2>1. /\ f[c - 1] \in Nat /\ f[c] \in Nat /\ f[i - 1] \in Nat /\ f[i] \in Nat
    <3>1. f \in [0..Len(levels) -> Nat]
      BY DepthsDef
    <3>2. /\ c - 1 \in 0..Len(levels) /\ c \in 0..Len(levels)
          /\ i - 1 \in 0..Len(levels) /\ i \in 0..Len(levels)
      BY <1>1, <1>2
    <3> HIDE DEF f
    <3>3. QED
      BY <3>1, <3>2
  <2>2. ~(c < i)
    <3> SUFFICES ASSUME c < i PROVE FALSE
      OBVIOUS
    <3>1. c \in 0..(i - 1) /\ i - 1 \in 0..Len(levels)
      BY <1>1, <1>2
    <3>2. f[c] <= f[i - 1]
      BY <3>1, DepthsGrow
    <3> HIDE DEF f
    <3>3. QED
      BY <1>2, <2>1, <3>2 DEF f
  <2>3. ~(i < c)
    <3> SUFFICES ASSUME i < c PROVE FALSE
      OBVIOUS
    <3>1. i \in 0..(c - 1) /\ c - 1 \in 0..Len(levels)
      BY <1>1, <1>2
    <3>2. f[i] <= f[c - 1]
      BY <3>1, DepthsGrow
    <3> HIDE DEF f
    <3>3. QED
      BY <1>2, <2>1, <3>2 DEF f
  <2>4. QED
    BY <1>1, <1>2, <2>2, <2>3
<1>5. QED
  BY <1>3, <1>4

\* Every lot up to the last level's is in a level.
LEMMA LotHasLevel ==
    ASSUME NEW levels \in Seq(Levels), NEW k \in Nat \ {0},
           k <= Depths(levels)[Len(levels)]
    PROVE  \E i \in 1..Len(levels) : Depths(levels)[i - 1] < k /\ k <= Depths(levels)[i]
<1> DEFINE n == Len(levels)
           f == Depths(levels)
           C == {j \in Nat : j <= n => f[j] < k}
<1> SUFFICES ASSUME \A i \in 1..n : ~(f[i - 1] < k /\ k <= f[i]) PROVE FALSE
  OBVIOUS
<1>1. n \in Nat /\ f[0] = 0 /\ \A j \in 0..n : f[j] \in Nat
  BY DepthsDef
<1>2. k <= f[n]
  OBVIOUS
<1> HIDE DEF f, n
<1>3. 0 \in C
  BY <1>1
<1>4. ASSUME NEW j \in C PROVE j + 1 \in C
  <2>1. j \in Nat
    OBVIOUS
  <2>2. ASSUME j + 1 <= n PROVE f[j + 1] < k
    <3>1. j + 1 \in 1..n /\ f[j] < k /\ (j + 1) - 1 = j /\ f[j + 1] \in Nat
      BY <1>1, <2>1, <2>2
    <3>2. ~(k <= f[j + 1])
      BY <3>1
    <3>3. QED
      BY <3>1, <3>2
  <2>3. QED
    BY <2>1, <2>2
<1>5. C = Nat
  <2> HIDE DEF C
  <2>1. C \subseteq Nat
    BY DEF C
  <2>2. QED
    BY <1>3, <1>4, <2>1, Induct
<1>6. f[n] < k
  BY <1>1, <1>5
<1>7. QED
  BY <1>1, <1>2, <1>6

LEMMA PositiveFraction == ASSUME NEW q \in Positive PROVE q \in Fractions
BY DEF Positive, Fractions

\* What k lots fill of q, and how many lots fill it.
FilledBy(k, q) == Smaller(k * q.d, q.n)
LotsOf(q) == (q.n + q.d - 1) \div q.d

LEMMA TakeMore ==
    ASSUME NEW x \in Nat, NEW y \in Nat, NEW n \in Nat
    PROVE  Smaller(x, n) + Smaller(y, n - Smaller(x, n)) = Smaller(x + y, n)
BY DEF Smaller

LEMMA ProductIsNat == ASSUME NEW x \in Nat, NEW y \in Nat PROVE x * y \in Nat
OBVIOUS

LEMMA Distributes ==
    ASSUME NEW x \in Nat, NEW y \in Nat, NEW d \in Nat
    PROVE  (x + y) * d = x * d + y * d
OBVIOUS

LEMMA ProductMonotonic ==
    ASSUME NEW x \in Nat, NEW y \in Nat, NEW d \in Nat, x <= y
    PROVE  x * d <= y * d
<1>1. (y - x) * d \in Nat
  BY ProductIsNat
<1>2. (y - x) * d = y * d - x * d
  OBVIOUS
<1>3. x * d \in Nat /\ y * d \in Nat
  OBVIOUS
<1>4. QED
  BY <1>1, <1>2, <1>3

LEMMA LotsOfBounds ==
    ASSUME NEW q \in Positive
    PROVE  /\ LotsOf(q) \in Nat \ {0}
           /\ (LotsOf(q) - 1) * q.d < q.n
           /\ q.n <= LotsOf(q) * q.d
<1> DEFINE n == q.n
           d == q.d
           k == LotsOf(q)
           x == n + d - 1
<1>1. n \in Nat \ {0} /\ d \in Nat \ {0}
  BY DEF Positive
<1>2. k = x \div d
  BY DEF LotsOf
<1>3. x \in Nat /\ d <= x
  BY <1>1
<1> HIDE DEF n, d, k
<1>4. k \in Int /\ x = d * k + (x % d) /\ x % d \in 0..(d - 1)
  <2> HIDE DEF x
  <2>1. QED
    BY <1>1, <1>2, <1>3
<1>5. k * d = d * k /\ (k - 1) * d = d * k - d /\ d * k \in Int
  BY <1>1, <1>4
<1>6. (k - 1) * d < n /\ n <= k * d
  <2> DEFINE y == d * k
             r == x % d
  <2> HIDE DEF y, r
  <2>1. x = y + r /\ r \in 0..(d - 1) /\ y \in Int /\ k * d = y /\ (k - 1) * d = y - d
    BY <1>4, <1>5 DEF y, r
  <2>2. QED
    BY <1>1, <2>1
<1>7. k \in Nat \ {0}
  <2>1. SUFFICES ASSUME k <= 0 PROVE FALSE
    BY <1>4
  <2>2. (0 - k) * d \in Nat
    BY <1>1, <1>4, <2>1, ProductIsNat
  <2>3. (0 - k) * d = 0 - k * d /\ k * d \in Int
    BY <1>1, <1>4
  <2>4. QED
    BY <1>1, <1>6, <2>2, <2>3
<1>8. QED
  BY <1>6, <1>7 DEF n, d, k

\* The lots up to a level fill what the walk has filled after it.
LEMMA FilledIs ==
    ASSUME NEW levels \in Seq(Levels), NEW q \in Positive, NEW i \in 0..Len(levels)
    PROVE  Walks(levels, q)[i].filled = FilledBy(Depths(levels)[i], q)
<1> DEFINE m == Len(levels)
           f == Depths(levels)
           w == Walks(levels, q)
           n == q.n
           d == q.d
           C == {k \in Nat : k <= m => w[k].filled = Smaller(f[k] * d, n)}
<1>1. n \in Nat /\ d \in Nat /\ m \in Nat
  BY DEF Positive
<1>2. /\ f \in [0..m -> Nat] /\ f[0] = 0
      /\ \A k \in 1..m : f[k] = f[k - 1] + levels[k].volume
  BY DepthsDef
<1>3. /\ w[0] = [filled |-> 0, notional |-> 0]
      /\ \A k \in 1..m : w[k] = TakeLevel(levels[k], q, w[k - 1])
  BY PositiveFraction, WalksDef
<1>4. \A k \in 1..m : levels[k].volume \in Nat
  <2> TAKE k \in 1..m
  <2>1. levels[k] \in Levels
    BY LenProperties
  <2>2. QED
    BY <2>1 DEF Levels
<1> HIDE DEF f, w, m
<1>5. 0 \in C
  BY <1>1, <1>2, <1>3 DEF Smaller
<1>6. ASSUME NEW k \in C PROVE k + 1 \in C
  <2>1. k \in Nat
    OBVIOUS
  <2>2. ASSUME k + 1 <= m PROVE w[k + 1].filled = Smaller(f[k + 1] * d, n)
    <3> DEFINE v == levels[k + 1].volume
               y == v * d
               x == f[k] * d
    <3>1. k + 1 \in 1..m /\ k \in 0..m /\ (k + 1) - 1 = k
      BY <1>1, <2>1, <2>2
    <3>2. v \in Nat /\ f[k] \in Nat /\ f[k + 1] = f[k] + v
      BY <1>2, <1>4, <3>1
    <3>3. w[k].filled = Smaller(x, n)
      BY <2>1, <2>2, <1>1
    <3>4. w[k + 1].filled = w[k].filled + Smaller(y, n - w[k].filled)
      <4>1. w[k + 1] = TakeLevel(levels[k + 1], q, w[k])
        BY <1>3, <3>1
      <4>2. QED
        BY <4>1 DEF TakeLevel
    <3> HIDE DEF v
    <3>5. x \in Nat /\ y \in Nat /\ f[k + 1] * d = x + y
      <4> DEFINE a == f[k]
      <4>1. a \in Nat
        BY <3>2
      <4> HIDE DEF a
      <4>2. a * d \in Nat /\ v * d \in Nat /\ (a + v) * d = a * d + v * d
        <5>1. d \in Nat
          BY <1>1
        <5>2. a * d \in Nat /\ v * d \in Nat
          BY <3>2, <4>1, <5>1, ProductIsNat
        <5>3. (a + v) * d = a * d + v * d
          BY <3>2, <4>1, <5>1, Distributes
        <5>4. QED
          BY <5>2, <5>3
      <4>3. QED
        BY <3>2, <4>2 DEF a
    <3> HIDE DEF x, y, n, d
    <3>6. Smaller(x, n) + Smaller(y, n - Smaller(x, n)) = Smaller(x + y, n)
      BY <1>1, <3>5, TakeMore
    <3>7. QED
      BY <3>3, <3>4, <3>5, <3>6
  <2>3. QED
    BY <2>1, <2>2
<1>7. C = Nat
  <2> HIDE DEF C
  <2>1. C \subseteq Nat
    BY DEF C
  <2>2. QED
    BY <1>5, <1>6, <2>1, Induct
<1>8. i \in C /\ i <= m
  BY <1>1, <1>7 DEF m
<1>9. QED
  BY <1>8 DEF FilledBy, f, w

\* A deep book has the lots that fill q.
LEMMA DeepHasLots ==
    ASSUME NEW levels \in Seq(Levels), NEW q \in Positive
    PROVE  Deep(levels, q) <=> q.n <= Depths(levels)[Len(levels)] * q.d
<1> DEFINE x == Depths(levels)[Len(levels)] * q.d
           n == q.n
<1>1. Len(levels) \in 0..Len(levels)
  BY LenProperties
<1>2. Walk(levels, q).filled = Smaller(x, n)
  BY <1>1, FilledIs DEF FilledBy, Walk
<1>3. x \in Nat /\ n \in Nat
  <2>1. Depths(levels)[Len(levels)] \in Nat /\ q.d \in Nat /\ q.n \in Nat
    BY <1>1, DepthsDef DEF Positive
  <2>2. QED
    BY <2>1, ProductIsNat
<1> HIDE DEF x, n
<1>4. Smaller(x, n) >= n <=> n <= x
  BY <1>3 DEF Smaller
<1>5. QED
  BY <1>2, <1>4 DEF Deep, x, n

\* What the lots cost, one by one, when there are enough.
LEMMA LotCostsDef ==
    ASSUME NEW levels \in Seq(Levels), NEW q \in Positive, Deep(levels, q)
    PROVE  /\ LotsOf(q) <= Depths(levels)[Len(levels)]
           /\ LotCosts(levels, q) \in Seq(Int)
           /\ Len(LotCosts(levels, q)) = LotsOf(q)
           /\ \A k \in 1..LotsOf(q) :
                 LotCosts(levels, q)[k]
                     = LotPrice(levels, k) * Smaller(q.d, q.n - (k - 1) * q.d)
<1> DEFINE last == Depths(levels)[Len(levels)]
           n == q.n
           d == q.d
           m == LotsOf(q)
           c == LotCosts(levels, q)
<1>1. n \in Nat \ {0} /\ d \in Nat \ {0} /\ last \in Nat
  <2>1. Len(levels) \in 0..Len(levels)
    BY LenProperties
  <2>2. QED
    BY <2>1, DepthsDef DEF Positive
<1>2. m \in Nat \ {0} /\ (m - 1) * d < n /\ n <= last * d
  BY LotsOfBounds, DeepHasLots
<1>3. c = [k \in 1..m |-> LotPrice(levels, k) * Smaller(d, n - (k - 1) * d)]
  BY DEF LotCosts, LotsOf
<1> HIDE DEF last, n, d, m, c
<1>4. m <= last
  <2> SUFFICES ASSUME last <= m - 1 PROVE FALSE
    BY <1>1, <1>2
  <2>1. last * d <= (m - 1) * d
    <3>1. m - 1 \in Nat /\ d \in Nat
      BY <1>1, <1>2
    <3>2. QED
      BY <1>1, <3>1, ProductMonotonic
  <2>2. last * d \in Int /\ (m - 1) * d \in Int
    BY <1>1, <1>2
  <2>3. QED
    BY <1>1, <1>2, <2>1, <2>2
<1>5. \A k \in 1..m : LotPrice(levels, k) * Smaller(d, n - (k - 1) * d) \in Int
  <2> TAKE k \in 1..m
  <2>1. k \in Nat \ {0} /\ k <= last
    BY <1>1, <1>2, <1>4
  <2>2. LotPrice(levels, k) \in Nat
    <3>1. PICK i \in 1..Len(levels) :
             Depths(levels)[i - 1] < k /\ k <= Depths(levels)[i]
      BY <2>1, LotHasLevel DEF last
    <3>2. LotPrice(levels, k) = levels[i].price
      BY <2>1, <3>1, LotPriceIs
    <3>3. levels[i] \in Levels
      BY <3>1, LenProperties
    <3>4. QED
      BY <3>2, <3>3 DEF Levels
  <2>3. Smaller(d, n - (k - 1) * d) \in Int
    <3>1. (k - 1) * d \in Int
      BY <1>1, <2>1
    <3>2. QED
      BY <1>1, <3>1 DEF Smaller
  <2> DEFINE x == LotPrice(levels, k)
             y == Smaller(d, n - (k - 1) * d)
  <2>4. x \in Int /\ y \in Int
    BY <2>2, <2>3
  <2> HIDE DEF x, y
  <2>5. x * y \in Int
    BY <2>4
  <2>6. QED
    BY <2>5 DEF x, y
<1>6. c \in [1..m -> Int]
  BY <1>3, <1>5
<1>7. c \in Seq(Int) /\ Len(c) = m
  BY <1>2, <1>6, FunctionIsSeq
<1>8. \A k \in 1..m : c[k] = LotPrice(levels, k) * Smaller(d, n - (k - 1) * d)
  BY <1>3
<1>9. QED
  BY <1>4, <1>7, <1>8 DEF last, n, d, m, c

\* The lots of one level cost its price.
LEMMA LotsOfLevel ==
    ASSUME NEW levels \in Seq(Levels), NEW q \in Positive, Deep(levels, q),
           NEW i \in 1..Len(levels), NEW k \in Nat,
           Depths(levels)[i - 1] <= k, k <= Depths(levels)[i], k <= LotsOf(q)
    PROVE  Sums(LotCosts(levels, q))[k]
               = Sums(LotCosts(levels, q))[Depths(levels)[i - 1]]
                 + levels[i].price
                   * (FilledBy(k, q) - FilledBy(Depths(levels)[i - 1], q))
<1> DEFINE n == q.n
           d == q.d
           m == LotsOf(q)
           c == LotCosts(levels, q)
           s == Sums(c)
           low == Depths(levels)[i - 1]
           high == Depths(levels)[i]
           p == levels[i].price
           F(j) == FilledBy(j, q)
           Holds(j) == s[j] = s[low] + p * (F(j) - F(low))
           C == {j \in Nat : low <= j /\ j <= high /\ j <= m => Holds(j)}
<1>1. n \in Nat \ {0} /\ d \in Nat \ {0} /\ low \in Nat /\ high \in Nat
  <2>1. i - 1 \in 0..Len(levels) /\ i \in 0..Len(levels)
    BY LenProperties
  <2>2. QED
    BY <2>1, DepthsDef DEF Positive
<1>2. p \in Nat
  <2>1. levels[i] \in Levels
    BY LenProperties
  <2>2. QED
    BY <2>1 DEF Levels
<1>3. m \in Nat \ {0} /\ (m - 1) * d < n
  BY LotsOfBounds
<1>4. s \in [0..m -> Int] /\ \A j \in 1..m : s[j] = s[j - 1] + c[j]
  BY LotCostsDef, SumsDef
<1>5. \A j \in Nat : F(j) \in Nat /\ F(j) = Smaller(j * d, n)
  <2> TAKE j \in Nat
  <2>1. j * d \in Nat
    BY <1>1
  <2>2. QED
    BY <1>1, <2>1 DEF FilledBy, Smaller
<1>6. ASSUME NEW j \in Nat, low <= j, j + 1 <= high, j + 1 <= m
      PROVE  c[j + 1] = p * (F(j + 1) - F(j))
  <2>1. LotPrice(levels, j + 1) = p
    <3>1. j + 1 \in Nat /\ low < j + 1
      BY <1>1, <1>6
    <3>2. QED
      BY <1>6, <3>1, LotPriceIs
  <2>2. c[j + 1] = LotPrice(levels, j + 1) * Smaller(d, n - ((j + 1) - 1) * d)
    <3>1. j + 1 \in 1..m
      BY <1>3, <1>6
    <3>2. QED
      BY <3>1, LotCostsDef
  <2> DEFINE x == j * d
  <2>3. x \in Nat /\ ((j + 1) - 1) * d = x /\ (j + 1) * d = x + d
    BY <1>1
  <2>4. x < n
    <3>0. m \in Nat \ {0} /\ d \in Nat
      BY <1>1, <1>3
    <3>1. j \in Nat /\ m - 1 \in Nat /\ j <= m - 1 /\ d \in Nat
      <4> HIDE DEF x, m, d
      <4>1. QED
        BY <1>6, <3>0
    <3>2. x <= (m - 1) * d
      BY <3>1, ProductMonotonic
    <3>3. (m - 1) * d \in Int
      BY <1>1, <1>3
    <3> DEFINE y == (m - 1) * d
    <3> HIDE DEF x, y
    <3>4. x <= y /\ y < n /\ y \in Int
      BY <1>3, <3>2, <3>3 DEF y
    <3>5. QED
      BY <1>1, <2>3, <3>4
  <2>5. F(j + 1) = Smaller(x + d, n) /\ F(j) = Smaller(x, n)
    <3> HIDE DEF F
    <3>1. j + 1 \in Nat
      OBVIOUS
    <3>2. F(j + 1) = Smaller((j + 1) * d, n) /\ F(j) = Smaller(j * d, n)
      BY <1>5, <3>1
    <3>3. QED
      BY <2>3, <3>2
  <2> HIDE DEF x, n, d, F
  <2>6. F(j + 1) - F(j) = Smaller(d, n - x)
    BY <1>1, <2>3, <2>4, <2>5 DEF Smaller
  <2> HIDE DEF p, c
  <2>7. c[j + 1] = p * Smaller(d, n - x)
    BY <2>1, <2>2, <2>3 DEF x, n, d, c, p
  <2>8. QED
    BY <2>6, <2>7
<1> HIDE DEF n, d, m, c, s, low, high, p, F
<1>7. 0 \in C
  <2> SUFFICES ASSUME low = 0 PROVE Holds(0)
    BY <1>1
  <2>1. s[0] \in Int /\ F(0) \in Nat
    BY <1>3, <1>4, <1>5
  <2>2. p * (F(0) - F(0)) = 0
    BY <1>2, <2>1
  <2>3. QED
    BY <2>1, <2>2
<1>8. ASSUME NEW j \in C PROVE j + 1 \in C
  <2>1. j \in Nat
    OBVIOUS
  <2>2. ASSUME low <= j + 1, j + 1 <= high, j + 1 <= m PROVE Holds(j + 1)
    <3>1. CASE low = j + 1
      <4>1. s[j + 1] \in Int /\ F(j + 1) \in Nat
        BY <1>3, <1>4, <1>5, <2>1, <2>2
      <4>2. p * (F(j + 1) - F(j + 1)) = 0
        BY <1>2, <4>1
      <4>3. QED
        BY <3>1, <4>1, <4>2
    <3>2. CASE low # j + 1
      <4>1. low <= j /\ j <= high /\ j <= m /\ j + 1 \in 1..m /\ j \in 0..m /\ low \in 0..m
        BY <1>1, <1>3, <2>1, <2>2, <3>2
      <4>2. Holds(j)
        BY <4>1
      <4>3. s[j + 1] = s[j] + c[j + 1]
        BY <1>4, <2>1, <4>1
      <4>4. c[j + 1] = p * (F(j + 1) - F(j))
        BY <1>6, <2>1, <2>2, <4>1
      <4> DEFINE a == F(j + 1)
                 b == F(j)
                 e == F(low)
      <4>5. a \in Nat /\ b \in Nat /\ e \in Nat /\ s[low] \in Int
        <5>1. j \in Nat /\ j + 1 \in Nat
          BY <2>1
        <5>2. s[low] \in Int
          BY <1>4, <4>1
        <5>3. QED
          BY <1>1, <1>5, <5>1, <5>2
      <4>6. s[j + 1] = (s[low] + p * (b - e)) + p * (a - b)
        BY <4>2, <4>3, <4>4
      <4> HIDE DEF a, b, e
      <4>7. (s[low] + p * (b - e)) + p * (a - b) = s[low] + p * (a - e)
        BY <1>2, <4>5
      <4>8. QED
        BY <4>6, <4>7 DEF a, e
    <3>3. QED
      BY <3>1, <3>2
  <2> HIDE DEF Holds
  <2>3. QED
    BY <2>1, <2>2
<1>9. C = Nat
  <2> HIDE DEF C
  <2>1. C \subseteq Nat
    BY DEF C
  <2>2. QED
    BY <1>7, <1>8, <2>1, Induct
<1>10. Holds(k)
  <2>1. low <= k /\ k <= high /\ k <= m
    BY DEF low, high, m
  <2> HIDE DEF Holds
  <2>2. QED
    BY <1>9, <2>1
<1>11. QED
  BY <1>10 DEF s, c, p, low, F

LEMMA FilledUp ==
    ASSUME NEW q \in Positive, NEW j \in Nat, LotsOf(q) <= j
    PROVE  FilledBy(j, q) = q.n
<1> DEFINE n == q.n
           d == q.d
           m == LotsOf(q)
<1>1. n \in Nat /\ d \in Nat /\ m \in Nat /\ n <= m * d
  BY LotsOfBounds DEF Positive
<1>2. m <= j
  OBVIOUS
<1> HIDE DEF n, d, m
<1>3. m * d <= j * d
  BY <1>1, <1>2, ProductMonotonic
<1>4. m * d \in Nat /\ j * d \in Nat
  BY <1>1
<1>5. Smaller(j * d, n) = n
  <2> DEFINE x == m * d
             y == j * d
  <2>1. x \in Nat /\ y \in Nat /\ x <= y /\ n <= x
    BY <1>1, <1>3, <1>4
  <2> HIDE DEF x, y
  <2>2. Smaller(y, n) = n
    BY <1>1, <2>1 DEF Smaller
  <2>3. QED
    BY <2>2 DEF y
<1>6. QED
  BY <1>5 DEF FilledBy, n, d

\* One level adds its price for each lot it fills.
LEMMA WalkStep ==
    ASSUME NEW levels \in Seq(Levels), NEW q \in Positive, NEW i \in 1..Len(levels)
    PROVE  Walks(levels, q)[i].notional
               = Walks(levels, q)[i - 1].notional
                 + levels[i].price * (FilledBy(Depths(levels)[i], q)
                                      - FilledBy(Depths(levels)[i - 1], q))
<1> DEFINE w == Walks(levels, q)
           take == Smaller(levels[i].volume * q.d, q.n - w[i - 1].filled)
           a == w[i - 1].filled
           p == levels[i].price
<1>1. i - 1 \in 0..Len(levels) /\ i \in 0..Len(levels)
  BY LenProperties
<1>2. /\ w[i] = TakeLevel(levels[i], q, w[i - 1])
      /\ w[i - 1] \in Filled(q) /\ w[i] \in Filled(q)
  BY <1>1, PositiveFraction, WalksDef
<1>3. w[i].filled = a + take /\ w[i].notional = w[i - 1].notional + p * take
  BY <1>2 DEF TakeLevel
<1>4. /\ a = FilledBy(Depths(levels)[i - 1], q)
      /\ w[i].filled = FilledBy(Depths(levels)[i], q)
  BY <1>1, FilledIs
<1>5. a \in Nat /\ w[i].filled \in Nat
  BY <1>2 DEF Filled, Positive
<1>6. take \in Int
  <2>1. levels[i] \in Levels
    BY LenProperties
  <2>2. levels[i].volume * q.d \in Nat /\ q.n - a \in Int
    <3>1. levels[i].volume \in Nat /\ q.d \in Nat /\ q.n \in Nat
      BY <2>1 DEF Levels, Positive
    <3>2. QED
      BY <1>5, <3>1, ProductIsNat
  <2>3. QED
    BY <2>2 DEF Smaller
<1> HIDE DEF w, take, a, p
<1>7. take = w[i].filled - a
  BY <1>3, <1>5, <1>6
<1>8. QED
  BY <1>3, <1>4, <1>7 DEF w, p

\* What compute_vwap walks through is what the lots cost, one by one, for every
\* book that is deep enough (microstructure.py 26-41).
THEOREM WalkIsTotal ==
    ASSUME NEW levels \in Seq(Levels), NEW q \in Positive, Deep(levels, q)
    PROVE  Walk(levels, q).notional = Total(levels, q)
<1> DEFINE N == Len(levels)
           m == LotsOf(q)
           s == Sums(LotCosts(levels, q))
           D == Depths(levels)
           w == Walks(levels, q)
           F(j) == FilledBy(j, q)
           Holds(k) == w[k].notional = s[Smaller(D[k], m)]
           C == {k \in Nat : k <= N => Holds(k)}
<1>1. N \in Nat /\ m \in Nat \ {0} /\ m <= D[N]
  BY LenProperties, LotsOfBounds, LotCostsDef
<1>2. D \in [0..N -> Nat] /\ D[0] = 0 /\ \A k \in 1..N : D[k - 1] <= D[k]
  <2>1. D \in [0..N -> Nat] /\ D[0] = 0
    BY DepthsDef
  <2>2. ASSUME NEW k \in 1..N PROVE D[k - 1] <= D[k]
    <3>1. k - 1 \in 0..k /\ k \in 0..N
      BY <1>1
    <3>2. QED
      BY <3>1, DepthsGrow
  <2>3. QED
    BY <2>1, <2>2
<1>3. /\ w \in [0..N -> Filled(q)] /\ w[0] = [filled |-> 0, notional |-> 0]
      /\ \A k \in 1..N : w[k].notional = w[k - 1].notional
                                         + levels[k].price * (F(D[k]) - F(D[k - 1]))
  BY PositiveFraction, WalksDef, WalkStep
<1>4. \A k \in 0..N : w[k].filled = F(D[k])
  BY FilledIs
<1>5. \A j \in Nat : m <= j => F(j) = q.n
  BY FilledUp
<1>6. s \in [0..m -> Int] /\ s[0] = 0
  BY LotCostsDef, SumsDef
<1>7. ASSUME NEW k \in 1..N, NEW j \in Nat, D[k - 1] <= j, j <= D[k], j <= m
      PROVE  s[j] = s[D[k - 1]] + levels[k].price * (F(j) - F(D[k - 1]))
  BY <1>7, LotsOfLevel
<1>8. \A k \in 1..N : levels[k].price \in Nat
  <2> TAKE k \in 1..N
  <2>1. levels[k] \in Levels
    BY LenProperties
  <2>2. QED
    BY <2>1 DEF Levels
<1>9. \A k \in 0..N : F(D[k]) \in Nat
  <2> TAKE k \in 0..N
  <2>1. w[k].filled \in 0..q.n /\ q.n \in Nat
    BY <1>3 DEF Filled, Positive
  <2> HIDE DEF F, w, D
  <2>2. QED
    BY <1>4, <2>1
<1>10. Walk(levels, q).notional = w[N].notional /\ Total(levels, q) = s[m]
  BY LotCostsDef DEF Walk, Total, Sum
<1> HIDE DEF N, m, s, D, w, F
<1>11. 0 \in C
  <2>1. Smaller(D[0], m) = 0
    BY <1>1, <1>2 DEF Smaller
  <2>2. QED
    BY <1>3, <1>6, <2>1
<1>12. ASSUME NEW k \in C PROVE k + 1 \in C
  <2>1. k \in Nat
    OBVIOUS
  <2>2. ASSUME k + 1 <= N PROVE Holds(k + 1)
    <3> DEFINE low == D[k]
               high == D[k + 1]
               p == levels[k + 1].price
    <3>1. k + 1 \in 1..N /\ k \in 0..N /\ k + 1 \in 0..N /\ (k + 1) - 1 = k
      BY <1>1, <2>1, <2>2
    <3>2. low \in Nat /\ high \in Nat /\ low <= high /\ p \in Nat
      BY <1>2, <1>8, <3>1
    <3>3. w[k].notional = s[Smaller(low, m)]
      BY <2>1, <2>2, <3>1
    <3>4. w[k + 1].notional = w[k].notional + p * (F(high) - F(low))
      BY <1>3, <3>1
    <3>5. CASE m <= low
      <4>1. Smaller(low, m) = m /\ Smaller(high, m) = m
        BY <1>1, <3>2, <3>5 DEF Smaller
      <4>2. F(low) = q.n /\ F(high) = q.n /\ q.n \in Nat
        BY <1>1, <1>5, <3>2, <3>5 DEF Positive
      <4>3. p * (F(high) - F(low)) = 0
        BY <3>2, <4>2
      <4>4. s[m] \in Int
        BY <1>1, <1>6
      <4> HIDE DEF low, high, p
      <4>5. w[k + 1].notional = s[m]
        BY <3>3, <3>4, <4>1, <4>3, <4>4
      <4>6. QED
        BY <4>1, <4>5 DEF high
    <3>6. CASE low < m
      <4> DEFINE j == Smaller(high, m)
      <4>1. Smaller(low, m) = low /\ j \in Nat /\ low <= j /\ j <= high /\ j <= m
        BY <1>1, <3>2, <3>6 DEF Smaller
      <4>2. s[j] = s[low] + p * (F(j) - F(low))
        <5> HIDE DEF j
        <5>1. /\ D[(k + 1) - 1] = low /\ D[(k + 1) - 1] <= j /\ j <= D[k + 1]
          BY <3>1, <4>1
        <5>2. s[j] = s[D[(k + 1) - 1]] + p * (F(j) - F(D[(k + 1) - 1]))
          BY <1>7, <3>1, <4>1, <5>1
        <5>3. QED
          BY <5>1, <5>2
      <4>3. F(j) = F(high)
        <5>1. CASE high <= m
          <6>1. j = high
            BY <1>1, <3>2, <5>1 DEF Smaller
          <6> HIDE DEF j
          <6>2. QED
            BY <6>1
        <5>2. CASE m < high
          <6>1. j = m
            BY <1>1, <3>2, <5>2 DEF Smaller
          <6>2. m <= high
            BY <1>1, <3>2, <5>2
          <6> HIDE DEF j, high
          <6>3. F(m) = q.n /\ F(high) = q.n
            BY <1>1, <1>5, <3>2, <6>2
          <6>4. QED
            BY <6>1, <6>3
        <5>3. QED
          BY <1>1, <3>2, <5>1, <5>2
      <4> HIDE DEF low, high, p, j
      <4>4. w[k + 1].notional = s[j]
        BY <3>3, <3>4, <4>1, <4>2, <4>3
      <4>5. QED
        BY <4>4 DEF j, high
    <3>7. QED
      BY <1>1, <3>2, <3>5, <3>6
  <2> HIDE DEF Holds
  <2>3. QED
    BY <2>1, <2>2
<1>13. C = Nat
  <2> HIDE DEF C
  <2>1. C \subseteq Nat
    BY DEF C
  <2>2. QED
    BY <1>11, <1>12, <2>1, Induct
<1>14. w[N].notional = s[Smaller(D[N], m)]
  BY <1>1, <1>13
<1>15. Smaller(D[N], m) = m
  <2>1. D[N] \in Nat
    BY <1>1, <1>2
  <2>2. QED
    BY <1>1, <2>1 DEF Smaller
<1>16. QED
  BY <1>10, <1>14, <1>15

-----------------------------------------------------------------------------
(* Smaller quantities come cheaper.                                        *)

\* Two walks over n levels with prices p: after i of them the first has taken a[i]
\* for x[i], the second b[i] for y[i].  The first is never behind, and both have
\* taken the same in the end.
Race(n, p, a, x, b, y) ==
    /\ n \in Nat \ {0} /\ p \in [1..n -> Int]
    /\ a \in [0..n -> Int] /\ x \in [0..n -> Int]
    /\ b \in [0..n -> Int] /\ y \in [0..n -> Int]
    /\ a[0] = b[0] /\ x[0] = y[0]
    /\ \A i \in 1..n : /\ x[i] = x[i - 1] + p[i] * (a[i] - a[i - 1])
                       /\ y[i] = y[i - 1] + p[i] * (b[i] - b[i - 1])
    /\ \A i \in 0..n : b[i] <= a[i]
    /\ a[n] = b[n]

\* When prices rise, the first pays no more.
LEMMA EarlierIsCheaper ==
    ASSUME NEW n, NEW p, NEW a, NEW x, NEW b, NEW y, Race(n, p, a, x, b, y),
           \A i \in 2..n : p[i - 1] <= p[i]
    PROVE  x[n] <= y[n]
<1> USE DEF Race
<1> DEFINE Holds(i) == y[i] - x[i] >= p[i] * (b[i] - a[i])
           C == {k \in Nat : k + 1 <= n => Holds(k + 1)}
<1>1. 0 \in C
  <2> DEFINE a0 == a[0]
             b0 == b[0]
             a1 == a[1]
             b1 == b[1]
             x0 == x[0]
             y0 == y[0]
             p1 == p[1]
  <2>1. /\ a0 \in Int /\ b0 \in Int /\ a1 \in Int /\ b1 \in Int
        /\ x0 \in Int /\ y0 \in Int /\ p1 \in Int /\ a0 = b0 /\ x0 = y0
    OBVIOUS
  <2>2. x[1] = x0 + p1 * (a1 - a0) /\ y[1] = y0 + p1 * (b1 - b0)
    OBVIOUS
  <2> HIDE DEF a0, b0, a1, b1, x0, y0, p1
  <2>3. y[1] - x[1] = p1 * (b1 - a1) /\ p1 * (b1 - a1) \in Int
    BY <2>1, <2>2
  <2>4. y[1] - x[1] >= p1 * (b1 - a1)
    BY <2>3
  <2>5. QED
    BY <2>4 DEF a1, b1, p1
<1>2. ASSUME NEW k \in C PROVE k + 1 \in C
  <2>1. k \in Nat
    OBVIOUS
  <2>2. ASSUME k + 2 <= n PROVE Holds(k + 2)
    <3> DEFINE i == k + 1
               j == k + 2
               a0 == a[i]
               b0 == b[i]
               a1 == a[j]
               b1 == b[j]
               x0 == x[i]
               y0 == y[i]
               p0 == p[i]
               p1 == p[j]
    <3>1. i \in 1..n /\ i \in 0..n /\ j \in 2..n /\ j \in 1..n /\ j \in 0..n /\ j - 1 = i
      BY <2>1, <2>2
    <3>2. /\ a0 \in Int /\ b0 \in Int /\ a1 \in Int /\ b1 \in Int
          /\ x0 \in Int /\ y0 \in Int /\ p0 \in Int /\ p1 \in Int
      BY <3>1
    <3>3. x[j] = x0 + p1 * (a1 - a0) /\ y[j] = y0 + p1 * (b1 - b0)
      BY <3>1
    <3>4. p0 <= p1 /\ b0 <= a0
      BY <3>1
    <3>5. y0 - x0 >= p0 * (b0 - a0)
      BY <2>1, <2>2
    <3> HIDE DEF i, j, a0, b0, a1, b1, x0, y0, p0, p1
    <3>6. p0 * (b0 - a0) >= p1 * (b0 - a0)
      <4>1. p1 - p0 \in Nat /\ a0 - b0 \in Nat
        BY <3>2, <3>4
      <4>2. (p1 - p0) * (a0 - b0) \in Nat
        BY <4>1, ProductIsNat
      <4>3. (p1 - p0) * (a0 - b0) = p0 * (b0 - a0) - p1 * (b0 - a0)
        BY <3>2
      <4>4. p0 * (b0 - a0) \in Int /\ p1 * (b0 - a0) \in Int
        BY <3>2
      <4>5. QED
        BY <4>2, <4>3, <4>4
    <3>7. y[j] - x[j] = (y0 - x0) + p1 * (b1 - a1) - p1 * (b0 - a0)
      BY <3>2, <3>3
    <3> DEFINE u == p0 * (b0 - a0)
               v == p1 * (b0 - a0)
               z == p1 * (b1 - a1)
    <3>8. u \in Int /\ v \in Int /\ z \in Int
      BY <3>2
    <3>9. y[j] - x[j] = (y0 - x0) + z - v /\ y0 - x0 >= u /\ u >= v
      BY <3>5, <3>6, <3>7
    <3> DEFINE gap == y[j] - x[j]
               before == y0 - x0
    <3> HIDE DEF u, v, z, gap, before
    <3>10. gap = before + (z - v) /\ before \in Int /\ before >= u /\ u >= v
      BY <3>2, <3>9 DEF gap, before
    <3>11. gap >= z
      BY <3>8, <3>10
    <3>12. QED
      BY <3>11 DEF gap, z, p1, b1, a1, j
  <2>3. (k + 1) + 1 = k + 2
    BY <2>1
  <2> HIDE DEF Holds
  <2>4. QED
    BY <2>1, <2>2, <2>3
<1>3. C = Nat
  <2> HIDE DEF C
  <2>1. C \subseteq Nat
    BY DEF C
  <2>2. QED
    BY <1>1, <1>2, <2>1, Induct
<1>4. Holds(n)
  <2>1. n - 1 \in Nat /\ (n - 1) + 1 = n
    OBVIOUS
  <2>2. n - 1 \in C
    BY <1>3, <2>1
  <2> HIDE DEF Holds
  <2>3. Holds((n - 1) + 1)
    BY <2>1, <2>2
  <2>4. QED
    BY <2>1, <2>3
<1>5. p[n] * (b[n] - a[n]) = 0
  <2>1. p[n] \in Int /\ a[n] \in Int /\ b[n] = a[n]
    OBVIOUS
  <2>2. QED
    BY <2>1
<1>6. x[n] \in Int /\ y[n] \in Int
  OBVIOUS
<1>7. QED
  BY <1>4, <1>5, <1>6

AtMost(q, r) == q.n * r.d <= r.n * q.d

\* Of two fractions the smaller is never behind.
LEMMA NeverBehind ==
    ASSUME NEW q \in Positive, NEW r \in Positive, AtMost(q, r), NEW k \in Nat
    PROVE  FilledBy(k, r) * q.n <= FilledBy(k, q) * r.n
<1> DEFINE qn == q.n
           qd == q.d
           rn == r.n
           rd == r.d
           f == Smaller(k * rd, rn)
           g == Smaller(k * qd, qn)
<1>1. /\ qn \in Nat \ {0} /\ qd \in Nat \ {0} /\ rn \in Nat \ {0} /\ rd \in Nat \ {0}
      /\ qn * rd <= rn * qd
  BY DEF Positive, AtMost
<1> HIDE DEF qn, qd, rn, rd
<1>2. k * rd \in Nat /\ k * qd \in Nat
  BY <1>1, ProductIsNat
<1>3. f \in Nat /\ f <= k * rd /\ f <= rn
  <2> DEFINE x == k * rd
  <2>1. x \in Nat
    BY <1>2
  <2> HIDE DEF x
  <2>2. QED
    BY <1>1, <2>1 DEF Smaller, x
<1> HIDE DEF f
<1>4. f * qn <= g * rn
  <2>1. CASE k * qd <= qn
    <3>1. g = k * qd
      BY <2>1 DEF Smaller
    <3>2. f * qn <= (k * rd) * qn
      BY <1>1, <1>2, <1>3, ProductMonotonic
    <3>3. (qn * rd) * k <= (rn * qd) * k
      <4>1. qn * rd \in Nat /\ rn * qd \in Nat
        BY <1>1, ProductIsNat
      <4>2. QED
        BY <1>1, <4>1, ProductMonotonic
    <3>4. /\ (k * rd) * qn = (qn * rd) * k /\ (k * qd) * rn = (rn * qd) * k
          /\ (qn * rd) * k \in Nat /\ (rn * qd) * k \in Nat /\ f * qn \in Nat
      BY <1>1, <1>3
    <3> DEFINE u == f * qn
               v == (qn * rd) * k
               z == (rn * qd) * k
    <3>5. u \in Nat /\ v \in Nat /\ z \in Nat /\ u <= v /\ v <= z
      BY <3>2, <3>3, <3>4
    <3> HIDE DEF u, v, z
    <3>6. u <= z
      BY <3>5
    <3> HIDE DEF g
    <3>7. g * rn = z
      BY <3>1, <3>4 DEF z
    <3>8. QED
      BY <3>6, <3>7 DEF u
  <2>2. CASE ~(k * qd <= qn)
    <3>1. g = qn
      BY <2>2 DEF Smaller
    <3>2. f * qn <= rn * qn
      BY <1>1, <1>3, ProductMonotonic
    <3> HIDE DEF g
    <3>3. g * rn = rn * qn
      BY <1>1, <3>1
    <3>4. QED
      BY <3>2, <3>3
  <2>3. QED
    BY <2>1, <2>2
<1>5. QED
  BY <1>4 DEF FilledBy, f, qn, qd, rn, rd

\* A book that is deep for a quantity is deep for a smaller one.
LEMMA DeepForLess ==
    ASSUME NEW levels \in Seq(Levels), NEW q \in Positive, NEW r \in Positive,
           AtMost(q, r), Deep(levels, r)
    PROVE  Deep(levels, q)
<1> DEFINE k == Depths(levels)[Len(levels)]
           qn == q.n
           qd == q.d
           rn == r.n
           rd == r.d
<1>1. k \in Nat
  <2>1. Len(levels) \in 0..Len(levels)
    BY LenProperties
  <2>2. QED
    BY <2>1, DepthsDef
<1>2. /\ qn \in Nat \ {0} /\ qd \in Nat \ {0} /\ rn \in Nat \ {0} /\ rd \in Nat \ {0}
      /\ qn * rd <= rn * qd
  BY DEF Positive, AtMost
<1>3. rn <= k * rd
  BY DeepHasLots
<1> HIDE DEF k, qn, qd, rn, rd
<1>4. rn * qn <= (k * rd) * qn
  BY <1>1, <1>2, <1>3, ProductIsNat, ProductMonotonic
<1>5. (qn * rd) * k <= (rn * qd) * k
  <2>1. qn * rd \in Nat /\ rn * qd \in Nat
    BY <1>2, ProductIsNat
  <2>2. QED
    BY <1>1, <1>2, <2>1, ProductMonotonic
<1>6. (k * rd) * qn = (qn * rd) * k /\ (rn * qd) * k = (k * qd) * rn /\ rn * qn = qn * rn
  BY <1>1, <1>2
<1>7. qn * rn <= (k * qd) * rn
  <2> DEFINE u == rn * qn
             v == (qn * rd) * k
             z == (rn * qd) * k
  <2>1. u \in Nat /\ v \in Nat /\ z \in Nat /\ u <= v /\ v <= z
    BY <1>1, <1>2, <1>4, <1>5, <1>6
  <2> HIDE DEF u, v, z
  <2>2. u <= z
    BY <2>1
  <2>3. QED
    BY <1>6, <2>2 DEF u, z
<1>8. qn <= k * qd
  <2> SUFFICES ASSUME k * qd + 1 <= qn PROVE FALSE
    BY <1>1, <1>2
  <2>1. k * qd \in Nat /\ k * qd + 1 \in Nat
    BY <1>1, <1>2
  <2>2. (k * qd + 1) * rn <= qn * rn
    BY <1>2, <2>1, ProductMonotonic
  <2> DEFINE x == k * qd
  <2> HIDE DEF x
  <2>3. x \in Nat /\ (x + 1) * rn <= qn * rn /\ qn * rn <= x * rn
    BY <1>7, <2>1, <2>2 DEF x
  <2>4. (x + 1) * rn = x * rn + rn /\ x * rn \in Nat /\ qn * rn \in Nat
    BY <1>2, <2>3
  <2>5. QED
    BY <1>2, <2>3, <2>4
<1>9. QED
  BY <1>8, DeepHasLots DEF k, qn, qd

\* What a walk for q has filled and paid after each level, in units an m-th the size.
FilledIn(levels, q, m) == [i \in 0..Len(levels) |-> FilledBy(Depths(levels)[i], q) * m]
PaidIn(levels, q, m) == [i \in 0..Len(levels) |-> Walks(levels, q)[i].notional * m]

\* x is paid for a, level after level, at the level's price.
Pays(levels, a, x) ==
    /\ a \in [0..Len(levels) -> Int] /\ x \in [0..Len(levels) -> Int]
    /\ a[0] = 0 /\ x[0] = 0
    /\ \A i \in 1..Len(levels) : x[i] = x[i - 1] + levels[i].price * (a[i] - a[i - 1])

LEMMA ScaledWalk ==
    ASSUME NEW levels \in Seq(Levels), NEW q \in Positive, NEW m \in Nat
    PROVE  Pays(levels, FilledIn(levels, q, m), PaidIn(levels, q, m))
<1> DEFINE n == Len(levels)
           F(i) == FilledBy(Depths(levels)[i], q)
           w == Walks(levels, q)
           a == FilledIn(levels, q, m)
           x == PaidIn(levels, q, m)
<1>0. a = [i \in 0..n |-> F(i) * m] /\ x = [i \in 0..n |-> w[i].notional * m]
  BY DEF FilledIn, PaidIn
<1>1. n \in Nat
  BY LenProperties
<1>2. \A i \in 0..n : w[i].notional \in Nat /\ F(i) \in Nat
  <2> TAKE i \in 0..n
  <2>1. w[i] \in Filled(q)
    BY PositiveFraction, WalksDef
  <2>2. w[i].filled = F(i)
    BY FilledIs
  <2> HIDE DEF F, w
  <2>3. QED
    BY <2>1, <2>2 DEF Filled, Positive
<1>3. w[0].notional = 0 /\ F(0) = 0
  <2>1. w[0] = [filled |-> 0, notional |-> 0] /\ 0 \in 0..n
    BY <1>1, PositiveFraction, WalksDef
  <2>2. w[0].filled = F(0)
    BY <2>1, FilledIs
  <2> HIDE DEF F, w
  <2>3. QED
    BY <2>1, <2>2
<1>4. \A i \in 1..n : w[i].notional = w[i - 1].notional + levels[i].price * (F(i) - F(i - 1))
  BY WalkStep
<1>5. \A i \in 1..n : levels[i].price \in Nat
  <2> TAKE i \in 1..n
  <2>1. levels[i] \in Levels
    BY LenProperties
  <2>2. QED
    BY <2>1 DEF Levels
<1> HIDE DEF n, F, w, a, x
<1>6. a \in [0..n -> Int] /\ x \in [0..n -> Int]
  <2>1. \A i \in 0..n : F(i) * m \in Int /\ w[i].notional * m \in Int
    <3> TAKE i \in 0..n
    <3>1. F(i) \in Nat /\ w[i].notional \in Nat
      BY <1>2
    <3>2. F(i) * m \in Nat /\ w[i].notional * m \in Nat
      BY <3>1, ProductIsNat
    <3>3. QED
      BY <3>2
  <2>2. QED
    BY <1>0, <2>1
<1>7. a[0] = 0 /\ x[0] = 0
  BY <1>0, <1>1, <1>3
<1>8. ASSUME NEW i \in 1..n PROVE x[i] = x[i - 1] + levels[i].price * (a[i] - a[i - 1])
  <2> DEFINE u == w[i].notional
             v == w[i - 1].notional
             f == F(i)
             g == F(i - 1)
             p == levels[i].price
  <2>1. i \in 0..n /\ i - 1 \in 0..n
    BY <1>1
  <2>2. u \in Nat /\ v \in Nat /\ f \in Nat /\ g \in Nat /\ p \in Nat
    BY <1>2, <1>5, <2>1
  <2>3. u = v + p * (f - g)
    BY <1>4
  <2>4. x[i] = u * m /\ x[i - 1] = v * m /\ a[i] = f * m /\ a[i - 1] = g * m
    BY <1>0, <2>1
  <2> HIDE DEF u, v, f, g, p
  <2>5. u * m = v * m + p * (f * m - g * m)
    BY <2>2, <2>3
  <2>6. QED
    BY <2>4, <2>5 DEF p
<1>9. QED
  BY <1>6, <1>7, <1>8 DEF Pays, n, a, x

\* Over prices that fall, the walk that is never behind gets no less.
LEMMA EarlierIsDearer ==
    ASSUME NEW n, NEW p, NEW a, NEW x, NEW b, NEW y, Race(n, p, a, x, b, y),
           \A i \in 2..n : p[i - 1] >= p[i]
    PROVE  y[n] <= x[n]
<1> DEFINE u == [i \in 0..n |-> 0 - x[i]]
           v == [i \in 0..n |-> 0 - y[i]]
           m == [i \in 1..n |-> 0 - p[i]]
<1>0. /\ n \in Nat \ {0}
      /\ \A i \in 0..n : x[i] \in Int /\ y[i] \in Int /\ a[i] \in Int /\ b[i] \in Int
      /\ \A i \in 1..n : p[i] \in Int
  BY DEF Race
<1>1. u \in [0..n -> Int] /\ v \in [0..n -> Int] /\ m \in [1..n -> Int]
  BY <1>0
<1>2. /\ \A i \in 0..n : u[i] = 0 - x[i] /\ v[i] = 0 - y[i]
      /\ \A i \in 1..n : m[i] = 0 - p[i]
  BY <1>0
<1> HIDE DEF u, v, m
<1>3. u[0] = v[0]
  BY <1>0, <1>2 DEF Race
<1>4. \A i \in 2..n : m[i - 1] <= m[i]
  <2> TAKE i \in 2..n
  <2>1. i - 1 \in 1..n /\ i \in 1..n /\ p[i - 1] >= p[i]
    BY <1>0
  <2>2. QED
    BY <1>0, <1>2, <2>1
<1>5. ASSUME NEW i \in 1..n
      PROVE  /\ u[i] = u[i - 1] + m[i] * (a[i] - a[i - 1])
             /\ v[i] = v[i - 1] + m[i] * (b[i] - b[i - 1])
  <2> DEFINE j == i - 1
             q == p[i]
             c == a[i] - a[j]
             d == b[i] - b[j]
             xj == x[j]
             yj == y[j]
  <2>1. i \in 0..n /\ j \in 0..n /\ q \in Int /\ c \in Int /\ d \in Int /\ xj \in Int /\ yj \in Int
    BY <1>0
  <2>2. /\ x[i] = xj + q * c /\ y[i] = yj + q * d
        /\ u[i] = 0 - x[i] /\ v[i] = 0 - y[i] /\ u[j] = 0 - xj /\ v[j] = 0 - yj
        /\ m[i] = 0 - q
    BY <1>2, <2>1 DEF Race
  <2> HIDE DEF j, q, c, d, xj, yj
  <2>3. u[i] = u[j] + m[i] * c /\ v[i] = v[j] + m[i] * d
    BY <2>1, <2>2
  <2>4. QED
    BY <2>3 DEF c, d, j
<1>6. Race(n, m, a, u, b, v)
  BY <1>1, <1>3, <1>5 DEF Race
<1>7. u[n] <= v[n]
  BY <1>4, <1>6, EarlierIsCheaper
<1>8. u[n] = 0 - x[n] /\ v[n] = 0 - y[n] /\ x[n] \in Int /\ y[n] \in Int
  BY <1>0, <1>2
<1>9. QED
  BY <1>7, <1>8

Rising(levels) == \A i \in 2..Len(levels) : levels[i - 1].price <= levels[i].price
Falling(levels) == \A i \in 2..Len(levels) : levels[i - 1].price >= levels[i].price

\* Of sorted asks the smaller quantity has the lower VWAP, or the same, and of
\* sorted bids the higher (microstructure.py 26-41).
THEOREM Proportion ==
    ASSUME NEW levels \in Seq(Levels) \ {<<>>}, NEW q \in Positive, NEW r \in Positive,
           AtMost(q, r), Deep(levels, r)
    PROVE  /\ Rising(levels) => Walk(levels, q).notional * r.n <= Walk(levels, r).notional * q.n
           /\ Falling(levels) => Walk(levels, r).notional * q.n <= Walk(levels, q).notional * r.n
<1> DEFINE n == Len(levels)
           D == Depths(levels)
           a == FilledIn(levels, q, r.n)
           x == PaidIn(levels, q, r.n)
           b == FilledIn(levels, r, q.n)
           y == PaidIn(levels, r, q.n)
           p == [i \in 1..n |-> levels[i].price]
<1>0. /\ a = [i \in 0..n |-> FilledBy(D[i], q) * r.n]
      /\ b = [i \in 0..n |-> FilledBy(D[i], r) * q.n]
  BY DEF FilledIn
<1>1. n \in Nat \ {0} /\ levels \in Seq(Levels)
  BY LenProperties, EmptySeq
<1>2. q.n \in Nat /\ r.n \in Nat
  BY DEF Positive
<1>3. Pays(levels, a, x)
  BY <1>1, <1>2, ScaledWalk
<1>4. Pays(levels, b, y)
  BY <1>1, <1>2, ScaledWalk
<1>5. p \in [1..n -> Int] /\ \A i \in 1..n : p[i] = levels[i].price
  <2>1. ASSUME NEW i \in 1..n PROVE levels[i].price \in Int
    <3>1. levels[i] \in Levels
      BY <1>1
    <3>2. QED
      BY <3>1 DEF Levels
  <2>2. QED
    BY <2>1
<1>6. \A i \in 0..n : D[i] \in Nat
  <2>1. D \in [0..n -> Nat]
    BY <1>1, DepthsDef
  <2> HIDE DEF D
  <2>2. QED
    BY <2>1
<1>7. \A i \in 0..n : b[i] <= a[i]
  <2> TAKE i \in 0..n
  <2>1. FilledBy(D[i], r) * q.n <= FilledBy(D[i], q) * r.n
    BY <1>6, NeverBehind
  <2> HIDE DEF D, a, b, n
  <2>2. QED
    BY <1>0, <2>1
<1>8. a[n] = b[n]
  <2>1. Deep(levels, q)
    BY <1>1, DeepForLess
  <2>2. n \in 0..n
    BY <1>1
  <2>3. q.n <= D[n] * q.d /\ r.n <= D[n] * r.d
    BY <1>1, <2>1, DeepHasLots
  <2>4. D[n] * q.d \in Nat /\ D[n] * r.d \in Nat
    <3>1. D[n] \in Nat /\ q.d \in Nat /\ r.d \in Nat
      BY <1>6, <2>2 DEF Positive
    <3>2. QED
      BY <3>1, ProductIsNat
  <2>5. FilledBy(D[n], q) = q.n /\ FilledBy(D[n], r) = r.n
    <3> DEFINE s == D[n] * q.d
               t == D[n] * r.d
    <3> HIDE DEF s, t
    <3>1. Smaller(s, q.n) = q.n /\ Smaller(t, r.n) = r.n
      BY <1>2, <2>3, <2>4 DEF Smaller, s, t
    <3>2. QED
      BY <3>1 DEF FilledBy, s, t
  <2>6. a[n] = q.n * r.n /\ b[n] = r.n * q.n
    <3> HIDE DEF D, a, b, n
    <3>1. QED
      BY <1>0, <2>2, <2>5
  <2>7. QED
    BY <1>2, <2>6
<1>9. /\ x[n] = Walk(levels, q).notional * r.n
      /\ y[n] = Walk(levels, r).notional * q.n
  BY <1>1 DEF Walk, PaidIn
<1> HIDE DEF a, b, x, y, p
<1>10. \A i \in 1..n : /\ x[i] = x[i - 1] + p[i] * (a[i] - a[i - 1])
                       /\ y[i] = y[i - 1] + p[i] * (b[i] - b[i - 1])
  BY <1>3, <1>4, <1>5 DEF Pays
<1>11. Race(n, p, a, x, b, y)
  <2>1. /\ a \in [0..n -> Int] /\ x \in [0..n -> Int] /\ b \in [0..n -> Int] /\ y \in [0..n -> Int]
        /\ a[0] = 0 /\ x[0] = 0 /\ b[0] = 0 /\ y[0] = 0
    BY <1>3, <1>4, Zenon DEF Pays
  <2>2. a[0] = b[0] /\ x[0] = y[0]
    BY <2>1
  <2> HIDE DEF n
  <2>3. QED
    BY <1>1, <1>5, <1>7, <1>8, <1>10, <2>1, <2>2, Zenon DEF Race
<1>12. ASSUME Rising(levels) PROVE x[n] <= y[n]
  <2>1. \A i \in 2..n : p[i - 1] <= p[i]
    BY <1>1, <1>5, <1>12 DEF Rising
  <2> HIDE DEF n
  <2>2. QED
    BY <1>11, <2>1, EarlierIsCheaper
<1>13. ASSUME Falling(levels) PROVE y[n] <= x[n]
  <2>1. \A i \in 2..n : p[i - 1] >= p[i]
    BY <1>1, <1>5, <1>13 DEF Falling
  <2> HIDE DEF n
  <2>2. QED
    BY <1>11, <2>1, EarlierIsDearer
<1>14. QED
  BY <1>9, <1>12, <1>13

\* No ask is cheaper than the first.
LEMMA FirstIsBest ==
    ASSUME NEW levels \in Seq(Levels) \ {<<>>}, Rising(levels), NEW i \in 1..Len(levels)
    PROVE  levels[1].price <= levels[i].price
<1> DEFINE n == Len(levels)
           p(k) == levels[k].price
           C == {k \in Nat : k + 1 <= n => p(1) <= p(k + 1)}
<1>1. n \in Nat /\ \A k \in 1..n : p(k) \in Nat
  <2>1. n \in Nat /\ \A k \in 1..n : levels[k] \in Levels
    BY LenProperties
  <2> HIDE DEF n
  <2>2. QED
    BY <2>1 DEF Levels
<1>2. \A k \in 2..n : p(k - 1) <= p(k)
  BY DEF Rising
<1>3. i \in 1..n
  OBVIOUS
<1> HIDE DEF n, p
<1>4. 0 \in C
  BY <1>1
<1>5. ASSUME NEW k \in C PROVE k + 1 \in C
  <2>1. k \in Nat
    OBVIOUS
  <2>2. ASSUME (k + 1) + 1 <= n PROVE p(1) <= p((k + 1) + 1)
    <3>1. /\ (k + 1) + 1 \in 2..n /\ k + 1 \in 1..n /\ (k + 1) + 1 \in 1..n /\ 1 \in 1..n
          /\ ((k + 1) + 1) - 1 = k + 1
      BY <1>1, <2>1, <2>2
    <3>2. p(1) <= p(k + 1) /\ p(k + 1) <= p((k + 1) + 1)
      BY <1>2, <2>1, <2>2, <3>1
    <3>3. QED
      BY <1>1, <3>1, <3>2
  <2>3. QED
    BY <2>1, <2>2
<1>6. C = Nat
  <2> HIDE DEF C
  <2>1. C \subseteq Nat
    BY DEF C
  <2>2. QED
    BY <1>4, <1>5, <2>1, Induct
<1>7. i - 1 \in Nat /\ (i - 1) + 1 = i /\ i <= n
  BY <1>1, <1>3
<1>8. i - 1 \in C
  <2> HIDE DEF C
  <2>1. QED
    BY <1>6, <1>7
<1>9. QED
  BY <1>7, <1>8 DEF p

\* So no walk pays less than its best price.
LEMMA NoneBelowFirst ==
    ASSUME NEW levels \in Seq(Levels) \ {<<>>}, Rising(levels), NEW q \in Positive,
           Deep(levels, q)
    PROVE  levels[1].price * q.n <= Walk(levels, q).notional
<1> DEFINE n == Len(levels)
           w == Walks(levels, q)
           best == levels[1].price
           C == {k \in Nat : k <= n => best * w[k].filled <= w[k].notional}
<1>1. /\ levels \in Seq(Levels) /\ n \in Nat
      /\ \A k \in 1..n : levels[k].price \in Nat /\ levels[k].volume \in Nat
      /\ best \in Nat
  <2>1. levels \in Seq(Levels) /\ n \in Nat /\ 1 \in 1..n /\ \A k \in 1..n : levels[k] \in Levels
    BY LenProperties, EmptySeq
  <2> HIDE DEF n
  <2>2. \A k \in 1..n : levels[k].price \in Nat /\ levels[k].volume \in Nat
    BY <2>1 DEF Levels
  <2>3. QED
    BY <2>1, <2>2
<1>2. /\ w \in [0..n -> Filled(q)] /\ w[0] = [filled |-> 0, notional |-> 0]
      /\ \A k \in 1..n : w[k] = TakeLevel(levels[k], q, w[k - 1])
  BY <1>1, PositiveFraction, WalksDef
<1>3. \A k \in 1..n : best <= levels[k].price
  BY FirstIsBest
<1>4. Walk(levels, q) = w[n]
  BY DEF Walk
<1> HIDE DEF n, w, best
<1>5. 0 \in C
  BY <1>1, <1>2
<1>6. ASSUME NEW k \in C PROVE k + 1 \in C
  <2>1. k \in Nat
    OBVIOUS
  <2>2. ASSUME k + 1 <= n PROVE best * w[k + 1].filled <= w[k + 1].notional
    <3> DEFINE p == levels[k + 1].price
               x == levels[k + 1].volume * q.d
               f == w[k].filled
               m == w[k].notional
               take == Smaller(x, q.n - f)
    <3>1. k + 1 \in 1..n /\ k \in 0..n /\ (k + 1) - 1 = k
      BY <1>1, <2>1, <2>2
    <3>2. /\ w[k + 1].filled = f + take /\ w[k + 1].notional = m + p * take
      <4>1. w[k + 1] = TakeLevel(levels[k + 1], q, w[k])
        BY <1>2, <3>1
      <4>2. QED
        BY <4>1 DEF TakeLevel
    <3>3. f \in 0..q.n /\ m \in Nat /\ q.n \in Nat /\ q.d \in Nat
      <4>1. w[k] \in Filled(q)
        BY <1>2, <3>1
      <4>2. QED
        BY <4>1 DEF Filled, Positive
    <3>4. x \in Nat
      BY <1>1, <3>1, <3>3, ProductIsNat
    <3> HIDE DEF x
    <3>5. take \in Nat /\ f \in Nat
      BY <3>3, <3>4 DEF Smaller
    <3>6. p \in Nat /\ best <= p
      BY <1>1, <1>3, <3>1
    <3>7. best * f <= m
      <4>1. k <= n
        BY <1>1, <2>1, <2>2
      <4>2. QED
        BY <4>1
    <3> HIDE DEF p, f, m, take
    <3>8. best * take <= p * take
      BY <1>1, <3>5, <3>6, ProductMonotonic
    <3>9. best * (f + take) = best * f + best * take
      BY <1>1, <3>5
    <3> DEFINE a == best * f
               b == best * take
               c == p * take
    <3>10. a \in Nat /\ b \in Nat /\ c \in Nat
      BY <1>1, <3>5, <3>6, ProductIsNat
    <3>11. a <= m /\ b <= c /\ best * (f + take) = a + b
      BY <3>7, <3>8, <3>9
    <3> HIDE DEF a, b, c
    <3>12. a + b <= m + c
      BY <3>3, <3>10, <3>11 DEF m
    <3>13. QED
      BY <3>2, <3>11, <3>12 DEF c
  <2>3. QED
    BY <2>1, <2>2
<1>7. C = Nat
  <2> HIDE DEF C
  <2>1. C \subseteq Nat
    BY DEF C
  <2>2. QED
    BY <1>5, <1>6, <2>1, Induct
<1>8. best * w[n].filled <= w[n].notional
  BY <1>1, <1>7
<1>9. w[n].filled = q.n
  <2>1. w[n].filled \in 0..q.n /\ q.n \in Nat
    BY <1>1, <1>2 DEF Filled, Positive
  <2>2. w[n].filled >= q.n
    BY <1>4 DEF Deep
  <2>3. QED
    BY <2>1, <2>2
<1>10. QED
  BY <1>4, <1>8, <1>9 DEF best

-----------------------------------------------------------------------------
(* Quantities in lowest terms.                                             *)

\* A bounded set of naturals has a maximum: else its members pass any bound.
LEMMA MaxProperties ==
    ASSUME NEW n \in Nat, NEW S \in SUBSET (0..n), S # {}
    PROVE  Max(S) \in S /\ \A y \in S : y <= Max(S)
<1>1. \E x \in S : \A y \in S : x >= y
  <2> SUFFICES ASSUME \A x \in S : \E y \in S : ~(x >= y) PROVE FALSE
    OBVIOUS
  <2> DEFINE C == {k \in Nat : \E y \in S : y >= k}
  <2>1. 0 \in C
    <3>1. PICK y \in S : y \in 0..n
      OBVIOUS
    <3>2. y >= 0
      BY <3>1
    <3>3. QED
      BY <3>2
  <2>2. ASSUME NEW k \in C PROVE k + 1 \in C
    <3>1. PICK y \in S : y >= k
      OBVIOUS
    <3>2. PICK z \in S : ~(y >= z)
      OBVIOUS
    <3>3. z >= k + 1
      BY <3>1, <3>2
    <3>4. QED
      BY <3>3
  <2>3. C = Nat
    <3> HIDE DEF C
    <3>1. C \subseteq Nat
      BY DEF C
    <3>2. QED
      BY <2>1, <2>2, <3>1, Induct
  <2>4. n + 1 \in C
    BY <2>3
  <2>5. QED
    BY <2>4
<1>2. Max(S) \in S /\ \A y \in S : Max(S) >= y
  BY <1>1 DEF Max
<1>3. QED
  BY <1>2

LEMMA GcdDivides ==
    ASSUME NEW a \in Nat, NEW b \in Nat \ {0}
    PROVE  /\ Gcd(a, b) \in 1..b
           /\ a % Gcd(a, b) = 0 /\ b % Gcd(a, b) = 0
<1> DEFINE S == {d \in 1..b : a % d = 0 /\ b % d = 0}
<1>1. 1 \in S
  OBVIOUS
<1>2. S \in SUBSET (0..b) /\ S # {}
  BY <1>1
<1>3. Max(S) \in S
  <2> HIDE DEF S
  <2>1. QED
    BY <1>2, MaxProperties
<1>4. Gcd(a, b) = Max(S)
  BY DEF Gcd
<1> DEFINE g == Gcd(a, b)
<1>5. g \in S
  BY <1>3, <1>4
<1> HIDE DEF g
<1>6. g \in 1..b /\ a % g = 0 /\ b % g = 0
  BY <1>5
<1>7. QED
  BY <1>6 DEF g

LEMMA Divided ==
    ASSUME NEW a \in Nat \ {0}, NEW g \in Nat \ {0}, a % g = 0
    PROVE  a \div g \in Nat \ {0} /\ a = g * (a \div g)
<1>1. a = g * (a \div g) + (a % g)
  OBVIOUS
<1>2. a \div g \in Nat
  OBVIOUS
<1>3. QED
  BY <1>1, <1>2

LEMMA RatioType ==
    ASSUME NEW a \in Nat \ {0}, NEW b \in Nat \ {0}
    PROVE  Ratio(a, b) \in Positive
<1>1. Gcd(a, b) \in Nat \ {0} /\ a % Gcd(a, b) = 0 /\ b % Gcd(a, b) = 0
  BY GcdDivides
<1>2. a \div Gcd(a, b) \in Nat \ {0} /\ b \div Gcd(a, b) \in Nat \ {0}
  BY <1>1, Divided
<1>3. QED
  BY <1>2 DEF Ratio, Positive

LEMMA LotsType == ASSUME NEW n \in Nat \ {0} PROVE Lots(n) \in Positive
BY DEF Lots, Positive

LEMMA EstimatedType ==
    ASSUME NEW levels \in Seq(Levels) \ {<<>>}, NEW money \in Positive
    PROVE  Estimated(levels, money) \in Positive
<1>1. levels[1].price \in Nat \ {0}
  <2>1. levels[1] \in Levels
    BY LenProperties, EmptySeq
  <2>2. QED
    BY <2>1 DEF Levels
<1>2. money.n \in Nat \ {0} /\ money.d \in Nat \ {0}
  BY DEF Positive
<1>3. money.d * levels[1].price \in Nat \ {0}
  <2> DEFINE p == levels[1].price
             d == money.d
  <2>1. p \in Nat \ {0} /\ d \in Nat \ {0}
    BY <1>1, <1>2
  <2> HIDE DEF p, d
  <2>2. d * p \in Nat \ {0}
    BY <2>1
  <2>3. QED
    BY <2>2 DEF p, d
<1>4. QED
  BY <1>2, <1>3, RatioType DEF Estimated

LEMMA BoughtType ==
    ASSUME NEW levels \in Seq(Levels) \ {<<>>}, NEW money \in Positive,
           Deep(levels, Estimated(levels, money))
    PROVE  Bought(levels, money) \in Positive
<1> DEFINE q == Estimated(levels, money)
           w == Walk(levels, q).notional
<1>1. q \in Positive
  BY EstimatedType
<1>2. w \in Nat /\ q.n <= w
  <2>1. q \in Fractions
    BY <1>1 DEF Positive, Fractions
  <2> HIDE DEF q
  <2>2. Deep(levels, q)
    BY DEF q
  <2>3. QED
    BY <2>1, <2>2, WalkType
<1> HIDE DEF q, w
<1>3. money.n * q.n \in Nat \ {0} /\ money.d * w \in Nat \ {0}
  <2> DEFINE a == money.n
             b == money.d
             c == q.n
  <2>1. a \in Nat \ {0} /\ b \in Nat \ {0} /\ c \in Nat \ {0}
    BY <1>1 DEF Positive
  <2>2. c <= w
    BY <1>2
  <2> HIDE DEF a, b, c
  <2>3. a * c \in Nat \ {0} /\ b * w \in Nat \ {0}
    BY <1>2, <2>1, <2>2
  <2>4. QED
    BY <2>3 DEF a, b, c
<1>4. Bought(levels, money) = Ratio(money.n * q.n, money.d * w)
  BY DEF Bought, q, w
<1>5. QED
  BY <1>3, <1>4, RatioType

\* When the walks of a triangle find enough depth, its orders are for positive
\* quantities.
LEMMA QuantitiesType ==
    ASSUME NEW b \in [bridge : BridgeAsks, target : TargetAsks, back : TargetBids],
           TriangleDeep(b)
    PROVE  BridgeQty(b) \in Positive /\ TargetQty(b) \in Positive
<1>1. /\ b.bridge \in Seq(Levels) \ {<<>>} /\ b.target \in Seq(Levels) \ {<<>>}
      /\ b.back \in Seq(Levels) \ {<<>>}
  BY BooksAssumption
<1>2. Lots(Notional) \in Positive
  BY LotsType, QuantityAssumption
<1>3. Bridge(b) \in Positive
  BY <1>1, <1>2, BoughtType DEF Bridge, TriangleDeep
<1>4. Target(b) \in Positive
  BY <1>1, <1>3, BoughtType DEF Target, TriangleDeep
<1>5. BridgeQty(b) \in Positive
  <2>1. Bridge(b).n * TriangleKeeps \in Nat \ {0} /\ Bridge(b).d * 10 \in Nat \ {0}
    BY <1>3 DEF Positive, TriangleKeeps
  <2>2. QED
    BY <2>1, RatioType DEF BridgeQty
<1>6. TargetQty(b) \in Positive
  <2>1. /\ Target(b).n * Square(TriangleKeeps) \in Nat \ {0}
        /\ Target(b).d * 100 \in Nat \ {0}
    BY <1>4 DEF Positive, TriangleKeeps, Square
  <2>2. QED
    BY <2>1, RatioType DEF TargetQty
<1>7. QED
  BY <1>5, <1>6

-----------------------------------------------------------------------------
(* What is bought, and what of it is ordered.                              *)

\* A factor that is positive may be dropped on both sides.
LEMMA Cancel ==
    ASSUME NEW x \in Nat, NEW y \in Nat, NEW c \in Nat \ {0}
    PROVE  /\ x * c <= y * c => x <= y
           /\ x * c < y * c => x < y
           /\ x * c = y * c => x = y
<1>1. x * c \in Nat /\ y * c \in Nat
  BY ProductIsNat
<1>2. ASSUME y < x PROVE y * c + c <= x * c
  <2>1. (y + 1) * c <= x * c
    BY <1>2, ProductMonotonic
  <2>2. (y + 1) * c = y * c + c
    OBVIOUS
  <2>3. QED
    BY <2>1, <2>2
<1>3. ASSUME x < y PROVE x * c + c <= y * c
  <2>1. (x + 1) * c <= y * c
    BY <1>3, ProductMonotonic
  <2>2. (x + 1) * c = x * c + c
    OBVIOUS
  <2>3. QED
    BY <2>1, <2>2
<1> DEFINE u == x * c
           v == y * c
<1> HIDE DEF u, v
<1>4. u \in Nat /\ v \in Nat /\ (y < x => v + c <= u) /\ (x < y => u + c <= v) /\ (x = y => u = v)
  BY <1>1, <1>2, <1>3 DEF u, v
<1>5. (u <= v => x <= y) /\ (u < v => x < y) /\ (u = v => x = y)
  BY <1>4
<1>6. QED
  BY <1>5 DEF u, v

\* A fraction in lowest terms is the same fraction.
LEMMA RatioCross ==
    ASSUME NEW a \in Nat \ {0}, NEW b \in Nat \ {0}
    PROVE  Ratio(a, b).n * b = a * Ratio(a, b).d
<1> DEFINE g == Gcd(a, b)
           x == a \div g
           y == b \div g
<1>1. g \in Nat \ {0} /\ a % g = 0 /\ b % g = 0
  BY GcdDivides
<1> HIDE DEF g
<1>2. x \in Nat \ {0} /\ y \in Nat \ {0} /\ a = g * x /\ b = g * y
  BY <1>1, Divided
<1> HIDE DEF x, y
<1>3. x * (g * y) = (g * x) * y
  BY <1>1, <1>2
<1>4. x * b = a * y
  BY <1>2, <1>3, Zenon
<1>5. Ratio(a, b).n = x /\ Ratio(a, b).d = y
  BY DEF Ratio, x, y, g
<1>6. QED
  BY <1>4, <1>5

\* Being at most another fraction is transitive.
LEMMA AtMostTransitive ==
    ASSUME NEW q \in Positive, NEW r \in Positive, NEW s \in Positive,
           AtMost(q, r), AtMost(r, s)
    PROVE  AtMost(q, s)
<1> DEFINE a == q.n
           b == q.d
           c == r.n
           d == r.d
           e == s.n
           f == s.d
<1>1. /\ a \in Nat /\ b \in Nat /\ c \in Nat /\ d \in Nat \ {0} /\ e \in Nat /\ f \in Nat
      /\ a * d <= c * b /\ c * f <= e * d
  BY DEF AtMost, Positive
<1> HIDE DEF a, b, c, d, e, f
<1>2. (a * d) * f <= (c * b) * f /\ (c * f) * b <= (e * d) * b
  BY <1>1, ProductIsNat, ProductMonotonic
<1>3. (c * b) * f = (c * f) * b
  BY <1>1
<1> DEFINE u == (a * d) * f
           v == (c * b) * f
           w == (e * d) * b
<1>4. u \in Nat /\ v \in Nat /\ w \in Nat /\ u <= v /\ v <= w
  BY <1>1, <1>2, <1>3, ProductIsNat
<1>5. u = (a * f) * d /\ w = (e * b) * d
  BY <1>1
<1> HIDE DEF u, v, w
<1>6. u <= w
  BY <1>4
<1>7. a * f \in Nat /\ e * b \in Nat /\ (a * f) * d <= (e * b) * d
  BY <1>1, <1>5, <1>6, ProductIsNat
<1>8. a * f <= e * b
  BY <1>1, <1>7, Cancel
<1>9. QED
  BY <1>8 DEF AtMost, a, b, e, f

\* What is bought at the VWAP is no more than what the best price promised.
LEMMA BoughtIsLess ==
    ASSUME NEW levels \in Seq(Levels) \ {<<>>}, Rising(levels), NEW money \in Positive,
           Deep(levels, Estimated(levels, money))
    PROVE  AtMost(Bought(levels, money), Estimated(levels, money))
<1> DEFINE e == Estimated(levels, money)
           t == Bought(levels, money)
           en == e.n
           ed == e.d
           tn == t.n
           td == t.d
           mn == money.n
           md == money.d
           p == levels[1].price
           w == Walk(levels, e).notional
<1>1. e \in Positive /\ t \in Positive
  BY EstimatedType, BoughtType
<1>2. /\ en \in Nat \ {0} /\ ed \in Nat \ {0} /\ tn \in Nat \ {0} /\ td \in Nat \ {0}
      /\ mn \in Nat \ {0} /\ md \in Nat \ {0}
  <2> HIDE DEF e, t
  <2>1. QED
    BY <1>1 DEF Positive
<1>3. p \in Nat \ {0}
  <2>1. levels[1] \in Levels
    BY LenProperties, EmptySeq
  <2>2. QED
    BY <2>1 DEF Levels
<1>4. w \in Nat /\ p * en <= w
  <2> HIDE DEF e
  <2>1. Deep(levels, e)
    BY DEF e
  <2>2. w \in Nat
    BY <1>1, PositiveFraction, WalkType
  <2>3. QED
    BY <1>1, <2>1, <2>2, NoneBelowFirst
<1>5. e = Ratio(mn, md * p) /\ t = Ratio(mn * en, md * w)
  BY DEF Estimated, Bought
<1> HIDE DEF e, t, en, ed, tn, td, mn, md, p, w
<1>6. md * p \in Nat \ {0} /\ mn * en \in Nat \ {0} /\ p * en \in Nat \ {0}
  BY <1>2, <1>3
<1>7. w \in Nat \ {0}
  BY <1>4, <1>6
<1>8. md * w \in Nat \ {0}
  BY <1>2, <1>7
<1>9. en * (md * p) = mn * ed /\ tn * (md * w) = (mn * en) * td
  <2>1. e.n * (md * p) = mn * e.d /\ t.n * (md * w) = (mn * en) * t.d
    BY <1>2, <1>5, <1>6, <1>8, RatioCross
  <2>2. QED
    BY <2>1 DEF en, ed, tn, td
<1>10. (tn * ed) * (md * w) <= (en * td) * (md * w)
  <2> DEFINE k == en * (td * md)
  <2>1. k \in Nat
    BY <1>2
  <2>2. (p * en) * k <= w * k
    BY <1>4, <1>6, <2>1, ProductMonotonic
  <2>3. (tn * ed) * (md * w) = (tn * (md * w)) * ed
    BY <1>2, <1>7
  <2>4. (tn * (md * w)) * ed = ((mn * en) * td) * ed
    BY <1>9
  <2>5. ((mn * en) * td) * ed = (mn * ed) * (en * td)
    BY <1>2
  <2>6. (mn * ed) * (en * td) = (en * (md * p)) * (en * td)
    BY <1>9
  <2>7. (en * (md * p)) * (en * td) = (p * en) * k
    BY <1>2, <1>3
  <2>8. w * k = (en * td) * (md * w)
    BY <1>2, <1>7
  <2> HIDE DEF k
  <2>9. (tn * ed) * (md * w) = (p * en) * k
    BY <2>3, <2>4, <2>5, <2>6, <2>7, Zenon
  <2>10. QED
    BY <2>2, <2>8, <2>9
<1>11. tn * ed <= en * td
  BY <1>2, <1>8, <1>10, ProductIsNat, Cancel
<1>12. QED
  BY <1>11 DEF AtMost, e, t, en, ed, tn, td

\* r is k l-ths of q.
Part(r, k, l, q) == r.n * (q.d * l) = (q.n * k) * r.d

LEMMA PartIsLess ==
    ASSUME NEW q \in Positive, NEW r \in Positive, NEW k \in Nat \ {0}, NEW l \in Nat \ {0},
           k <= l, Part(r, k, l, q)
    PROVE  AtMost(r, q)
<1> DEFINE rn == r.n
           rd == r.d
           qn == q.n
           qd == q.d
<1>1. /\ rn \in Nat \ {0} /\ rd \in Nat \ {0} /\ qn \in Nat \ {0} /\ qd \in Nat \ {0}
      /\ rn * (qd * l) = (qn * k) * rd
  BY DEF Positive, Part
<1> HIDE DEF rn, rd, qn, qd
<1>2. k * (qn * rd) <= l * (qn * rd)
  BY <1>1, ProductIsNat, ProductMonotonic
<1>3. (rn * qd) * l = rn * (qd * l) /\ (qn * k) * rd = k * (qn * rd)
  BY <1>1
<1>4. l * (qn * rd) = (qn * rd) * l
  BY <1>1
<1>5. (rn * qd) * l = k * (qn * rd)
  BY <1>1, <1>3, Zenon
<1>6. (rn * qd) * l <= (qn * rd) * l
  BY <1>2, <1>4, <1>5
<1>7. rn * qd <= qn * rd
  BY <1>1, <1>6, ProductIsNat, Cancel
<1>8. QED
  BY <1>7 DEF AtMost, rn, rd, qn, qd

\* A part of what an amount of money buys at the VWAP, such as what is left of it
\* after fees, costs no more than that part of the money: a triangle that orders
\* less than it estimated at the best price pays no more than it reckoned with
\* (runner.py 307-316, alpha.py 111-112).
THEOREM PartIsPaid ==
    ASSUME NEW levels \in Seq(Levels) \ {<<>>}, Rising(levels), NEW money \in Positive,
           Deep(levels, Estimated(levels, money)), NEW r \in Positive,
           NEW k \in Nat \ {0}, NEW l \in Nat \ {0}, k <= l,
           Part(r, k, l, Bought(levels, money))
    PROVE  /\ Deep(levels, r)
           /\ Walk(levels, r).notional * (money.d * l) <= (money.n * k) * r.d
<1> DEFINE e == Estimated(levels, money)
           t == Bought(levels, money)
           en == e.n
           tn == t.n
           td == t.d
           rn == r.n
           rd == r.d
           mn == money.n
           md == money.d
           w == Walk(levels, e).notional
           v == Walk(levels, r).notional
<1>1. e \in Positive /\ t \in Positive
  BY EstimatedType, BoughtType
<1>2. /\ en \in Nat \ {0} /\ tn \in Nat \ {0} /\ td \in Nat \ {0}
      /\ mn \in Nat \ {0} /\ md \in Nat \ {0} /\ rn \in Nat \ {0} /\ rd \in Nat \ {0}
  <2> HIDE DEF e, t
  <2>1. QED
    BY <1>1 DEF Positive
<1>3. AtMost(r, e)
  <2>1. AtMost(t, e)
    BY BoughtIsLess
  <2>2. Part(r, k, l, t)
    OBVIOUS
  <2> HIDE DEF e, t
  <2>3. AtMost(r, t)
    BY <1>1, <2>2, PartIsLess
  <2>4. QED
    BY <1>1, <2>1, <2>3, AtMostTransitive
<1>4. w \in Nat \ {0} /\ v \in Nat /\ Deep(levels, r) /\ v * en <= w * rn
  <2> HIDE DEF e
  <2>1. Deep(levels, e)
    BY DEF e
  <2>2. w \in Nat /\ v \in Nat /\ e.n <= w
    BY <1>1, <2>1, PositiveFraction, WalkType
  <2>3. Deep(levels, r)
    BY <1>1, <1>3, <2>1, DeepForLess
  <2>4. v * en <= w * rn
    BY <1>1, <1>3, <2>1, Proportion
  <2>5. QED
    BY <1>2, <2>2, <2>3, <2>4
<1>5. t = Ratio(mn * en, md * w)
  BY DEF Bought
<1>6. rn * (td * l) = (tn * k) * rd
  BY DEF Part
<1> HIDE DEF e, t, en, tn, td, rn, rd, mn, md, w, v
<1>7. tn * (md * w) = (mn * en) * td
  <2>1. mn * en \in Nat \ {0} /\ md * w \in Nat \ {0}
    BY <1>2, <1>4
  <2>2. t.n * (md * w) = (mn * en) * t.d
    BY <1>5, <2>1, RatioCross
  <2>3. QED
    BY <2>2 DEF tn, td
<1>8. (v * (md * l)) * (en * td) <= ((mn * k) * rd) * (en * td)
  <2> DEFINE c == md * (l * td)
  <2>1. c \in Nat /\ v * en \in Nat /\ w * rn \in Nat
    BY <1>2, <1>4
  <2>2. (v * en) * c <= (w * rn) * c
    BY <1>4, <2>1, ProductMonotonic
  <2>3. (v * (md * l)) * (en * td) = (v * en) * c
    BY <1>2, <1>4
  <2>4. (w * rn) * c = (rn * (td * l)) * (md * w)
    BY <1>2, <1>4
  <2>5. (rn * (td * l)) * (md * w) = ((tn * k) * rd) * (md * w)
    BY <1>6
  <2>6. ((tn * k) * rd) * (md * w) = (tn * (md * w)) * (k * rd)
    BY <1>2, <1>4
  <2>7. (tn * (md * w)) * (k * rd) = ((mn * en) * td) * (k * rd)
    BY <1>7
  <2>8. ((mn * en) * td) * (k * rd) = ((mn * k) * rd) * (en * td)
    BY <1>2
  <2> HIDE DEF c
  <2>9. (w * rn) * c = ((mn * k) * rd) * (en * td)
    BY <2>4, <2>5, <2>6, <2>7, <2>8, Zenon
  <2>10. QED
    BY <2>2, <2>3, <2>9
<1>9. v * (md * l) <= (mn * k) * rd
  <2>1. v * (md * l) \in Nat /\ (mn * k) * rd \in Nat /\ en * td \in Nat \ {0}
    BY <1>2, <1>4
  <2>2. QED
    BY <1>8, <2>1, Cancel
<1>10. QED
  BY <1>4, <1>9 DEF v, md, mn, rd

-----------------------------------------------------------------------------
(* What is approved pays.                                                  *)

LEMMA BooksSorted ==
    /\ \A asks \in AskBooks \cup BridgeAsks \cup TargetAsks :
          asks \in Seq(Levels) \ {<<>>} /\ Rising(asks)
    /\ \A bids \in BidBooks \cup TargetBids :
          bids \in Seq(Levels) \ {<<>>} /\ Falling(bids)
BY BooksAssumption DEF Rising, Falling

LEMMA PairEarns ==
    ASSUME NEW asks \in AskBooks, NEW bids \in BidBooks,
           Deep(asks, Lots(Quantity)), Deep(bids, Lots(Quantity)),
           AlphaExceeds(asks, bids, MinAlpha)
    PROVE  PairPays([asks |-> asks, bids |-> bids])
<1> DEFINE q == Lots(Quantity)
           order == [asks |-> asks, bids |-> bids]
           c == Walk(asks, q).notional
           e == Walk(bids, q).notional
<1>1. q \in Positive
  BY LotsType, QuantityAssumption
<1>2. asks \in Seq(Levels) /\ bids \in Seq(Levels)
  BY BooksSorted
<1>3. Deep(asks, q) /\ Deep(bids, q)
  OBVIOUS
<1>4. e * (1000 - SellFee) * 2000 > c * (1000 + BuyFee) * (2000 + Slippage + MinAlpha)
  BY DEF AlphaExceeds
<1> HIDE DEF q
<1>5. c = Total(asks, q) /\ e = Total(bids, q)
  BY <1>1, <1>2, <1>3, WalkIsTotal
<1>6. c \in Nat /\ e \in Nat
  BY <1>1, <1>2, PositiveFraction, WalkType
<1>7. order.asks = asks /\ order.bids = bids
  OBVIOUS
<1> HIDE DEF c, e, order
<1>8. (e * (1000 - SellFee) - c * (1000 + BuyFee)) * 2000
          > c * (1000 + BuyFee) * (Slippage + MinAlpha)
  <2> DEFINE y == e * (1000 - SellFee)
             z == c * (1000 + BuyFee)
  <2>1. y \in Nat /\ z \in Nat
    <3>1. 1000 - SellFee \in Nat /\ 1000 + BuyFee \in Nat
      BY FeeAssumption
    <3>2. QED
      BY <1>6, <3>1, ProductIsNat
  <2> HIDE DEF y, z
  <2>2. y * 2000 > z * 2004
    BY <1>4, <2>1 DEF y, z, Slippage, MinAlpha
  <2>3. (y - z) * 2000 > z * 4
    BY <2>1, <2>2
  <2>4. QED
    BY <2>3 DEF y, z, Slippage, MinAlpha
<1>9. PairPays(order)
  BY <1>5, <1>7, <1>8 DEF PairPays, q
<1>10. QED
  BY <1>9 DEF order

LEMMA TriangleEarns ==
    ASSUME NEW b \in [bridge : BridgeAsks, target : TargetAsks, back : TargetBids],
           TriangleDeep(b), TriangleAlphaExceeds(b, MinAlpha)
    PROVE  TrianglePays([books |-> b, bridgeQty |-> BridgeQty(b), targetQty |-> TargetQty(b)])
<1> DEFINE order == [books |-> b, bridgeQty |-> BridgeQty(b), targetQty |-> TargetQty(b)]
           money == Lots(Notional)
           bq == Bridge(b)
           t == Target(b)
           q1 == BridgeQty(b)
           q2 == TargetQty(b)
           N == Notional
           u == Walk(b.bridge, q1).notional
           v == Walk(b.target, q2).notional
           w == Walk(b.back, q2).notional
           wt == Walk(b.back, t).notional
           tau == Square(TriangleKeeps)
<1>1. /\ b.bridge \in Seq(Levels) \ {<<>>} /\ Rising(b.bridge)
      /\ b.target \in Seq(Levels) \ {<<>>} /\ Rising(b.target)
      /\ b.back \in Seq(Levels) \ {<<>>} /\ Falling(b.back)
  BY BooksSorted
<1>2. money \in Positive /\ N \in Nat \ {0} /\ money.n = N /\ money.d = 1
  BY LotsType, QuantityAssumption DEF Lots
<1>3. bq \in Positive
  BY <1>1, <1>2, BoughtType DEF Bridge, TriangleDeep
<1>4. t \in Positive
  BY <1>1, <1>3, BoughtType DEF Target, TriangleDeep
<1>5. q1 \in Positive /\ q2 \in Positive
  BY QuantitiesType
<1>6. tau = 81
  BY DEF Square, TriangleKeeps
<1>7. Part(q1, TriangleKeeps, 10, bq)
  <2>1. q1 = Ratio(bq.n * TriangleKeeps, bq.d * 10)
    BY DEF BridgeQty
  <2> HIDE DEF bq, q1
  <2>2. bq.n * TriangleKeeps \in Nat \ {0} /\ bq.d * 10 \in Nat \ {0}
    BY <1>3 DEF Positive, TriangleKeeps
  <2>3. QED
    BY <2>1, <2>2, RatioCross DEF Part
<1>8. Part(q2, tau, 100, t)
  <2>1. q2 = Ratio(t.n * tau, t.d * 100)
    BY DEF TargetQty
  <2> HIDE DEF t, q2, tau
  <2>2. t.n * tau \in Nat \ {0} /\ t.d * 100 \in Nat \ {0}
    BY <1>4, <1>6 DEF Positive
  <2>3. QED
    BY <2>1, <2>2, RatioCross DEF Part
<1>9. Deep(b.bridge, q1) /\ u * (money.d * 10) <= (money.n * TriangleKeeps) * q1.d
  <2>1. Deep(b.bridge, Estimated(b.bridge, money)) /\ bq = Bought(b.bridge, money)
    BY DEF TriangleDeep, Bridge
  <2>2. TriangleKeeps \in Nat \ {0} /\ TriangleKeeps <= 10
    BY DEF TriangleKeeps
  <2> HIDE DEF money, bq, q1
  <2>3. QED
    BY <1>1, <1>2, <1>5, <1>7, <2>1, <2>2, PartIsPaid
<1>10. Deep(b.target, q2) /\ v * (bq.d * 100) <= (bq.n * tau) * q2.d
  <2>1. Deep(b.target, Estimated(b.target, bq)) /\ t = Bought(b.target, bq)
    BY DEF TriangleDeep, Target
  <2> HIDE DEF bq, t, q2, tau
  <2>2. tau \in Nat \ {0} /\ tau <= 100
    BY <1>6
  <2>3. QED
    BY <1>1, <1>3, <1>5, <1>8, <2>1, <2>2, PartIsPaid
<1>11. Deep(b.back, q2) /\ wt * q2.n <= w * t.n
  <2>1. Deep(b.back, t)
    BY DEF TriangleDeep
  <2> HIDE DEF t, q2, tau
  <2>2. tau \in Nat \ {0} /\ tau <= 100
    BY <1>6
  <2>3. AtMost(q2, t)
    BY <1>4, <1>5, <1>8, <2>2, PartIsLess
  <2>4. QED
    BY <1>1, <1>4, <1>5, <2>1, <2>3, DeepForLess, Proportion
<1>12. wt * 729 * 2000 > N * t.d * 1000 * 2003
  <2>1. (wt * Cube(TriangleKeeps) - N * t.d * Cube(10)) * 2000 > (N * t.d * Cube(10)) * MinAlpha
    BY DEF TriangleAlphaExceeds
  <2>2. wt \in Nat /\ N * t.d \in Nat
    <3>1. t.d \in Nat
      BY <1>4 DEF Positive
    <3>2. wt \in Nat
      BY <1>1, <1>4, PositiveFraction, WalkType
    <3>3. QED
      BY <1>2, <3>1, <3>2, ProductIsNat
  <2> DEFINE x == N * t.d
  <2> HIDE DEF wt, x
  <2>3. (wt * 729 - x * 1000) * 2000 > (x * 1000) * 3
    BY <2>1 DEF Cube, TriangleKeeps, MinAlpha, x
  <2>4. wt * 729 * 2000 > x * 1000 * 2003
    BY <2>2, <2>3 DEF x
  <2>5. QED
    BY <2>4 DEF x
<1> DEFINE bn == bq.n
           bd == bq.d
           tn == t.n
           td == t.d
           n1 == q1.n
           d1 == q1.d
           n2 == q2.n
           d2 == q2.d
<1> HIDE DEF bq, t, q1, q2
<1>13. /\ bn \in Nat \ {0} /\ bd \in Nat \ {0} /\ tn \in Nat \ {0} /\ td \in Nat \ {0}
       /\ n1 \in Nat \ {0} /\ d1 \in Nat \ {0} /\ n2 \in Nat \ {0} /\ d2 \in Nat \ {0}
  BY <1>3, <1>4, <1>5 DEF Positive
<1>14. /\ u \in Nat /\ u = Total(b.bridge, q1)
       /\ v \in Nat /\ v = Total(b.target, q2)
       /\ w \in Nat /\ w = Total(b.back, q2)
       /\ wt \in Nat
  BY <1>1, <1>4, <1>5, <1>9, <1>10, <1>11, PositiveFraction, WalkType, WalkIsTotal
<1>15. n1 * (bd * 10) = (bn * 9) * d1 /\ n2 * (td * 100) = (tn * 81) * d2
  BY <1>6, <1>7, <1>8 DEF Part, TriangleKeeps
<1>16. u * 10 <= (N * 9) * d1 /\ v * (bd * 100) <= (bn * 81) * d2 /\ wt * n2 <= w * tn
  BY <1>2, <1>6, <1>9, <1>10, <1>11 DEF TriangleKeeps
<1>17. order.books = b /\ order.bridgeQty = q1 /\ order.targetQty = q2
  BY DEF q1, q2
<1> HIDE DEF order, u, v, w, wt, bn, bd, tn, td, n1, d1, n2, d2
<1>18. u <= N * d1
  <2>1. N * d1 \in Nat /\ (N * 9) * d1 = 9 * (N * d1)
    BY <1>2, <1>13
  <2>2. QED
    BY <1>14, <1>16, <2>1
<1>19. v * d1 <= n1 * d2
  <2> DEFINE x == (bn * d2) * d1
  <2>1. x \in Nat /\ (v * d1) * bd \in Nat /\ (n1 * d2) * bd \in Nat
    BY <1>13, <1>14
  <2>2. 100 * ((v * d1) * bd) <= 81 * x
    <3>1. (v * (bd * 100)) * d1 <= ((bn * 81) * d2) * d1
      BY <1>13, <1>14, <1>16, ProductIsNat, ProductMonotonic
    <3>2. (v * (bd * 100)) * d1 = 100 * ((v * d1) * bd) /\ ((bn * 81) * d2) * d1 = 81 * x
      BY <1>13, <1>14
    <3>3. QED
      BY <3>1, <3>2
  <2>3. 10 * ((n1 * d2) * bd) = 9 * x
    <3>1. (n1 * (bd * 10)) * d2 = ((bn * 9) * d1) * d2
      BY <1>15
    <3>2. (n1 * (bd * 10)) * d2 = 10 * ((n1 * d2) * bd) /\ ((bn * 9) * d1) * d2 = 9 * x
      BY <1>13
    <3>3. QED
      BY <3>1, <3>2
  <2> DEFINE y == (v * d1) * bd
             z == (n1 * d2) * bd
  <2> HIDE DEF x, y, z
  <2>4. x \in Nat /\ y \in Nat /\ z \in Nat /\ 100 * y <= 81 * x /\ 10 * z = 9 * x
    BY <2>1, <2>2, <2>3 DEF y, z
  <2>5. y <= z
    BY <2>4
  <2>6. v * d1 \in Nat /\ n1 * d2 \in Nat /\ (v * d1) * bd <= (n1 * d2) * bd
    BY <1>13, <1>14, <2>5, ProductIsNat DEF y, z
  <2>7. QED
    BY <1>13, <2>6, Cancel
<1>20. w * 9 * 2000 > N * d2 * 10 * 2003
  <2> DEFINE x == wt * d2
             y == w * td
             z == N * d2
  <2>1. x \in Nat /\ y \in Nat /\ z \in Nat
    BY <1>2, <1>13, <1>14, ProductIsNat
  <2>2. 81 * x <= 100 * y
    <3>1. (wt * n2) * (td * 100) <= (w * tn) * (td * 100)
      BY <1>13, <1>14, <1>16, ProductIsNat, ProductMonotonic
    <3>2. (wt * n2) * (td * 100) = wt * (n2 * (td * 100))
      BY <1>13, <1>14
    <3>3. wt * (n2 * (td * 100)) = wt * ((tn * 81) * d2)
      BY <1>15
    <3>4. wt * ((tn * 81) * d2) = (81 * x) * tn
      BY <1>13, <1>14
    <3>5. (w * tn) * (td * 100) = (100 * y) * tn
      BY <1>13, <1>14
    <3>6. (wt * n2) * (td * 100) = (81 * x) * tn
      BY <3>2, <3>3, <3>4, Zenon
    <3> HIDE DEF x, y
    <3>7. (81 * x) * tn <= (100 * y) * tn
      BY <3>1, <3>5, <3>6
    <3>8. 81 * x \in Nat /\ 100 * y \in Nat
      BY <2>1
    <3>9. QED
      BY <1>13, <3>7, <3>8, Cancel
  <2>3. 1458000 * x > (2003000 * z) * td
    <3>1. N * td \in Nat /\ wt * 1458000 > (N * td) * 2003000
      <4> DEFINE s == N * td
      <4>1. s \in Nat
        BY <1>2, <1>13, ProductIsNat
      <4>2. wt * 729 * 2000 > s * 1000 * 2003
        BY <1>12 DEF td, wt
      <4> HIDE DEF s
      <4>3. wt * 1458000 > s * 2003000
        BY <1>14, <4>1, <4>2
      <4>4. QED
        BY <4>1, <4>3 DEF s
    <3>2. (wt * 1458000) * d2 > ((N * td) * 2003000) * d2
      <4> DEFINE s == wt * 1458000
                 r == (N * td) * 2003000
      <4>1. s \in Nat /\ r \in Nat /\ s > r
        BY <1>14, <3>1
      <4> HIDE DEF s, r
      <4>2. s * d2 > r * d2
        <5>1. (r + 1) * d2 <= s * d2
          BY <1>13, <4>1, ProductMonotonic
        <5>2. (r + 1) * d2 = r * d2 + d2 /\ r * d2 \in Nat /\ s * d2 \in Nat
          BY <1>13, <4>1
        <5>3. QED
          BY <1>13, <5>1, <5>2
      <4>3. QED
        BY <4>2 DEF s, r
    <3>3. /\ (wt * 1458000) * d2 = 1458000 * x
          /\ ((N * td) * 2003000) * d2 = (2003000 * z) * td
      BY <1>2, <1>13, <1>14
    <3>4. QED
      BY <3>2, <3>3
  <2>4. (20030 * z) * td < (18000 * w) * td
    <3>1. (2003000 * z) * td = 100 * ((20030 * z) * td)
      BY <1>13, <2>1
    <3>2. (18000 * w) * td = 18000 * y
      BY <1>13, <1>14
    <3> DEFINE s == (20030 * z) * td
    <3>3. s \in Nat
      BY <1>13, <2>1
    <3> HIDE DEF s, x, y, z
    <3>4. 1458000 * x > 100 * s
      BY <2>3, <3>1 DEF s
    <3>5. s < 18000 * y
      BY <2>1, <2>2, <3>3, <3>4
    <3>6. QED
      BY <3>2, <3>5 DEF s
  <2>5. 20030 * z < 18000 * w
    <3> HIDE DEF z
    <3>1. 20030 * z \in Nat /\ 18000 * w \in Nat
      BY <1>14, <2>1
    <3>2. QED
      BY <1>13, <2>4, <3>1, Cancel
  <2> HIDE DEF z
  <2>6. w * 9 * 2000 > z * 10 * 2003
    BY <1>14, <2>1, <2>5
  <2>7. QED
    BY <2>6 DEF z
<1>21. (w * TriangleKeeps - N * d2 * 10) * 2000 > (N * d2 * 10) * MinAlpha
  <2> DEFINE z == N * d2
  <2>1. z \in Nat
    BY <1>2, <1>13, ProductIsNat
  <2>2. w * 9 * 2000 > z * 10 * 2003
    BY <1>20
  <2> HIDE DEF z
  <2>3. (w * 9 - z * 10) * 2000 > (z * 10) * 3
    BY <1>14, <2>1, <2>2
  <2>4. QED
    BY <2>3 DEF z, TriangleKeeps, MinAlpha
<1>22. TrianglePays(order)
  BY <1>14, <1>17, <1>18, <1>19, <1>21 DEF TrianglePays, d1, n1, d2
<1>23. QED
  BY <1>22 DEF order, q1, q2

-----------------------------------------------------------------------------
(* Every evaluation keeps them.                                            *)

\* A pair orders on its books, a triangle on its own, for positive quantities.
OrdersTyped ==
    orders \subseteq
        IF kind = "pair" THEN [asks : AskBooks, bids : BidBooks]
        ELSE [books : [bridge : BridgeAsks, target : TargetAsks, back : TargetBids],
              bridgeQty : Positive, targetQty : Positive]

IInv == /\ kind \in {"pair", "triangle"}
        /\ HistoriesTraced
        /\ PrevTraced
        /\ TriangleSeesEveryMove
        /\ OrdersTyped
        /\ OrdersApproved
        /\ ApprovedTradesPay

LEMMA InitInv == Init => IInv
<1> SUFFICES ASSUME Init PROVE IInv
  OBVIOUS
<1>1. <<>> \in Seq(BOOLEAN) /\ <<>> \in Seq(Moves) /\ <<>> \in Seq(Ticks) /\ Len(<<>>) = 0
  OBVIOUS
<1>2. HistoriesTraced
  BY <1>1, WindowAssumption DEF Init, HistoriesTraced
<1>3. OrdersApproved
  BY DEF Init, OrdersApproved
<1>4. kind \in {"pair", "triangle"} /\ OrdersTyped /\ ApprovedTradesPay
  BY DEF Init, OrdersTyped, ApprovedTradesPay
<1>5. PrevTraced /\ TriangleSeesEveryMove
  BY <1>1 DEF Init, PrevTraced, TriangleSeesEveryMove
<1>6. QED
  BY <1>2, <1>3, <1>4, <1>5 DEF IInv

LEMMA PairInv ==
    ASSUME IInv, kind = "pair", NEW asks \in AskBooks, NEW bids \in BidBooks,
           Deep(asks, Lots(Quantity)), Deep(bids, Lots(Quantity)),
           NEW wide \in BOOLEAN, NEW r \in Returns, EvaluatePair(asks, bids, wide, r)
    PROVE  IInv'
<1> DEFINE near == IF wide THEN 0
                   ELSE MapThenSumSet(LAMBDA i : asks[i].volume, DOMAIN asks)
           limits == /\ PersistenceExceeds(positive', MinProbability)
                     /\ HazardBelow(returns', near, MaxHazard)
           good == AlphaExceeds(asks, bids, MinAlpha) /\ limits
           alpha == AlphaExceeds(asks, bids, 0)
           ordered == IF good THEN {[asks |-> asks, bids |-> bids]} ELSE {}
<1>1. alpha \in BOOLEAN
  BY DEF AlphaExceeds
<1>2. Update(alpha, r, 0, ordered)
  BY DEF EvaluatePair
<1>3. HistoriesTraced' /\ PrevTraced' /\ TriangleSeesEveryMove'
  <2> HIDE DEF alpha, ordered
  <2>1. r \in Moves
    BY DEF Moves
  <2>2. QED
    BY <1>1, <1>2, <2>1, UpdateTraces DEF IInv
<1>4. orders' # {} => limits
  <2>1. orders' = ordered
    BY <1>2 DEF Update
  <2> HIDE DEF limits
  <2>2. QED
    BY <2>1
<1>5. OrdersApproved'
  <2> HIDE DEF near
  <2>1. QED
    BY <1>4 DEF OrdersApproved, HazardBelow
<1>6. kind' = "pair" /\ orders' \subseteq [asks : AskBooks, bids : BidBooks]
  <2> HIDE DEF good
  <2>1. ordered \subseteq [asks : AskBooks, bids : BidBooks]
    OBVIOUS
  <2> HIDE DEF ordered
  <2>2. QED
    BY <1>2, <2>1 DEF Update
<1>7. ApprovedTradesPay'
  <2>1. \A order \in ordered : PairPays(order)
    <3> SUFFICES ASSUME good, NEW order \in ordered PROVE PairPays(order)
      OBVIOUS
    <3>1. order = [asks |-> asks, bids |-> bids]
      OBVIOUS
    <3>2. PairPays([asks |-> asks, bids |-> bids])
      BY PairEarns
    <3>3. QED
      BY <3>1, <3>2
  <2>2. orders' = ordered
    BY <1>2 DEF Update
  <2> HIDE DEF ordered
  <2>3. \A order \in orders' : PairPays(order)
    BY <2>1, <2>2
  <2>4. QED
    BY <1>6, <2>3 DEF ApprovedTradesPay
<1>8. QED
  BY <1>3, <1>5, <1>6, <1>7 DEF IInv, OrdersTyped

LEMMA TriangleInv ==
    ASSUME IInv, kind = "triangle", NEW mid \in Mids,
           NEW b \in [bridge : BridgeAsks, target : TargetAsks, back : TargetBids],
           TriangleDeep(b), EvaluateTriangle(b, mid)
    PROVE  IInv'
<1> DEFINE limits == /\ PersistenceExceeds(positive', MinProbability)
                     /\ VolatilityBelow(returns', MaxHazard)
           good == TriangleAlphaExceeds(b, MinAlpha) /\ limits
           alpha == TriangleAlphaExceeds(b, 0)
           ordered == IF good THEN {[books |-> b, bridgeQty |-> BridgeQty(b),
                                     targetQty |-> TargetQty(b)]}
                      ELSE {}
<1>1. alpha \in BOOLEAN
  BY DEF TriangleAlphaExceeds
<1>2. Update(alpha, Return(prev, mid), mid, ordered)
  BY DEF EvaluateTriangle
<1>3. HistoriesTraced' /\ PrevTraced' /\ TriangleSeesEveryMove'
  <2> HIDE DEF alpha, ordered
  <2>1. Return(prev, mid) \in Moves
    <3>1. prev \in Mids \cup {0}
      BY DEF IInv, PrevTraced
    <3>2. CASE prev > 0
      BY <3>1, <3>2 DEF Return, Moves
    <3>3. CASE ~(prev > 0)
      BY <3>3 DEF Return, Moves
    <3>4. QED
      BY <3>2, <3>3
  <2>2. QED
    BY <1>1, <1>2, <2>1, UpdateTraces DEF IInv
<1>4. orders' # {} => limits
  <2>1. orders' = ordered
    BY <1>2 DEF Update
  <2> HIDE DEF limits
  <2>2. QED
    BY <2>1
<1>5. OrdersApproved'
  BY <1>4 DEF OrdersApproved
<1> DEFINE typed == [books : [bridge : BridgeAsks, target : TargetAsks, back : TargetBids],
                     bridgeQty : Positive, targetQty : Positive]
<1>6. kind' = "triangle" /\ orders' \subseteq typed
  <2> HIDE DEF good
  <2>1. ordered \subseteq typed
    BY QuantitiesType
  <2> HIDE DEF ordered, typed
  <2>2. QED
    BY <1>2, <2>1 DEF Update
<1>7. ApprovedTradesPay'
  <2> DEFINE placed == [books |-> b, bridgeQty |-> BridgeQty(b), targetQty |-> TargetQty(b)]
  <2>1. \A order \in ordered : TrianglePays(order)
    <3> SUFFICES ASSUME good, NEW order \in ordered PROVE TrianglePays(order)
      OBVIOUS
    <3>1. order = placed
      OBVIOUS
    <3>2. TrianglePays(placed)
      BY TriangleEarns
    <3> HIDE DEF placed
    <3>3. QED
      BY <3>1, <3>2
  <2>2. orders' = ordered
    BY <1>2 DEF Update
  <2> HIDE DEF ordered
  <2>3. \A order \in orders' : TrianglePays(order)
    BY <2>1, <2>2
  <2>4. QED
    BY <1>6, <2>3 DEF ApprovedTradesPay
<1>8. QED
  BY <1>3, <1>5, <1>6, <1>7 DEF IInv, OrdersTyped

LEMMA ThinInv == ASSUME IInv, TooThin PROVE IInv'
BY DEF IInv, HistoriesTraced, PrevTraced, TriangleSeesEveryMove, OrdersTyped,
       OrdersApproved, ApprovedTradesPay, TooThin

LEMMA NextInv == IInv /\ [Next]_vars => IInv'
<1> SUFFICES ASSUME IInv, [Next]_vars PROVE IInv'
  OBVIOUS
<1>1. CASE PairTick
  BY <1>1, PairInv, ThinInv DEF PairTick
<1>2. CASE TriangleTick
  BY <1>2, TriangleInv, ThinInv DEF TriangleTick
<1>3. CASE UNCHANGED vars
  BY <1>3 DEF vars, IInv, HistoriesTraced, PrevTraced, TriangleSeesEveryMove, OrdersTyped,
              OrdersApproved, ApprovedTradesPay
<1>4. QED
  BY <1>1, <1>2, <1>3 DEF Next

LEMMA Invariance == Spec => []IInv
<1>1. QED
  BY InitInv, NextInv, PTL DEF Spec

-----------------------------------------------------------------------------
(* What the invariant says.                                                *)

LEMMA InvType == IInv => TypeOK
<1> SUFFICES ASSUME IInv PROVE TypeOK
  OBVIOUS
<1>1. Positive \subseteq Fractions
  BY DEF Positive, Fractions
<1>2. orders \subseteq
          IF kind = "pair" THEN [asks : AskBooks, bids : BidBooks]
          ELSE [books : [bridge : BridgeAsks, target : TargetAsks, back : TargetBids],
                bridgeQty : Fractions, targetQty : Fractions]
  <2>1. CASE kind = "pair"
    BY <2>1 DEF IInv, OrdersTyped
  <2>2. CASE kind # "pair"
    BY <1>1, <2>2 DEF IInv, OrdersTyped
  <2>3. QED
    BY <2>1, <2>2
<1>3. QED
  BY <1>2 DEF IInv, HistoriesTraced, PrevTraced, Ticks, TypeOK

LEMMA InvSwing == IInv => NoSwingBeforeTrade
<1> SUFFICES ASSUME IInv, orders # {}, NEW i \in DOMAIN trace, NEW j \in DOMAIN trace
             PROVE  10000 * Square(trace[i].return - trace[j].return)
                        < 2 * Len(trace) * Square(MaxHazard * Scale)
  BY DEF NoSwingBeforeTrade
<1>1. /\ returns \in Seq(Int) /\ Len(returns) = Len(trace)
      /\ i \in 1..Len(trace) /\ j \in 1..Len(trace)
      /\ returns[i] = trace[i].return /\ returns[j] = trace[j].return
  <2>1. Seq(Moves) \subseteq Seq(Int)
    <3>1. \A mid, before \in Mids : mid - before \in Int
      BY PricesAssumption
    <3> DEFINE differences == {mid - before : mid, before \in Mids}
    <3>2. Moves \subseteq Int
      <4>1. differences \subseteq Int
        <5> SUFFICES ASSUME NEW x \in differences PROVE x \in Int
          OBVIOUS
        <5>1. PICK mid \in Mids, before \in Mids : x = mid - before
          OBVIOUS
        <5>2. QED
          BY <3>1, <5>1
      <4> HIDE DEF differences
      <4>2. Moves = Returns \cup {0} \cup differences
        BY DEF Moves, differences
      <4>3. QED
        BY <4>1, <4>2, PricesAssumption
    <3>3. QED
      BY <3>2, SeqMonotonic
  <2>2. QED
    BY <2>1 DEF IInv, HistoriesTraced
<1>2. i \in DOMAIN returns /\ j \in DOMAIN returns
  BY <1>1
<1>3. VolatilityBelow(returns, MaxHazard)
  BY DEF IInv, OrdersApproved
<1> DEFINE Bound(x, y, n) == 10000 * Square(x - y) < 2 * n * Square(MaxHazard * Scale)
<1>4. Bound(returns[i], returns[j], Len(returns))
  <2>1. returns \in Seq(Int)
    BY <1>1
  <2>2. QED
    BY <2>1, <1>2, <1>3, SwingBelow
<1>5. Bound(trace[i].return, trace[j].return, Len(trace))
  <2> HIDE DEF Bound
  <2>1. QED
    BY <1>1, <1>4
<1>6. QED
  BY <1>5

\* The histories are bounded and as long as each other, and no order is for
\* nothing or divides by nothing, whatever the walks it comes from: for all
\* books, any notional and any window (heuristic.py 54-77, microstructure.py
\* 12-41, runner.py 306-320).
THEOREM TypeCorrect == Spec => []TypeOK
<1>1. QED
  BY Invariance, InvType, PTL

\* For all sorted books, every quantity, notional and window, an approved trade
\* pays on the books it was decided on, lot by lot: although a triangle's legs
\* are walked for other quantities than are ordered (microstructure.py 14-41,
\* alpha.py 45-56, 107-117, runner.py 309-319, decision.py 45-49).
THEOREM TradesPay == Spec => []ApprovedTradesPay
<1>1. IInv => ApprovedTradesPay
  BY DEF IInv
<1>2. QED
  BY <1>1, Invariance, PTL

\* For all prices and books and every window, the returns a triangle's volatility
\* is taken of are the full moves of its price from each evaluated tick to the
\* next, however many ticks between them had too little depth (runner.py 315-322,
\* 335-341).
THEOREM EveryMoveSeen == Spec => []TriangleSeesEveryMove
<1>1. IInv => TriangleSeesEveryMove
  BY DEF IInv
<1>2. QED
  BY <1>1, Invariance, PTL

\* For every window, scale and limit, whatever returns the window holds, an
\* approved trade has not seen two of them differ by more than the volatility
\* limit allows (heuristic.py 83-90, decision.py 57-61).
THEOREM NoSwing == Spec => []NoSwingBeforeTrade
<1>1. QED
  BY Invariance, InvSwing, PTL
=============================================================================
