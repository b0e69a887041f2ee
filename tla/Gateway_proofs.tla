--------------------------- MODULE Gateway_proofs ---------------------------
(***************************************************************************)
(* A bucket keeps its promise, for every capacity, rate and number of      *)
(* threads; the gateway only calls allow, so the promise holds behind it;  *)
(* what it evaluates for the owner stays within that promise; and forward  *)
(* passes run in eval mode.  For any number of concurrent requests.        *)
(***************************************************************************)
EXTENDS Gateway, FiniteSetTheorems, TLAPS

USE TokenAssumption, CapacityAssumption, RateAssumption, MaxClockAssumption

-----------------------------------------------------------------------------
(* One bucket, as RateLimiter specifies it.                                *)

\* Parts refilled are a natural number of parts.
LEMMA RefillNat ==
    ASSUME NEW r \in Nat, NEW d \in Nat
    PROVE  r * d \in Nat
OBVIOUS

\* A bucket starts full, and Spent never grows.
BudgetKept == present => Spent <= Capacity

IInv == /\ TypeOK
        /\ ~present => granted = 0
        /\ BudgetKept

LEMMA InitInv == Init => IInv
<1> SUFFICES ASSUME Init PROVE IInv
  OBVIOUS
<1>1. TypeOK
  <2>1. present \in BOOLEAN
    BY DEF Init
  <2>2. /\ clock \in 0..MaxClock /\ tokens \in 0..Capacity /\ granted \in Nat
        /\ lastRefill \in 0..clock /\ since \in 0..clock /\ setBack \in Nat
        /\ now \in [Threads -> {NotCalled} \cup 0..clock]
    BY DEF Init, NotCalled
  <2>3. QED
    BY <2>1, <2>2 DEF TypeOK
<1>2. ~present /\ granted = 0
  BY DEF Init
<1>3. QED
  BY <1>1, <1>2 DEF IInv, BudgetKept

LEMMA ReadClockInv == ASSUME IInv, NEW t \in Threads, ReadClock(t) PROVE IInv'
BY DEF IInv, TypeOK, BudgetKept, Spent, Refilling, ReadClock, bucket

LEMMA ResetInv == ASSUME IInv, Reset PROVE IInv'
<1>1. TypeOK'
  <2>1. present' \in BOOLEAN
    BY DEF Reset
  <2>2. /\ clock' \in 0..MaxClock /\ tokens' \in 0..Capacity /\ granted' \in Nat
        /\ lastRefill' \in 0..clock' /\ since' \in 0..clock' /\ setBack' \in Nat
        /\ now' \in [Threads -> {NotCalled} \cup 0..clock']
    BY DEF IInv, TypeOK, Reset, NotCalled
  <2>3. QED
    BY <2>1, <2>2 DEF TypeOK
<1>2. ~present' /\ granted' = 0
  BY DEF Reset
<1>3. QED
  BY <1>1, <1>2 DEF IInv, BudgetKept

LEMMA TickInv == ASSUME IInv, Tick PROVE IInv'
<1>1. TypeOK'
  BY DEF IInv, TypeOK, Tick, bucket, NotCalled
<1>2. QED
  BY <1>1 DEF IInv, TypeOK, BudgetKept, Spent, Refilling, Tick, bucket

\* What a call finds in the bucket stays within the capacity.
LEMMA AvailableBounded ==
    ASSUME IInv, NEW n \in 0..clock
    PROVE  Available(n) \in 0..Capacity
<1>1. n > lastRefill => (n - lastRefill) * Rate \in Nat
  BY RefillNat DEF IInv, TypeOK
<1>2. QED
  BY <1>1 DEF IInv, TypeOK, Available, Refilled, Smaller

\* A call takes a token out of what it finds, or leaves it.
LEMMA DecideTakes ==
    ASSUME IInv, NEW t \in Threads, Decide(t)
    PROVE  /\ now[t] \in 0..clock
           /\ granted' * Token + tokens' = granted * Token + Available(now[t])
<1>1. now[t] \in 0..clock
  BY DEF IInv, TypeOK, Decide
<1>2. Available(now[t]) \in 0..Capacity
  BY <1>1, AvailableBounded
<1>3. (granted + 1) * Token = granted * Token + Token /\ granted * Token \in Nat
  BY RefillNat DEF IInv, TypeOK
<1>4. QED
  BY <1>1, <1>2, <1>3 DEF Decide

\* In order or late, a call finds at most what was left and what time has put in.
LEMMA DecideKeepsSpent ==
    ASSUME IInv, NEW t \in Threads, Decide(t), present
    PROVE  Spent' <= Spent
<1> DEFINE n == now[t]
           put == Refilling' - Refilling
<1>1. n \in 0..clock /\ granted' * Token + tokens' = granted * Token + Available(n)
  BY DecideTakes
<1>2. Refilling \in Int /\ Refilling' \in Int
  BY <1>1 DEF IInv, TypeOK, Decide, Refilling
<1>3. put = (IF n > lastRefill THEN n - lastRefill ELSE 0)
  BY <1>1 DEF IInv, TypeOK, Decide, Refilling
<1>4. Available(n) <= tokens + Rate * put
  <2>1. CASE n > lastRefill
    <3>1. (n - lastRefill) * Rate = Rate * put /\ Rate * put \in Nat
      BY <1>1, <1>3, <2>1, RefillNat DEF IInv, TypeOK
    <3>2. QED
      BY <2>1, <3>1 DEF IInv, TypeOK, Available, Refilled, Smaller
  <2>2. CASE ~(n > lastRefill)
    <3>1. Rate * put = 0
      BY <1>3, <2>2
    <3>2. QED
      BY <2>2, <3>1 DEF IInv, TypeOK, Available, Refilled, Smaller
  <2>3. QED
    BY <2>1, <2>2
<1>5. Rate * put = Rate * Refilling' - Rate * Refilling
  BY <1>2
<1>6. /\ granted * Token \in Nat /\ Available(n) \in Int /\ tokens \in Int
      /\ Rate * Refilling \in Int /\ Rate * Refilling' \in Int
  BY <1>1, <1>2, RefillNat, AvailableBounded DEF IInv, TypeOK
<1>7. Spent' = (granted' * Token + tokens') - Rate * Refilling'
  BY DEF Spent
<1> HIDE DEF put, n
<1>8. QED
  BY <1>1, <1>4, <1>5, <1>6, <1>7 DEF Spent

LEMMA DecideInv == ASSUME IInv, NEW t \in Threads, Decide(t) PROVE IInv'
<1> DEFINE n == now[t]
<1>1. n \in 0..clock /\ granted' * Token + tokens' = granted * Token + Available(n)
  BY DecideTakes
<1>2. Available(n) \in 0..Capacity
  BY <1>1, AvailableBounded
<1>3. TypeOK'
  <2>1. setBack' \in Nat
    <3>1. now[t] \in Int /\ lastRefill \in Int /\ setBack \in Nat
      BY <1>1 DEF IInv, TypeOK
    <3>2. QED
      BY <3>1 DEF Decide
  <2>2. /\ present' \in BOOLEAN /\ granted' \in Nat /\ tokens' \in 0..Capacity
        /\ clock' \in 0..MaxClock /\ lastRefill' \in 0..clock' /\ since' \in 0..clock'
        /\ now' \in [Threads -> {NotCalled} \cup 0..clock']
    BY <1>1, <1>2 DEF IInv, TypeOK, Decide, NotCalled
  <2>3. QED
    BY <2>1, <2>2 DEF TypeOK
<1>4. CASE present
  <2>1. Spent' <= Spent /\ Spent <= Capacity
    BY <1>4, DecideKeepsSpent DEF IInv, BudgetKept
  <2>2. Spent \in Int /\ Spent' \in Int
    <3>1. /\ granted \in Nat /\ tokens \in Int /\ Refilling \in Int
          /\ granted' \in Nat /\ tokens' \in Int /\ Refilling' \in Int
      BY <1>3 DEF IInv, TypeOK, Refilling
    <3>2. QED
      BY <3>1 DEF Spent
  <2>3. present'
    BY DEF Decide
  <2>4. QED
    BY <1>3, <2>1, <2>2, <2>3 DEF IInv, BudgetKept
<1>5. CASE ~present
  <2>1. granted = 0 /\ Available(n) = Capacity
    BY <1>5 DEF IInv, Available
  <2>2. Refilling' \in Nat /\ present'
    BY <1>1, <1>5 DEF IInv, TypeOK, Decide, Refilling
  <2>3. Rate * Refilling' \in Nat
    BY <2>2, RefillNat
  <2>4. granted' * Token + tokens' = Capacity
    BY <1>1, <2>1
  <2>5. QED
    BY <1>3, <2>2, <2>3, <2>4, CapacityAssumption DEF IInv, BudgetKept, Spent
<1>6. QED
  BY <1>4, <1>5

LEMMA NextInv == IInv /\ [Next]_vars => IInv'
<1>1. IInv /\ UNCHANGED vars => IInv'
  BY DEF IInv, TypeOK, BudgetKept, Spent, Refilling, vars, bucket
<1>2. QED
  BY <1>1, ReadClockInv, DecideInv, ResetInv, TickInv DEF Next

LEMMA BucketSafe == Spec => []IInv
BY InitInv, NextInv, PTL DEF Spec

\* Whatever the capacity, the rate and the number of threads, and however late
\* their calls enter the lock, what a bucket has granted since it was made fits in
\* its capacity and the refill of the time it has counted (rate_limit.py 37-55).
THEOREM BudgetHolds == Spec => []BudgetKept
<1>1. IInv => BudgetKept
  BY DEF IInv
<1>2. QED
  BY BucketSafe, <1>1, PTL

\* And so it is from any moment of the bucket's life on, not from its making only
\* (rate_limit.py 37-55).
THEOREM RateKept == Spec => WindowKeepsRate
<1>1. IInv /\ [Next]_vars => [present /\ present' => Spent' <= Spent]_vars
  <2> SUFFICES ASSUME IInv, Next, present, present' PROVE Spent' <= Spent
    OBVIOUS
  <2>1. Spent \in Int
    BY DEF IInv, TypeOK, Spent, Refilling
  <2>2. ASSUME NEW t \in Threads, ReadClock(t) PROVE Spent' <= Spent
    BY <2>1, <2>2 DEF ReadClock, bucket, Spent, Refilling
  <2>3. CASE Tick
    BY <2>1, <2>3 DEF Tick, bucket, Spent, Refilling
  <2>4. ~Reset
    BY DEF Reset
  <2>5. QED
    BY <2>2, <2>3, <2>4, DecideKeepsSpent DEF Next
<1>2. QED
  BY BucketSafe, <1>1, PTL DEF Spec, WindowKeepsRate

-----------------------------------------------------------------------------
(* The gateway implements the limiter.                                     *)

\* One request's steps call allow, or leave the limiter alone.
LEMMA ServeCalls == ASSUME NEW t \in Threads, Serve(t) PROVE [Next]_vars
<1>1. CASE CallLimiter(t)
  BY <1>1 DEF CallLimiter, Next
<1>2. CASE LimiterAnswers(t)
  BY <1>2 DEF LimiterAnswers, Next
<1>3. CASE Authenticate(t) \/ StrangerAnswered(t)
  BY <1>3 DEF Authenticate, StrangerAnswered
<1>4. CASE Handle(t)
  BY <1>4 DEF Handle, Reject
<1>5. CASE ReadMode(t) \/ SwitchMode(t) \/ RestoreMode(t) \/ Conclude(t)
  BY <1>5 DEF ReadMode, SwitchMode, RestoreMode, Conclude
<1>6. QED
  BY <1>1, <1>2, <1>3, <1>4, <1>5 DEF Serve

LEMMA GatewayStepCalls == [GatewayNext]_gatewayVars => [Next]_vars
<1>1. UNCHANGED gatewayVars => UNCHANGED vars
  BY DEF gatewayVars
<1>2. ClockTicks => [Next]_vars
  BY DEF ClockTicks, Next
<1>3. ASSUME NEW t \in Threads, Arrive(t) PROVE [Next]_vars
  BY <1>3 DEF Arrive
<1>4. QED
  BY <1>1, <1>2, <1>3, ServeCalls DEF GatewayNext

\* Whatever requests come, and however their steps interleave, the limiter sees
\* calls of allow only (main.py 103-197, rate_limit.py 70-77).
THEOREM GatewayCallsLimiter == GatewaySpec => ImplementsLimiter
<1>1. GatewayInit => Init
  BY DEF GatewayInit
<1>2. QED
  BY <1>1, GatewayStepCalls, PTL DEF GatewaySpec, ImplementsLimiter, Spec

\* So the bucket keeps its promise behind the gateway (rate_limit.py 37-55).
THEOREM RateKeptBehindGateway == GatewaySpec => WindowKeepsRate
BY GatewayCallsLimiter, RateKept, PTL DEF ImplementsLimiter

-----------------------------------------------------------------------------
(* Eval mode.                                                              *)

EvalInv == training = FALSE /\ was \in [Threads -> {FALSE}]

LEMMA EvalInit == GatewayInit => EvalInv
BY DEF GatewayInit, EvalInv

LEMMA EvalStep == EvalInv /\ [GatewayNext]_gatewayVars => EvalInv'
<1> SUFFICES ASSUME EvalInv, [GatewayNext]_gatewayVars PROVE EvalInv'
  OBVIOUS
<1>1. CASE UNCHANGED model
  BY <1>1 DEF EvalInv, model
<1>2. ASSUME NEW t \in Threads, Handle(t) PROVE EvalInv'
  BY <1>2 DEF EvalInv, Handle, Reject, GetModel, model
<1>3. ASSUME NEW t \in Threads, ReadMode(t) \/ SwitchMode(t) \/ RestoreMode(t) PROVE EvalInv'
  BY <1>3 DEF EvalInv, ReadMode, SwitchMode, RestoreMode
<1>4. CASE UNCHANGED gatewayVars
  BY <1>4, <1>1 DEF gatewayVars
<1>5. CASE ClockTicks
  BY <1>5, <1>1 DEF ClockTicks
<1>6. ASSUME NEW t \in Threads, Arrive(t) \/ Authenticate(t) \/ CallLimiter(t)
                                \/ LimiterAnswers(t) \/ StrangerAnswered(t) \/ Conclude(t)
      PROVE  EvalInv'
  BY <1>6, <1>1 DEF Arrive, Authenticate, CallLimiter, LimiterAnswers, StrangerAnswered, Conclude
<1>7. QED
  BY <1>2, <1>3, <1>4, <1>5, <1>6 DEF GatewayNext, Serve

\* No interleaving of the threads that save, switch and restore the flag ever
\* lets a forward pass see training mode (inference.py 36-51).
THEOREM EvalModeKept == GatewaySpec => []InferenceInEvalMode
<1>1. EvalInv => InferenceInEvalMode
  BY DEF EvalInv, InferenceInEvalMode
<1>2. QED
  BY EvalInit, EvalStep, <1>1, PTL DEF GatewaySpec

-----------------------------------------------------------------------------
(* Evaluations within the rate.                                            *)

\* The owner's requests that a token has been paid for and the handler has not
\* looked at yet.
Paid == {t \in Threads : stage[t] = "handling" /\ caller[t] = "owner"}

RequestOK == /\ stage \in [Threads -> Stages]
             /\ caller \in [Threads -> {"owner", "stranger", "invalid"}]
             /\ named \in [Threads -> {"owner", "stranger", "malformed"}]

\* Every evaluation for the owner took a token out of the owner's bucket, and
\* before the first call there is no bucket and no evaluation.
PaidInv == /\ RequestOK
           /\ IsFiniteSet(Paid)
           /\ evaluated \in Nat /\ granted \in Nat
           /\ evaluated + Cardinality(Paid) <= granted
           /\ ~present => granted = 0 /\ lastRefill = 0 /\ since = 0 /\ setBack = 0

LEMMA PaidInit == GatewayInit => PaidInv
<1> SUFFICES ASSUME GatewayInit PROVE PaidInv
  OBVIOUS
<1>1. RequestOK
  BY DEF GatewayInit, RequestOK, Stages
<1>2. Paid = {}
  BY DEF GatewayInit, Paid
<1>3. IsFiniteSet(Paid) /\ Cardinality(Paid) = 0
  BY <1>2, FS_EmptySet
<1>4. QED
  BY <1>1, <1>3 DEF GatewayInit, Init, PaidInv

\* A step that leaves the limiter and the count alone, and pays nobody.
LEMMA PaidKept ==
    ASSUME PaidInv, RequestOK', Paid' \subseteq Paid, UNCHANGED <<vars, evaluated>>
    PROVE  PaidInv'
<1>1. IsFiniteSet(Paid') /\ Cardinality(Paid') <= Cardinality(Paid)
  BY FS_Subset DEF PaidInv
<1>2. Cardinality(Paid') \in Nat /\ Cardinality(Paid) \in Nat
  BY <1>1, FS_CardinalityType DEF PaidInv
<1>3. QED
  BY <1>1, <1>2 DEF PaidInv, vars, bucket

\* Nobody is paid by a response, nor by a move to anywhere but the handler.
LEMMA RespondKeeps ==
    ASSUME PaidInv, NEW t \in Threads, Respond(t), UNCHANGED <<vars, evaluated>>
    PROVE  PaidInv'
<1>1. RequestOK' /\ Paid' \subseteq Paid
  BY DEF Respond, PaidInv, RequestOK, Stages, Paid
<1>2. QED
  BY <1>1, PaidKept

LEMMA MoveKeeps ==
    ASSUME PaidInv, NEW t \in Threads, NEW s \in Stages, MoveTo(t, s),
           s # "handling" \/ caller[t] # "owner", UNCHANGED <<vars, evaluated>>
    PROVE  PaidInv'
<1>1. RequestOK' /\ Paid' \subseteq Paid
  BY DEF MoveTo, PaidInv, RequestOK, Stages, Paid
<1>2. QED
  BY <1>1, PaidKept

LEMMA PaidByToken == ASSUME PaidInv, NEW t \in Threads, LimiterAnswers(t) PROVE PaidInv'
<1>1. stage[t] = "limiting" /\ Decide(t) /\ UNCHANGED model
  BY DEF LimiterAnswers
<1>2. t \notin Paid
  BY <1>1 DEF Paid
<1>3. /\ present' /\ granted' \in Nat /\ granted' >= granted
      /\ evaluated' = evaluated
  BY <1>1 DEF Decide, PaidInv, model
<1>4. CASE Denied(t)
  <2>1. RequestOK' /\ Paid' = Paid
    BY <1>2, <1>4 DEF PaidInv, RequestOK, Stages, Denied, Respond, Paid
  <2>2. Cardinality(Paid) \in Nat
    BY FS_CardinalityType DEF PaidInv
  <2>3. QED
    BY <1>3, <2>1, <2>2 DEF PaidInv
<1>5. CASE granted' > granted /\ MoveTo(t, "handling")
  <2>1. RequestOK' /\ Paid' \subseteq Paid \cup {t} /\ Paid \subseteq Paid'
    BY <1>2, <1>5 DEF PaidInv, RequestOK, Stages, MoveTo, Paid
  <2>2. /\ IsFiniteSet(Paid \cup {t})
        /\ Cardinality(Paid \cup {t}) = Cardinality(Paid) + 1
    BY <1>2, FS_AddElement DEF PaidInv
  <2>3. IsFiniteSet(Paid') /\ Cardinality(Paid') <= Cardinality(Paid) + 1
    BY <2>1, <2>2, FS_Subset
  <2>4. Cardinality(Paid') \in Nat /\ Cardinality(Paid) \in Nat
    BY <2>3, FS_CardinalityType DEF PaidInv
  <2>5. QED
    BY <1>3, <1>5, <2>1, <2>3, <2>4 DEF PaidInv
<1>6. QED
  BY <1>4, <1>5 DEF LimiterAnswers

LEMMA PaidSpent == ASSUME PaidInv, NEW t \in Threads, Handle(t) PROVE PaidInv'
<1>1. CASE Reject(t)
  <2>1. RequestOK' /\ Paid' \subseteq Paid /\ UNCHANGED <<vars, evaluated>>
    BY <1>1 DEF Reject, Respond, PaidInv, RequestOK, Stages, Paid, model
  <2>2. QED
    BY <2>1, PaidKept
<1>2. CASE Matches(t) /\ MoveTo(t, "evaluating") /\ named[t] = "owner"
           /\ evaluated' = evaluated + 1 /\ UNCHANGED vars
  <2>1. t \in Paid
    BY <1>2 DEF Handle, Matches, Paid
  <2>2. RequestOK' /\ Paid' = Paid \ {t}
    BY <1>2 DEF MoveTo, PaidInv, RequestOK, Stages, Paid
  <2>3. IsFiniteSet(Paid') /\ Cardinality(Paid') = Cardinality(Paid) - 1
    BY <2>1, <2>2, FS_RemoveElement DEF PaidInv
  <2>4. Cardinality(Paid') \in Nat /\ Cardinality(Paid) \in Nat
    BY <2>3, FS_CardinalityType DEF PaidInv
  <2>5. QED
    BY <1>2, <2>2, <2>3, <2>4 DEF PaidInv, vars, bucket
<1>3. CASE Matches(t) /\ MoveTo(t, "evaluating") /\ named[t] # "owner"
           /\ evaluated' = evaluated /\ UNCHANGED vars
  <2>1. RequestOK' /\ Paid' \subseteq Paid
    BY <1>3 DEF MoveTo, PaidInv, RequestOK, Stages, Paid
  <2>2. QED
    BY <1>3, <2>1, PaidKept
<1>4. QED
  BY <1>1, <1>2, <1>3 DEF Handle

LEMMA PaidStep == PaidInv /\ [GatewayNext]_gatewayVars => PaidInv'
<1> SUFFICES ASSUME PaidInv, [GatewayNext]_gatewayVars PROVE PaidInv'
  OBVIOUS
<1>1. CASE UNCHANGED gatewayVars
  <2>1. RequestOK' /\ Paid' = Paid /\ UNCHANGED <<vars, evaluated>>
    BY <1>1 DEF gatewayVars, request, model, PaidInv, RequestOK, Stages, Paid
  <2>2. QED
    BY <2>1, PaidKept
<1>2. CASE ClockTicks
  BY <1>2 DEF ClockTicks, Tick, bucket, request, model, PaidInv, RequestOK, Stages, Paid
<1>3. ASSUME NEW t \in Threads, CallLimiter(t) PROVE PaidInv'
  BY <1>3 DEF CallLimiter, ReadClock, bucket, request, model, PaidInv, RequestOK, Stages, Paid
<1>4. ASSUME NEW t \in Threads, Arrive(t) PROVE PaidInv'
  <2>1. RequestOK' /\ Paid' \subseteq Paid /\ UNCHANGED <<vars, evaluated>>
    BY <1>4 DEF Arrive, model, PaidInv, RequestOK, Stages, Paid
  <2>2. QED
    BY <2>1, PaidKept
<1>5. ASSUME NEW t \in Threads, Authenticate(t) \/ StrangerAnswered(t) PROVE PaidInv'
  <2>1. UNCHANGED <<vars, evaluated>>
    BY <1>5 DEF Authenticate, StrangerAnswered, model
  <2>2. CASE Respond(t)
    BY <2>1, <2>2, RespondKeeps
  <2>3. CASE MoveTo(t, "limiting") /\ stage[t] = "arrived"
    BY <2>1, <2>3, MoveKeeps DEF Stages
  <2>4. CASE MoveTo(t, "handling") /\ caller[t] = "stranger"
    BY <2>1, <2>4, MoveKeeps DEF Stages
  <2>5. QED
    BY <1>5, <2>2, <2>3, <2>4 DEF Authenticate, StrangerAnswered
<1>6. ASSUME NEW t \in Threads,
             ReadMode(t) \/ SwitchMode(t) \/ RestoreMode(t) \/ Conclude(t)
      PROVE  PaidInv'
  <2>1. UNCHANGED <<vars, evaluated>>
    BY <1>6 DEF ReadMode, SwitchMode, RestoreMode, Conclude, model
  <2>2. CASE Conclude(t)
    BY <2>1, <2>2, RespondKeeps DEF Conclude
  <2>3. CASE ReadMode(t) \/ SwitchMode(t) \/ RestoreMode(t)
    BY <2>1, <2>3, MoveKeeps DEF Stages, ReadMode, SwitchMode, RestoreMode
  <2>4. QED
    BY <1>6, <2>2, <2>3
<1>7. QED
  BY <1>1, <1>2, <1>3, <1>4, <1>5, <1>6, PaidByToken, PaidSpent DEF GatewayNext, Serve

\* Fewer tokens fit in a budget that more tokens fit in.
LEMMA FewerTokens ==
    ASSUME NEW a \in Nat, NEW b \in Nat, a <= b, NEW k \in Nat, NEW d \in Int,
           b * Token + k <= Capacity + Rate * d
    PROVE  a * Token <= Capacity + Rate * d
<1>1. b - a \in Nat /\ Token \in Nat /\ Rate \in Nat /\ Capacity \in Nat
  BY TokenAssumption, RateAssumption, CapacityAssumption
<1>2. (b - a) * Token \in Nat
  BY <1>1, RefillNat
<1>3. a * Token + (b - a) * Token = b * Token
  BY <1>1
<1>4. a * Token \in Int /\ b * Token \in Int /\ Rate * d \in Int
  BY <1>1
<1>5. QED
  BY <1>1, <1>2, <1>3, <1>4

\* However many requests race, and whoever sends them, the model is evaluated on
\* behalf of a user no more often than the user's bucket has tokens for, in whichever
\* order the calls enter the limiter (main.py 132-143, rate_limit.py 70-77).
THEOREM EvaluationsPaid == GatewaySpec => []EvaluationsWithinRate
<1>1. PaidInv /\ IInv => EvaluationsWithinRate
  <2> SUFFICES ASSUME PaidInv, IInv
               PROVE  evaluated * Token <= Capacity + Rate * Refilling
    BY DEF EvaluationsWithinRate
  <2>1. Cardinality(Paid) \in Nat
    BY FS_CardinalityType DEF PaidInv
  <2>2. evaluated \in Nat /\ granted \in Nat /\ evaluated <= granted
    BY <2>1 DEF PaidInv
  <2>3. tokens \in Nat /\ Refilling \in Int
    BY CapacityAssumption DEF IInv, TypeOK, Refilling
  <2>4. CASE ~present
    <3>1. evaluated = 0 /\ Refilling = 0
      BY <2>2, <2>4 DEF PaidInv, Refilling
    <3>2. Token \in Nat /\ Rate \in Nat /\ Capacity \in Nat
      BY TokenAssumption, RateAssumption, CapacityAssumption
    <3>3. QED
      BY <3>1, <3>2
  <2>5. CASE present
    <3>1. (granted * Token + tokens) - Rate * Refilling <= Capacity
      BY <2>5 DEF IInv, BudgetKept, Spent
    <3>2. granted * Token \in Int /\ Rate * Refilling \in Int
      BY <2>2, <2>3
    <3>3. granted * Token + tokens <= Capacity + Rate * Refilling
      BY <2>3, <3>1, <3>2
    <3>4. QED
      BY <2>2, <2>3, <3>3, FewerTokens
  <2>6. QED
    BY <2>4, <2>5
<1>2. GatewaySpec => Spec
  BY GatewayCallsLimiter DEF ImplementsLimiter
<1>3. QED
  BY <1>1, <1>2, PaidInit, PaidStep, BucketSafe, PTL DEF GatewaySpec

-----------------------------------------------------------------------------
(* Types.                                                                  *)

BuiltOK == built \in BOOLEAN

\* Every step leaves the model built or not, as get_model does.
LEMMA BuiltStep == BuiltOK /\ [GatewayNext]_gatewayVars => BuiltOK'
<1> SUFFICES ASSUME BuiltOK, [GatewayNext]_gatewayVars PROVE BuiltOK'
  OBVIOUS
<1>1. ASSUME NEW t \in Threads, Arrive(t) \/ Serve(t)
      PROVE  built' = built \/ built' = TRUE
  BY <1>1, Zenon DEF Arrive, Serve, Authenticate, CallLimiter, LimiterAnswers, StrangerAnswered,
                     Handle, Reject, GetModel, ReadMode, SwitchMode, RestoreMode, Conclude, model
<1>2. ClockTicks \/ UNCHANGED gatewayVars => built' = built
  BY Zenon DEF ClockTicks, gatewayVars, model
<1>3. QED
  BY <1>1, <1>2, Zenon DEF GatewayNext, BuiltOK

\* Every request, the bucket and the shared model have their types behind the
\* gateway, however many requests interleave (main.py 103-197, rate_limit.py
\* 31-59, inference.py 36-51).
THEOREM TypeCorrect == GatewaySpec => []GatewayTypeOK
<1>1. GatewayInit => BuiltOK
  BY DEF GatewayInit, BuiltOK
<1>2. IInv /\ PaidInv /\ EvalInv /\ BuiltOK => GatewayTypeOK
  BY Zenon DEF IInv, BuiltOK, PaidInv, RequestOK, EvalInv, GatewayTypeOK
<1>3. GatewaySpec => Spec
  BY GatewayCallsLimiter DEF ImplementsLimiter
<1>4. QED
  BY <1>1, <1>2, <1>3, BuiltStep, PaidInit, PaidStep, EvalInit, EvalStep, BucketSafe, PTL
     DEF GatewaySpec
=============================================================================
