---------------------------- MODULE RateLimiter ----------------------------
(***************************************************************************)
(* One key of TokenBucketRateLimiter (backend/api/rate_limit.py), called   *)
(* by the threads that run the FastAPI dependency.  A call reads the       *)
(* monotonic clock first and takes the lock afterwards, so calls can enter *)
(* the lock in another order than they read the clock.  Tokens are counted *)
(* in parts, of which the bucket gains Rate in a tick of the clock.        *)
(***************************************************************************)
EXTENDS Integers

CONSTANTS
    Threads,
    Token,       \* parts of one token
    Capacity,    \* `capacity`, in parts
    Rate,        \* `refill_per_second`, in parts per tick
    MaxClock     \* named bound: ticks of the clock

ASSUME TokenAssumption == Token \in Nat \ {0}
ASSUME CapacityAssumption == Capacity \in Nat
ASSUME RateAssumption == Rate \in Nat
ASSUME MaxClockAssumption == MaxClock \in Nat

NotCalled == -1
Smaller(a, b) == IF a <= b THEN a ELSE b

VARIABLES
    clock,
    now,         \* `now` of each thread's call of allow, or NotCalled
    present,     \* the key has a bucket
    tokens,      \* its `tokens`
    lastRefill,  \* its `last_refill`
    since,       \* history: `now` of the call that created the bucket
    granted,     \* history: calls the bucket has allowed
    setBack      \* history: ticks by which late calls have set last_refill back

bucket == <<present, tokens, lastRefill, since, granted, setBack>>
vars == <<clock, now, bucket>>

Init == /\ clock = 0
        /\ now = [t \in Threads |-> NotCalled]
        /\ present = FALSE
        /\ tokens = 0
        /\ lastRefill = 0
        /\ since = 0
        /\ granted = 0
        /\ setBack = 0

\* allow begins: time.monotonic(), outside the lock.
ReadClock(t) == /\ now[t] = NotCalled
                /\ now' = [now EXCEPT ![t] = clock]
                /\ UNCHANGED <<clock, bucket>>

\* Mutants: the refill is not capped; it counts the tick that has begun.
RefilledUncapped(n) == IF n > lastRefill THEN tokens + (n - lastRefill) * Rate ELSE tokens
RefilledEarly(n) == IF n >= lastRefill
                    THEN Smaller(Capacity, tokens + (n - lastRefill + 1) * Rate)
                    ELSE Smaller(Capacity, tokens)

\* What the bucket holds for a call that read the clock at n.
Refilled(n) == IF n > lastRefill
               THEN Smaller(Capacity, tokens + (n - lastRefill) * Rate)
               ELSE Smaller(Capacity, tokens)
Available(n) == IF present THEN Refilled(n) ELSE Capacity

\* The rest of allow, under the lock.
Decide(t) ==
    /\ now[t] # NotCalled
    /\ \/ /\ Available(now[t]) >= Token
          /\ tokens' = Available(now[t]) - Token
          /\ granted' = granted + 1
       \/ /\ Available(now[t]) < Token
          /\ tokens' = Available(now[t])
          /\ UNCHANGED granted
    /\ present' = TRUE
    /\ lastRefill' = now[t]
    /\ since' = IF present THEN since ELSE now[t]
    /\ setBack' = IF present /\ now[t] < lastRefill
                  THEN setBack + (lastRefill - now[t]) ELSE setBack
    /\ now' = [now EXCEPT ![t] = NotCalled]
    /\ UNCHANGED clock

\* reset drops every bucket; the histories start again.
Reset == /\ present
         /\ present' = FALSE
         /\ tokens' = 0
         /\ lastRefill' = 0
         /\ since' = 0
         /\ granted' = 0
         /\ setBack' = 0
         /\ UNCHANGED <<clock, now>>

Tick == /\ clock < MaxClock
        /\ clock' = clock + 1
        /\ UNCHANGED <<now, bucket>>

Next == \/ \E t \in Threads : ReadClock(t) \/ Decide(t)
        \/ Reset
        \/ Tick

Spec == Init /\ [][Next]_vars

-----------------------------------------------------------------------------
(* Properties.                                                             *)

TypeOK == /\ clock \in 0..MaxClock
          /\ now \in [Threads -> {NotCalled} \cup 0..clock]
          /\ present \in BOOLEAN
          /\ tokens \in 0..Capacity
          /\ lastRefill \in 0..clock
          /\ since \in 0..clock
          /\ granted \in Nat
          /\ setBack \in Nat

\* The time a bucket has refilled for: a late call sets last_refill back, and the
\* calls after it refill that interval again.
Refilling == lastRefill - since + setBack

\* What the bucket has handed out and still holds, less what time has put in.
Spent == (granted * Token + tokens) - Rate * Refilling

\* In whichever order the threads enter the lock, no call brings a bucket more than
\* the time it counts: between any two moments of a bucket's life, the calls granted
\* are covered by its tokens and the refill of that time, and an interval is refilled
\* as often as late calls reopen it and no more (rate_limit.py 37-55).
WindowKeepsRate == [][present /\ present' => Spent' <= Spent]_vars
=============================================================================
