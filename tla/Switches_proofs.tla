-------------------------- MODULE Switches_proofs --------------------------
(***************************************************************************)
(* The two ends of the switch.  The app's, for any number of taps and      *)
(* retries, whatever calls and answers are lost, delayed or overtaken; and *)
(* the file-backed one, for any number of restarts.                        *)
(***************************************************************************)
EXTENDS AppDashboard, KillSwitch, SequenceTheorems, TLAPS

USE MaxAttemptsAssumption, MaxCallsAssumption

Call == [active : BOOLEAN, fate : Fates, alone : BOOLEAN]

-----------------------------------------------------------------------------
(* The app.  The inductive invariant: what the app may believe after a row *)
(* of calls that were made alone.                                          *)

Since(k) == {i \in DOMAIN calls : i >= k}
Alone(k) == \A i \in Since(k) : calls[i].alone
Clean(k) == \A i \in Since(k) : calls[i].fate \notin {"abandoned", "lost"}

\* When the last call was made alone, no other can act.
OnlyLastActs ==
    Len(calls) > 0 /\ calls[Len(calls)].alone =>
        \A i \in DOMAIN calls : i # Len(calls) => Settled(calls[i])

\* A call of the row that has been applied says what the backend does; when there
\* is none, the last confirmed one has told the app.
InStep(k) ==
    Alone(k) /\ Clean(k) =>
        /\ \A i \in Since(k) : calls[i].fate = "applied" => running = calls[i].active
        /\ /\ \A i \in Since(k) : calls[i].fate # "applied"
           /\ \E i \in Since(k) : calls[i].fate = "confirmed"
           => ui.isBotActive = running

IInv == TypeOK /\ OnlyLastActs /\ \A k \in DOMAIN calls : InStep(k)

-----------------------------------------------------------------------------
(* The calls.                                                              *)

LEMMA CallsAre ==
    ASSUME TypeOK
    PROVE  /\ calls \in Seq(Call) /\ Len(calls) \in Nat /\ DOMAIN calls = 1..Len(calls)
           /\ \A i \in DOMAIN calls : calls[i] \in Call
BY ElementOfSeq, LenProperties DEF TypeOK, Call

\* What the end of a call changes: its fate, and nothing else of any call.
LEMMA EndsProperties ==
    ASSUME TypeOK, NEW i \in DOMAIN calls, NEW f \in Fates, Ends(i, f)
    PROVE  /\ calls' \in Seq(Call)
           /\ Len(calls') = Len(calls)
           /\ DOMAIN calls' = DOMAIN calls
           /\ calls'[i].fate = f /\ calls'[i].active = calls[i].active
           /\ \A j \in DOMAIN calls : calls'[j].alone = calls[j].alone
           /\ \A j \in DOMAIN calls : j # i => calls'[j] = calls[j]
<1> DEFINE e == [calls[i] EXCEPT !.fate = f]
<1>1. calls \in Seq(Call) /\ DOMAIN calls = 1..Len(calls)
  BY CallsAre
<1>2. calls[i] \in Call
  BY CallsAre
<1>3. e \in Call /\ e.fate = f /\ e.active = calls[i].active /\ e.alone = calls[i].alone
  BY <1>2 DEF Call
<1>4. calls' = [calls EXCEPT ![i] = e]
  BY DEF Ends
<1> HIDE DEF e
<1>5. /\ calls' \in Seq(Call)
      /\ Len(calls') = Len(calls)
      /\ \A j \in 1..Len(calls) : calls'[j] = IF j = i THEN e ELSE calls[j]
  BY <1>1, <1>3, <1>4, ExceptSeq
<1>6. DOMAIN calls' = 1..Len(calls')
  BY <1>5, LenProperties
<1>7. QED
  BY <1>1, <1>3, <1>5, <1>6

\* A step that touches neither the calls nor what the switch shows.
LEMMA Elsewhere ==
    ASSUME IInv, TypeOK', UNCHANGED remote, ui'.isBotActive = ui.isBotActive
    PROVE  IInv'
BY DEF IInv, remote, OnlyLastActs, InStep, Since, Alone, Clean, Settled

-----------------------------------------------------------------------------
(* The initial state and the steps that leave the calls alone.             *)

LEMMA InitInv == Init => IInv
<1> SUFFICES ASSUME Init PROVE IInv
  OBVIOUS
<1>1. calls = <<>> /\ Len(calls) = 0 /\ DOMAIN calls = {} /\ calls \in Seq(Call)
  BY EmptySeq DEF Init
<1>2. ui \in UiState /\ shown \in UiState
  BY DEF Init, UiState, Messages
<1>3. TypeOK
  <2>1. stream = "open" /\ attempt = 0 /\ skips \in BOOLEAN /\ running \in BOOLEAN
    BY DEF Init
  <2>2. attempt \in 0..MaxAttempts /\ Len(calls) <= MaxCalls
    BY <1>1, <2>1
  <2>3. QED
    BY <1>1, <1>2, <2>1, <2>2, Zenon DEF TypeOK, Call
<1>4. QED
  BY <1>1, <1>3 DEF IInv, OnlyLastActs

LEMMA TelemetryInv ==
    ASSUME IInv, Balance \/ Skipped \/ StreamThrows \/ StreamCompletes \/ BackoffEnds
    PROVE  IInv'
<1>1. TypeOK /\ attempt \in 0..MaxAttempts /\ ui \in UiState
  BY DEF IInv, TypeOK
<1>2. UNCHANGED <<shown, remote>>
  BY DEF Balance, Skipped, StreamThrows, Retried, GaveUp, StreamCompletes, BackoffEnds
<1>3. stream' \in {"open", "backoff", "completed", "failed"} /\ skips' \in BOOLEAN
  <2>1. stream' \in {"open", "backoff", "completed", "failed"}
    BY <1>1 DEF Balance, Skipped, StreamThrows, Retried, GaveUp, StreamCompletes, BackoffEnds,
                TypeOK, telemetry
  <2>2. skips' \in {skips, ~skips}
    BY DEF Balance, Skipped, StreamThrows, Retried, GaveUp, StreamCompletes, BackoffEnds,
           telemetry
  <2>3. skips' \in BOOLEAN
    BY <1>1, <2>2, Zenon DEF TypeOK
  <2>4. QED
    BY <2>1, <2>3
<1>4. attempt' \in 0..MaxAttempts
  BY <1>1 DEF Balance, Skipped, StreamThrows, Retried, GaveUp, StreamCompletes, BackoffEnds,
              MayRetry, telemetry
<1>5. ui' \in UiState /\ ui'.isBotActive = ui.isBotActive
  BY <1>1 DEF Balance, Skipped, StreamThrows, Retried, GaveUp, StreamCompletes, BackoffEnds,
              UiState, Messages
<1>6. TypeOK'
  BY <1>1, <1>2, <1>3, <1>4, <1>5 DEF TypeOK, remote
<1>7. QED
  BY <1>2, <1>5, <1>6, Elsewhere

LEMMA ScreenInv == ASSUME IInv, Draw \/ DismissError PROVE IInv'
<1>1. TypeOK /\ ui \in UiState /\ shown \in UiState
  BY DEF IInv, TypeOK
<1>2. UNCHANGED <<telemetry, remote>>
  BY DEF Draw, DismissError
<1>3. ui' \in UiState /\ shown' \in UiState /\ ui'.isBotActive = ui.isBotActive
  BY <1>1 DEF Draw, DismissError, UiState, Messages
<1>4. TypeOK'
  BY <1>1, <1>2, <1>3 DEF TypeOK, telemetry, remote
<1>5. QED
  BY <1>2, <1>3, <1>4, Elsewhere

-----------------------------------------------------------------------------
(* A tap: the new call is alone when every other one is settled.           *)

LEMMA TapInv == ASSUME IInv, Tap PROVE IInv'
<1> DEFINE settled == \A i \in DOMAIN calls : Settled(calls[i])
           c == [active |-> ~shown.isBotActive, fate |-> "sent", alone |-> settled]
           n == Len(calls)
<1>1. TypeOK /\ ui \in UiState /\ shown \in UiState
  BY DEF IInv, TypeOK
<1>2. /\ calls' = Append(calls, c) /\ n < MaxCalls
      /\ UNCHANGED <<telemetry, shown, running>>
  BY DEF Tap
<1>3. c \in Call /\ c.fate = "sent" /\ c.alone = settled
  <2> HIDE DEF settled
  <2>1. settled \in BOOLEAN
    BY DEF settled
  <2>2. QED
    BY <1>1, <2>1 DEF Call, Fates, UiState
<1>4. ui' \in UiState /\ ui'.isBotActive = ui.isBotActive
  BY <1>1 DEF Tap, UiState, Messages
<1>5. calls \in Seq(Call) /\ n \in Nat /\ DOMAIN calls = 1..n
  BY <1>1, CallsAre
<1> HIDE DEF c
<1>6. /\ calls' \in Seq(Call) /\ Len(calls') = n + 1 /\ DOMAIN calls' = 1..(n + 1)
      /\ \A i \in 1..n : calls'[i] = calls[i]
      /\ calls'[n + 1] = c
  <2>1. /\ calls' \in Seq(Call) /\ Len(calls') = n + 1
        /\ \A i \in 1..n : calls'[i] = calls[i]
        /\ calls'[n + 1] = c
    BY <1>2, <1>3, <1>5, AppendProperties
  <2>2. DOMAIN calls' = 1..Len(calls')
    BY <2>1, LenProperties
  <2>3. QED
    BY <2>1, <2>2
<1>7. TypeOK'
  <2>1. Len(calls') <= MaxCalls
    BY <1>2, <1>5, <1>6
  <2>2. QED
    BY <1>1, <1>2, <1>4, <1>6, <2>1 DEF TypeOK, Call, telemetry
<1> HIDE DEF settled, n
<1>8. OnlyLastActs'
  <2> SUFFICES ASSUME calls'[n + 1].alone, NEW i \in 1..(n + 1), i # n + 1
               PROVE  Settled(calls'[i])
    BY <1>6 DEF OnlyLastActs, Settled
  <2>1. i \in 1..n /\ settled
    BY <1>3, <1>5, <1>6
  <2>2. QED
    BY <1>5, <1>6, <2>1 DEF settled
<1>9. ASSUME NEW k \in DOMAIN calls' PROVE InStep(k)'
  <2> SUFFICES ASSUME Alone(k)', Clean(k)'
               PROVE  /\ \A i \in Since(k)' :
                             calls'[i].fate = "applied" => running' = calls'[i].active
                      /\ /\ \A i \in Since(k)' : calls'[i].fate # "applied"
                         /\ \E i \in Since(k)' : calls'[i].fate = "confirmed"
                         => ui'.isBotActive = running'
    BY DEF InStep
  <2>1. n + 1 \in Since(k)' /\ settled
    BY <1>3, <1>5, <1>6, <1>9 DEF Since, Alone
  <2>2. \A i \in 1..n : Settled(calls[i])
    BY <1>5, <2>1 DEF settled
  <2>3. \A i \in Since(k) : i \in Since(k)' /\ calls'[i] = calls[i] /\ i \in 1..n
    BY <1>5, <1>6 DEF Since
  <2>4. \A i \in Since(k)' : i = n + 1 \/ (i \in Since(k) /\ i \in 1..n /\ calls'[i] = calls[i])
    BY <1>5, <1>6 DEF Since
  <2>5. \A i \in Since(k)' : calls'[i].fate # "applied"
    BY <1>3, <1>6, <2>2, <2>4 DEF Settled
  <2>6. ASSUME NEW i \in Since(k)', calls'[i].fate = "confirmed"
        PROVE  ui'.isBotActive = running'
    <3>1. i \in Since(k) /\ i \in 1..n /\ calls[i].fate = "confirmed"
      BY <1>3, <1>6, <2>4, <2>6
    <3>2. k \in DOMAIN calls
      BY <1>5, <1>6, <1>9, <3>1 DEF Since
    <3>3. Alone(k) /\ Clean(k)
      BY <2>3 DEF Alone, Clean
    <3>4. \A j \in Since(k) : calls[j].fate # "applied"
      BY <2>2, <2>3 DEF Settled
    <3>5. ui.isBotActive = running
      BY <3>1, <3>2, <3>3, <3>4 DEF IInv, InStep
    <3>6. QED
      BY <1>2, <1>4, <3>5
  <2>7. QED
    BY <2>5, <2>6
<1>10. QED
  BY <1>7, <1>8, <1>9 DEF IInv

-----------------------------------------------------------------------------
(* The end of a call.                                                      *)

\* What stays of the invariant when a call that was not settled gets the fate f.
\* In a row of calls made alone it is the last one, the others are settled, and
\* they are what they were.
LEMMA CallEnds ==
    ASSUME IInv, NEW i \in DOMAIN calls, ~Settled(calls[i]), NEW f \in Fates, Ends(i, f),
           ui' \in UiState, running' \in BOOLEAN, UNCHANGED <<telemetry, shown>>
    PROVE  /\ TypeOK' /\ OnlyLastActs' /\ DOMAIN calls' = DOMAIN calls
           /\ calls'[i].fate = f /\ calls'[i].active = calls[i].active
           /\ \A k \in DOMAIN calls : Alone(k)' =>
                 /\ Alone(k) /\ i \in Since(k)
                 /\ Since(k)' = Since(k)
                 /\ \A j \in Since(k) : j # i => Settled(calls[j]) /\ calls'[j] = calls[j]
<1> DEFINE n == Len(calls)
<1>1. TypeOK /\ OnlyLastActs
  BY DEF IInv
<1>2. n \in Nat /\ DOMAIN calls = 1..n /\ n > 0
  BY <1>1, CallsAre
<1>3. /\ calls' \in Seq(Call) /\ Len(calls') = n /\ DOMAIN calls' = DOMAIN calls
      /\ calls'[i].fate = f /\ calls'[i].active = calls[i].active
      /\ \A j \in DOMAIN calls : calls'[j].alone = calls[j].alone
      /\ \A j \in DOMAIN calls : j # i => calls'[j] = calls[j]
  BY <1>1, EndsProperties
<1>4. TypeOK'
  BY <1>1, <1>3 DEF TypeOK, Call, telemetry
<1> HIDE DEF n
<1>5. ASSUME calls[n].alone
      PROVE  i = n /\ \A j \in DOMAIN calls : j # i => Settled(calls[j])
  <2>1. \A j \in DOMAIN calls : j # n => Settled(calls[j])
    BY <1>1, <1>2, <1>5 DEF OnlyLastActs, n
  <2>2. QED
    BY <2>1
<1>6. OnlyLastActs'
  <2> SUFFICES ASSUME calls'[n].alone, NEW j \in DOMAIN calls, j # n
               PROVE  Settled(calls'[j])
    BY <1>3 DEF OnlyLastActs, Settled
  <2>1. calls[n].alone
    BY <1>2, <1>3
  <2>2. j # i /\ Settled(calls[j])
    BY <1>5, <2>1
  <2>3. QED
    BY <1>3, <2>2
<1>7. ASSUME NEW k \in DOMAIN calls, Alone(k)'
      PROVE  /\ Alone(k) /\ i \in Since(k)
             /\ Since(k)' = Since(k)
             /\ \A j \in Since(k) : j # i => Settled(calls[j]) /\ calls'[j] = calls[j]
  <2>1. Since(k)' = Since(k) /\ Since(k) \subseteq DOMAIN calls
    BY <1>3 DEF Since
  <2>2. Alone(k)
    BY <1>3, <1>7, <2>1 DEF Alone
  <2>3. n \in Since(k)
    BY <1>2 DEF Since
  <2>4. i = n /\ \A j \in DOMAIN calls : j # i => Settled(calls[j])
    BY <1>5, <2>2, <2>3 DEF Alone
  <2>5. QED
    BY <1>3, <2>1, <2>2, <2>3, <2>4
<1>8. QED
  BY <1>3, <1>4, <1>6, <1>7

LEMMA AppliedInv == ASSUME IInv, NEW i \in DOMAIN calls, Applied(i) PROVE IInv'
<1>1. TypeOK
  BY DEF IInv
<1>2. running' = calls[i].active /\ UNCHANGED <<telemetry, ui, shown>>
  BY DEF Applied
<1>3. running' \in BOOLEAN /\ ui' \in UiState
  BY <1>1, <1>2, CallsAre DEF Call, TypeOK
<1>4. PICK f \in Fates : /\ Ends(i, f)
                         /\ \/ calls[i].fate = "sent" /\ f = "applied"
                            \/ calls[i].fate = "abandoned" /\ f = "lost"
  BY DEF Applied, Fates
<1>5. ~Settled(calls[i])
  BY <1>4 DEF Settled
<1>6. ASSUME NEW k \in DOMAIN calls PROVE InStep(k)'
  <2> SUFFICES ASSUME Alone(k)', Clean(k)' PROVE InStep(k)'
    BY DEF InStep
  <2>1. /\ i \in Since(k)' /\ calls'[i].fate = f /\ calls'[i].active = calls[i].active
        /\ \A j \in Since(k)' : j # i => Settled(calls'[j])
    BY <1>2, <1>3, <1>4, <1>5, CallEnds DEF Settled
  <2>2. f = "applied"
    BY <1>4, <2>1 DEF Clean
  <2>3. \A j \in Since(k)' : calls'[j].fate = "applied" => running' = calls'[j].active
    BY <1>2, <2>1 DEF Settled
  <2>4. ~\A j \in Since(k)' : calls'[j].fate # "applied"
    BY <2>1, <2>2
  <2>5. QED
    BY <2>3, <2>4 DEF InStep
<1>7. QED
  BY <1>2, <1>3, <1>4, <1>5, <1>6, CallEnds DEF IInv

\* The last call, applied, is the one that is confirmed: the app takes over what
\* the backend does.
LEMMA ConfirmedInv == ASSUME IInv, NEW i \in DOMAIN calls, Confirmed(i) PROVE IInv'
<1>1. TypeOK
  BY DEF IInv
<1>2. calls[i].fate = "applied" /\ Ends(i, "confirmed") /\ "confirmed" \in Fates
      /\ UNCHANGED <<telemetry, shown, running>>
  BY DEF Confirmed, Fates
<1>3. ui' \in UiState /\ ui'.isBotActive = calls[i].active
  BY <1>1, CallsAre DEF Confirmed, TypeOK, UiState, Call
<1>4. running' \in BOOLEAN
  BY <1>1, <1>2, Zenon DEF TypeOK
<1>5. ~Settled(calls[i])
  BY <1>2 DEF Settled
<1>6. ASSUME NEW k \in DOMAIN calls PROVE InStep(k)'
  <2> SUFFICES ASSUME Alone(k)', Clean(k)' PROVE InStep(k)'
    BY DEF InStep
  <2>1. /\ Alone(k) /\ i \in Since(k) /\ Since(k)' = Since(k)
        /\ calls'[i].fate = "confirmed"
        /\ \A j \in Since(k) : j # i => Settled(calls[j]) /\ calls'[j] = calls[j]
    BY <1>2, <1>3, <1>4, <1>5, CallEnds
  <2>2. Clean(k)
    BY <1>2, <2>1 DEF Clean
  <2>3. running = calls[i].active
    BY <1>2, <2>1, <2>2 DEF IInv, InStep
  <2>4. ui'.isBotActive = running'
    BY <1>2, <1>3, <2>3
  <2>5. \A j \in Since(k)' : calls'[j].fate # "applied"
    BY <2>1 DEF Settled
  <2>6. QED
    BY <2>4, <2>5 DEF InStep
<1>7. QED
  BY <1>2, <1>3, <1>4, <1>5, <1>6, CallEnds DEF IInv

\* A refused call changes nothing on either side; a row with a call whose answer
\* never comes is not clean any more.
LEMMA FailsInv == ASSUME IInv, NEW i \in DOMAIN calls, Fails(i) PROVE IInv'
<1>1. TypeOK
  BY DEF IInv
<1>2. UNCHANGED <<telemetry, shown, running>>
  BY DEF Fails
<1>3. ui' \in UiState /\ ui'.isBotActive = ui.isBotActive
  BY <1>1 DEF Fails, TypeOK, UiState, Messages
<1>4. PICK f \in Fates : /\ Ends(i, f)
                         /\ \/ calls[i].fate = "sent" /\ f = "refused"
                            \/ calls[i].fate \in {"sent", "applied"} /\ f \in {"abandoned", "lost"}
  BY DEF Fails, Failed, Fates
<1>5. ~Settled(calls[i])
  BY <1>4 DEF Settled
<1>6. running' \in BOOLEAN
  BY <1>1, <1>2, Zenon DEF TypeOK
<1>7. ASSUME NEW k \in DOMAIN calls PROVE InStep(k)'
  <2> SUFFICES ASSUME Alone(k)', Clean(k)' PROVE InStep(k)'
    BY DEF InStep
  <2>1. /\ Alone(k) /\ i \in Since(k) /\ Since(k)' = Since(k)
        /\ calls'[i].fate = f
        /\ \A j \in Since(k) : j # i => Settled(calls[j]) /\ calls'[j] = calls[j]
    BY <1>2, <1>3, <1>4, <1>5, <1>6, CallEnds
  <2>2. f = "refused" /\ calls[i].fate = "sent"
    BY <1>4, <2>1 DEF Clean
  <2>3. Clean(k)
    BY <2>1, <2>2 DEF Clean
  <2>4. /\ \A j \in Since(k) : calls[j].fate # "applied"
        /\ \A j \in Since(k)' : calls'[j].fate # "applied"
    BY <2>1, <2>2 DEF Settled
  <2>5. (\E j \in Since(k)' : calls'[j].fate = "confirmed")
           => \E j \in Since(k) : calls[j].fate = "confirmed"
    BY <2>1, <2>2
  <2>6. (\E j \in Since(k)' : calls'[j].fate = "confirmed") => ui'.isBotActive = running'
    BY <1>2, <1>3, <2>1, <2>3, <2>4, <2>5 DEF IInv, InStep
  <2>7. QED
    BY <2>4, <2>6 DEF InStep
<1>8. QED
  BY <1>2, <1>3, <1>4, <1>5, <1>6, <1>7, CallEnds DEF IInv

-----------------------------------------------------------------------------
(* The theorems.                                                           *)

LEMMA NextInv == IInv /\ [Next]_vars => IInv'
<1> SUFFICES ASSUME IInv, [Next]_vars PROVE IInv'
  OBVIOUS
<1>1. CASE Balance \/ Skipped \/ StreamThrows \/ StreamCompletes \/ BackoffEnds
  BY <1>1, TelemetryInv
<1>2. CASE Draw \/ DismissError
  BY <1>2, ScreenInv
<1>3. CASE Tap
  BY <1>3, TapInv
<1>4. ASSUME NEW i \in DOMAIN calls, Applied(i) \/ Confirmed(i) \/ Fails(i) PROVE IInv'
  BY <1>4, AppliedInv, ConfirmedInv, FailsInv
<1>5. CASE UNCHANGED vars
  <2>1. TypeOK'
    BY <1>5 DEF vars, telemetry, remote, IInv, TypeOK
  <2>2. QED
    BY <1>5, <2>1, Elsewhere DEF vars
<1>6. QED
  BY <1>1, <1>2, <1>3, <1>4, <1>5 DEF Next

\* The flow of telemetry retries at most maxAttempts times over its whole life,
\* and the screen and the calls have their types (StreamTelemetryUseCase.kt
\* 26-37, DashboardViewModel.kt 25-88).
THEOREM TypeCorrect == Spec => []TypeOK
<1>1. IInv => TypeOK
  BY DEF IInv
<1>2. QED
  BY InitInv, NextInv, <1>1, PTL DEF Spec

\* For any number of taps and whatever happened to earlier ones, what the app shows
\* is what the backend does once a row of calls made alone has been confirmed or
\* refused, one of them confirmed (DashboardViewModel.kt 66-88).
THEOREM ScreenStaysInStep == Spec => []ScreenInStep
<1>1. IInv => ScreenInStep
  <2> SUFFICES ASSUME IInv, NEW k \in DOMAIN calls,
                      \A i \in k..Len(calls) :
                          calls[i].alone /\ calls[i].fate \in {"confirmed", "refused"},
                      \E i \in k..Len(calls) : calls[i].fate = "confirmed"
               PROVE  ui.isBotActive = running
    BY DEF ScreenInStep
  <2>1. Since(k) = k..Len(calls)
    <3>1. Len(calls) \in Nat /\ DOMAIN calls = 1..Len(calls)
      BY CallsAre DEF IInv
    <3>2. QED
      BY <3>1 DEF Since
  <2>2. Alone(k) /\ Clean(k)
    BY <2>1 DEF Alone, Clean
  <2>3. QED
    BY <2>1, <2>2 DEF IInv, InStep
<1>2. QED
  BY InitInv, NextInv, <1>1, PTL DEF Spec

\* Loading that has ended on the screen has ended in the state.
LoadingOver == /\ ~shown.isLoading => ~ui.isLoading
               /\ stream = "failed" => ~ui.isLoading

LEMMA LoadingNext ==
    ASSUME TypeOK, LoadingOver, [Next]_vars
    PROVE  LoadingOver' /\ (~shown.isLoading => ~shown'.isLoading)
<1>1. ui \in UiState /\ shown \in UiState
  BY DEF TypeOK
<1>2. CASE Balance \/ Skipped \/ StreamThrows \/ StreamCompletes \/ BackoffEnds
  BY <1>1, <1>2 DEF LoadingOver, Balance, Skipped, StreamThrows, Retried, GaveUp, StreamCompletes,
                    BackoffEnds, telemetry, UiState
<1>3. CASE Draw \/ DismissError
  BY <1>1, <1>3 DEF LoadingOver, Draw, DismissError, telemetry, UiState
<1>4. CASE Tap
  BY <1>1, <1>4 DEF LoadingOver, Tap, telemetry, UiState
<1>5. ASSUME NEW i \in DOMAIN calls, Applied(i) \/ Confirmed(i) \/ Fails(i)
      PROVE  /\ UNCHANGED <<stream, shown>> /\ ui'.isLoading = ui.isLoading
  BY <1>1, <1>5 DEF Applied, Confirmed, Fails, telemetry, UiState
<1>6. CASE UNCHANGED vars
  BY <1>6 DEF LoadingOver, vars, telemetry
<1>7. QED
  BY <1>2, <1>3, <1>4, <1>5, <1>6 DEF Next, LoadingOver

\* The flow never fails into a screen that loads for ever, and what was loaded once
\* never loads again, whatever fails later: what LoadingEnds needs apart from
\* fairness (DashboardViewModel.kt 48-64, StreamTelemetryUseCase.kt 26-37).
THEOREM LoadingEndsOnce ==
    Spec => /\ [](stream = "failed" => ~ui.isLoading)
            /\ [][~shown.isLoading => ~shown'.isLoading]_vars
<1>1. Init => LoadingOver
  BY DEF Init, LoadingOver
<1>2. IInv => TypeOK
  BY DEF IInv
<1>3. TypeOK /\ LoadingOver /\ [Next]_vars => LoadingOver'
  BY LoadingNext
<1>4. LoadingOver => (stream = "failed" => ~ui.isLoading)
  BY DEF LoadingOver
<1>5. TypeOK /\ LoadingOver /\ [Next]_vars => [~shown.isLoading => ~shown'.isLoading]_vars
  BY LoadingNext
<1>6. QED
  BY InitInv, NextInv, <1>1, <1>2, <1>3, <1>4, <1>5, PTL DEF Spec

-----------------------------------------------------------------------------
(* The file.                                                               *)

SwitchTypes == /\ pc \in {"up", "truncating", "writing", "down"}
               /\ engaged \in BOOLEAN /\ answered \in BOOLEAN /\ unsure \in BOOLEAN
               /\ file \in {"absent", "garbled", "true", "false"}

\* Outside a write that may still be cut short, the last answer is what the file
\* says, and a process that is up has it in memory.
AnswerOnFile == ~unsure => /\ pc \in {"up", "down"} => ReadPersisted = answered
                           /\ pc = "up" => engaged = answered

SwitchInv == SwitchTypes /\ AnswerOnFile

LEMMA SwitchStarts == SwitchInit => SwitchInv
BY DEF SwitchInit, SwitchInv, SwitchTypes, AnswerOnFile, ReadPersisted

\* A write that ends leaves on file what is in memory.
LEMMA WriteAnswers == ASSUME SwitchInv, Write PROVE SwitchInv'
<1>1. ReadPersisted' = engaged
  BY DEF SwitchInv, SwitchTypes, Write, Json, ReadPersisted
<1>2. file' \in {"true", "false"}
  BY DEF Write, Json
<1>3. QED
  BY <1>1, <1>2 DEF SwitchInv, SwitchTypes, AnswerOnFile, Write

LEMMA SwitchStep == SwitchInv /\ [SwitchNext]_switchVars => SwitchInv'
<1> SUFFICES ASSUME SwitchInv, [SwitchNext]_switchVars PROVE SwitchInv'
  OBVIOUS
<1>1. ASSUME NEW v \in BOOLEAN, Set(v) PROVE SwitchInv'
  BY <1>1 DEF Set, SwitchInv, SwitchTypes, AnswerOnFile
<1>2. CASE Truncate
  BY <1>2 DEF Truncate, SwitchInv, SwitchTypes, AnswerOnFile
<1>3. CASE PersistRaises
  BY <1>3 DEF PersistRaises, SwitchInv, SwitchTypes, AnswerOnFile
<1>4. CASE Kill
  BY <1>4 DEF Kill, SwitchInv, SwitchTypes, AnswerOnFile, ReadPersisted
<1>5. CASE Restart
  BY <1>5 DEF Restart, SwitchInv, SwitchTypes, AnswerOnFile, ReadPersisted
<1>6. CASE UNCHANGED switchVars
  BY <1>6 DEF switchVars, SwitchInv, SwitchTypes, AnswerOnFile, ReadPersisted
<1>7. QED
  BY <1>1, <1>2, <1>3, <1>4, <1>5, <1>6, WriteAnswers DEF SwitchNext

\* For any number of restarts, and whatever the file said at first, a switch is
\* what the last caller was told, unless a later call was cut short
\* (kill_switch.py 23-27, 47-64).
THEOREM SwitchSurvives == SwitchSpec => []SurvivesRestart
<1>1. SwitchInv => SurvivesRestart
  BY DEF SwitchInv, AnswerOnFile, SurvivesRestart
<1>2. QED
  BY SwitchStarts, SwitchStep, <1>1, PTL DEF SwitchSpec
=============================================================================
