---------------------------- MODULE AppDashboard ----------------------------
(***************************************************************************)
(* The dashboard of the Android app: DashboardViewModel and its screen,    *)
(* the telemetry stream with its retries, and the calls that set the       *)
(* remote kill switch.  Everything of the app runs on the main thread, but *)
(* the screen is drawn after the state has changed, and what the user taps *)
(* is what was drawn.  A call can fail before or after the backend has     *)
(* acted on it, and calls reach the backend in any order.                  *)
(***************************************************************************)
EXTENDS Naturals, Sequences

CONSTANTS
    MaxAttempts,   \* maxAttempts of StreamTelemetryUseCase
    MaxCalls       \* named bound: taps on the switch

ASSUME MaxAttemptsAssumption == MaxAttempts \in Nat
ASSUME MaxCallsAssumption == MaxCalls \in Nat

VARIABLES
    stream,    \* "open", "backoff", or how the flow ended: "completed", "failed"
    attempt,   \* retries so far
    skips,     \* lines skipped so far, odd or even: so that skipping is a step
    ui,        \* DashboardUiState
    shown,     \* the DashboardUiState the screen was last drawn from
    calls,     \* the calls of setKillSwitch: the `active` asked for, its fate, and
               \* (history) whether no earlier call could still act when it was made
    running    \* backend: the kill switch is disengaged

telemetry == <<stream, attempt, skips>>
remote == <<calls, running>>
vars == <<telemetry, ui, shown, remote>>

Messages == {"none", "telemetry", "toggle"}

UiState == [isBotActive : BOOLEAN, isLoading : BOOLEAN, isTogglingBot : BOOLEAN,
            errorMessage : Messages]

Init == /\ stream = "open"
        /\ attempt = 0
        /\ skips = FALSE
        /\ ui = [isBotActive |-> FALSE, isLoading |-> TRUE, isTogglingBot |-> FALSE,
                 errorMessage |-> "none"]
        /\ shown = ui
        /\ calls = <<>>
        /\ running \in BOOLEAN

-----------------------------------------------------------------------------
(* Telemetry.                                                              *)

\* A balance arrives.
Balance == /\ stream = "open"
           /\ ui' = [ui EXCEPT !.isLoading = FALSE, !.errorMessage = "none"]
           /\ UNCHANGED <<telemetry, shown, remote>>

\* A line that is not data, or whose data is empty, is skipped: a server that
\* sends such lines keeps the read from timing out.
Skipped == /\ stream = "open"
           /\ skips' = ~skips
           /\ UNCHANGED <<stream, attempt, ui, shown, remote>>

\* Mutant: one retry too many.
MayRetryOnceMore == attempt <= MaxAttempts

\* retryWhen: attempt counts over the whole life of the flow.
MayRetry == attempt < MaxAttempts

Retried == /\ stream = "open" /\ MayRetry
           /\ stream' = "backoff"
           /\ attempt' = attempt + 1
           /\ UNCHANGED <<skips, ui, shown, remote>>

\* Mutant: the last failure is swallowed.
GaveUpQuietly == /\ stream = "open" /\ ~MayRetry
                 /\ stream' = "failed"
                 /\ UNCHANGED <<attempt, skips, ui, shown, remote>>

\* The last failure reaches catch.
GaveUp == /\ stream = "open" /\ ~MayRetry
          /\ stream' = "failed"
          /\ ui' = [ui EXCEPT !.isLoading = FALSE, !.errorMessage = "telemetry"]
          /\ UNCHANGED <<attempt, skips, shown, remote>>

\* The connection fails, or no line arrives before OkHttp's read times out.
StreamThrows == Retried \/ GaveUp

\* The response ends: the flow completes, which retryWhen and catch let pass.
StreamCompletes == /\ stream = "open"
                   /\ stream' = "completed"
                   /\ UNCHANGED <<attempt, skips, ui, shown, remote>>

BackoffEnds == /\ stream = "backoff"
               /\ stream' = "open"
               /\ UNCHANGED <<attempt, skips, ui, shown, remote>>

-----------------------------------------------------------------------------
(* The screen.                                                             *)

\* Composition, with the snackbar that belongs to errorMessage.
Draw == /\ shown # ui
        /\ shown' = ui
        /\ UNCHANGED <<telemetry, ui, remote>>

\* The snackbar has been shown long enough: dismissError.
DismissError == /\ shown.errorMessage # "none"
                /\ ui' = [ui EXCEPT !.errorMessage = "none"]
                /\ UNCHANGED <<telemetry, shown, remote>>

\* A call that neither the backend nor the app will act on any more.
Settled(call) == call.fate \in {"confirmed", "refused", "lost"}

\* onToggleBot, up to its call.  The Switch is drawn when nothing loads or
\* toggles, and asks for the opposite of what it shows.
Tap == /\ ~shown.isLoading /\ ~shown.isTogglingBot
       /\ Len(calls) < MaxCalls
       /\ calls' = Append(calls, [active |-> ~shown.isBotActive, fate |-> "sent",
                                  alone |-> \A i \in DOMAIN calls : Settled(calls[i])])
       /\ ui' = [ui EXCEPT !.isTogglingBot = TRUE, !.errorMessage = "none"]
       /\ UNCHANGED <<telemetry, shown, running>>

-----------------------------------------------------------------------------
(* The calls.                                                              *)

Ends(i, f) == calls' = [calls EXCEPT ![i].fate = f]

\* The backend sets its switch, whether the app still waits or has given up.
Applied(i) == /\ \/ calls[i].fate = "sent" /\ Ends(i, "applied")
                 \/ calls[i].fate = "abandoned" /\ Ends(i, "lost")
              /\ running' = calls[i].active
              /\ UNCHANGED <<telemetry, ui, shown>>

\* onSuccess
Confirmed(i) == /\ calls[i].fate = "applied"
                /\ Ends(i, "confirmed")
                /\ ui' = [ui EXCEPT !.isBotActive = calls[i].active, !.isTogglingBot = FALSE]
                /\ UNCHANGED <<telemetry, shown, running>>

\* The backend refuses the call, or the app gives up on a call that is still on
\* its way, or on the answer to one that has been applied.
Failed(i) == \/ calls[i].fate = "sent" /\ Ends(i, "refused")
             \/ calls[i].fate = "sent" /\ Ends(i, "abandoned")
             \/ calls[i].fate = "applied" /\ Ends(i, "lost")

\* Mutant: a failure flips the switch as well.
FailsFlipped(i) ==
    /\ Failed(i)
    /\ ui' = [ui EXCEPT !.isTogglingBot = FALSE, !.isBotActive = calls[i].active]
    /\ UNCHANGED <<telemetry, shown, running>>

\* onFailure
Fails(i) == /\ Failed(i)
            /\ ui' = [ui EXCEPT !.isTogglingBot = FALSE, !.errorMessage = "toggle"]
            /\ UNCHANGED <<telemetry, shown, running>>

-----------------------------------------------------------------------------
Next == \/ Balance \/ Skipped \/ StreamThrows \/ StreamCompletes \/ BackoffEnds
        \/ Draw \/ DismissError \/ Tap
        \/ \E i \in DOMAIN calls : Applied(i) \/ Confirmed(i) \/ Fails(i)

Spec == Init /\ [][Next]_vars

AnswerCome(i) == i \in DOMAIN calls /\ (Confirmed(i) \/ Fails(i))

\* The screen is drawn, delays end, and OkHttp's timeouts end every read of a line
\* and every call.  The backend need not do anything, and may send lines that are
\* skipped for ever.
FairSpec == /\ Spec
            /\ WF_vars(Draw)
            /\ WF_vars(BackoffEnds)
            /\ WF_vars(Balance \/ Skipped \/ StreamThrows \/ StreamCompletes)
            /\ \A i \in 1..MaxCalls : WF_vars(AnswerCome(i))

-----------------------------------------------------------------------------
(* Properties.                                                             *)

Fates == {"sent", "applied", "confirmed", "refused", "abandoned", "lost"}

TypeOK == /\ stream \in {"open", "backoff", "completed", "failed"}
          /\ attempt \in 0..MaxAttempts
          /\ skips \in BOOLEAN
          /\ ui \in UiState /\ shown \in UiState
          /\ calls \in Seq([active : BOOLEAN, fate : Fates, alone : BOOLEAN])
          /\ Len(calls) <= MaxCalls
          /\ running \in BOOLEAN

\* Whatever late, lost or reordered answers put the screen out of step, it is in
\* step again once the last calls, made when no call before them could act any
\* more, were confirmed or refused and one of them was confirmed: isBotActive
\* flips when, and only when, the backend has confirmed it
\* (DashboardViewModel.kt 66-88).
ScreenInStep ==
    \A k \in DOMAIN calls :
        /\ \A i \in k..Len(calls) :
              calls[i].alone /\ calls[i].fate \in {"confirmed", "refused"}
        /\ \E i \in k..Len(calls) : calls[i].fate = "confirmed"
        => ui.isBotActive = running

\* The screen stops loading, with a balance or with an error after the retries,
\* unless the server ends the stream, or keeps it alive for ever with lines that
\* are skipped (DashboardViewModel.kt 48-64, StreamTelemetryUseCase.kt 26-37,
\* TelemetryStreamClient.kt 63-67).
LoadingEnds ==
    \/ <>[](~shown.isLoading)
    \/ <>(stream = "completed")
    \/ []<><<Skipped>>_vars
=============================================================================
