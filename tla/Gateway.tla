------------------------------ MODULE Gateway ------------------------------
(***************************************************************************)
(* POST /process_arbitrage_intent (backend/api/main.py) around the bucket  *)
(* of one user, the owner: the token and the limiter in worker threads     *)
(* (auth.py, rate_limit.py), the handler on the event loop, and the        *)
(* forward pass of the shared model in a thread again (inference.py,       *)
(* model_cache.py).  Threads are the requests in flight.  What another     *)
(* user's own bucket answers is nondeterministic.                          *)
(***************************************************************************)
EXTENDS RateLimiter

VARIABLES
    stage,      \* where each request is
    caller,     \* whose token it carries, "invalid" if nobody's
    named,      \* user_id of its JSON, "malformed" if it is no TradeSignalRequest
    built,      \* get_model has made the model
    training,   \* its `training` flag
    was,        \* was_training of each forward pass
    evaluated   \* history: forward passes on behalf of the owner

request == <<stage, caller, named>>
model == <<built, training, was, evaluated>>
gatewayVars == <<vars, request, model>>

GatewayInit == /\ Init
               /\ stage = [t \in Threads |-> "none"]
               /\ caller = [t \in Threads |-> "invalid"]
               /\ named = [t \in Threads |-> "malformed"]
               /\ built = FALSE
               /\ training = FALSE
               /\ was = [t \in Threads |-> FALSE]
               /\ evaluated = 0

MoveTo(t, s) == stage' = [stage EXCEPT ![t] = s] /\ UNCHANGED <<caller, named>>

\* The response is on its way, whatever its status: what it was is forgotten.
Respond(t) == /\ stage' = [stage EXCEPT ![t] = "none"]
              /\ caller' = [caller EXCEPT ![t] = "invalid"]
              /\ named' = [named EXCEPT ![t] = "malformed"]

-----------------------------------------------------------------------------
(* The dependencies.                                                       *)

\* A body that is no JSON is answered here, before any dependency runs: nobody is
\* charged and nothing changes, so there is no step for it.  What a JSON says is
\* looked at after the dependencies.
Arrive(t) == /\ stage[t] = "none"
             /\ stage' = [stage EXCEPT ![t] = "arrived"]
             /\ \E c \in {"owner", "stranger", "invalid"} : caller' = [caller EXCEPT ![t] = c]
             /\ \E n \in {"owner", "stranger", "malformed"} : named' = [named EXCEPT ![t] = n]
             /\ UNCHANGED <<vars, model>>

\* get_current_user_id: no JWT_SECRET, a bad token or a missing `sub` raises.
Authenticate(t) == /\ stage[t] = "arrived"
                   /\ IF caller[t] = "invalid" THEN Respond(t) ELSE MoveTo(t, "limiting")
                   /\ UNCHANGED <<vars, model>>

\* rate_limit_dependency for the owner: allow reads the clock.
CallLimiter(t) == /\ stage[t] = "limiting" /\ caller[t] = "owner"
                  /\ ReadClock(t)
                  /\ UNCHANGED <<request, model>>

\* 429.
Denied(t) == granted' = granted /\ Respond(t)

\* allow answers.
LimiterAnswers(t) == /\ stage[t] = "limiting" /\ caller[t] = "owner"
                     /\ Decide(t)
                     /\ Denied(t) \/ (granted' > granted /\ MoveTo(t, "handling"))
                     /\ UNCHANGED model

\* Another user's bucket answers.
StrangerAnswered(t) == /\ stage[t] = "limiting" /\ caller[t] = "stranger"
                       /\ Respond(t) \/ MoveTo(t, "handling")
                       /\ UNCHANGED <<vars, model>>

-----------------------------------------------------------------------------
(* The handler.                                                            *)

\* Mutants: the body is not compared with the token; a mismatch gives the
\* token back.
MatchesAnyone(t) == named[t] # "malformed"
RejectRefunds(t) == /\ Respond(t)
                    /\ tokens' = IF caller[t] = "owner" THEN tokens + Token ELSE tokens
                    /\ UNCHANGED <<clock, now, present, lastRefill, since, granted, setBack, model>>

\* The JSON is a TradeSignalRequest and its user_id is the token's.
Matches(t) == named[t] = caller[t]

\* 422, or SIGNAL_REJECTED for the mismatch.
Reject(t) == Respond(t) /\ UNCHANGED <<vars, model>>

\* Mutant: the new model is not put into eval mode.
GetModelTraining == built' = TRUE /\ training' = (~built \/ training)

\* get_model, on the event loop.
GetModel == built' = TRUE /\ training' = (built /\ training)

\* The handler up to its one await.
Handle(t) ==
    /\ stage[t] = "handling"
    /\ \/ ~Matches(t) /\ Reject(t)
       \/ /\ Matches(t)
          /\ GetModel
          /\ MoveTo(t, "evaluating")
          /\ evaluated' = IF named[t] = "owner" THEN evaluated + 1 ELSE evaluated
          /\ UNCHANGED <<vars, was>>

\* evaluate_spread reads the mode, in its thread.
ReadMode(t) == /\ stage[t] = "evaluating"
               /\ was' = [was EXCEPT ![t] = training]
               /\ MoveTo(t, "switching")
               /\ UNCHANGED <<vars, built, training, evaluated>>

\* model.eval()
SwitchMode(t) == /\ stage[t] = "switching"
                 /\ training' = FALSE
                 /\ MoveTo(t, "forward")
                 /\ UNCHANGED <<vars, built, was, evaluated>>

\* The forward pass ends or raises, and restores the mode.
RestoreMode(t) == /\ stage[t] = "forward"
                  /\ training' = was[t]
                  /\ was' = [was EXCEPT ![t] = FALSE]
                  /\ MoveTo(t, "deciding")
                  /\ UNCHANGED <<vars, built, evaluated>>

\* The gate rejects, or dispatch_orders raises: no answer says ORDER_DISPATCHED.
Conclude(t) == /\ stage[t] = "deciding"
               /\ Respond(t)
               /\ UNCHANGED <<vars, model>>

-----------------------------------------------------------------------------
ClockTicks == Tick /\ UNCHANGED <<request, model>>

Serve(t) == \/ Authenticate(t) \/ CallLimiter(t) \/ LimiterAnswers(t) \/ StrangerAnswered(t)
            \/ Handle(t) \/ ReadMode(t) \/ SwitchMode(t) \/ RestoreMode(t) \/ Conclude(t)

GatewayNext == ClockTicks \/ \E t \in Threads : Arrive(t) \/ Serve(t)

GatewaySpec == GatewayInit /\ [][GatewayNext]_gatewayVars

-----------------------------------------------------------------------------
(* Properties.                                                             *)

Stages == {"none", "arrived", "limiting", "handling", "evaluating", "switching",
           "forward", "deciding"}

GatewayTypeOK == /\ TypeOK
                 /\ stage \in [Threads -> Stages]
                 /\ caller \in [Threads -> {"owner", "stranger", "invalid"}]
                 /\ named \in [Threads -> {"owner", "stranger", "malformed"}]
                 /\ built \in BOOLEAN /\ training \in BOOLEAN
                 /\ was \in [Threads -> BOOLEAN]
                 /\ evaluated \in Nat

\* The model is evaluated on behalf of a user no more often than the user's own
\* bucket allows, however late its calls enter the lock: a request that names a
\* user in its body is paid for by that user's token, whoever sends it, and nothing
\* a stranger sends counts (auth.py 52-64, rate_limit.py 70-77, main.py 132-143).
EvaluationsWithinRate ==
    evaluated * Token <= Capacity + Rate * Refilling

\* Every forward pass runs in eval mode from beginning to end, although the
\* passes of concurrent requests save, switch and restore the one flag of the
\* shared model in any order (inference.py 36-51, model_cache.py 15-26).
InferenceInEvalMode == \A t \in Threads : stage[t] = "forward" => ~training

\* To the limiter, the gateway is a sequence of calls of allow and nothing else,
\* so what is proved of RateLimiter holds behind the gateway.
ImplementsLimiter == Spec
=============================================================================
