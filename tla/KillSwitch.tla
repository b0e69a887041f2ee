----------------------------- MODULE KillSwitch -----------------------------
(***************************************************************************)
(* The file-backed kill switch (backend/execution/kill_switch.py) over     *)
(* restarts of its process.  Path.write_text empties the file before it    *)
(* writes it, and the process can be killed, or the write fail, at any     *)
(* point in between.  Without a state_path, as in runtime_state.STATE,     *)
(* there is no file and every restart starts disengaged.                   *)
(***************************************************************************)
EXTENDS Naturals

CONSTANT MaxRestarts    \* named bound: restarts of the process

ASSUME MaxRestartsAssumption == MaxRestarts \in Nat

VARIABLES
    pc,         \* "up", "truncating" or "writing" in _set, or "down"
    engaged,    \* _engaged
    file,       \* what the file says; "garbled" is not JSON
    answered,   \* history: the last setting a caller was told of
    unsure,     \* history: a later setting was cut short by a crash or an error
    restarts

switchVars == <<pc, engaged, file, answered, unsure, restarts>>

Json(v) == IF v THEN "true" ELSE "false"

\* Mutant: any JSON in the file reads as engaged.
ReadAnyJson == file \in {"true", "false"}

\* _read_persisted: no file, or no JSON in it, reads as disengaged.
ReadPersisted == file = "true"

SwitchInit == /\ pc = "up"
              /\ file \in {"absent", "true", "false"}
              /\ engaged = ReadPersisted
              /\ answered = engaged
              /\ unsure = FALSE
              /\ restarts = 0

\* engage or disengage is called: memory first.
Set(v) == /\ pc = "up"
          /\ engaged' = v
          /\ pc' = "truncating"
          /\ UNCHANGED <<file, answered, unsure, restarts>>

\* write_text opens the file for writing.
Truncate == /\ pc = "truncating"
            /\ file' = "garbled"
            /\ pc' = "writing"
            /\ UNCHANGED <<engaged, answered, unsure, restarts>>

\* The text reaches the file and the caller gets its answer.
Write == /\ pc = "writing"
         /\ file' = Json(engaged)
         /\ pc' = "up"
         /\ answered' = engaged
         /\ unsure' = FALSE
         /\ UNCHANGED <<engaged, restarts>>

\* Opening or writing the file raises: the caller gets an error.
PersistRaises == /\ pc \in {"truncating", "writing"}
                 /\ pc' = "up"
                 /\ unsure' = TRUE
                 /\ UNCHANGED <<engaged, file, answered, restarts>>

Kill == /\ pc # "down"
        /\ restarts < MaxRestarts
        /\ unsure' = (unsure \/ pc # "up")
        /\ pc' = "down"
        /\ UNCHANGED <<engaged, file, answered, restarts>>

Restart == /\ pc = "down"
           /\ engaged' = ReadPersisted
           /\ pc' = "up"
           /\ restarts' = restarts + 1
           /\ UNCHANGED <<file, answered, unsure>>

SwitchNext == \/ \E v \in BOOLEAN : Set(v)
              \/ Truncate
              \/ Write
              \/ PersistRaises
              \/ Kill
              \/ Restart

SwitchSpec == SwitchInit /\ [][SwitchNext]_switchVars

-----------------------------------------------------------------------------
(* Properties.                                                             *)

\* However often the process is killed and restarted, a switch with a file is
\* what the last caller was told, as long as no later call was cut short
\* (kill_switch.py 23-27, 47-64).
SurvivesRestart == pc = "up" /\ ~unsure => engaged = answered
=============================================================================
