SPECIFICATION SwitchSpec
CONSTANTS
    MaxRestarts = 3
INVARIANTS
    SurvivesRestart
