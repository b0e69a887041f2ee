SPECIFICATION FairSpec
CONSTANTS
    MaxAttempts = 2
    MaxCalls = 3
INVARIANTS
    TypeOK
    ScreenInStep
PROPERTIES
    LoadingEnds
CHECK_DEADLOCK FALSE
