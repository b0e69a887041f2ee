SPECIFICATION GatewaySpec
CONSTANTS
    Threads = {t1, t2}
    Token = 2
    Capacity = 4
    Rate = 3
    MaxClock = 2
INVARIANTS
    GatewayTypeOK
    EvaluationsWithinRate
    InferenceInEvalMode
PROPERTIES
    WindowKeepsRate
    ImplementsLimiter
