SPECIFICATION FairSpec
CONSTANTS
    Monitors <- OneTriangle
    Books <- MCBooks
    Triggers <- MCTriggers
    Label <- MCLabel
    Logging <- MCLogging
    WarmUp <- MCWarmUp
    TTL = 2
    AwaitTicks = 1
    Notional = 1
    MaxVolume = 2
    DailyCap = 2
    ErrorsKept = 1
INVARIANTS
    TypeOK
    OneEvaluationInFlight
    ApprovalsPredateEngage
    DailyUsePerMonitor
    UnsavedBounded
PROPERTIES
    CrashedFeedStopsTrading
