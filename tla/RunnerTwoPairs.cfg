SPECIFICATION FairSpec
CONSTANTS
    Monitors <- TwoPairs
    Books <- MCBooks
    Triggers <- MCTriggers
    Label <- MCLabel
    Logging <- MCLogging
    WarmUp <- MCWarmUp
    TTL = 1
    AwaitTicks = 1
    Notional = 1
    MaxVolume = 1
    DailyCap = 1
    ErrorsKept = 2
INVARIANTS
    DecisionAgeBounded
PROPERTIES
    IsolatedMonitors
    FailuresReported
