SPECIFICATION FairSpec
CONSTANTS
    Amount = 3
    MaxRepegs = 3
INVARIANTS
    TypeOK
    HedgeBooksMatchVenue
    StatusTruthful
PROPERTIES
    ExposureOnlyShrinks
    ExecutionEnds
    ImplementsPairedTrade
