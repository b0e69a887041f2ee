SPECIFICATION Spec
CONSTANTS
    WindowSize = 4
    DepthSize = 2
    Bids = {10, 11}
    Asks = {12, 13}
    Volumes = {1, 3}
    MaxSnapshots = 9
CHECK_DEADLOCK FALSE
INVARIANTS
    TypeOK
    RowsChained
    InputsAligned
PROPERTIES
    FlowFollowsPressure
