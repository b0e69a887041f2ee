SPECIFICATION Spec
CONSTANTS
    AskBooks <- MCAskBooks
    BidBooks <- MCBidBooks
    Returns <- MCReturns
    Mids <- MCMids
    BuyFee = 1
    SellFee = 2
    BridgeAsks <- MCBridgeAsks
    TargetAsks <- MCTargetAsks
    TargetBids <- MCTargetBids
    Quantity = 2
    Notional = 8
    Window = 7
    Scale = 50
    MinProbability = 85
    MaxHazard = 20
INVARIANTS
    TypeOK
    ApprovedTradesPay
    TriangleSeesEveryMove
    NoSwingBeforeTrade
