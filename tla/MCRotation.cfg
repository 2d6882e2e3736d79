SPECIFICATION Spec
CONSTANTS
    a = a
    b = b
    Markets = {a, b}
    StartMarkets = {a}
    OrderSize = 2
    Gains <- MCGains
    LossLimit <- MCLossLimit
    MaxOrders = 2
    MaxTrades = 2
    MaxRotations = 2
    MaxFaults = 1
    LateFeed = FALSE
    FillsLag = FALSE
    Readopt = FALSE
    FeedFails = TRUE
INVARIANTS
    QuotesOnlyTracked
    ExposureTracked
    DeadMarketsBare
PROPERTIES
    NewOrdersOnLiveFeed
