SPECIFICATION Spec
CONSTANTS
    a = a
    b = b
    Markets = {a, b}
    StartMarkets = {a}
    OrderSize = 1
    Gains <- MCNoGains
    LossLimit <- MCLossLimit
    MaxOrders = 2
    MaxTrades = 2
    MaxRotations = 2
    MaxFaults = 0
    LateFeed = TRUE
    FillsLag = FALSE
    Readopt = FALSE
    FeedFails = FALSE
INVARIANTS
    QuotesOnlyTracked
