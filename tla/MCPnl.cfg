SPECIFICATION Spec
CONSTANTS
    Tickers = {a, b}
    Fills <- MCFills
    Marks = {0, 50, 80}
    FlattenPrice = 60
    LossLimit <- MCLossLimit
    MaxLoss <- MCMaxLoss
    MaxExposure = 120
    MaxDrawdown = 25
    MaxFills = 3
    MaxProcesses = 2
SYMMETRY TickerSymmetry
CHECK_DEADLOCK FALSE
INVARIANTS
    CarriedExact
    DrawdownExact
    LossHalts
