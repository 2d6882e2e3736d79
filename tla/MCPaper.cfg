SPECIFICATION PaperSpec
CONSTANTS
    QuoteSize = 2
    CapLots = 1
    TargetSpread = 4
    MinSpread = 3
    ImbalanceSpread = 2
    FlowLean = 1000
    UnwindEdge = 0
    LongshotThreshold = 40
    LongshotEdge = 1
    MakerFee = 0
    EmaAlpha = 20
    TapeWeight = 50
    Beta = 10
    MaxPosition = 10
    MaxQuotePrice = 90
    LogOdds = 2197
    Snapshots <- MCSnapshots
    Deltas <- MCDeltas
    Prints <- MCPrints
    Models <- MCModels
    Ages = {0, 2}
    RepriceThreshold = 1
    TheoJump = 3
    MinQuotePrice = 10
    MaxOpenOrders = 4
    MaxOrderSize = 10
    LossLimit <- MCLossLimit
    FlowWindow = 2
    FlowMin = 2
    FlowRatio = 2
    CaptureAge = 0
    MaxFrames = 5
CHECK_DEADLOCK FALSE
INVARIANTS
    FillsAreBooked
    CalmNeverLoses
PROPERTIES
    PrintsBoundFills
