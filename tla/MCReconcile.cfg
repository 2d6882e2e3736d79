SPECIFICATION FairSpec
CONSTANTS
    a = a
    b = b
    Markets = {a, b}
    StartMarkets = {a}
    Leftovers = {b}
    Overlap = 1
    MaxTrades = 3
    MaxDrops = 2
    MaxFaults = 2
    AdoptLeftovers = FALSE
INVARIANTS
    NetIsTrades
    GapBackfilled
PROPERTIES
    PositionsConverge
