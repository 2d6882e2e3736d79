SPECIFICATION ScanSpec
CONSTANTS
    Listings <- MCListings
    Configs <- MCConfigs
    RewardTables <- MCRewardTables
    Tapes <- MCTapes
    Books <- MCBooks
    Candles <- MCCandles
    PageAttempts = 3
    ProbeTrades = 3
INVARIANTS
    RanksWholeListing
    PicksAreLive
    PicksAreBest
