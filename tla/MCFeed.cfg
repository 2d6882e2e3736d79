SPECIFICATION ConnFairSpec
CONSTANTS
    a = a
    b = b
    Tickers = {a, b}
    Base = 5
    Cap = 12
    MaxReconnects = 3
    StopRaces = FALSE
CHECK_DEADLOCK FALSE
INVARIANTS
    SubscribedOnce
PROPERTIES
    StopEndsRun
