SPECIFICATION FairSpec
CONSTANTS
    a = a
    b = b
    Markets = {a, b}
    Targets = {a}
    Leftovers = {b}
    Attempts = 3
    PageSize = 2
    MaxOrders = 2
    MaxRestarts = 1
CHECK_DEADLOCK FALSE
INVARIANTS
    NoZombies
    NoOrderSurvives
    EndsFlat
    LedgerExplained
PROPERTIES
    ShutdownTerminates
