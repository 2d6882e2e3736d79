SPECIFICATION FairSpec
CONSTANTS
    Prices = {49, 50}
    MaxQty = 2
    MaxChanges = 2
    MaxLosses = 1
    MaxDrops = 1
    LoseSnapshot = FALSE
    DrainOnClose = FALSE
    Readopt = FALSE
CHECK_DEADLOCK FALSE
INVARIANTS
    BookWasReal
    BookMirrorsExchange
    ClearingIsMicro
PROPERTIES
    NoFalseGap
    GapForcesResync
    AdoptedIsFed
