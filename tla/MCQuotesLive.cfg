SPECIFICATION FairSpec
CONSTANTS
  Cents <- MCCents
  QuoteSize = 1
  Threshold = 0
  Jump = 1
  CapLots = 1
  MaxPosition = 2
  MaxOpen = 4
  Band <- MCBand
  Faults <- MCLiveFaults
  Ids <- MCIds
  MaxTrades = 2
  NoId = NoId
INVARIANTS OrdersNotForgotten
PROPERTIES HaltPullsQuotes QuotesReturn
