SPECIFICATION Spec
CONSTANTS
  Cents <- MCCents
  QuoteSize = 1
  Threshold = 0
  Jump = 1
  CapLots = 1
  MaxPosition = 1
  MaxOpen = 4
  Band <- MCBand
  Faults <- MCAllFaults
  Ids <- MCIds
  MaxTrades = 2
  NoId = NoId
INVARIANTS OwnQuotesTracked NoSelfCross PositionAgrees
PROPERTIES HaltFreezesQuotes WindDownReduces
