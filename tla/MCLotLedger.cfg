SPECIFICATION Spec
CONSTANTS
  Tickers <- MCTickers
  Prices <- MCPrices
  Fees <- MCFees
  MaxQty = 2
  MaxTrades = 4
INVARIANTS PnlConserved ExposureExact
PROPERTIES ImplementsLedger
