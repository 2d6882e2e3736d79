--------------------------- MODULE MCSessionPnl ---------------------------
(* Instances of SessionPnl for TLC.                                        *)
EXTENDS SessionPnl, TLC

Fill(side, px, qty, fee) == [side |-> side, px |-> px, qty |-> qty, fee |-> fee]
MCFills == {Fill("yes", 50, 1, 0), Fill("no", 56, 1, 1), Fill("no", 40, 2, 0)}
MCLossLimit == -7
MCMaxLoss == -60
TickerSymmetry == Permutations(Tickers)
===========================================================================
