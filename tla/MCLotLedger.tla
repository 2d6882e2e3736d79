---------------------------- MODULE MCLotLedger ----------------------------
(* A small instance of LotLedger for TLC.                                  *)
EXTENDS LotLedger
MCTickers == {"A"}
MCPrices == {40, 55}
MCFees == {1}
=============================================================================
