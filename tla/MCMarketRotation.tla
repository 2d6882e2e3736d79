------------------------- MODULE MCMarketRotation -------------------------
(* Instances of MarketRotation for TLC.                                     *)
EXTENDS MarketRotation, TLC

CONSTANTS a, b

MCNoGains == {0}
\* The first losing fill is within the limit, the second beyond it.
MCGains == {-1}
MCLossLimit == -1
===========================================================================
