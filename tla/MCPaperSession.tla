------------------------- MODULE MCPaperSession -------------------------
(* Instances of PaperSession for TLC.                                    *)
EXTENDS PaperSession

\* 48 bid, 52 offered, worst level first; and a wider, lopsided book.
MCSnapshots == {[yes |-> <<Level(45, 4), Level(48, 4)>>, no |-> <<Level(45, 4), Level(48, 4)>>],
                [yes |-> <<Level(44, 6)>>, no |-> <<Level(44, 3)>>]}

\* A deep level, a bid inside the spread, the best bid gone, an offer inside.
MCDeltas == {[side |-> "yes", price |-> 40, delta |-> 1],
             [side |-> "yes", price |-> 50, delta |-> 3],
             [side |-> "yes", price |-> 48, delta |-> -4],
             [side |-> "no", price |-> 50, delta |-> 3]}

MCPrints == {[px |-> 44, taker |-> "no", qty |-> 1], [px |-> 47, taker |-> "no", qty |-> 3],
             [px |-> 55, taker |-> "yes", qty |-> 3], [px |-> 52, taker |-> "yes", qty |-> 1]}

MCModels == {"heuristic", "clearing", "view"}
MCLossLimit == -2
=========================================================================
