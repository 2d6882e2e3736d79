------------------------- MODULE MCMarketScanner -------------------------
(* Instances of MarketScanner for TLC.                                    *)
EXTENDS MarketScanner

Market(ticker, bid, ask, volume) ==
    [ticker |-> ticker, status |-> "active", bid |-> bid, ask |-> ask,
     date |-> 10, volume |-> volume, days |-> 5]

Busy == Market("busy", 46, 51, 16)
Wide == Market("wide", 40, 46, 4)
Equal == Market("equal", 60, 66, 4)
Over == [Market("over", 50, 54, 16) EXCEPT !.date = 9]
Odd == [Market("odd", 84, 87, 4) EXCEPT !.date = None]
Closed == [Busy EXCEPT !.ticker = "closed", !.status = "closed"]
Bare == [Busy EXCEPT !.ticker = "bare", !.bid = 0]

\* Two series, the first of two pages; and the global listing.
MCListings == {<< << <<Wide, Over>>, <<Busy>> >>, << <<Equal, Closed>> >> >>,
               << << <<Equal, Bare>>, <<Odd, Wide>> >> >>}

Gated == [topN |-> 2, today |-> 10, minPrice |-> 15, maxPrice |-> 85, minSpread |-> 3,
          maxSpread |-> 10, minVolume |-> 2, minDays |-> 1, maxDays |-> 90,
          incentiveWeight |-> 50, maxStale |-> 30, minPerHour |-> 2, minRange |-> 2,
          lookback |-> 180, minMinority |-> 0, minKappa |-> 0]
MCConfigs == {Gated,
              [Gated EXCEPT !.minSpread = 0, !.maxStale = 0, !.minPerHour = 0, !.minRange = 0],
              [Gated EXCEPT !.topN = 1, !.maxStale = 0, !.minPerHour = 0, !.minRange = 0,
                            !.minMinority = 30, !.minKappa = 1]}

MCRewardTables == {<<>>, "wide" :> 3 @@ "over" :> 7}

Trade(age, px, taker, qty) == [age |-> age, px |-> px, taker |-> taker, qty |-> qty]
MCTapes == {<<>>,
            <<Trade(5, 50, "yes", 2), Trade(20, 53, "no", 1), Trade(70, 50, "yes", 1)>>,
            <<Trade(5, 50, "yes", 0), Trade(70, 53, "no", 0), Trade(80, 50, "yes", 1)>>,
            <<Trade(40, 50, "yes", 2), Trade(50, 53, "yes", 2)>>,
            <<Trade(5, 50, "yes", 0), Trade(6, 51, "no", 0), Trade(200, 60, "no", 4)>>}
MCBooks == {[yes |-> <<Level(45, 1), Level(48, 1)>>, no |-> <<Level(40, 1), Level(48, 1)>>],
            [yes |-> <<Level(49, 1)>>, no |-> <<Level(50, 1)>>],
            [yes |-> <<>>, no |-> <<Level(50, 1)>>]}
MCCandles == {<<50, None>>, <<50, 53, None, 51>>, <<50, 54>>}
==========================================================================
