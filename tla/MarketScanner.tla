---------------------------- MODULE MarketScanner ----------------------------
(***************************************************************************)
(* One scan for markets to trade: TickerScanner::scan                      *)
(* (exchange/ticker_scanner.cpp) over the listing, incentive, trade,       *)
(* candlestick and book requests of exchange/rest_client.cpp, as startup   *)
(* and rotation run it (scan_top_tickers, rotate_markets).                 *)
(*                                                                         *)
(* A step is one request and its answer.  The exchange may refuse any      *)
(* request, and answers a probe with whatever the market is like by then.  *)
(* Times are minutes before the scan; scores are in thousandths, rounded   *)
(* down, with logarithms to base 2 (only their quotients are used).        *)
(***************************************************************************)
EXTENDS Orderbook

CONSTANTS
    Listings,       \* exchange listings: series, of pages, of markets
    Configs,        \* ScannerConfig values
    RewardTables,   \* answers to the incentive request: ticker |-> dollars
    Tapes,          \* recent public trades, newest first: [age, px, taker, qty]
    Books,          \* live books
    Candles,        \* closing prices of a market's candles, None for no trade
    PageAttempts,   \* kPageAttempts
    ProbeTrades     \* kDefaultTapeProbeTrades

Listed == [ticker : STRING, status : STRING, bid : Nat, ask : Nat, date : Int,
           volume : Nat, days : Int]
PublicTrade == [age : Int, px : Int, taker : Sides, qty : Nat]
RestLevel == [price : Int, qty : Nat]

ASSUME ScannerAssumption ==
    /\ PageAttempts \in Nat \ {0} /\ ProbeTrades \in Nat \ {0}
    /\ \A c \in Configs :
          /\ c.topN \in Nat
          /\ {c.minPrice, c.maxPrice, c.minSpread, c.maxSpread, c.today, c.minVolume,
              c.minDays, c.maxDays, c.maxStale, c.minPerHour, c.minRange, c.lookback,
              c.minMinority} \subseteq Int

(* A listing has a page, if an empty one, for every series asked for; a    *)
(* tape is newest first.                                                   *)
ASSUME AnswersAssumption ==
    /\ \A l \in Listings : /\ l \in Seq(Seq(Seq(Listed))) /\ l # <<>>
                           /\ \A s \in DOMAIN l : l[s] # <<>>
    /\ \A tape \in Tapes : /\ tape \in Seq(PublicTrade)
                           /\ \A i, j \in DOMAIN tape : i < j => tape[i].age <= tape[j].age
    /\ \A b \in Books, s \in Sides : b[s] \in Seq(RestLevel)

VARIABLES
    listing, config,    \* what this scan runs against
    phase,              \* "listing", "incentives", "probing", "done", "failed"
    series, page,       \* the series fetched, and the page its cursor names
    attempt,            \* attempts at this page
    collected,          \* markets collected
    ranked,             \* scored candidates, best first: [ticker, score]
    at, gate,           \* candidate being probed, gate it is at
    admitted,           \* finalists
    answers             \* history: <<ticker, gate>> |-> what the probe was told

scanVars == <<listing, config, phase, series, page, attempt, collected, ranked, at, gate,
          admitted, answers>>

None == -1
Refused == {}
HourMinutes == 60
Max2(a, b) == IF a > b THEN a ELSE b
Abs(x) == IF x < 0 THEN -x ELSE x
Log2(n) == CHOOSE k \in 0..30 : 2^k <= n /\ n < 2^(k + 1)
SumOver(seq, value(_)) == SumFunction([i \in DOMAIN seq |-> value(seq[i])])

-----------------------------------------------------------------------------
(* scan: the filters on the listing.  A ticker without a date has no date. *)

Eligible(m) ==
    LET mid == (m.bid + m.ask) \div 2
        spread == m.ask - m.bid
    IN  /\ m.status = "active" /\ m.bid # 0 /\ m.ask # 0
        /\ m.date = None \/ m.date >= config.today
        /\ mid \in config.minPrice..config.maxPrice
        /\ spread \in config.minSpread..config.maxSpread
        /\ m.volume >= config.minVolume
        /\ m.days \in config.minDays..config.maxDays

(* spread_curve and compute_score.                                         *)
SpreadTerm(spread) ==
    LET range == Max2(1, config.maxSpread - config.minSpread)
        off == Abs(2 * spread - config.minSpread - config.maxSpread)
    IN  (1000 * Max2(0, range - off)) \div range

VolumeTerm(volume, maxVolume) ==
    IF maxVolume > 1 /\ volume > 1 THEN (1000 * Log2(volume)) \div Log2(maxVolume) ELSE 0

IncentiveTerm(reward, maxReward) ==
    IF reward <= 0 \/ maxReward <= 1 THEN 0
    ELSE (1000 * Log2(reward + 1)) \div Log2(maxReward + 1)

(* The candidates, by their places in what was collected.                  *)
Candidates == {i \in DOMAIN collected : Eligible(collected[i])}

(* join_incentives and the score: the largest volume and reward are those  *)
(* of the candidates.                                                      *)
Scores(rewards) ==
    LET ticker(i) == collected[i].ticker
        reward(i) == IF ticker(i) \in DOMAIN rewards THEN rewards[ticker(i)] ELSE 0
        maxVolume == Max({1} \cup {collected[i].volume : i \in Candidates})
        maxReward == Max({0} \cup {reward(i) : i \in Candidates})
    IN  [i \in Candidates |->
            (70 * VolumeTerm(collected[i].volume, maxVolume)
             + 30 * SpreadTerm(collected[i].ask - collected[i].bid)
             + config.incentiveWeight * IncentiveTerm(reward(i), maxReward)) \div 100]

(* std::sort by score: equal scores come out in any order.                 *)
Rankings(score) ==
    LET places == 1..Cardinality(DOMAIN score)
    IN  {p \in [places -> DOMAIN score] :
            \A i, j \in places : i < j => p[i] # p[j] /\ score[p[i]] >= score[p[j]]}

-----------------------------------------------------------------------------
(* The admission gates.                                                    *)
ChecksTrades == config.maxStale > 0 \/ config.minPerHour > 0
                \/ config.minRange > 0 \/ config.minMinority > 0

(* admit_finalists' gates, in its order.                                   *)
Gates == (IF ChecksTrades THEN <<"flow">> ELSE <<>>)
         \o (IF config.minSpread > 0 THEN <<"book">> ELSE <<>>)
         \o (IF config.minKappa > 0 THEN <<"reversion">> ELSE <<>>)

ProbeLimit ==
    Max2(config.minPerHour, IF config.minRange > 0 \/ config.minMinority > 0
                              THEN ProbeTrades ELSE 1)

(* The prints before the first one older than the cutoff.                  *)
Recent(trades, minutes) ==
    LET old == {i \in DOMAIN trades : trades[i].age > minutes}
    IN  IF old = {} THEN trades ELSE SubSeq(trades, 1, Min(old) - 1)

ShowsPriceDiscovery(trades) ==
    LET recent == Recent(trades, config.lookback)
        prices == {recent[i].px : i \in DOMAIN recent}
    IN  Len(recent) >= 2 /\ Max(prices) - Min(prices) >= config.minRange

(* Volumes decide, or the number of prints when no print has a volume.     *)
IsTwoSided(trades) ==
    LET recent == Recent(trades, HourMinutes)
        sized == SumOver(recent, LAMBDA t : t.qty) > 0
        weight(s) == SumOver(recent, LAMBDA t : IF t.taker # s THEN 0
                                                ELSE IF sized THEN t.qty ELSE 1)
        total == weight("yes") + weight("no")
    IN  total > 0 /\ 100 * Min({weight("yes"), weight("no")}) >= config.minMinority * total

(* Mutant: one print of the hour stands for as many as are needed.         *)
MutEnoughPerHour(trades) ==
    Len(trades) >= config.minPerHour /\ trades[1].age <= HourMinutes

EnoughPerHour(trades) ==
    /\ Len(trades) >= config.minPerHour
    /\ trades[config.minPerHour].age <= HourMinutes

PassesFlow(tape) ==
    LET trades == SubSeq(tape, 1, Min({Len(tape), ProbeLimit}))
    IN  /\ trades # <<>>
        /\ config.maxStale > 0 => Head(trades).age <= config.maxStale
        /\ config.minPerHour > 0 => EnoughPerHour(trades)
        /\ config.minRange > 0 => ShowsPriceDiscovery(trades)
        /\ config.minMinority > 0 => IsTwoSided(trades)

PassesBook(snap) ==
    LET book == ApplySnapshot(snap)
    IN  TwoSided(book) => SpreadCents(book) >= config.minSpread

PassesReversion(candles) ==
    LET closes == {i \in DOMAIN candles : candles[i] # None}
        next(i) == Min({j \in closes : j > i})
        path == SumFunction([i \in closes \ {Max(closes)} |-> Abs(candles[next(i)] - candles[i])])
        net == candles[Max(closes)] - candles[Min(closes)]
    IN  Cardinality(closes) >= 2 /\ path >= config.minKappa * net * net

Answers(g) == CASE g = "flow" -> Tapes [] g = "book" -> Books [] g = "reversion" -> Candles

(* An answer is {data}, or Refused: a probe that fails lets the market     *)
(* pass.                                                                   *)
Passes(g, answer) ==
    \A data \in answer : CASE g = "flow" -> PassesFlow(data)
                           [] g = "book" -> PassesBook(data)
                           [] g = "reversion" -> PassesReversion(data)

-----------------------------------------------------------------------------
(* The requests.                                                           *)
Pages == listing[series]

ScanInit ==
    /\ listing \in Listings /\ config \in Configs
    /\ phase = "listing" /\ series = 1 /\ page = 1 /\ attempt = 1
    /\ collected = <<>> /\ ranked = <<>> /\ at = 1 /\ gate = 1
    /\ admitted = <<>> /\ answers = <<>>

(* A page arrives: get_markets goes on to the next, fetch_markets to the   *)
(* next series.                                                            *)
FetchPage ==
    /\ phase = "listing"
    /\ collected' = collected \o Pages[page]
    /\ attempt' = 1
    /\ \/ page < Len(Pages) /\ page' = page + 1 /\ UNCHANGED <<series, phase>>
       \/ page = Len(Pages) /\ series < Len(listing)
          /\ series' = series + 1 /\ page' = 1 /\ UNCHANGED phase
       \/ page = Len(Pages) /\ series = Len(listing)
          /\ phase' = "incentives" /\ UNCHANGED <<series, page>>
    /\ UNCHANGED <<listing, config, ranked, at, gate, admitted, answers>>

(* Mutant: the pages fetched before the failure are made do with.          *)
MutPartialListing ==
    /\ phase = "listing"
    /\ \/ attempt < PageAttempts /\ attempt' = attempt + 1 /\ UNCHANGED phase
       \/ attempt = PageAttempts /\ phase' = "incentives" /\ UNCHANGED attempt
    /\ UNCHANGED <<listing, config, series, page, collected, ranked, at, gate, admitted,
                   answers>>

(* A page is refused: tried again, and the last time given up with the     *)
(* whole scan.                                                             *)
RefusePage ==
    /\ phase = "listing"
    /\ \/ attempt < PageAttempts /\ attempt' = attempt + 1 /\ UNCHANGED phase
       \/ attempt = PageAttempts /\ phase' = "failed" /\ UNCHANGED attempt
    /\ UNCHANGED <<listing, config, series, page, collected, ranked, at, gate, admitted,
                   answers>>

Truncated(seq) == SubSeq(seq, 1, Min({Len(seq), config.topN}))

(* The incentive programs arrive: the candidates are scored and sorted.    *)
(* Without a gate the best of them are the scan's result.                  *)
FetchIncentives ==
    /\ phase = "incentives"
    /\ \E rewards \in RewardTables :
          LET score == Scores(rewards)
          IN  \E p \in Rankings(score) :
                 ranked' = [i \in DOMAIN p |-> [ticker |-> collected[p[i]].ticker,
                                               score |-> score[p[i]]]]
    /\ \/ /\ Gates = <<>>
          /\ phase' = "done" /\ admitted' = Truncated(ranked')
       \/ /\ Gates # <<>>
          /\ phase' = IF ranked' = <<>> \/ config.topN = 0 THEN "done" ELSE "probing"
          /\ UNCHANGED admitted
    /\ UNCHANGED <<listing, config, series, page, attempt, collected, at, gate, answers>>

(* The incentive request is not repeated.                                  *)
RefuseIncentives ==
    /\ phase = "incentives"
    /\ phase' = "failed"
    /\ UNCHANGED <<listing, config, series, page, attempt, collected, ranked, at, gate,
                   admitted, answers>>

(* Mutant: a candidate that fails a gate ends the search.                  *)
MutLeave(admits) ==
    /\ gate' = 1 /\ at' = at + 1
    /\ admitted' = IF admits THEN Append(admitted, ranked[at]) ELSE admitted
    /\ phase' = IF ~admits \/ at' > Len(ranked) \/ Len(admitted') >= config.topN
                  THEN "done" ELSE phase

(* The candidate is through with, admitted or not.                         *)
Leave(admits) ==
    /\ gate' = 1 /\ at' = at + 1
    /\ admitted' = IF admits THEN Append(admitted, ranked[at]) ELSE admitted
    /\ phase' = IF at' > Len(ranked) \/ Len(admitted') >= config.topN
                  THEN "done" ELSE phase

Answered(key, answer) ==
    [k \in DOMAIN answers \cup {key} |-> IF k = key THEN answer ELSE answers[k]]

(* One probe of one candidate, answered or refused.                        *)
Probe ==
    /\ phase = "probing"
    /\ \E answer \in {{data} : data \in Answers(Gates[gate])} \cup {Refused} :
          /\ answers' = Answered(<<ranked[at].ticker, Gates[gate]>>, answer)
          /\ \/ /\ Passes(Gates[gate], answer) /\ gate < Len(Gates)
                /\ gate' = gate + 1 /\ UNCHANGED <<at, admitted, phase>>
             \/ /\ Passes(Gates[gate], answer) /\ gate = Len(Gates)
                /\ Leave(TRUE)
             \/ /\ ~Passes(Gates[gate], answer)
                /\ Leave(FALSE)
    /\ UNCHANGED <<listing, config, series, page, attempt, collected, ranked>>

(* The picks go to the session.                                            *)
Finished == phase \in {"done", "failed"} /\ UNCHANGED scanVars

Scan == FetchPage \/ RefusePage \/ FetchIncentives \/ RefuseIncentives \/ Probe
ScanNext == Scan \/ Finished

ScanSpec == ScanInit /\ [][ScanNext]_scanVars

-----------------------------------------------------------------------------
(* Properties.                                                             *)
AllMarkets ==
    UNION {UNION {ToSet(listing[s][p]) : p \in DOMAIN listing[s]} : s \in DOMAIN listing}
TickersOf(seq) == {seq[i].ticker : i \in DOMAIN seq}

(* Refused pages, retries and several series or pages lose no market: what *)
(* a scan ranks is every market of the whole listing that may be traded,   *)
(* and no market whose event is over, or it ranks nothing at all.          *)
RanksWholeListing ==
    phase \in {"probing", "done"} =>
        LET tradable == {m \in AllMarkets :
                /\ m.status = "active" /\ m.bid > 0 /\ m.ask > 0
                /\ ~(m.date # None /\ m.date < config.today)
                /\ m.bid + m.ask \in 2 * config.minPrice..2 * config.maxPrice + 1
                /\ m.ask - m.bid \in config.minSpread..config.maxSpread
                /\ m.volume >= config.minVolume
                /\ m.days \in config.minDays..config.maxDays}
        IN  TickersOf(ranked) = {m.ticker : m \in tradable}

(* What the gates mean, read off the whole tape: the last trade is fresh,  *)
(* enough trades fall within the hour, the prices of the lookback differ.  *)
LiveTape(tape) ==
    LET within(minutes) == {i \in DOMAIN tape : tape[i].age <= minutes}
    IN  /\ tape # <<>>
        /\ config.maxStale > 0 => within(config.maxStale) # {}
        /\ Cardinality(within(HourMinutes)) >= config.minPerHour
        /\ config.minRange > 0 =>
              \E i, j \in within(config.lookback) : tape[i].px - tape[j].px >= config.minRange
        /\ config.minMinority > 0 =>
              \E i, j \in within(HourMinutes) : tape[i].taker # tape[j].taker

(* No pick is dead: whatever the probe's limit cut off, a picked market    *)
(* whose probes were answered trades now, and its live book is wide.       *)
PicksAreLive ==
    phase = "done" => \A i \in DOMAIN admitted :
        LET told(g) == IF g \in ToSet(Gates) THEN answers[<<admitted[i].ticker, g>>] ELSE {}
        IN  /\ \A tape \in told("flow") : LiveTape(tape)
            /\ \A book \in told("book") :
                  \A k \in DOMAIN book.yes, l \in DOMAIN book.no :
                     book.yes[k].price + book.no[l].price <= 100 - config.minSpread

(* The picks are the best there are: no market that was left out, unless a *)
(* probe turned it down, scores better than a pick or leaves a place free. *)
PicksAreBest ==
    phase = "done" =>
        /\ Len(admitted) <= config.topN
        /\ \A r \in ToSet(ranked) \ ToSet(admitted) :
              \/ \E g \in ToSet(Gates) :
                    /\ <<r.ticker, g>> \in DOMAIN answers
                    /\ ~Passes(g, answers[<<r.ticker, g>>])
              \/ /\ Len(admitted) = config.topN
                 /\ \A pick \in ToSet(admitted) : pick.score >= r.score
=============================================================================
