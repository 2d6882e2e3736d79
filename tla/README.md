# Verification of the Kalshi market maker

TLA+ models of the trading program under `src/source`, TLC runs that check them
on small instances, and TLAPS proofs of the central invariants. Every
definition is a translation of the source lines that `PROJECT.json` ("map")
names.

## 1. The system

The program quotes a bid and an ask (YES and NO buys) in a set of binary
markets. One process, three threads:

* the **main thread** scans for markets, seeds the books, then polls every
  100 ms: staleness check and recovery net (30 s), portfolio risk (1 s), quote
  safety (every poll), reconciliation (120 s), market rotation (minutes, outside
  the lock); at the end the wind-down and the shutdown guard;
* **ws_thread** runs `WebSocketClient::run`, which blocks in
  `IxWebSocket::run`;
* **ixwebsocket's thread** runs the callbacks (open, message, close), which call
  the session under `engine_mtx`.

| Component | State | Operations | What makes it correct |
|---|---|---|---|
| OrderManager ledger | lots, net position, fees, realized spread, seen trade ids | `record_fill` and queries | no trade counted twice, inventory on one side, cash conserved |
| OrderManager orders, Quoter | `open_orders_`, own bid and ask, fade flags | place, cancel, amend, cancel_all, refresh, reset, release, forget | what is believed is tracked, never crosses, is not forgotten, comes back |
| Quoter pricing, pricing models | `fv_ema_` | `update` from the visible book to two prices | prices in range, below and above the other side, no loss by its own skew |
| Orderbook | two ladders | `apply_snapshot`, `apply_delta`, prices read off | mirrors the exchange level for level |
| TradingSession | tickers, books, feed marks, cooldowns, prior P&L | `on_snapshot/delta/fill/disconnect`, requote, safety, portfolio risk, add/remove market, flatten booking | only tracked and live markets are quoted, halts pull quotes, no exposure is dropped, P&L is carried |
| RiskManager, Portfolio | constraint bits, cached positions, peak P&L | `check_order`, `update`, `update_portfolio`, set, clear; `snapshot` | a halt stops all placement; limits see all losses; drawdown follows equity |
| Backfill, reconciliation | last fill time, drift bit | `backfill_fills`, `reconcile_against_exchange` | positions converge, no gap is left |
| WebSocketClient | `running_`, `connected_`, tickers, sequence counts, failures | run, stop, subscribe, handle_connect, handle_message | each ticker once per connection, a stop ends the thread, no book with holes |
| Rotation, ticker scanner | the picks and the markets to add; pages, candidates, gates | list, filter, score, probe; drop, fetch, add, subscribe | the whole listing is ranked, picks trade now and are the best; as TradingSession between any two steps |
| Main: startup, shutdown guard, crash, P&L file | where the process is, sweeps tried, positions to flatten, `pnl_state.json` | cancel pre-existing orders, sweep, flatten, panic handler, persist, load | no order and no position outlives the process, it ends, nothing earned is lost |
| Paper exchange, backtest, flow guard, trade tape | paper orders, recent flow, prints | post, delete, simulate fills, replay of a capture | fills are booked and bounded by the print |
| Rate limiter, analytics, capture, configuration, auth, CLI, fair-value tooling | | | not modelled (section 5) |

What is hard here: REST calls that fail or lose their answer while the order
rests; fills pushed once, late and in any order; the feed thread between two
steps of the main thread; a connection that drops; messages that get lost inside
one; cancels that are refused; a listing that stops in the middle; a kill inside
a file write. `PROJECT.json` lists these as hazards, each at its line, with the
properties that cover it.

## 2. Modules

| Module | Models | Key abstractions |
|---|---|---|
| `Contracts` | what the two ledgers share: tickers, prices, sides | |
| `OrderLedger` | what the fill ledger promises: units held per side and market, the net position, trades booked once | the abstract specification |
| `LotLedger` | `record_fill` with price lots, the matching loop, fees, and the queries; proved to implement `OrderLedger` (`ImplementsLedger`) | money as integers |
| `QuoteLifecycle` | one market: Quoter, OrderManager and session handlers against the exchange, with every fault of a REST call | quote prices are any pair the passive clamp allows; timers are nondeterministic |
| `MarketRotation` | several markets: tracked set, books, feed liveness, loss halt, and rotation step by step between feed callbacks | a quoter update places one order, pulls, or does nothing |
| `FillReconcile` | push, reconnect backfill, reconciliation call by call, baseline, and rotation, which adopts and drops markets between them | a trade's time is its index; the account may trade in any market, by an order of this session or not; a market may be dropped whenever its local position is zero, with a fill unheard of too |
| `FeedConnection` | `run`, `stop`, `subscribe`, open and close callbacks as three threads; reconnect backoff | the socket is off, opening, open or lost |
| `Orderbook` | the two ladders: snapshot, delta, best prices, mid, micro and clearing price | a ladder is a sequence, best first |
| `FeedBook` | one market's book from the exchange's levels through the numbered channel to `ob_map_`: sequence check, resync, adoption and seeding by rotation (extends `Orderbook`) | a message carries its number and its levels |
| `Pricing` | `Quoter::update` from the visible book to the two desired prices (extends `Orderbook`) | thousandths of a cent; the exponential to second order |
| `PaperSession` | the backtest: quoter, ledger, risk caches, flow guard and trade tape replayed against the paper exchange (extends `Pricing`) | a step is a captured frame; the rest of a quote is any age; a trade id is the count of the paper exchange's fills, and `on_fill` refuses an id it knows and a market it does not track |
| `MarketScanner` | one scan: pages and series with retries, filters, scores, ranking, three admission gates (extends `Orderbook`) | a step is a request; logarithms to powers of two |
| `SessionPnl` | P&L over processes: ledger, marks, portfolio snapshot, kill switches, `pnl_state.json` and its failed writes, the account-wide flatten | lots of one contract, cents; the flatten closes whatever the exchange holds, in any market and on either side |
| `SessionLifecycle` | a process from the startup clean-up over trading to the shutdown guard or a crash, and the next process | orders of one contract; trading is placing; an answer of `get_open_orders` is one page of `PageSize` orders, any of those that rest |
| `LotLedgerProofs`, `QuoteLifecycleProofs`, `MarketRotationProofs`, `SessionPnlProofs`, `SessionLifecycleProofs` | theorems about the module of that name, and their proofs; `LotLedgerProofs` also about `OrderLedger` | |
| `OrderbookProofs` | theorems about `Orderbook`, and about `FeedBook` and `MarketScanner`, which keep and read its books; the specification of the scanner is `ScanSpec`, so that one module can extend both | |
| `ConnectionProofs` | theorems about `FillReconcile` and `FeedConnection`, the two parts of what a reconnect restores, and about `PaperSession`, the replay of what came over a connection; they name their specifications `Spec`, `ConnSpec` and `PaperSpec`, so that one module can extend all three | |
| `SumTheorems` | induction over numbers and finite sets, and the laws of `SumFunctionOnSet`, which positions and profits are made of | |
| `MC*` | constants for TLC | |

How they fit. `QuoteLifecycle` and `LotLedger` split `OrderManager` in two: its
order map lives with the Quoter that uses it, its ledger by itself.
`QuoteLifecycle` takes the prices as arbitrary and adds every fault; `Pricing`
and `PaperSession` compute them, with an exchange that never fails.
`MarketRotation` takes from `QuoteLifecycle` only that an update places, pulls
or leaves alone, and adds the dimension of several markets; what rotation picks
is arbitrary there and computed in `MarketScanner`. `FillReconcile`,
`FeedConnection` and `FeedBook` share the notion of a connection: the fills
pushed over it, how it is made and ended, the book messages it carries.
`SessionPnl` and `SessionLifecycle` run over several processes: money in the
first, orders and positions in the second.

An action is a whole handler. Handlers that hold `engine_mtx` for one REST call
are one action; those that make several calls with the exchange moving in
between (reconciliation, the scan), or that release the lock (rotation, `run`,
`stop`), are one action per call, with a program counter.

The mutants (`Mut...` operators) are plausible bugs of the definitions they
precede; no specification uses them. For every property of every passing run
one of them makes TLC find a violation.

## 3. Runs

Passing:

| Run | Shows | Bounds and assumptions |
|---|---|---|
| `lot_ledger` | the lots implement the ledger; cash conserved, exposure exact | one market (the ledger's maps are per market), four trades of up to two contracts at two prices with a fee; duplicates and reordering of all deliveries |
| `quotes` | belief tracked, no self-cross, position kept, halt and wind-down effective | every fault of a REST call and of the exchange; three order ids, two trades |
| `quotes_live` | no order is forgotten by a failed cancel, a halt pulls all quotes, a market is quoted again | placements, cancels and amends fail now and then; no answer is lost |
| `rotation` | quotes and exposure stay with tracked markets; no order without a live feed; a dead market is bare | two markets, two rotations, one failing cancel, lost subscriptions, a second losing fill that halts; fills prompt, no late feed, no re-adoption |
| `reconcile` | no double count; what a connected session misses is excused (below); positions converge | two markets, one tracked at first and the other with a leftover, so never adopted; three trades in either, two disconnections, two failed reads, rotation at any time between reconciliations |
| `feed` | one subscription per ticker and connection, stop ends run | three reconnects, delays 5 up to the cap 12; stop while waiting or sleeping |
| `book` | the local book was always real, mirrors the exchange when caught up, gaps are found and resynced, no false gap, an adopted market is fed; with one level a side the clearing price is the micro price | two price levels a side, up to two contracts, two changes, one loss, one drop |
| `lifecycle` | no zombie after startup, no order after one good sweep, flat at the end, books explained, shutdown ends | two markets, one configured and one with a leftover order and contract, adopted and dropped by rotation; two orders and a page of two, so that a leftover and the session's own orders can exceed it; one restart; both janitorial modes; every REST call may fail every time. A sweep is good when its page held every resting order and its cancels succeeded |
| `paper` | the ledger refuses no simulated fill and books each on its side, a print fills at most its size, exactly among the orders it traded strictly through, a calm market's round trips never lose | five frames of two snapshots, four deltas and four prints, three pricing models, quote size 2 with a cap of one lot |
| `scanner` | the whole listing is ranked or none, picks are live as far as the probes answered, and the best | two listings with two series or pages, seven markets, three configurations, three attempts a page, five tapes, three books, three candle series |
| `session_pnl` | carried P&L is what was earned, the drawdown switch follows equity, a loss spread over markets halts | two markets (symmetric), three fills of three kinds, flattens of any market and side, three marks, two processes, a kill at any step, writes that leave the old file or an empty one |

The runs of `QuoteLifecycle` and `FeedConnection` leave the type invariant out:
it is proved (section 4). `LotLedger` gets its types from the refinement and
from `LotInvariance`.

Violation, of a sentence the repository states (`PROJECT.json`, "findings",
quotes it):

| Run | What the code does |
|---|---|
| `rotation_late_feed` | a late message puts a dropped market's book back, and the recovery net, which walks the books, quotes a market that is not tracked |

Why the bounds are enough: every interaction the properties are about needs at
most two markets, two or three trades, one or two failures and one or two
rotations or restarts, and each run admits at least as many. `book` has the two
levels a delta can insert between or remove; `scanner` has a page to lose on
either side of the one refused; `paper` is long enough to adopt, quote, fill one
side, fade, reprice and fill the other.

### Assumptions that matter

The passing runs rest on assumptions that the code does not enforce. Each is a
constant (or a member of `Faults`), or the antecedent of a property, so it can be
taken back; what TLC then reports is what the code does when the assumption
fails.

| Assumption | Taken back | What happens then |
|---|---|---|
| the answer to a placement arrives (`quotes_live`) | `"place_lost"` | the order rests, its id is unknown, a halt does not cancel it: `HaltPullsQuotes` |
| the exchange does not withdraw orders (`quotes_live`) | `"exchange_cancel"` | `open_orders_` keeps them and the market stays dark: `QuotesReturn` |
| a fill is delivered before the market is dropped (`rotation`) | `FillsLag = TRUE` | the market is dropped with a fill on its way, which is then ignored: `ExposureTracked` |
| a dropped market is not picked again (`rotation`, `book`) | `Readopt = TRUE` | `subscribe` knows the ticker and asks for nothing: a quiet market is declared dead, and the REST snapshot, read before newer deltas, overwrites the book: `BookMirrorsExchange`, `BookWasReal` |
| no cancel fails (antecedent of `DeadMarketsBare`) | `faults > 0` | the one sweep of a dead market is not repeated |
| no drift is in a market that is not tracked (`Stranded` in `PositionsConverge`) | antecedent | a market dropped with a fill unheard of (lost with the connection, or still on the wire), or one another session trades in: `on_fill` and `backfill_fills` skip untracked markets, so no reconciliation explains the difference and `kModelDiverge` halts all quoting until the market is adopted again or the exchange's position moves back |
| the connection was made, the market tracked since, and the reconnect backfill answered (`excused` in `GapBackfilled`) | antecedent | the floor moves on with the next fill and the trade is behind it: only a reconciliation's replay of the session brings it back, if the market is tracked |
| an adopted market has no leftover position (`reconcile`) | `AdoptLeftovers = TRUE` | the drift cannot be explained and never ends: `PositionsConverge` |
| `stop()` finds `run()` waiting or asleep (`feed`) | `StopRaces = TRUE` | `run()` overwrites `running_` or `done` and the join does not return: `StopEndsRun` |
| no message is dispatched after the close request (`book`) | `DrainOnClose = TRUE`, `MaxChanges = 3` | the counts are gone, so the next message is accepted on a book with a hole: `BookWasReal` |
| the snapshot of a subscription is not lost (`book`) | `LoseSnapshot = TRUE` | the first delta is taken as the start of the numbering and applied to the old book |
| no market is away with P&L of this process (`forgotten` in `CarriedExact`, `LossHalts`): dropped with it, or flattened at the shutdown while untracked | antecedent | `carried_totals` and `RiskManager::update` cover the tracked markets only: the next fill writes a file without the market's session P&L, and its loss leaves the sum that `daily_loss_limit` bounds. The next process takes the file as it is |
| every position has a mark (`worst.distorted` in `DrawdownExact`) | antecedent | an unmarked position counts nothing and a profitable market that is dropped takes its profit with it: `kDrawdown` is set although nothing was lost |
| the last write of `pnl_state.json` succeeded (`file.whole`, `behind` in `CarriedExact`) | antecedent | `persist_pnl` truncates before it writes and looks at no stream state: a failed open keeps the older file, a failed write or a kill inside it leaves an empty one, and nobody is told. A later fill of the same process writes the right file again; if the process ends before, the next one starts from the older totals, or from zero |
| the best levels stand and the model is not the clearing price (`CalmNeverLoses`) | antecedent | `ClearingPriceModel` blends the average of the recent prints into the mid, so its fair value moves with every print while the best levels stand, and a round trip on two such values can lose |
| the page holds every resting order (`swept` in `NoZombies`, `NoOrderSurvives`, `EndsFlat`) | antecedent | `get_open_orders` reads one page and ignores the cursor: a clean-up at startup, or the last sweep at shutdown, may miss the orders behind it |

### What else modelling showed

Not the subject of a run, because no sentence of the repository says otherwise:

* After a failed cancel `reset_quotes` clears the Quoter's belief while
  `open_orders_` keeps the order; the next update places a second order on that
  side. The order stays known (`OrdersNotForgotten`), so a halt still removes it.
* The paper exchange treats the amend request as a new order and leaves the old
  one resting. Backtests can hold two orders a side, and a fill of the old one
  is booked against no open order (`FillsAreBooked` shows it is booked).
* `check_order` counts open orders from a cache that only a fill refreshes
  (`RiskManager::update`), so `max_open_orders_per_market` lags behind the
  placements. The runs of the quoter give it the configured 4, above the number
  of their order ids, so the limit never binds there.
* `min_spread` does not bound the spread when unwind pricing moves the reducing
  side to the fair value.
* The flow guard and the trade tape compare the capture's times with the wall
  clock in a replay; an old capture empties the window at once (`CaptureAge`).
* A ticker listed in two configured series would be ranked and picked twice.

### Fairness

* `QuoteLifecycle`: the poll of the main loop comes round
  (`while (!g_shutdown)` with a 100 ms sleep), and fills pushed are delivered.
  A sweep that keeps coming round succeeds in the end, and so does a placement
  that is possible again and again (strong fairness): the exchange does not
  refuse for ever.
* `FillReconcile`: weak fairness of the reconciliation only, which the main
  loop repeats every two minutes. Nothing is assumed of the connection.
* `FeedConnection`: each thread that can run does. The network may do nothing.
* `FeedBook`: messages received are dispatched, a close that was requested
  happens, a connection is made again, a new subscription is answered by its
  snapshot, and the rotation thread ends what it began. Nothing is assumed of
  changes, losses or drops.
* `SessionLifecycle`: the guard's REST calls return or throw. The process may
  still die at any point.

`MarketRotation`, `PaperSession`, `MarketScanner`, `SessionPnl` and the ledgers
state no liveness property and assume no fairness.

`CHECK_DEADLOCK FALSE` is set where the system may really stop: the feed (after
`stop`), the book (bounded changes), the lifecycle and the P&L (after the last
process), the backtest (at the end of the capture).

## 4. Proofs

Checked by TLAPS, for every value of the constants that the modules' named
assumptions allow: prices between 1 and 99 cents, natural bounds, positive order
sizes, finite non-empty sets of markets, Boolean switches of the environment, a
loss limit of at most zero (`risk_limits.hpp` writes a loss as a negative number),
listings with a page, if an empty one, for every series, trade tapes that come
newest first (the order the scanner's gates rely on), public prints with an
integer price and a natural size.
TLC evaluates the assumptions on the runs. Where a theorem needs more, it is a
hypothesis of that theorem.

| Theorem | Property | Holds with |
|---|---|---|
| `LotInvariance`, `PnlConservedHolds`, `ExposureExactHolds`, `LotsImplementLedger` (`LotLedgerProofs`) | `PnlConserved`, `ExposureExact`, the refinement `ImplementsLedger` | fills of any size, late, reordered, repeated |
| `LedgerTypeCorrect`, `LedgerSafe` (`LotLedgerProofs`) | types; one side only, net is what is held: of `OrderLedger`, and through the refinement of the lots | |
| `QuotesTypeCorrect`, `QuotesStayTracked`, `QuotesNeverCross`, `HaltStopsOrderFlow`, `PositionAlwaysAgrees`, `WindDownOnlyReduces` (`QuoteLifecycleProofs`) | `OwnQuotesTracked`, `NoSelfCross`, `HaltFreezesQuotes`, `PositionAgrees`, `WindDownReduces` | every combination of faults |
| `NoOrderForgotten` | `OrdersNotForgotten` | `NoLostOrder`: no placement's answer is lost, and no amend both makes a new order and loses its answer |
| `DeadMarketsBareHolds`, `NewOrdersOnLiveFeedHolds` (`MarketRotationProofs`) | the properties of that name | every switch: late feed, lagging fills, re-adoption |
| `QuotesOnlyTrackedHolds` | `QuotesOnlyTracked` | `LateFeed = FALSE` (`rotation_late_feed` shows it is needed) |
| `ExposureTrackedHolds` | `ExposureTracked` | `LateFeed = FALSE`, `FillsLag = FALSE` |
| `NetIsTradesHolds`, `GapBackfilledHolds` (`ConnectionProofs`) | the properties of that name | leftovers, rotation, trades in untracked markets, any overlap of the backfill |
| `NoFalseGapHolds` (`OrderbookProofs`) | `NoFalseGap` | every switch: snapshots lost, messages dispatched after the close request, re-adoption |
| `BookWasRealHolds`, `BookMirrorsExchangeHolds`, `ClearingIsMicroHolds` (`OrderbookProofs`) | `BookWasReal`, `BookMirrorsExchange`, `ClearingIsMicro` | `Orderly`: those three switches off (section 3 shows that each is needed); any levels, sizes, changes, lost deltas and drops |
| `RanksWholeListingHolds` (`OrderbookProofs`) | `RanksWholeListing` | any series, pages, refusals and retries, configurations and rewards |
| `PicksAreBestHolds`, `PicksAreLiveHolds` (`OrderbookProofs`) | `PicksAreBest`, `PicksAreLive` | `TickersOnce`: the listing has each ticker once; any answers to the probes, refusals included |
| `FeedTypeCorrect`, `FeedSubscribedOnce` (`ConnectionProofs`) | `SubscribedOnce` | any tickers, delays and reconnects, also a `stop()` that races `run()` |
| `FillsAreBookedHolds`, `PrintsBoundFillsHolds` (`ConnectionProofs`) | `FillsAreBooked`, `PrintsBoundFills` | any frames, books, pricing, ages of quotes and risk limits; what `on_fill` refuses is in the model, and shown not to happen |
| `PnlInvariance`, `CarriedExactHolds`, `LossHaltsHolds`, `DrawdownExactHolds` (`SessionPnlProofs`) | types and soundness; the properties of that name | any markets, fills, marks, flattens and processes, a kill at any step, failed writes |
| `NoZombiesHolds`, `NoOrderSurvivesHolds`, `EndsFlatHolds`, `LedgerExplainedHolds` (`SessionLifecycleProofs`) | the properties of that name | any sweeps, pages, orders, rotations and restarts, every failing call |

### The arguments

* **Sums and recursion.** The library's induction theorems take an operator and
  cannot be used with the provers at hand. `SumTheorems` derives first-order
  induction (a set of naturals, or a family of finite sets, that contains the
  start and is closed under one step) from minimal elements of well-founded
  relations, and from it that the fold behind `SumFunctionOnSet` is a sum: it
  takes one element out, adds one, splits, is linear. The models state positions
  and profits with that operator, and loops as recursive functions, so that TLC
  and the proofs use the same definitions.
* **`OrderLedger`**: matching consumes the opposite side completely before a
  unit is added, so at most one side is held.
* **`LotLedger`**: `Balanced` is the loop invariant of `record_fill`: after `i`
  lots, what is left of the fill, what was gained and what is kept balance, in
  contracts and in cents, with the lots gone through; something is left only if
  nothing is kept. `MatchResult` is the loop's result by induction on `i`. The
  invariant of the state, `LotInv`, says for each market that one queue is
  empty, that net is the difference of the queues, and that cash agrees; the
  first two are needed for `ExposureExact`, the last is `PnlConserved`.
* **`LotLedger` implements `OrderLedger`**: a lot maps to as many unit contracts
  at its price. `UnitBalanced` is the loop invariant in those terms: after `i`
  lots the oldest contracts are closed, as many as were taken from the fill, and
  the others are kept in order; so the result is the abstract ledger's `SubSeq`
  and what is pushed its `Repeat` (`BookedUnits`). A fill then maps to the
  ledger's `RecordFill`, every other step to none. With it `LedgerSafe` carries
  over to the lots of `record_fill`.
* **`QuoteLifecycle`**: the handlers are compositions of book transformers
  (cancel, amend, place, refresh). `GoodBook` (types, own quotes tracked and
  uncrossed) is kept by each, whatever the exchange answers: `NoSelfCross` needs
  `OwnQuotesTracked`, because a side is compared with the price of the other
  side's own quote. A halted market's orders are frozen or fewer after each. The
  position needs that a fill on its way is counted once (`FlightInv`). An order
  is erased locally when it is cancelled or filled up, so `NoOrderForgotten`
  needs `OrdersAccounted`: what is booked of an order, what is on its way and
  what is left at the exchange never exceed the quote size; the wind-down needs
  that the two ends of the wire agree on an order's side.
* **`MarketRotation`**: every step is of one of four kinds (`StepKind`): it
  touches no order, it is a round of quoter updates in confirmed markets, a fill
  is delivered, or the exchange trades; each kind is shown to keep the
  invariant. `Tracking` adds that books are kept for tracked markets only, so
  the recovery net quotes no other. `Settling` adds that a trade is recorded or
  on its way to a tracked market: without it a market could be dropped with no
  order left and a position it has not heard of.
* **`FillReconcile`**: a recorded id adds its trade once, so net is the sum over
  the recorded. For `GapBackfilled` the invariant (`Excusing`) says three things
  of the trades that are not recorded: those on the wire come in ascending order;
  those of markets not tracked are excused, because a market leaves the tracked
  set with its unheard trades; and those up to `last_fill_time` are excused,
  because the time moves only to a push, behind which nothing unrecorded is
  left on an ordered wire, or to the end of a backfill. A reconnect backfill from
  a floor not above that time then fetches every missed trade that is tracked and
  not excused. Nothing is excused that the code brings back: an answered
  reconnect adds no excuse, a replay of the session takes those of tracked
  markets away.
* **`Orderbook`**: a ladder is a sequence of distinct prices with positive sizes,
  best first, and there is exactly one for given sizes (`OneLadder`). So
  `apply_snapshot` yields the ladder of the snapshot's sizes whatever their
  order on the wire, and `apply_delta`, whose insertion point splits the ladder,
  yields the ladder of the changed sizes in each of its three cases, erase,
  resize and insert (`DeltaExact`). The sort is written by rank (how many levels
  come before this one), because the provers know nothing of `SortSeq`.
* **`FeedBook`**: `Numbered` orders the messages: those on their way have
  ascending numbers the server has used, newer than `lastSeq`, and on a
  connection that stands a number between `lastSeq` and `srvSeq` is on its way or
  was lost. It alone gives `NoFalseGap`. For the book, `Explained` says that
  there is a history, the sizes the server had at each number, of which every
  message in the channel tells the truth, and the local book is its entry at
  `lastSeq`; `Seeded` covers the books that rotation puts in from REST. A delta
  that passes the sequence check is the next one, so it moves the book to the
  next entry. The history is quantified in the invariant and is no variable of
  the model. The prices read off a book need one fact more, that no book is
  crossed (`Uncrossed`): the exchange's never is, and the local one is an entry
  of its history. A dropped market's book starts empty while deltas still
  arrive; it is no such entry, but it stays `Within` it, because a decrement
  below nothing erases the level, and a book within an uncrossed one is
  uncrossed. Each price is then a mean of bid and ask with positive weights
  (`MeanBetween`), and with one level a side the sums over levels are single
  products and a common factor cancels (`ClearingFactors`).
* **`MarketScanner`**: while the listing is read, `Collecting` says that what was
  collected is what the pages before the cursor (`Passed`) hold, no more and no
  less; a refused page moves no cursor. A ranking is an injection of as many
  places as there are candidates into the candidates, so it misses none
  (`RankingOrders`), and the rounded mid passes exactly when the mid does
  (`EligibleIsTradable`): together `RanksWholeListing`. The picks need that each
  probe is made once: with each ticker once (`TickersOnce`, `Apart`) the probe at
  hand has a key no earlier answer has (`FreshKey`), so what a candidate was
  cleared of or turned down for stays true (`OneMoreAnswer`). `Probed` then says
  of the candidates behind `at` that each was admitted with all gates passed or
  failed one. `PicksAreLive` is in addition about the gates themselves: the
  prefix of the tape a gate looks at decides for the whole tape because it is
  newest first (`TapeIsLive`), a positive minority share needs a print of each
  taker (`BothSidesTook`), and the head of the sorted ladder has its best price
  (`BestIsFirst`).
* **`SessionPnl`**: `MarketSound` says of each market that it holds one side
  only and that what it realized is its cash, the cost of what it still holds
  and 100 cents for each pair; a fill keeps that whatever it matches. With every
  position marked, realized and unrealized P&L are then the equity counted from
  cash (`TotalIsEquity`). `Bare` and `Away` say that a market that is
  not tracked holds nothing before the shutdown's flatten and has no P&L unless
  it is `forgotten`, `Watching` that the risk
  manager's peak and its drawdown bit are those of the equity while nothing is
  `distorted`. `CarriedExact` and `LossHalts` are part of the invariant.
* **`FeedConnection`**: `SubscribedOnce` speaks of an open, connected socket
  only; `SocketKnown` adds that `connected_` outlives its connection only until
  the close callback has run, and that nothing was sent on an open connection
  before its open callback.
* **`PaperSession`**: the paper exchange's orders rest under ids below the next
  one, each with something left (`Exchange`), and the ledger's net position is
  what was filled, with no trade id recorded above the exchange's count of fills
  (`Ledger`): so the id of the next fill is new and `on_fill` refuses none;
  paper orders exist for an adopted market only. Nothing is needed of the prices:
  whatever the quoter decides, its calls to the exchange keep `Exchange`. For a
  print the induction is over the loop of
  `simulate_maker_fills` (`FilledSoFar`): what is left of the print and what was
  filled add up, the orders not reached yet and those it does not cross are as
  they were, and while something is left none that it crossed still rests. The
  property says in terms of its own what traded through an order means
  (`Through`); that the code's test on a No order's price agrees with it is
  `CrossedIsThrough`.
* **`SessionLifecycle`**: order ids are unique (`Identity`), a good sweep leaves
  nothing and nothing is placed after trading (`Sweeping`), after it the
  positions only move by the guard's own orders, so what is still to flatten is
  what the exchange holds (`Flattening`), and the sum of what was booked, missed
  and on its way explains each position.

The inductive invariants were checked with TLC on the runs' instances before
they were proved.

### Only model-checked

* Everything under fairness: `HaltPullsQuotes`, `QuotesReturn`,
  `PositionsConverge`, `StopEndsRun`, `ShutdownTerminates`, `GapForcesResync`,
  `AdoptedIsFed`. Liveness is beyond the proof system's backends.
* `CalmNeverLoses` (`PaperSession`): the prices go through an exponential,
  roundings and folds over the frames, the bound on the round trip is one of
  rounding errors, and it holds for the run's spread and skew, not for any.
* That the listings of an exchange satisfy `TickersOnce`: the listings of the run
  do. A ticker listed in two of the configured series would be ranked twice and
  probed twice, which `RanksWholeListingHolds` allows and the other two exclude.

## 5. Not modelled

* **Rate limiter**: a token bucket in real time. It delays calls and changes no
  outcome; the models let every call take any time.
* **Analytics, capture, logging, configuration, CLI, authentication, JSON**: pure
  I/O and parsing, with no state the trading logic reads back.
* **Fair-value backtest tooling, theo grid, external probability**: offline
  batch computation in floating point on recorded data.
* **Read-only modes** (scan, status): they print what the scanner and the REST
  client return. `log_status` and the portfolio's exposure per event are reports.
* **Unused operations**: `RiskManager::halt` and `resume`, `decrease_order`: the
  application never calls them.
* `TradeTape::record_own_fill`: it lowers the weight of our own prints in the
  tape's average. A replay gives its simulated fills ids of their own, so no
  print is ever one of them there; `minority_side_ratio` has no caller.
* The C++ data race on `running_`, a plain `bool` that two threads use, is
  treated as an atomic flag.
