--------------------------- MODULE MarketRotation ---------------------------
(***************************************************************************)
(* A trading session over several markets: the tracked set (tickers_), the *)
(* book map, the feed-liveness bookkeeping, the loss halt, and the         *)
(* rotation that swaps idle markets while the feed keeps running           *)
(* (engine/trading_session.cpp, app/app_modes.cpp, app/main.cpp).          *)
(*                                                                         *)
(* Two threads share the session under engine_mtx.  The main loop runs one *)
(* step at a time and, while a rotation is under way, nothing else; the    *)
(* WebSocket thread may run a callback between any two steps of a          *)
(* rotation.  What a Quoter does with one market is the subject of         *)
(* QuoteLifecycle; here one update may place an order, pull the market's   *)
(* orders, or leave it alone.                                              *)
(***************************************************************************)
EXTENDS Integers, FiniteSets, Functions

CONSTANTS
    Markets,        \* every market the scanner may ever pick
    StartMarkets,   \* the markets the session starts with
    OrderSize,      \* contracts in one order
    Gains,          \* what one fill may add to realized_pnl (spread less fee)
    LossLimit,      \* daily_loss_limit
    MaxOrders,      \* bound: orders placed in a behaviour
    MaxTrades,      \* bound: trades at the exchange in a behaviour
    MaxRotations,   \* bound: rotations in a behaviour
    LateFeed,       \* the server goes on sending the feed of dropped markets
    FillsLag,       \* a fill may travel while other callbacks run
    MaxFaults,      \* bound: cancels that fail in a behaviour
    Readopt,        \* the scanner may pick a market that was dropped before
    FeedFails       \* a subscription may be lost without an error

ASSUME MarketsAssumption == IsFiniteSet(Markets) /\ StartMarkets \subseteq Markets
ASSUME BoundsAssumption  ==
    /\ {OrderSize, MaxOrders, MaxTrades, MaxRotations, MaxFaults} \subseteq Nat
    /\ OrderSize > 0
ASSUME GainsAssumption   == Gains \subseteq Int /\ LossLimit \in Int
ASSUME FaultsAssumption  ==
    {LateFeed, FillsLag, Readopt, FeedFails} \subseteq BOOLEAN

VARIABLES
    tracked,    \* tickers_
    books,      \* the domain of ob_map_
    ticked,     \* the domain of last_book_update_
    seeded,     \* seeded_at_ as its age: "never", "grace" or "expired"
    dead,       \* feed_dead_
    open,       \* open_orders_: records [id, mkt, left]
    net,        \* net_position_
    realized,   \* realized_pnl of each market
    booked,     \* trade ids record_fill has seen
    pnlHalt,    \* kPnLLimit
    stale,      \* kStaleBook
    rot,        \* rotate_markets in progress: [pc, picks, add, mkt]
    rotations,  \* rotations started so far
    connected,  \* connected_ of the WebSocketClient
    subs,       \* its subscribed_tickers_
    served,     \* markets whose feed the server really sends
    snapDue,    \* markets whose initial snapshot is on its way
    resting,    \* the exchange's live orders: records [id, mkt, left]
    trades,     \* the exchange's trades: records [id, order, mkt, d, gain]
    wire,       \* ids of trades whose fill message is on its way
    placed,     \* orders placed so far: the last order id
    faults      \* cancels that have failed so far

session  == <<tracked, books, ticked, seeded, dead>>
ledger   == <<open, net, realized, booked>>
risk     == <<pnlHalt, stale>>
rotation == <<rot, rotations>>
feed     == <<connected, subs, served, snapDue>>
exchange == <<resting, trades, wire, placed, faults>>
vars == <<session, ledger, risk, rotation, feed, exchange>>

Idle == [pc |-> "idle", picks |-> {}, add |-> {}, mkt |-> {}]
Halted == pnlHalt \/ stale
Position(m) ==
    SumFunctionOnSet([t \in trades |-> t.d], {t \in trades : t.mkt = m})
OrdersOf(S, orders) == {o \in orders : o.mkt \in S}

-----------------------------------------------------------------------------
(* Orders.                                                                 *)

(* Place an order in every market of P and cancel all orders of the        *)
(* markets of S, which has none of P.  Cancelling is best effort: a cancel *)
(* that fails changes nothing, and an order that is gone from the exchange *)
(* stays in open_orders_ until its fill arrives.                           *)
Reorder(P, S) ==
    LET live   == {o \in OrdersOf(S, open) : \E r \in resting : r.id = o.id}
        New(f) == {[id |-> f[m], mkt |-> m, left |-> OrderSize] : m \in P}
    IN /\ placed' = placed + Cardinality(P)
       /\ placed' <= MaxOrders
       /\ \E C \in SUBSET live, f \in Bijection(P, (placed + 1)..placed') :
            /\ open' = (open \ C) \cup New(f)
            /\ resting' = {r \in resting : \A o \in C : o.id # r.id} \cup New(f)
            /\ faults' = faults + Cardinality(live \ C)
            /\ faults' <= MaxFaults
       /\ UNCHANGED <<net, realized, booked, trades, wire>>

(* strategy_.update(m, book): place unless halted, pull or leave alone.    *)
RunQuoter(m) ==
    \/ ~Halted /\ Reorder({m}, {})
    \/ Reorder({}, {m})

CancelAllQuotes == Reorder({}, tracked)

-----------------------------------------------------------------------------
(* Feed callbacks, on the WebSocket thread under engine_mtx.               *)

(* A message for m confirms its feed, whether or not m is tracked.         *)
BookUpdated(m) ==
    /\ books' = books \cup {m}
    /\ ticked' = ticked \cup {m}
    /\ dead' = dead \ {m}
    /\ UNCHANGED <<tracked, seeded>>

OnSnapshot(m) ==
    /\ m \in snapDue
    /\ LateFeed \/ m \in tracked
    /\ snapDue' = snapDue \ {m}
    /\ BookUpdated(m)
    /\ UNCHANGED <<ledger, risk, rotation, connected, subs, served, exchange>>

OnDelta(m) ==
    /\ m \in served \ snapDue
    /\ LateFeed \/ m \in tracked
    /\ BookUpdated(m)
    /\ IF m \in tracked
         THEN RunQuoter(m)
         ELSE UNCHANGED <<ledger, exchange>>
    /\ UNCHANGED <<risk, rotation, feed>>

(* RiskManager::update sums realized_pnl over the tracked markets only.    *)
TotalPnl(pnl) == SumFunctionOnSet(pnl, tracked)

(* record_fill counts the fill on its order and drops a filled order.      *)
Counted(t) ==
    {IF o.id = t.order THEN [o EXCEPT !.left = @ - 1] ELSE o : o \in open}

FilledOpen(t) == {o \in Counted(t) : o.left > 0}

OnFill(t) ==
    /\ t.id \in wire
    /\ wire' = wire \ {t.id}
    /\ IF t.mkt \in tracked /\ t.id \notin booked
         THEN /\ booked' = booked \cup {t.id}
              /\ net' = [net EXCEPT ![t.mkt] = @ + t.d]
              /\ realized' = [realized EXCEPT ![t.mkt] = @ + t.gain]
              /\ open' = FilledOpen(t)
              /\ pnlHalt' = (pnlHalt \/ TotalPnl(realized') < LossLimit)
         ELSE UNCHANGED <<ledger, pnlHalt>>
    /\ UNCHANGED <<session, stale, rotation, feed, resting, trades, placed, faults>>

OnDisconnect ==
    /\ connected
    /\ connected' = FALSE
    /\ served' = {} /\ snapDue' = {}
    /\ CancelAllQuotes
    /\ UNCHANGED <<session, risk, rotation, subs>>

(* handle_connect subscribes to every ticker ever asked for: there is no   *)
(* way to unsubscribe.                                                     *)
HandleConnect ==
    /\ ~connected
    /\ connected' = TRUE
    /\ \E S \in SUBSET subs :
        /\ FeedFails \/ S = subs
        /\ served' = S /\ snapDue' = S
    /\ UNCHANGED <<session, ledger, risk, rotation, subs, exchange>>

-----------------------------------------------------------------------------
(* The main loop.  Only the thread that runs it rotates, so none of its    *)
(* other steps happens between two steps of a rotation.                    *)

FeedConfirmed(m) == m \in ticked \/ seeded[m] # "expired"

NoOrder(m) == OrdersOf({m}, open) = {}

(* Mutant: the recovery net does not ask whether the feed is confirmed.    *)
MutRequoteIdleMarkets == {m \in books : NoOrder(m)}

(* requote_idle_markets, the recovery net, walks ob_map_, not tickers_.    *)
RequoteIdleMarkets == {m \in books : FeedConfirmed(m) /\ NoOrder(m)}

(* enforce_quote_safety declares these dead and cancels their orders once. *)
NeverTicked == {m \in tracked : ~FeedConfirmed(m) /\ m \notin dead}

(* Mutant: a dead market is noted but its orders are not cancelled.        *)
MutEnforceQuoteSafety(requoted) ==
    IF pnlHalt \/ stale'
      THEN CancelAllQuotes /\ UNCHANGED dead
      ELSE /\ \E S \in SUBSET requoted : Reorder(S, {})
           /\ dead' = dead \cup NeverTicked

EnforceQuoteSafety(requoted) ==
    IF pnlHalt \/ stale'
      THEN CancelAllQuotes /\ UNCHANGED dead
      ELSE /\ \E S \in SUBSET requoted : Reorder(S, NeverTicked)
           /\ dead' = dead \cup NeverTicked

(* One turn of the main loop, under one lock: enforce_quote_safety always, *)
(* and before it, when they are due, check_ws_staleness and the recovery   *)
(* net.                                                                    *)
Poll(requoted) ==
    /\ rot.pc = "idle"
    /\ EnforceQuoteSafety(requoted)
    /\ UNCHANGED <<tracked, books, ticked, seeded, pnlHalt, rotation, feed>>

PollTick      == UNCHANGED stale /\ Poll({})
StalenessTick == stale' \in BOOLEAN /\ Poll(RequoteIdleMarkets)

(* kFeedConfirmGrace passes for m.  A subscription the server serves sends *)
(* its initial snapshot within seconds, well inside the grace.             *)
GraceExpires(m) ==
    /\ seeded[m] = "grace"
    /\ m \notin snapDue
    /\ seeded' = [seeded EXCEPT ![m] = "expired"]
    /\ UNCHANGED <<tracked, books, ticked, dead, ledger, risk, rotation,
                   feed, exchange>>

-----------------------------------------------------------------------------
(* rotate_markets: scan, drop, then fetch, add and subscribe one by one.   *)

(* TickerScanner::scan, without the lock.                                  *)
Scan ==
    /\ rot.pc = "idle"
    /\ rotations < MaxRotations
    /\ rotations' = rotations + 1
    /\ \E P \in SUBSET Markets :
        /\ Readopt \/ (P \cap subs) \subseteq tracked
        /\ rot' = [Idle EXCEPT !.pc = "drop", !.picks = P]
    /\ UNCHANGED <<session, ledger, risk, feed, exchange>>

(* Mutants: a market is dropped with resting orders, or with a position.   *)
MutRemovable(m) == net[m] = 0
MutFlat(m) == NoOrder(m)

Removable(m) == net[m] = 0 /\ NoOrder(m)

(* remove_market_if_idle for every tracked market that was not picked.     *)
DropIdle ==
    /\ rot.pc = "drop"
    /\ LET out == {m \in tracked \ rot.picks : Removable(m)}
       IN /\ tracked' = tracked \ out
          /\ books' = books \ out
          /\ ticked' = ticked \ out
          /\ rot' = [rot EXCEPT !.pc = "fetch",
                                !.add = rot.picks \ (tracked \ out)]
    /\ UNCHANGED <<seeded, dead, ledger, risk, rotations, feed, exchange>>

(* get_orderbook, without the lock; a failure skips the market.            *)
FetchBook ==
    /\ rot.pc = "fetch"
    /\ \/ \E m \in rot.add :
            \E pc \in {"add", "fetch"} :
                rot' = [rot EXCEPT !.pc = pc, !.add = @ \ {m}, !.mkt = {m}]
       \/ rot.add = {} /\ rot' = Idle
    /\ UNCHANGED <<session, ledger, risk, rotations, feed, exchange>>

(* seed_orderbook: the book is recorded although nothing confirmed it yet. *)
Seeded(m) ==
    /\ books' = books \cup {m}
    /\ seeded' = [seeded EXCEPT ![m] = "grace"]
    /\ dead' = dead \ {m}
    /\ UNCHANGED ticked
    /\ RunQuoter(m)

AddMarket ==
    /\ rot.pc = "add"
    /\ \E m \in rot.mkt :
        /\ tracked' = tracked \cup {m}
        /\ Seeded(m)
    /\ rot' = [rot EXCEPT !.pc = "sub"]
    /\ UNCHANGED <<risk, rotations, feed>>

(* WebSocketClient::subscribe does nothing for a known ticker.             *)
Subscribed(m) ==
    /\ subs' = subs \cup {m}
    /\ \/ /\ connected /\ m \notin subs
          /\ served' = served \cup {m}
          /\ snapDue' = snapDue \cup {m}
       \/ /\ ~connected \/ m \in subs \/ FeedFails
          /\ UNCHANGED <<served, snapDue>>
    /\ UNCHANGED connected

Subscribe ==
    /\ rot.pc = "sub"
    /\ \E m \in rot.mkt : Subscribed(m)
    /\ rot' = [rot EXCEPT !.pc = "fetch", !.mkt = {}]
    /\ UNCHANGED <<session, ledger, risk, rotations, exchange>>

-----------------------------------------------------------------------------
(* The exchange: a resting order trades one contract, and the fill is      *)
(* pushed later.                                                           *)
ExchangeTrade(o, d, gain) ==
    /\ Cardinality(trades) < MaxTrades
    /\ LET t == [id |-> Cardinality(trades) + 1, order |-> o.id,
                 mkt |-> o.mkt, d |-> d, gain |-> gain]
       IN trades' = trades \cup {t} /\ wire' = wire \cup {t.id}
    /\ resting' = (resting \ {o}) \cup
                  {r \in {[o EXCEPT !.left = @ - 1]} : r.left > 0}
    /\ UNCHANGED <<session, ledger, risk, rotation, feed, placed, faults>>

Init ==
    /\ tracked = StartMarkets /\ books = StartMarkets
    /\ ticked = {} /\ dead = {}
    /\ seeded = [m \in Markets |-> IF m \in StartMarkets THEN "grace" ELSE "never"]
    /\ open = {} /\ resting = {} /\ placed = 0 /\ faults = 0
    /\ net = [m \in Markets |-> 0] /\ realized = [m \in Markets |-> 0]
    /\ booked = {} /\ trades = {} /\ wire = {}
    /\ pnlHalt = FALSE /\ stale = FALSE
    /\ rot = Idle /\ rotations = 0
    /\ connected = FALSE /\ subs = StartMarkets
    /\ served = {} /\ snapDue = {}

(* Without lag a fill is delivered before anything else happens.           *)
Quiet == FillsLag \/ wire = {}

WebSocketThread ==
    \/ \E t \in trades : OnFill(t)
    \/ /\ Quiet
       /\ \/ \E m \in Markets : OnSnapshot(m) \/ OnDelta(m)
          \/ OnDisconnect
          \/ HandleConnect

MainLoop ==
    /\ Quiet
    /\ \/ PollTick
       \/ StalenessTick
       \/ Scan
       \/ DropIdle
       \/ FetchBook
       \/ AddMarket
       \/ Subscribe

Environment ==
    /\ Quiet
    /\ \/ \E m \in Markets : GraceExpires(m)
       \/ \E o \in resting, d \in {-1, 1}, g \in Gains : ExchangeTrade(o, d, g)

Next == WebSocketThread \/ MainLoop \/ Environment

Spec == Init /\ [][Next]_vars

-----------------------------------------------------------------------------
(* Properties.                                                             *)

(* The session only has orders in markets it tracks: its halts, its        *)
(* disconnect handler and its shutdown cancel tickers_ and nothing else.   *)
QuotesOnlyTracked == \A o \in open : o.mkt \in tracked

(* A market is never rotated away with exposure: what the session no       *)
(* longer tracks has no position and no live order at the exchange.        *)
ExposureTracked ==
    \A m \in Markets \ tracked :
        Position(m) = 0 /\ OrdersOf({m}, resting) = {}

(* No handler places an order in a market whose feed has never confirmed   *)
(* after its grace: not the recovery net, not a rotation, not a delta.     *)
NewOrdersOnLiveFeed ==
    [][\A o \in open' : o.id > placed => FeedConfirmed(o.mkt)']_vars

(* A market whose subscription never came to life has no order at the      *)
(* exchange from the poll that declares it dead until a message revives    *)
(* it, unless a cancel failed: the one sweep of enforce_quote_safety takes *)
(* them all, and nothing quotes the market meanwhile.                      *)
DeadMarketsBare ==
    faults = 0 => OrdersOf(dead, resting) = {}
=============================================================================
