---------------------------- MODULE PaperSession ----------------------------
(***************************************************************************)
(* The backtest: a captured session replayed through the quoter, order     *)
(* manager and risk manager against the paper exchange (run_backtest_mode  *)
(* and simulate_maker_fills of app/app_modes.cpp, net/paper_transport.cpp, *)
(* strategy/quoter.cpp, engine/flow_imbalance.cpp, engine/trade_tape.cpp). *)
(*                                                                         *)
(* One market.  A step is one captured frame: a snapshot, a delta or a     *)
(* public print.  The replay runs on the wall clock, the frames carry the  *)
(* capture's: how long a quote has rested is not determined by the frames. *)
(* Quantities are contracts, prices cents; orders carry the price of their *)
(* own side, quotes the YES price.                                         *)
(***************************************************************************)
EXTENDS Pricing

CONSTANTS
    Snapshots,      \* books a snapshot frame may carry
    Deltas,         \* [side, price, delta] of the delta frames
    Prints,         \* [px, taker, qty] of the print frames
    Models,         \* pricing models a configuration may select
    Ages,           \* how long a quote may have rested: 0 under fade_rest_ms,
                    \* 1 under min_rest_ms, 2 at least min_rest_ms
    RepriceThreshold, TheoJump,     \* reprice_threshold_cents, theo_jump_cents
    MinQuotePrice, MaxOpenOrders, MaxOrderSize, \* risk limits
    LossLimit,      \* daily_loss_limit, in cents
    FlowWindow, FlowMin, FlowRatio, \* FlowImbalanceConfig
    CaptureAge,     \* how long before its replay a frame was captured
    MaxFrames       \* bound: frames of the capture

ASSUME PaperAssumption ==
    /\ Ages \subseteq 0..2
    /\ {RepriceThreshold, TheoJump, MinQuotePrice, MaxOpenOrders, MaxOrderSize,
        FlowWindow, FlowMin, FlowRatio, CaptureAge, MaxFrames} \subseteq Nat
    /\ LossLimit \in Int
    /\ Prints \subseteq [px : Int, taker : Sides, qty : Nat]

VARIABLES
    model,      \* the pricing model configured
    adopted,    \* the session has adopted the market
    book,       \* ob_map_: the captured book, without our paper orders
    ema,        \* fv_ema_, None before the first price
    orders,     \* [own, open, paper, nextId, fills, filled]: the quoter's
                \* quotes, OrderManager's open_orders_, and the paper exchange:
                \* its orders by id, its fills, their number and size per side
    account,    \* [net, seen, lots, realized, cachedPos, cachedOpen, halted,
                \*  flow]: the ledger with the trade ids it has recorded,
                \* RiskManager's caches, the flow guard
    tape,       \* TradeTape: prints, oldest first
    now,        \* capture time of the last frame
    frames,     \* frames replayed
    calm        \* history: the best levels are those the market was adopted with

paperVars == <<model, adopted, book, ema, orders, account, tape, now, frames, calm>>

NoId == 0
Top(b) == [s \in Sides |-> IF b[s] = <<>> THEN <<>> ELSE <<Head(b[s])>>]
NoQuote == [id |-> NoId, px |-> 0, fade |-> FALSE]
Opposite(s) == IF s = "yes" THEN "no" ELSE "yes"
OrderPrice(s, px) == IF s = "yes" THEN px ELSE Complement(px)
WallClock == now + CaptureAge

-----------------------------------------------------------------------------
(* PaperTransport.  Ids grow, so that oldest first is by id.               *)

(* A function with one more entry, and with one less.                      *)
With(f, i, x) == [j \in DOMAIN f \cup {i} |-> IF j = i THEN x ELSE f[j]]
Without(f, i) == [j \in DOMAIN f \ {i} |-> f[j]]

(* post: whatever the URL, the body is a new order.                        *)
Post(o, s, px) ==
    [o EXCEPT !.paper = With(@, o.nextId, [id |-> o.nextId, side |-> s,
                    price |-> OrderPrice(s, px), qty |-> QuoteSize, filled |-> 0]),
              !.nextId = @ + 1]

(* delete_: an order that is not there is deleted all the same.            *)
Delete(o, id) == [o EXCEPT !.paper = Without(@, id)]

(* simulate_fill: the order found takes the fill and leaves once filled.   *)
SimulateFill(o, id, qty) ==
    LET x == [o.paper[id] EXCEPT !.filled = @ + qty]
    IN  [o EXCEPT !.paper = IF x.filled < x.qty THEN With(@, id, x) ELSE Without(@, id),
                  !.fills = @ + 1,
                  !.filled[x.side] = @ + qty]

-----------------------------------------------------------------------------
(* OrderManager and RiskManager.                                           *)
Place(o, s, px) ==
    LET id == o.nextId
    IN  [Post(o, s, px) EXCEPT
            !.open = With(@, id, [side |-> s, price |-> OrderPrice(s, px),
                                  qty |-> QuoteSize, filled |-> 0]),
            !.own[s] = [@ EXCEPT !.id = id, !.px = px]]

Release(o, s) ==
    LET id == o.own[s].id
    IN  [Delete(o, id) EXCEPT
            !.open = Without(@, id),
            !.own[s].id = NoId]

(* amend_order posts the order's body to its amend URL: the paper exchange *)
(* answers with the id of a new order.  open_orders_ moves to that id and  *)
(* keeps what was filled; the quoter follows.                              *)
Amend(o, s, px) ==
    LET old == o.own[s].id
        id == o.nextId
    IN  [Post(o, s, px) EXCEPT
            !.open = IF old \in DOMAIN @
                       THEN With(Without(@, old), id,
                                 [@[old] EXCEPT !.price = OrderPrice(s, px)])
                       ELSE @,
            !.own[s] = [@ EXCEPT !.id = id, !.px = px]]

CheckOrder(s, px) ==
    LET after == account.cachedPos + (IF s = "yes" THEN QuoteSize ELSE -QuoteSize)
    IN  /\ ~account.halted
        /\ QuoteSize <= MaxOrderSize
        /\ OrderPrice(s, px) \in MinQuotePrice..MaxQuotePrice
        /\ account.cachedOpen < MaxOpenOrders
        /\ after \in -MaxPosition..MaxPosition

-----------------------------------------------------------------------------
(* FlowImbalanceGuard: our fills of the window, and whether takers are     *)
(* one-sided.  "none": balanced, or too little flow to tell.               *)
Volume(s) ==
    FoldLeft(LAMBDA sum, e : IF e.when >= WallClock - FlowWindow /\ e.side = s
                               THEN sum + e.qty ELSE sum, 0, account.flow)

Imbalanced ==
    LET high == Larger(Volume("yes"), Volume("no"))
        low == Smaller(Volume("yes"), Volume("no"))
    IN  high + low >= FlowMin /\ high > FlowRatio * Larger(low, 1)

DominantTakerSide ==
    IF ~Imbalanced THEN "none"
    ELSE IF Volume("yes") > Volume("no") THEN "no" ELSE "yes"

Evicted(entries, when) ==
    LET keep == {i \in DOMAIN entries : entries[i].when >= when - FlowWindow}
        from == CHOOSE i \in 1..Len(entries) + 1 :
                    /\ i \in keep \cup {Len(entries) + 1}
                    /\ \A j \in keep : i <= j
    IN  SubSeq(entries, from, Len(entries))

(* TradeTape::vwap_cents: prints of the window, their weight halved with   *)
(* every unit of age.                                                      *)
Vwap ==
    LET fresh == SelectSeq(tape, LAMBDA p : p.when >= WallClock - FlowWindow)
        weight(p) == p.qty * 2^(FlowWindow - (WallClock - p.when))
        total == FoldLeft(LAMBDA sum, p : sum + weight(p), 0, fresh)
        paid == FoldLeft(LAMBDA sum, p : sum + weight(p) * p.px, 0, fresh)
    IN  IF total = 0 THEN None ELSE (1000 * paid) \div total

-----------------------------------------------------------------------------
(* Quoter::update.                                                         *)

(* The book minus what open_orders_ says of our own quotes.                *)
WithoutOwn(b, s) ==
    LET q == orders.own[s]
    IN  IF q.id \notin DOMAIN orders.open THEN b
        ELSE ApplyDelta(b, s, OrderPrice(s, q.px),
                        orders.open[q.id].filled - orders.open[q.id].qty)

Visible(b) == WithoutOwn(WithoutOwn(b, "yes"), "no")

(* Our own quote of the other side would be met.                           *)
WouldCross(o, s, px) ==
    LET other == o.own[Opposite(s)]
    IN  /\ other.id # NoId
        /\ IF s = "yes" THEN px >= other.px ELSE px <= other.px

(* refresh_bid and refresh_ask.                                            *)
Reprice(o, s, px) ==
    IF ~WouldCross(o, s, px) /\ CheckOrder(s, px)
      THEN Amend(o, s, px)
      ELSE Release(o, s)

Refresh(o, s, px, age) ==
    LET q == o.own[s]
        away == IF s = "yes" THEN q.px - px ELSE px - q.px
        adverse == away >= TheoJump
        young == IF adverse THEN age = 0 ELSE age < 2
    IN  IF q.id = NoId
          THEN IF ~WouldCross(o, s, px) /\ CheckOrder(s, px) THEN Place(o, s, px) ELSE o
        ELSE IF away \in -RepriceThreshold..RepriceThreshold THEN o
        ELSE IF adverse /\ ~q.fade THEN [o EXCEPT !.own[s].fade = TRUE]
        ELSE IF young THEN [o EXCEPT !.own[s].fade = adverse]
        ELSE Reprice([o EXCEPT !.own[s].fade = FALSE], s, px)

Update(b) ==
    LET visible == Visible(b)
        anchor == Smoothed(visible, ema)
        suppressed == Suppressed(account.net, FALSE)
        desired == Desired(visible, FairValue(model, anchor, Vwap),
                           DominantTakerSide, account.net)
        pull(o, s) == IF s \in suppressed /\ o.own[s].id # NoId THEN Release(o, s) ELSE o
        quote(o, s, age) == IF desired[s] = None \/ s \in suppressed THEN o
                            ELSE Refresh(o, s, desired[s], age)
    IN  IF Priceable(visible)
          THEN /\ ema' = anchor
               /\ \E bidAge, askAge \in Ages :
                     orders' = quote(quote(pull(pull(orders, "yes"), "no"),
                                           "yes", bidAge), "no", askAge)
          ELSE UNCHANGED <<ema, orders>>

-----------------------------------------------------------------------------
(* TradingSession::on_fill for a fill of the paper exchange, and           *)
(* OrderManager::record_fill: lots are matched first in, first out.        *)
MatchLots(lots, price, qty) ==
    LET step(acc, lot) ==
            LET matched == Smaller(acc.left, lot.qty)
            IN  [left |-> acc.left - matched,
                 gain |-> acc.gain + (100 - price - lot.price) * matched,
                 kept |-> IF matched = lot.qty THEN acc.kept
                          ELSE Append(acc.kept, [lot EXCEPT !.qty = @ - matched])]
    IN  FoldLeft(step, [left |-> qty, gain |-> 0, kept |-> <<>>], lots)

Booked(a, open, x, qty, id) ==
    LET match == MatchLots(a.lots[Opposite(x.side)], x.price, qty)
        realized == a.realized + match.gain
        net == a.net + (IF x.side = "yes" THEN qty ELSE -qty)
    IN  [a EXCEPT
            !.lots = [s \in Sides |->
                        IF s # x.side THEN match.kept
                        ELSE IF match.left = 0 THEN @[s]
                        ELSE Append(@[s], [price |-> x.price, qty |-> match.left])],
            !.seen = @ \cup {id},
            !.realized = realized, !.net = net,
            !.cachedPos = net, !.cachedOpen = Cardinality(DOMAIN open),
            !.halted = @ \/ realized < LossLimit,
            !.flow = Evicted(Append(@, [when |-> now', side |-> x.side, qty |-> qty]), now')]

FilledOpen(open, id, qty) ==
    IF id \notin DOMAIN open THEN open
    ELSE IF open[id].filled + qty >= open[id].qty
           THEN Without(open, id)
           ELSE [open EXCEPT ![id].filled = @ + qty]

(* A quote whose order left open_orders_ is forgotten.                     *)
Forgotten(own, open, id) ==
    [s \in Sides |-> IF own[s].id = id /\ id \notin DOMAIN open
                       THEN [own[s] EXCEPT !.id = NoId] ELSE own[s]]

(* on_fill ignores a market not adopted and a trade id recorded before.    *)
Refused(a, id) == ~adopted \/ id \in a.seen

HearFill(acc, x, qty, id) ==
    LET open == FilledOpen(acc.orders.open, x.id, qty)
    IN  IF Refused(acc.account, id) THEN acc
        ELSE [left |-> acc.left,
              orders |-> [acc.orders EXCEPT !.open = open,
                                            !.own = Forgotten(@, open, x.id)],
              account |-> Booked(acc.account, open, x, qty, id)]

(* Mutant: a No order's price is not turned into the print's terms.        *)
MutCrossed(x, print) ==
    \/ print.taker = "yes" /\ x.side = "no" /\ print.px > x.price
    \/ print.taker = "no" /\ x.side = "yes" /\ print.px < x.price

(* The taker traded strictly through the order's price.                    *)
Crossed(x, print) ==
    \/ print.taker = "yes" /\ x.side = "no" /\ print.px > Complement(x.price)
    \/ print.taker = "no" /\ x.side = "yes" /\ print.px < x.price

(* Mutant: a fill is named after its order.                                *)
MutTradeId(o, x) == x.id

(* A fill is named after its place among the paper exchange's fills.       *)
TradeId(o, x) == o.fills

(* One order of the print's path: the paper exchange fills it, the session *)
(* hears of the fill.                                                      *)
FillOne(print, acc, x) ==
    LET qty == Smaller(acc.left, x.qty - x.filled)
        o == SimulateFill(acc.orders, x.id, qty)
    IN  IF qty = 0 THEN acc
        ELSE HearFill([left |-> acc.left - qty, orders |-> o, account |-> acc.account],
                      x, qty, TradeId(o, x))

(* simulate_maker_fills: the print's size is used up over the orders it    *)
(* crosses, oldest first.                                                  *)
SimulateMakerFills(print) ==
    LET crossable == {id \in DOMAIN orders.paper : Crossed(orders.paper[id], print)}
        done[id \in 0..orders.nextId - 1] ==
            IF id = 0 THEN [left |-> print.qty, orders |-> orders, account |-> account]
            ELSE IF id \in crossable THEN FillOne(print, done[id - 1], orders.paper[id])
            ELSE done[id - 1]
    IN  /\ orders' = done[orders.nextId - 1].orders
        /\ account' = done[orders.nextId - 1].account

-----------------------------------------------------------------------------
(* The frames.                                                             *)
Frame == frames < MaxFrames /\ frames' = frames + 1 /\ UNCHANGED model

(* A snapshot of an unknown market adopts it and quotes it; a later one    *)
(* replaces the book and leaves the quotes for the next delta.             *)
OnSnapshot(snap) ==
    /\ Frame
    /\ book' = ApplySnapshot(snap)
    /\ adopted' = TRUE
    /\ calm' = (~adopted \/ (calm /\ Top(book') = Top(book)))
    /\ \/ ~adopted /\ Update(book')
       \/ adopted /\ UNCHANGED <<ema, orders>>
    /\ UNCHANGED <<account, tape, now>>

OnDelta(d) ==
    /\ Frame
    /\ book' = ApplyDelta(book, d.side, d.price, d.delta)
    /\ calm' = (calm /\ Top(book') = Top(book))
    /\ \/ adopted /\ Update(book')
       \/ ~adopted /\ UNCHANGED <<ema, orders>>
    /\ UNCHANGED <<adopted, account, tape, now>>

OnTrade(print) ==
    /\ Frame
    /\ now' = now + 1
    /\ SimulateMakerFills(print)
    /\ tape' = Evicted(Append(tape, [when |-> now', px |-> print.px, qty |-> print.qty]), now')
    /\ UNCHANGED <<adopted, book, ema, calm>>

PaperInit ==
    /\ model \in Models
    /\ adopted = FALSE /\ book = EmptyBook /\ ema = None
    /\ orders = [own |-> [s \in Sides |-> NoQuote], open |-> <<>>, paper |-> <<>>,
                 nextId |-> 1, fills |-> 0, filled |-> [s \in Sides |-> 0]]
    /\ account = [net |-> 0, seen |-> {}, lots |-> [s \in Sides |-> <<>>], realized |-> 0,
                  cachedPos |-> 0, cachedOpen |-> 0, halted |-> FALSE,
                  flow |-> <<>>]
    /\ tape = <<>> /\ now = 0 /\ frames = 0 /\ calm = TRUE

PaperNext ==
    \/ \E snap \in Snapshots : OnSnapshot(snap)
    \/ \E d \in Deltas : OnDelta(d)
    \/ \E print \in Prints : OnTrade(print)

PaperSpec == PaperInit /\ [][PaperNext]_paperVars

-----------------------------------------------------------------------------
(* Properties.                                                             *)

(* The paper exchange and the ledger agree: every simulated fill is in the *)
(* net position, once.  on_fill refuses none of them: neither the fill of  *)
(* an order an amend left behind, nor the second of an order filled in     *)
(* parts.                                                                  *)
FillsAreBooked == account.net = orders.filled["yes"] - orders.filled["no"]

(* The print took liquidity from the order's side at a price worse for the *)
(* order than its own.                                                     *)
Through(x, print) ==
    x.side # print.taker /\ OrderPrice(x.side, print.px) < x.price

(* What a print may do.                                                    *)
PrintBound(print) ==
    OnTrade(print) =>
      LET got(s) == orders'.filled[s] - orders.filled[s]
      IN  /\ got("yes") + got("no") <= print.qty
          /\ \A id \in DOMAIN orders.paper :
                ~Through(orders.paper[id], print)
                    => id \in DOMAIN orders'.paper /\ orders'.paper[id] = orders.paper[id]
          /\ got("yes") + got("no") < print.qty =>
                \A id \in DOMAIN orders.paper :
                    Through(orders.paper[id], print) => id \notin DOMAIN orders'.paper

(* A print fills at most its own size and only orders it traded strictly   *)
(* through, whichever side they are quoted on; an order at its price or    *)
(* one it stopped short of is as it was.  What it leaves unused found no   *)
(* order of that kind still resting.                                       *)
PrintsBoundFills == [][\A print \in Prints : PrintBound(print)]_paperVars

(* The skew of one fill is smaller than the half-spread: while the best    *)
(* levels stand, no round trip loses money.                                *)
CalmNeverLoses == (calm /\ model # "clearing") => account.realized >= 0
=============================================================================
