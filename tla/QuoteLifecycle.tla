--------------------------- MODULE QuoteLifecycle ---------------------------
(***************************************************************************)
(* The life of the quotes of one market: the Quoter's record of its own    *)
(* bid and ask (quoter.cpp), the OrderManager's open_orders_ and position  *)
(* (order_manager.cpp), the TradingSession handlers that drive both        *)
(* (trading_session.cpp), and the exchange on the other end of the REST    *)
(* calls, which can refuse a request, lose an answer, fill or withdraw an  *)
(* order on its own.                                                       *)
(*                                                                         *)
(* Every handler runs under engine_mtx, so a handler is one action; the    *)
(* exchange and the delivery of fills interleave with the handlers.        *)
(* Prices are whole YES cents.  Time is left out: whether a quote is still *)
(* too young to move is nondeterministic, and a delta that falls into the  *)
(* error cooldown, or on a book that cannot be priced, is a step not taken.*)
(* A trade is delivered once: the OrderLedger module is about repeats.     *)
(***************************************************************************)
EXTENDS Integers, FiniteSets, Functions

CONSTANTS
  Cents,        \* YES prices the pricing code may ask for
  QuoteSize,    \* quote_size: contracts per quote
  Threshold,    \* reprice_threshold_cents
  Jump,         \* theo_jump_cents
  CapLots,      \* inventory_cap_lots
  MaxPosition,  \* max_position_per_market
  MaxOpen,      \* max_open_orders_per_market
  Band,         \* order prices between min_ and max_quote_price_cents
  Faults,       \* what may go wrong between the bot and the exchange
  Ids,          \* order ids (a bound: an id nobody refers to is reused)
  MaxTrades,    \* bound on the trades the exchange executes
  NoId          \* the empty order id

Side == {"bid", "ask"}
ContractMaxCents == 100
FaultKinds == {"place_reject", "place_lost", "cancel_reject", "cancel_fail",
               "cancel_lost", "amend_reject", "amend_fail", "amend_lost",
               "amend_new_id", "exchange_cancel"}

ASSUME QuoteConstants ==
  /\ Cents \subseteq 1..99 /\ Cents # {}
  /\ QuoteSize \in Nat \ {0} /\ CapLots \in Nat \ {0}
  /\ Threshold \in Nat /\ Jump \in Nat \ {0}
  /\ MaxPosition \in Nat /\ MaxOpen \in Nat
  /\ Band \subseteq 1..99
  /\ Faults \subseteq FaultKinds
  /\ MaxTrades \in Nat
  /\ IsFiniteSet(Ids) /\ NoId \notin Ids

VARIABLES
  exch,       \* external: the orders resting at the exchange, by id
  fills,      \* external: trades on our orders, executed but not delivered
  trades,     \* external: the number of trades executed
  position,   \* external: the position the exchange holds for us
  open,       \* OrderManager::open_orders_, by id
  net,        \* OrderManager::net_position_ (and RiskManager's copy of it)
  own,        \* Quoter::own_quotes_[ticker]
  openCache,  \* RiskManager::cached_open_order_count_[ticker]
  halted,     \* RiskManager::is_halted()
  reduceOnly  \* Quoter::reduce_only_; also: the main loop has ended

external == <<fills, trades, position>>
vars == <<exch, external, open, net, own, openCache, halted, reduceOnly>>

-----------------------------------------------------------------------------
(* Helpers on the order maps.                                              *)

Put(f, k, v) == [x \in DOMAIN f \cup {k} |-> IF x = k THEN v ELSE f[x]]
Drop(f, K) == [x \in DOMAIN f \ K |-> f[x]]

Other(s) == IF s = "bid" THEN "ask" ELSE "bid"

\* A bid is a YES buy at its YES price; an ask is a NO buy at the complement.
OrderPrice(s, c) == IF s = "bid" THEN c ELSE ContractMaxCents - c

NoQuote == [id |-> NoId, cents |-> 0, fade |-> FALSE]
NoQuotes == [s \in Side |-> NoQuote]

\* The own quotes w with the order of side s replaced, or cleared.
SetQuote(w, s, id, c) == [w EXCEPT ![s] = [@ EXCEPT !.id = id, !.cents = c]]
ClearQuote(w, s) == SetQuote(w, s, NoId, 0)
SetFade(w, s, flag) == [w EXCEPT ![s] = [@ EXCEPT !.fade = flag]]

\* What the handlers read and write together: the exchange's book, the
\* OrderManager's and the Quoter's view of it.
Book == [exch |-> exch, open |-> open, own |-> own]

\* A YES fill adds to the position, a NO fill subtracts from it.
Signed(f) == IF f.side = "bid" THEN f.qty ELSE -f.qty

\* An id that no order, quote or undelivered fill refers to.
FreshIds(m) == Ids \ (DOMAIN m.exch \cup DOMAIN m.open
                        \cup {m.own[s].id : s \in Side}
                        \cup {f.order : f \in fills})
FreshId(m) == CHOOSE id \in FreshIds(m) : TRUE

\* A handler's outcome: the book it leaves and how it ended ("ok" and "no"
\* are its return value, "throw" an exception).
Outcome(m, res) == [m |-> m, res |-> res]
When(fault, outs) == IF fault \in Faults THEN outs ELSE {}

\* Sequential composition: an exception skips the rest of the handler.
Then(outs, F(_)) ==
  UNION {IF o.res = "throw" THEN {o} ELSE F(o.m) : o \in outs}

-----------------------------------------------------------------------------
(* OrderManager calls, each with the REST outcomes the code tells apart.   *)

\* External: every quote is post_only, so the exchange refuses one that would
\* trade against an order resting on the other side (ours included).
PostOnlyCross(m, s, c) ==
  \E i \in DOMAIN m.exch :
    /\ m.exch[i].side # s
    /\ m.exch[i].price + OrderPrice(s, c) >= ContractMaxCents

\* place, then the Quoter's bookkeeping of the new quote.  place_order throws
\* on any refusal, and on a timeout after the exchange accepted the order.
PlaceQuote(m, s, c) ==
  LET id == FreshId(m)
      resting == [m EXCEPT !.exch = Put(@, id, [side |-> s,
                     price |-> OrderPrice(s, c), left |-> QuoteSize])]
      tracked == [resting EXCEPT
                    !.open = Put(@, id, [side |-> s, price |-> OrderPrice(s, c),
                                         quantity |-> QuoteSize, filled |-> 0]),
                    !.own = SetQuote(@, s, id, c)]
  IN IF PostOnlyCross(m, s, c) THEN {Outcome(m, "throw")}
     ELSE When("place_reject", {Outcome(m, "throw")})
            \cup (IF FreshIds(m) = {} THEN {}     \* the bound on orders
                  ELSE {Outcome(tracked, "ok")}
                         \cup When("place_lost", {Outcome(resting, "throw")}))

\* cancel: false when the exchange refuses (a 404 for an order that is gone,
\* a 429), an exception when the transport fails, before or after the effect.
Cancel(m, id) ==
  LET gone == [m EXCEPT !.exch = Drop(@, {id})]
  IN (IF id \in DOMAIN m.exch
      THEN {Outcome([gone EXCEPT !.open = Drop(@, {id})], "ok")}
             \cup When("cancel_reject", {Outcome(m, "no")})
             \cup When("cancel_lost", {Outcome(gone, "throw")})
      ELSE {Outcome(m, "no")})
       \cup When("cancel_fail", {Outcome(m, "throw")})

\* release_order, and the caller's clearing of the released id.
Release(m, s) ==
  LET id == m.own[s].id
      freed(b) == [b EXCEPT !.own = ClearQuote(@, s)]
  IN {IF o.res = "ok" \/ (o.res = "no" /\ id \notin DOMAIN o.m.open)
      THEN Outcome(freed(o.m), "ok") ELSE o : o \in Cancel(m, id)}

\* amend: the order keeps its fills, moves to the new price and perhaps to a
\* new id; nullopt ("no") on a refusal, an exception on a transport failure.
AmendTo(m, s, c, newId) ==
  LET id == m.own[s].id
      old == m.exch[id]
  IN [m EXCEPT !.exch = Put(Drop(@, {id}), newId,
                            [old EXCEPT !.price = OrderPrice(s, c)])]

\* The bookkeeping of a confirmed amend: open_orders_, then the own quote.
Amended(m, s, c, newId) ==
  LET id == m.own[s].id
      b == AmendTo(m, s, c, newId)
  IN [b EXCEPT
        !.open = IF id \in DOMAIN @
                 THEN Put(Drop(@, {id}), newId,
                          [@[id] EXCEPT !.price = OrderPrice(s, c)])
                 ELSE @,
        !.own = SetQuote(@, s, newId, c)]

\* External: the exchange may answer an amend with a new order id.
AmendIds(m, s) ==
  {m.own[s].id} \cup (IF FreshIds(m) = {} THEN {}
                      ELSE When("amend_new_id", {FreshId(m)}))

Amend(m, s, c) ==
  (IF m.own[s].id \in DOMAIN m.exch /\ ~PostOnlyCross(m, s, c)
   THEN {Outcome(Amended(m, s, c, n), "ok") : n \in AmendIds(m, s)}
          \cup When("amend_reject", {Outcome(m, "no")})
          \cup When("amend_lost", {Outcome(AmendTo(m, s, c, n), "throw") :
                                     n \in AmendIds(m, s)})
   ELSE {Outcome(m, "no")})
    \cup When("amend_fail", {Outcome(m, "throw")})

\* Mutant: cancel_all covers only the orders the Quoter still knows.
MutCancelAll(m) ==
  LET resting == DOMAIN m.open \cap DOMAIN m.exch \cap {m.own[s].id : s \in Side}
      mayKeep == IF Faults \cap {"cancel_reject", "cancel_fail"} # {}
                 THEN SUBSET resting ELSE {{}}
  IN {[m EXCEPT !.exch = Drop(@, resting \ kept),
                !.open = Drop(@, resting \ kept)] : kept \in mayKeep}

\* Mutant: an order whose cancel failed is erased all the same.
MutForgetfulCancelAll(m) ==
  LET resting == DOMAIN m.open \cap DOMAIN m.exch
      mayKeep == IF Faults \cap {"cancel_reject", "cancel_fail"} # {}
                 THEN SUBSET resting ELSE {{}}
  IN {[m EXCEPT !.exch = Drop(@, resting \ kept),
                !.open = Drop(@, resting)] : kept \in mayKeep}

\* cancel_all: every order is tried, failures are swallowed.
CancelAll(m) ==
  LET resting == DOMAIN m.open \cap DOMAIN m.exch
      mayKeep == IF Faults \cap {"cancel_reject", "cancel_fail"} # {}
                 THEN SUBSET resting ELSE {{}}
      mayLose == IF "cancel_lost" \in Faults THEN SUBSET resting ELSE {{}}
  IN {[m EXCEPT !.exch = Drop(@, resting \ p[1]),
                !.open = Drop(@, resting \ (p[1] \cup p[2]))] :
        p \in {q \in mayKeep \X mayLose : q[1] \cap q[2] = {}}}

-----------------------------------------------------------------------------
(* Quoter::update.                                                         *)

\* Mutant: check_order without the constraint gate.
MutRiskOk(s, c) ==
  /\ OrderPrice(s, c) \in Band
  /\ openCache < MaxOpen
  /\ net + (IF s = "bid" THEN QuoteSize ELSE -QuoteSize)
       \in -MaxPosition..MaxPosition

\* RiskManager::check_order, from its cached values.
RiskOk(s, c) ==
  /\ ~halted
  /\ OrderPrice(s, c) \in Band
  /\ openCache < MaxOpen
  /\ net + (IF s = "bid" THEN QuoteSize ELSE -QuoteSize)
       \in -MaxPosition..MaxPosition

\* Mutant: equal prices do not count as crossing.
MutWouldCross(m, s, c) ==
  LET o == m.own[Other(s)]
  IN o.id # NoId /\ IF s = "bid" THEN c > o.cents ELSE c < o.cents

\* The self-cross guard: the new price would meet our own other quote.
WouldCross(m, s, c) ==
  LET o == m.own[Other(s)]
  IN o.id # NoId /\ IF s = "bid" THEN c >= o.cents ELSE c <= o.cents

AdverseJump(q, s, c) ==
  (IF s = "bid" THEN q.cents - c ELSE c - q.cents) >= Jump

\* Move the quote: amend in place, else cancel and place again.
Reprice(m, s, c) ==
  LET cross == WouldCross(m, s, c)
      mayAmend == ~cross /\ RiskOk(s, c)
      amended == IF mayAmend THEN Amend(m, s, c) ELSE {Outcome(m, "no")}
      replace(b) ==
        UNION {IF r.res # "ok" THEN {r}
               ELSE IF mayAmend THEN PlaceQuote(r.m, s, c) ELSE {r} :
                 r \in Release(b, s)}
  IN UNION {IF a.res = "no" THEN replace(a.m) ELSE {a} : a \in amended}

\* refresh_bid and refresh_ask.
Refresh(m, s, c) ==
  LET q == m.own[s]
      adverse == AdverseJump(q, s, c)
      unfaded == [m EXCEPT !.own = SetFade(@, s, FALSE)]
      \* an unconfirmed flag survives while the quote is still too young
      young == IF adverse THEN m ELSE unfaded
  IN CASE q.id = NoId ->
            IF WouldCross(m, s, c) \/ ~RiskOk(s, c)
            THEN {Outcome(m, "ok")} ELSE PlaceQuote(m, s, c)
       [] q.id # NoId /\ q.cents - c \in -Threshold..Threshold ->
            {Outcome(m, "ok")}
       [] OTHER ->
            IF adverse /\ ~q.fade
            THEN {Outcome([m EXCEPT !.own = SetFade(@, s, TRUE)], "ok")}
            ELSE {Outcome(young, "ok")} \cup Reprice(unfaded, s, c)

InventoryCap == CapLots * QuoteSize

\* Mutant: a flat market is not suppressed in the wind-down.
MutSuppressed(s) ==
  IF s = "bid" THEN (reduceOnly /\ net > 0) \/ net >= InventoryCap
               ELSE (reduceOnly /\ net < 0) \/ net <= -InventoryCap

\* The side that would add inventory is not quoted.
Suppressed(s) ==
  IF s = "bid" THEN (reduceOnly /\ net >= 0) \/ net >= InventoryCap
               ELSE (reduceOnly /\ net <= 0) \/ net <= -InventoryCap

Suppress(m, s) ==
  IF Suppressed(s) /\ m.own[s].id # NoId THEN Release(m, s)
  ELSE {Outcome(m, "ok")}

\* A desired price of 0 stands for nullopt: no passive price on that side.
RefreshIf(m, s, c) ==
  IF c # 0 /\ ~Suppressed(s) THEN Refresh(m, s, c) ELSE {Outcome(m, "ok")}

Update(m, bid, ask) ==
  LET quoteAsk(b) == RefreshIf(b, "ask", ask)
      quoteBid(b) == Then(RefreshIf(b, "bid", bid), quoteAsk)
      clearAsk(b) == Then(Suppress(b, "ask"), quoteBid)
  IN Then(Suppress(m, "bid"), clearAsk)

\* What the pricing code hands to the quoting code: bid below ask.
Desired == {p \in (Cents \cup {0}) \X (Cents \cup {0}) :
              p[1] = 0 \/ p[2] = 0 \/ p[1] < p[2]}

-----------------------------------------------------------------------------
(* The handlers.                                                           *)

SetBook(m) ==
  /\ exch' = m.exch
  /\ open' = m.open
  /\ own' = m.own

\* on_delta and requote_idle_markets run the Quoter and contain what it
\* throws.
RunQuoter ==
  /\ \E p \in Desired : \E o \in Update(Book, p[1], p[2]) : SetBook(o.m)
  /\ UNCHANGED <<external, net, openCache, halted, reduceOnly>>

OnDelta == RunQuoter

\* Called by the main loop only, and only with nothing open on the market.
RequoteIdleMarkets ==
  /\ ~reduceOnly
  /\ ~halted
  /\ DOMAIN open = {}
  /\ RunQuoter

\* Mutant: an order filled to the last contract is kept.
MutFilledOpen(f) ==
  IF f.order \notin DOMAIN open THEN open
  ELSE LET filled == open[f.order].filled + f.qty
       IN IF filled > open[f.order].quantity THEN Drop(open, {f.order})
          ELSE [open EXCEPT ![f.order].filled = filled]

\* record_fill on open_orders_: an order that is filled up is erased.
FilledOpen(f) ==
  IF f.order \notin DOMAIN open THEN open
  ELSE LET filled == open[f.order].filled + f.qty
       IN IF filled >= open[f.order].quantity THEN Drop(open, {f.order})
          ELSE [open EXCEPT ![f.order].filled = filled]

\* Mutant: the Quoter is not told of a filled order.
MutForgetOrder(id, stillOpen) == own

\* forget_order, called when the filled order is no longer open.
ForgetOrder(id, stillOpen) ==
  [s \in Side |-> IF own[s].id = id /\ id \notin stillOpen
                  THEN ClearQuote(own, s)[s] ELSE own[s]]

\* Mutant: a fill of an order that is not open is taken for foreign.
MutOnFill(f) ==
  /\ fills' = fills \ {f}
  /\ net' = IF f.order \in DOMAIN open THEN net + Signed(f) ELSE net
  /\ open' = FilledOpen(f)
  /\ own' = ForgetOrder(f.order, DOMAIN open')
  /\ openCache' = Cardinality(DOMAIN open')
  /\ halted' \in {halted, TRUE}
  /\ UNCHANGED <<exch, trades, position, reduceOnly>>

\* on_fill, from the WebSocket or from a REST backfill, in any order.
\* RiskManager::update may find the loss limit crossed.
OnFill(f) ==
  /\ fills' = fills \ {f}
  /\ net' = net + Signed(f)
  /\ open' = FilledOpen(f)
  /\ own' = ForgetOrder(f.order, DOMAIN open')
  /\ openCache' = Cardinality(DOMAIN open')
  /\ halted' \in {halted, TRUE}
  /\ UNCHANGED <<exch, trades, position, reduceOnly>>

\* cancel_all_quotes: cancel what can be cancelled, then forget every quote.
CancelAllQuotes ==
  /\ \E m \in CancelAll(Book) : SetBook([m EXCEPT !.own = NoQuotes])
  /\ UNCHANGED <<external, net, openCache, halted, reduceOnly>>

OnDisconnect == CancelAllQuotes

\* The main loop calls this every 100 ms: when halted, or when a seeded feed
\* never ticked (cancel_all and forget_ticker: the same effect here).
EnforceQuoteSafety ==
  /\ ~reduceOnly
  /\ halted
  /\ CancelAllQuotes

FeedDead ==
  /\ ~reduceOnly
  /\ ~halted
  /\ CancelAllQuotes

\* Some constraint bit is set or the last one is cleared (staleness check,
\* portfolio risk, reconcile: the main loop's work).
SetHalted ==
  /\ ~reduceOnly
  /\ halted' = ~halted
  /\ UNCHANGED <<exch, external, open, net, own, openCache, reduceOnly>>

\* The main loop ends and the wind-down begins.
WindDown ==
  /\ ~reduceOnly
  /\ reduceOnly' = TRUE
  /\ UNCHANGED <<exch, external, open, net, own, openCache, halted>>

-----------------------------------------------------------------------------
(* The exchange.                                                           *)

\* A taker trades against one of our resting orders.
ExchangeFill(id, q) ==
  /\ trades < MaxTrades
  /\ q <= exch[id].left
  /\ LET f == [trade |-> trades + 1, order |-> id, side |-> exch[id].side,
              qty |-> q]
     IN fills' = fills \cup {f} /\ position' = position + Signed(f)
  /\ trades' = trades + 1
  /\ exch' = IF q = exch[id].left THEN Drop(exch, {id})
             ELSE [exch EXCEPT ![id].left = @ - q]
  /\ UNCHANGED <<open, net, own, openCache, halted, reduceOnly>>

\* Trading pauses and the exchange withdraws our orders, all of which carry
\* cancel_order_on_pause; nothing in the bot listens for this.
ExchangePause ==
  /\ "exchange_cancel" \in Faults
  /\ DOMAIN exch # {}
  /\ exch' = Drop(exch, DOMAIN exch)
  /\ UNCHANGED <<external, open, net, own, openCache, halted, reduceOnly>>

-----------------------------------------------------------------------------
Init ==
  /\ exch = [id \in {} |-> NoId]
  /\ open = [id \in {} |-> NoId]
  /\ own = NoQuotes
  /\ fills = {}
  /\ net = 0
  /\ trades = 0
  /\ position = 0
  /\ openCache = 0
  /\ halted = FALSE
  /\ reduceOnly = FALSE

Next ==
  \/ OnDelta
  \/ RequoteIdleMarkets
  \/ \E f \in fills : OnFill(f)
  \/ OnDisconnect
  \/ EnforceQuoteSafety
  \/ FeedDead
  \/ SetHalted
  \/ WindDown
  \/ ExchangePause
  \/ \E id \in DOMAIN exch : \E q \in 1..QuoteSize : ExchangeFill(id, q)

Spec == Init /\ [][Next]_vars

(***************************************************************************)
(* Fairness.  The main loop polls every 100 ms, so its checks always come  *)
(* round again; a fill the WebSocket lost is fetched by the backfill; an   *)
(* exchange that is up does not refuse cancels or placeable quotes for     *)
(* ever, and a live feed keeps delivering deltas that can be priced.       *)
(***************************************************************************)
CleanSweep == EnforceQuoteSafety /\ DOMAIN open \cap DOMAIN exch' = {}
Requoted == RequoteIdleMarkets /\ DOMAIN exch' # {}
DeltaQuoted == OnDelta /\ DOMAIN exch' # {}

Fairness ==
  /\ WF_vars(CleanSweep)
  /\ WF_vars(\E f \in fills : OnFill(f))
  /\ SF_vars(Requoted)
  /\ SF_vars(DeltaQuoted)

FairSpec == Spec /\ Fairness

-----------------------------------------------------------------------------
(* Properties.                                                             *)

OpenOrder == [side : Side, price : 1..99, quantity : {QuoteSize},
              filled : 0..QuoteSize - 1]
RestingOrder == [side : Side, price : 1..99, left : 1..QuoteSize]
OwnQuote == [id : Ids \cup {NoId}, cents : Cents \cup {0}, fade : BOOLEAN]
Fill == [trade : 1..MaxTrades, order : Ids, side : Side, qty : 1..QuoteSize]

IsOrderMap(f, S) == DOMAIN f \subseteq Ids /\ f \in [DOMAIN f -> S]

\* Type invariant of the session state of one market (OrderManager maps,
\* OwnQuote, RiskManager cache) and of the exchange beside it.
TypeOK ==
  /\ IsOrderMap(exch, RestingOrder)
  /\ IsOrderMap(open, OpenOrder)
  /\ own \in [Side -> OwnQuote]
  /\ fills \subseteq Fill
  /\ trades \in 0..MaxTrades
  /\ position \in Int /\ net \in Int
  /\ openCache \in Nat
  /\ halted \in BOOLEAN /\ reduceOnly \in BOOLEAN

\* The quote the Quoter believes it has (OwnQuote) is always an order the
\* OrderManager still holds, on that side, at the price the Quoter recorded,
\* whatever REST call failed or lost its answer on the way.
OwnQuotesTracked ==
  \A s \in Side : own[s].id # NoId =>
    /\ own[s].id \in DOMAIN open
    /\ open[own[s].id].side = s
    /\ open[own[s].id].price = OrderPrice(s, own[s].cents)

\* "Our bid and ask never cross each other": the two quotes the Quoter keeps
\* never do, across placing, amending and the fallback to cancel and place.
NoSelfCross ==
  own["bid"].id # NoId /\ own["ask"].id # NoId =>
    own["bid"].cents < own["ask"].cents

\* The position that undelivered fills will add.
InFlight(fs) == SumFunctionOnSet([f \in fs |-> Signed(f)], fs)

\* The position the exchange holds for us is the local net position plus the
\* trades still on their way: on_fill books fills by market, so those of an
\* order it never heard of, or has long forgotten, are not lost.
PositionAgrees == position = net + InFlight(fills)

\* An order that rests at the exchange is in open_orders_: a failed cancel, a
\* fill that races it and a rejected amend never make the OrderManager forget
\* it, so the next sweep tries again.  A lost answer that would have told the
\* order's id does: that of a placement, or of an amend that made a new order
\* (the startup clean-up is what finds those).  The run leaves them out.
OrdersNotForgotten == DOMAIN exch \subseteq DOMAIN open

\* While halted no order reaches the exchange and none moves: both place and
\* amend ask check_order first.
HaltFreezesQuotes ==
  [][halted => \A id \in DOMAIN exch' :
       id \in DOMAIN exch /\ exch'[id].price = exch[id].price]_vars

\* Reduce-only: in the wind-down a new order is always on the side that
\* brings the position, as far as the bot knows it, towards zero.
WindDownReduces ==
  [][reduceOnly => \A id \in DOMAIN exch' \ DOMAIN exch :
       IF exch'[id].side = "bid" THEN net < 0 ELSE net > 0]_vars

\* "Never leave quotes resting while halted": every order leaves the exchange
\* after a halt, unless the halt ends or the main loop does.
HaltPullsQuotes ==
  halted ~> (DOMAIN exch = {} \/ ~halted \/ reduceOnly)

\* A market with no order resting at the exchange gets one again, unless
\* quoting is halted or winding down: it never goes dark for good.
QuotesReturn ==
  (DOMAIN exch = {}) ~> (DOMAIN exch # {} \/ halted \/ reduceOnly)
=============================================================================
