------------------------ MODULE QuoteLifecycleProofs ------------------------
(***************************************************************************)
(* Safety of the quote lifecycle, for every price set, quote size, limit,  *)
(* number of orders and every combination of faults.                       *)
(*                                                                         *)
(* The argument follows the handlers.  GoodBook is the inductive invariant *)
(* as a predicate on the book a handler works on: the types, every own     *)
(* quote tracked by an open order of its side and price, and the two own   *)
(* quotes uncrossed.  Each REST call, then refresh, then update keep it,   *)
(* whatever the exchange answers; the actions follow.                      *)
(*                                                                         *)
(* The position needs FlightInv (every trade on its way is counted once);  *)
(* the orders need FullInv: both sides of the wire agree on the side of an *)
(* order, and what was booked, is on its way and is left of it never       *)
(* exceeds the quote size, so that the last fill cannot make the           *)
(* OrderManager erase an order that still rests.                           *)
(***************************************************************************)
EXTENDS QuoteLifecycle, SumTheorems

OrderMap(S) == UNION {[D -> S] : D \in SUBSET Ids}

BookSet == [exch : OrderMap(RestingOrder), open : OrderMap(OpenOrder),
            own : [Side -> OwnQuote]]

Tracked(m) ==
  \A s \in Side : m.own[s].id # NoId =>
    /\ m.own[s].id \in DOMAIN m.open
    /\ m.open[m.own[s].id].side = s
    /\ m.open[m.own[s].id].price = OrderPrice(s, m.own[s].cents)

Uncrossed(m) ==
  m.own["bid"].id # NoId /\ m.own["ask"].id # NoId =>
    m.own["bid"].cents < m.own["ask"].cents

GoodBook(m) == m \in BookSet /\ Tracked(m) /\ Uncrossed(m)

-----------------------------------------------------------------------------
(* Order maps.                                                             *)

LEMMA OrderMapElim ==
  ASSUME NEW S, NEW f \in OrderMap(S)
  PROVE  /\ DOMAIN f \subseteq Ids
         /\ f \in [DOMAIN f -> S]
         /\ \A x \in DOMAIN f : f[x] \in S
  BY DEF OrderMap

LEMMA OrderMapIntro ==
  ASSUME NEW S, NEW D \in SUBSET Ids, NEW f \in [D -> S]
  PROVE  f \in OrderMap(S)
  BY DEF OrderMap

LEMMA OrderMapType ==
  ASSUME NEW S, NEW f
  PROVE  IsOrderMap(f, S) <=> f \in OrderMap(S)
  BY DEF IsOrderMap, OrderMap

LEMMA PutMap ==
  ASSUME NEW S, NEW f \in OrderMap(S), NEW k \in Ids, NEW v \in S
  PROVE  Put(f, k, v) \in OrderMap(S)
  <1>1. DOMAIN f \subseteq Ids /\ f \in [DOMAIN f -> S]
    BY OrderMapElim
  <1>2. Put(f, k, v) \in [DOMAIN f \cup {k} -> S]
    BY <1>1 DEF Put
  <1> QED BY <1>1, <1>2, OrderMapIntro

LEMMA DropMap ==
  ASSUME NEW S, NEW f \in OrderMap(S), NEW K
  PROVE  Drop(f, K) \in OrderMap(S)
  <1>1. DOMAIN f \subseteq Ids /\ f \in [DOMAIN f -> S]
    BY OrderMapElim
  <1>2. Drop(f, K) \in [DOMAIN f \ K -> S]
    BY <1>1 DEF Drop
  <1> QED BY <1>1, <1>2, OrderMapIntro

\* A book's fields, and a book put together from its fields.
LEMMA BookFields ==
  ASSUME NEW m \in BookSet
  PROVE  /\ m.exch \in OrderMap(RestingOrder)
         /\ m.open \in OrderMap(OpenOrder)
         /\ m.own \in [Side -> OwnQuote]
         /\ m = [exch |-> m.exch, open |-> m.open, own |-> m.own]
  BY DEF BookSet

LEMMA OrderPriceType ==
  ASSUME NEW s \in Side, NEW c \in Cents
  PROVE  OrderPrice(s, c) \in 1..99
  <1>1. c \in 1..99
    BY QuoteConstants
  <1> QED BY <1>1 DEF OrderPrice, ContractMaxCents

LEMMA QuoteCents ==
  ASSUME NEW q \in OwnQuote
  PROVE  q.cents \in Int /\ q.cents \in Cents \cup {0}
  <1>1. q.cents \in Cents \cup {0}
    BY DEF OwnQuote
  <1>2. Cents \subseteq Int
    BY QuoteConstants
  <1>3. CASE q.cents \in Cents
    BY <1>1, <1>2, <1>3
  <1>4. CASE q.cents = 0
    BY <1>1, <1>4
  <1> QED BY <1>1, <1>3, <1>4

LEMMA OtherSide ==
  ASSUME NEW s \in Side
  PROVE  Other(s) \in Side /\ Other(s) # s /\ Side = {s, Other(s)}
  BY DEF Side, Other

LEMMA SetQuoteFacts ==
  ASSUME NEW w \in [Side -> OwnQuote], NEW s \in Side,
         NEW id \in Ids \cup {NoId}, NEW c \in Cents \cup {0}
  PROVE  /\ SetQuote(w, s, id, c) = [w EXCEPT ![s] = SetQuote(w, s, id, c)[s]]
         /\ SetQuote(w, s, id, c)[s] \in OwnQuote
         /\ SetQuote(w, s, id, c)[s].id = id
         /\ SetQuote(w, s, id, c)[s].cents = c
  <1>1. w[s] \in OwnQuote
    OBVIOUS
  <1>2. SetQuote(w, s, id, c)[s] = [w[s] EXCEPT !.id = id, !.cents = c]
    BY DEF SetQuote
  <1>3. SetQuote(w, s, id, c) = [w EXCEPT ![s] = SetQuote(w, s, id, c)[s]]
    BY DEF SetQuote
  <1> QED BY <1>1, <1>2, <1>3 DEF OwnQuote

LEMMA SetFadeFacts ==
  ASSUME NEW w \in [Side -> OwnQuote], NEW s \in Side, NEW flag \in BOOLEAN
  PROVE  /\ SetFade(w, s, flag) \in [Side -> OwnQuote]
         /\ \A x \in Side : /\ SetFade(w, s, flag)[x].id = w[x].id
                           /\ SetFade(w, s, flag)[x].cents = w[x].cents
  <1>1. w[s] \in OwnQuote
    OBVIOUS
  <1> DEFINE q == [w[s] EXCEPT !.fade = flag]
  <1>2. q \in OwnQuote /\ q.id = w[s].id /\ q.cents = w[s].cents
    BY <1>1 DEF OwnQuote
  <1>3. SetFade(w, s, flag) = [w EXCEPT ![s] = q]
    BY DEF SetFade
  <1> HIDE DEF q
  <1> QED BY <1>2, <1>3

-----------------------------------------------------------------------------
(* What a handler does to the two own quotes, once and for all: quote s is *)
(* replaced by q while the other quote and its open order stay.            *)

LEMMA RequotedGood ==
  ASSUME NEW m, GoodBook(m), NEW s \in Side,
         NEW e \in OrderMap(RestingOrder), NEW op \in OrderMap(OpenOrder),
         NEW q \in OwnQuote,
         m.own[Other(s)].id # NoId =>
            /\ m.own[Other(s)].id \in DOMAIN op
            /\ op[m.own[Other(s)].id] = m.open[m.own[Other(s)].id],
         q.id # NoId =>
            /\ q.id \in DOMAIN op
            /\ op[q.id].side = s
            /\ op[q.id].price = OrderPrice(s, q.cents)
            /\ m.own[Other(s)].id # NoId =>
                 IF s = "bid" THEN q.cents < m.own[Other(s)].cents
                              ELSE q.cents > m.own[Other(s)].cents
  PROVE  GoodBook([exch |-> e, open |-> op, own |-> [m.own EXCEPT ![s] = q]])
  <1> DEFINE w == [m.own EXCEPT ![s] = q]
             b == [exch |-> e, open |-> op, own |-> w]
             t == Other(s)
  <1>1. m.own \in [Side -> OwnQuote] /\ m \in BookSet
    BY BookFields DEF GoodBook
  <1>2. t \in Side /\ t # s /\ Side = {s, t}
    BY OtherSide
  <1>3. w \in [Side -> OwnQuote] /\ w[s] = q /\ w[t] = m.own[t]
    BY <1>1, <1>2
  <1>4. b \in BookSet
    BY <1>3 DEF BookSet
  <1>5. Tracked(b)
    <2>1. m.own[t].id # NoId =>
            /\ m.open[m.own[t].id].side = t
            /\ m.open[m.own[t].id].price = OrderPrice(t, m.own[t].cents)
      BY <1>2 DEF GoodBook, Tracked
    <2>2. b.own = w /\ b.open = op
      OBVIOUS
    <2> HIDE DEF b, w, t
    <2>3. ASSUME b.own[s].id # NoId
          PROVE  /\ b.own[s].id \in DOMAIN b.open
                 /\ b.open[b.own[s].id].side = s
                 /\ b.open[b.own[s].id].price = OrderPrice(s, b.own[s].cents)
      BY <2>2, <2>3, <1>3
    <2>4. ASSUME b.own[t].id # NoId
          PROVE  /\ b.own[t].id \in DOMAIN b.open
                 /\ b.open[b.own[t].id].side = t
                 /\ b.open[b.own[t].id].price = OrderPrice(t, b.own[t].cents)
      BY <2>1, <2>2, <2>4, <1>3 DEF t
    <2> QED BY <2>3, <2>4, <1>2 DEF Tracked
  <1>6. Uncrossed(b)
    <2>1. CASE s = "bid"
      <3>1. t = "ask"
        BY <2>1 DEF Other
      <3>2. w["bid"] = q /\ w["ask"] = m.own[t]
        BY <1>3, <2>1, <3>1
      <3> QED BY <2>1, <3>2 DEF Uncrossed
    <2>2. CASE s = "ask"
      <3>1. t = "bid"
        BY <2>2 DEF Other
      <3>2. w["ask"] = q /\ w["bid"] = m.own[t]
        BY <1>3, <2>2, <3>1
      <3>3. q.cents > m.own[t].cents => m.own[t].cents < q.cents
        <4>1. q.cents \in Int /\ m.own[t].cents \in Int
          BY <1>1, <1>2, QuoteCents
        <4> QED BY <4>1
      <3> QED BY <2>2, <3>2, <3>3 DEF Uncrossed
    <2> QED BY <2>1, <2>2 DEF Side
  <1> QED BY <1>4, <1>5, <1>6 DEF GoodBook

-----------------------------------------------------------------------------
(* The OrderManager calls.                                                 *)

LEMMA FreshIdIsFresh ==
  ASSUME NEW m, FreshIds(m) # {}
  PROVE  /\ FreshId(m) \in Ids
         /\ FreshId(m) # NoId
         /\ FreshId(m) \notin DOMAIN m.exch
         /\ FreshId(m) \notin DOMAIN m.open
  <1>1. FreshId(m) \in FreshIds(m)
    BY DEF FreshId
  <1> QED BY <1>1, QuoteConstants DEF FreshIds

\* The two own quotes are different orders: they sit on different sides.
LEMMA OwnQuotesDiffer ==
  ASSUME NEW m, GoodBook(m), NEW s \in Side,
         m.own[s].id # NoId
  PROVE  m.own[Other(s)].id # m.own[s].id
  <1>1. Other(s) \in Side /\ Other(s) # s
    BY OtherSide
  <1> QED BY <1>1 DEF GoodBook, Tracked

LEMMA PlaceGood ==
  ASSUME NEW m, GoodBook(m), NEW s \in Side, NEW c \in Cents,
         ~WouldCross(m, s, c)
  PROVE  \A o \in PlaceQuote(m, s, c) : GoodBook(o.m)
  <1> DEFINE id == FreshId(m)
             rest == [side |-> s, price |-> OrderPrice(s, c),
                      left |-> QuoteSize]
             ord == [side |-> s, price |-> OrderPrice(s, c),
                     quantity |-> QuoteSize, filled |-> 0]
             newExch == Put(m.exch, id, rest)
             newOpen == Put(m.open, id, ord)
             newOwn == SetQuote(m.own, s, id, c)
             resting == [m EXCEPT !.exch = Put(@, id, rest)]
             tracked == [resting EXCEPT !.open = Put(@, id, ord),
                                        !.own = SetQuote(@, s, id, c)]
  <1>1. /\ m \in BookSet
        /\ m.exch \in OrderMap(RestingOrder)
        /\ m.open \in OrderMap(OpenOrder)
        /\ m.own \in [Side -> OwnQuote]
        /\ m = [exch |-> m.exch, open |-> m.open, own |-> m.own]
    BY BookFields DEF GoodBook
  <1>2. OrderPrice(s, c) \in 1..99
    BY OrderPriceType
  <1>3. rest \in RestingOrder /\ ord \in OpenOrder
    BY <1>2, QuoteConstants DEF RestingOrder, OpenOrder
  <1>4. ASSUME FreshIds(m) # {}
        PROVE  GoodBook(resting) /\ GoodBook(tracked)
    <2>1. id \in Ids /\ id # NoId /\ id \notin DOMAIN m.open
      BY <1>4, FreshIdIsFresh
    <2>2. resting = [exch |-> newExch, open |-> m.open, own |-> m.own]
      BY <1>1
    <2>3. tracked = [exch |-> newExch, open |-> newOpen, own |-> newOwn]
      <3> HIDE DEF resting, id, rest, ord
      <3>1. resting.open = m.open /\ resting.own = m.own
        BY <2>2
      <3>2. tracked = [resting EXCEPT !.open = newOpen, !.own = newOwn]
        BY <3>1
      <3> HIDE DEF newExch, newOpen, newOwn, tracked
      <3> QED BY <2>2, <3>2
    <2>4. ord.side = s /\ ord.price = OrderPrice(s, c)
      OBVIOUS
    <2> HIDE DEF ord, rest, id
    <2>5. newExch \in OrderMap(RestingOrder)
      BY <1>1, <1>3, <2>1, PutMap
    <2>6. /\ newOpen \in OrderMap(OpenOrder)
          /\ DOMAIN newOpen = DOMAIN m.open \cup {id}
          /\ newOpen[id] = ord
          /\ \A x \in DOMAIN m.open \ {id} : newOpen[x] = m.open[x]
      <3>1. newOpen \in OrderMap(OpenOrder)
        BY <1>1, <1>3, <2>1, PutMap
      <3> QED BY <3>1 DEF Put
    <2>7. /\ newOwn = [m.own EXCEPT ![s] = newOwn[s]]
          /\ newOwn[s] \in OwnQuote
          /\ newOwn[s].id = id
          /\ newOwn[s].cents = c
      BY <1>1, <2>1, SetQuoteFacts
    <2> HIDE DEF newExch, newOpen, newOwn, resting, tracked
    <2>8. GoodBook(resting)
      BY <1>1, <2>2, <2>5 DEF GoodBook, BookSet, Tracked, Uncrossed
    <2>9. m.own[Other(s)].id # NoId =>
            /\ m.own[Other(s)].id \in DOMAIN newOpen
            /\ newOpen[m.own[Other(s)].id] = m.open[m.own[Other(s)].id]
      <3>1. m.own[Other(s)].id # NoId => m.own[Other(s)].id \in DOMAIN m.open
        BY OtherSide DEF GoodBook, Tracked
      <3> QED BY <2>1, <2>6, <3>1
    <2>10. m.own[Other(s)].id # NoId =>
            IF s = "bid" THEN c < m.own[Other(s)].cents
                         ELSE c > m.own[Other(s)].cents
      <3>1. m.own[Other(s)].cents \in Int
        BY <1>1, OtherSide, QuoteCents
      <3>2. c \in 1..99
        BY QuoteConstants
      <3> QED BY <3>1, <3>2 DEF WouldCross
    <2>11. GoodBook([exch |-> newExch, open |-> newOpen,
                     own |-> [m.own EXCEPT ![s] = newOwn[s]]])
      <3>1. /\ newOwn[s].id \in DOMAIN newOpen
            /\ newOpen[newOwn[s].id].side = s
            /\ newOpen[newOwn[s].id].price = OrderPrice(s, newOwn[s].cents)
        BY <2>4, <2>6, <2>7
      <3> QED BY <2>5, <2>6, <2>7, <2>9, <2>10, <3>1, RequotedGood
    <2> QED BY <2>3, <2>7, <2>8, <2>11
  <1>5. ASSUME NEW o \in PlaceQuote(m, s, c)
        PROVE  o.m = m \/ (FreshIds(m) # {} /\ o.m \in {resting, tracked})
    BY <1>5 DEF PlaceQuote, When, Outcome
  <1> HIDE DEF resting, tracked
  <1> QED BY <1>4, <1>5

\* A cancel leaves the Quoter's record alone, and open_orders_ too unless it
\* succeeds.
LEMMA CancelFacts ==
  ASSUME NEW m \in BookSet, NEW id, NEW o \in Cancel(m, id)
  PROVE  /\ o.m.exch \in OrderMap(RestingOrder)
         /\ o.m.own = m.own
         /\ \/ o.m.open = m.open
            \/ o.res = "ok" /\ o.m.open = Drop(m.open, {id})
         /\ o.m = [exch |-> o.m.exch, open |-> o.m.open, own |-> o.m.own]
         /\ DOMAIN o.m.exch \subseteq DOMAIN m.exch
         /\ \A i \in DOMAIN o.m.exch : o.m.exch[i] = m.exch[i]
  <1> DEFINE ex == Drop(m.exch, {id})
             gone == [m EXCEPT !.exch = Drop(@, {id})]
             done == [gone EXCEPT !.open = Drop(@, {id})]
  <1>1. /\ m.exch \in OrderMap(RestingOrder)
        /\ m = [exch |-> m.exch, open |-> m.open, own |-> m.own]
    BY BookFields
  <1>2. ex \in OrderMap(RestingOrder)
    BY <1>1, DropMap
  <1>3. DOMAIN ex \subseteq DOMAIN m.exch /\ \A i \in DOMAIN ex : ex[i] = m.exch[i]
    BY DEF Drop
  <1>4. gone = [exch |-> ex, open |-> m.open, own |-> m.own]
    BY <1>1
  <1>5. done = [exch |-> ex, open |-> Drop(m.open, {id}), own |-> m.own]
    <2> HIDE DEF gone
    <2> QED BY <1>4
  <1>6. \/ o.m = m
        \/ o.m = gone
        \/ o.res = "ok" /\ o.m = done
    BY DEF Cancel, When, Outcome
  <1> HIDE DEF ex, gone, done
  <1> QED BY <1>1, <1>2, <1>3, <1>4, <1>5, <1>6

LEMMA ReleaseGood ==
  ASSUME NEW m, GoodBook(m), NEW s \in Side, m.own[s].id # NoId,
         NEW r \in Release(m, s)
  PROVE  /\ GoodBook(r.m)
         /\ r.m.own[Other(s)] = m.own[Other(s)]
  <1> DEFINE id == m.own[s].id
             t == Other(s)
  <1>1. /\ m \in BookSet
        /\ m.exch \in OrderMap(RestingOrder)
        /\ m.open \in OrderMap(OpenOrder)
        /\ m.own \in [Side -> OwnQuote]
    BY BookFields DEF GoodBook
  <1>2. PICK o \in Cancel(m, id) :
          \/ r = o /\ o.res # "ok"
          \/ r = Outcome([o.m EXCEPT !.own = ClearQuote(@, s)], "ok")
    BY DEF Release, ClearQuote
  <1> DEFINE e == o.m.exch
             op == o.m.open
             w == ClearQuote(m.own, s)
  <1>3. /\ e \in OrderMap(RestingOrder)
        /\ o.m.own = m.own
        /\ op = m.open \/ (o.res = "ok" /\ op = Drop(m.open, {id}))
        /\ o.m = [exch |-> e, open |-> op, own |-> m.own]
    BY <1>1, CancelFacts
  <1>4. op \in OrderMap(OpenOrder)
    <2>1. Drop(m.open, {id}) \in OrderMap(OpenOrder)
      BY <1>1, DropMap
    <2> QED BY <1>1, <1>3, <2>1
  <1>5. t \in Side /\ t # s
    BY OtherSide
  <1>6. m.own[t].id # NoId =>
          /\ m.own[t].id \in DOMAIN op
          /\ op[m.own[t].id] = m.open[m.own[t].id]
    <2>1. m.own[t].id # id
      BY OwnQuotesDiffer
    <2>2. m.own[t].id # NoId => m.own[t].id \in DOMAIN m.open
      BY <1>5 DEF GoodBook, Tracked
    <2> QED BY <1>3, <2>1, <2>2 DEF Drop
  <1>7. CASE r = o /\ o.res # "ok"
    <2>1. o.m = [exch |-> e, open |-> m.open, own |-> m.own]
      BY <1>3, <1>7
    <2> HIDE DEF e
    <2>2. GoodBook(o.m)
      BY <1>1, <1>3, <2>1 DEF GoodBook, BookSet, Tracked, Uncrossed
    <2> QED BY <1>3, <1>7, <2>2
  <1>8. CASE r = Outcome([o.m EXCEPT !.own = ClearQuote(@, s)], "ok")
    <2>1. /\ w = [m.own EXCEPT ![s] = w[s]]
          /\ w[s] \in OwnQuote
          /\ w[s].id = NoId
      BY <1>1, SetQuoteFacts DEF ClearQuote
    <2>2. r.m = [exch |-> e, open |-> op, own |-> w]
      BY <1>3, <1>8 DEF Outcome
    <2> HIDE DEF w, e, op
    <2>3. GoodBook([exch |-> e, open |-> op,
                    own |-> [m.own EXCEPT ![s] = w[s]]])
      BY <1>3, <1>4, <1>6, <2>1, RequotedGood
    <2>4. r.m.own[t] = m.own[t]
      BY <1>1, <1>5, <2>1, <2>2
    <2> QED BY <2>1, <2>2, <2>3, <2>4
  <1> QED BY <1>2, <1>7, <1>8

LEMMA AmendGood ==
  ASSUME NEW m, GoodBook(m), NEW s \in Side, NEW c \in Cents,
         m.own[s].id # NoId, ~WouldCross(m, s, c),
         NEW a \in Amend(m, s, c)
  PROVE  /\ GoodBook(a.m)
         /\ a.res = "no" => a.m = m
  <1> DEFINE id == m.own[s].id
             t == Other(s)
             rest == [m.exch[id] EXCEPT !.price = OrderPrice(s, c)]
             ord == [m.open[id] EXCEPT !.price = OrderPrice(s, c)]
             ex(n) == Put(Drop(m.exch, {id}), n, rest)
             op(n) == Put(Drop(m.open, {id}), n, ord)
             w(n) == SetQuote(m.own, s, n, c)
  <1>1. /\ m \in BookSet
        /\ m.exch \in OrderMap(RestingOrder)
        /\ m.open \in OrderMap(OpenOrder)
        /\ m.own \in [Side -> OwnQuote]
        /\ m = [exch |-> m.exch, open |-> m.open, own |-> m.own]
    BY BookFields DEF GoodBook
  <1>2. /\ id \in DOMAIN m.open
        /\ m.open[id].side = s
        /\ id \in Ids
    BY <1>1, OrderMapElim DEF GoodBook, Tracked
  <1>3. OrderPrice(s, c) \in 1..99
    BY OrderPriceType
  <1>4. t \in Side /\ t # s
    BY OtherSide
  <1>5. \/ a.m = m
        \/ /\ id \in DOMAIN m.exch
           /\ a.res # "no"
           /\ \E n \in AmendIds(m, s) : a.m = Amended(m, s, c, n) \/ a.m = AmendTo(m, s, c, n)
    BY DEF Amend, When, Outcome
  <1>6. ASSUME NEW n \in AmendIds(m, s), id \in DOMAIN m.exch
        PROVE  GoodBook(Amended(m, s, c, n)) /\ GoodBook(AmendTo(m, s, c, n))
    <2>1. n \in Ids /\ n # NoId /\ (n = id \/ n \notin DOMAIN m.open)
      <3>1. CASE n = id
        BY <1>2, <3>1
      <3>2. CASE n # id
        BY <3>2, FreshIdIsFresh DEF When, AmendIds
      <3> QED BY <3>1, <3>2
    <2>2. rest \in RestingOrder
      <3>1. m.exch[id] \in RestingOrder
        BY <1>1, <1>6, OrderMapElim
      <3> QED BY <1>3, <3>1 DEF RestingOrder
    <2>3. ord \in OpenOrder /\ ord.side = s /\ ord.price = OrderPrice(s, c)
      <3>1. m.open[id] \in OpenOrder
        BY <1>1, <1>2, OrderMapElim
      <3> QED BY <1>2, <1>3, <3>1 DEF OpenOrder
    <2>4. AmendTo(m, s, c, n)
            = [exch |-> ex(n), open |-> m.open, own |-> m.own]
      BY <1>1 DEF AmendTo
    <2>5. Amended(m, s, c, n) = [exch |-> ex(n), open |-> op(n), own |-> w(n)]
      <3> DEFINE b == AmendTo(m, s, c, n)
      <3>1. b.open = m.open /\ b.own = m.own
        BY <2>4
      <3>2. Amended(m, s, c, n) = [b EXCEPT !.open = op(n), !.own = w(n)]
        BY <1>2, <3>1 DEF Amended
      <3> HIDE DEF ex, op, w, b
      <3>3. b = [exch |-> ex(n), open |-> m.open, own |-> m.own]
        BY <2>4 DEF b
      <3> QED BY <3>2, <3>3
    <2> HIDE DEF id, rest, ord
    <2>6. ex(n) \in OrderMap(RestingOrder)
      <3>1. Drop(m.exch, {id}) \in OrderMap(RestingOrder)
        BY <1>1, DropMap
      <3> QED BY <2>1, <2>2, <3>1, PutMap
    <2>7. op(n) \in OrderMap(OpenOrder)
      <3>1. Drop(m.open, {id}) \in OrderMap(OpenOrder)
        BY <1>1, DropMap
      <3> QED BY <2>1, <2>3, <3>1, PutMap
    <2>8. /\ DOMAIN op(n) = (DOMAIN m.open \ {id}) \cup {n}
          /\ op(n)[n] = ord
          /\ \A x \in DOMAIN m.open \ {id, n} : op(n)[x] = m.open[x]
      BY DEF Put, Drop
    <2>9. /\ w(n) = [m.own EXCEPT ![s] = w(n)[s]]
          /\ w(n)[s] \in OwnQuote
          /\ w(n)[s].id = n
          /\ w(n)[s].cents = c
      BY <1>1, <2>1, SetQuoteFacts
    <2> HIDE DEF ex, op, w
    <2>10. GoodBook(AmendTo(m, s, c, n))
      BY <1>1, <2>4, <2>6 DEF GoodBook, BookSet, Tracked, Uncrossed
    <2>11. m.own[t].id # NoId =>
            /\ m.own[t].id \in DOMAIN op(n)
            /\ op(n)[m.own[t].id] = m.open[m.own[t].id]
      <3>1. m.own[t].id # id
        BY OwnQuotesDiffer DEF id
      <3>2. m.own[t].id # NoId => m.own[t].id \in DOMAIN m.open
        BY <1>4 DEF GoodBook, Tracked
      <3> QED BY <2>1, <2>8, <3>1, <3>2
    <2>12. m.own[t].id # NoId =>
            IF s = "bid" THEN c < m.own[t].cents ELSE c > m.own[t].cents
      <3>1. m.own[t].cents \in Int
        BY <1>1, <1>4, QuoteCents
      <3>2. c \in 1..99
        BY QuoteConstants
      <3> QED BY <3>1, <3>2 DEF WouldCross
    <2>13. /\ w(n)[s].id \in DOMAIN op(n)
           /\ op(n)[w(n)[s].id].side = s
           /\ op(n)[w(n)[s].id].price = OrderPrice(s, w(n)[s].cents)
      BY <2>3, <2>8, <2>9
    <2>14. GoodBook([exch |-> ex(n), open |-> op(n),
                     own |-> [m.own EXCEPT ![s] = w(n)[s]]])
      BY <2>6, <2>7, <2>9, <2>11, <2>12, <2>13, RequotedGood
    <2> QED BY <2>5, <2>9, <2>10, <2>14
  <1> HIDE DEF id
  <1> QED BY <1>5, <1>6

-----------------------------------------------------------------------------
(* The Quoter.                                                             *)

LEMMA RepriceGood ==
  ASSUME NEW m, GoodBook(m), NEW s \in Side, NEW c \in Cents,
         m.own[s].id # NoId,
         NEW o \in Reprice(m, s, c)
  PROVE  GoodBook(o.m)
  <1> DEFINE may == ~WouldCross(m, s, c) /\ RiskOk(s, c)
             amended == IF may THEN Amend(m, s, c) ELSE {Outcome(m, "no")}
  <1>1. PICK a \in amended :
          \/ o = a
          \/ /\ a.res = "no"
             /\ \E r \in Release(a.m, s) :
                  o = r \/ (may /\ o \in PlaceQuote(r.m, s, c))
    BY DEF Reprice
  <1>2. GoodBook(a.m) /\ (a.res = "no" => a.m = m)
    <2>1. CASE may
      BY <1>1, <2>1, AmendGood
    <2>2. CASE ~may
      BY <1>1, <2>2 DEF Outcome
    <2> QED BY <2>1, <2>2
  <1>3. ASSUME NEW r \in Release(m, s)
        PROVE  /\ GoodBook(r.m)
               /\ may => \A x \in PlaceQuote(r.m, s, c) : GoodBook(x.m)
    <2>1. GoodBook(r.m) /\ r.m.own[Other(s)] = m.own[Other(s)]
      BY <1>3, ReleaseGood
    <2>2. may => ~WouldCross(r.m, s, c)
      BY <2>1 DEF WouldCross
    <2> QED BY <2>1, <2>2, PlaceGood
  <1> QED BY <1>1, <1>2, <1>3

LEMMA FadedGood ==
  ASSUME NEW m, GoodBook(m), NEW s \in Side, NEW flag \in BOOLEAN
  PROVE  /\ GoodBook([m EXCEPT !.own = SetFade(@, s, flag)])
         /\ [m EXCEPT !.own = SetFade(@, s, flag)].own[s].id = m.own[s].id
         /\ [m EXCEPT !.own = SetFade(@, s, flag)].exch = m.exch
  <1> DEFINE w == SetFade(m.own, s, flag)
             b == [m EXCEPT !.own = SetFade(@, s, flag)]
  <1>1. /\ m \in BookSet
        /\ m.exch \in OrderMap(RestingOrder)
        /\ m.open \in OrderMap(OpenOrder)
        /\ m.own \in [Side -> OwnQuote]
        /\ m = [exch |-> m.exch, open |-> m.open, own |-> m.own]
    BY BookFields DEF GoodBook
  <1>2. /\ w \in [Side -> OwnQuote]
        /\ \A x \in Side : w[x].id = m.own[x].id /\ w[x].cents = m.own[x].cents
    BY <1>1, SetFadeFacts
  <1>3. b = [exch |-> m.exch, open |-> m.open, own |-> w]
    BY <1>1
  <1> HIDE DEF w, b
  <1>4. b \in BookSet
    BY <1>1, <1>2, <1>3 DEF BookSet
  <1>5. Tracked(b)
    BY <1>2, <1>3 DEF GoodBook, Tracked
  <1>6. Uncrossed(b)
    BY <1>2, <1>3 DEF GoodBook, Uncrossed, Side
  <1>7. GoodBook(b) /\ b.own[s].id = m.own[s].id /\ b.exch = m.exch
    BY <1>2, <1>3, <1>4, <1>5, <1>6 DEF GoodBook
  <1> QED BY <1>7 DEF b

LEMMA OutcomeBook ==
  ASSUME NEW m, NEW res
  PROVE  Outcome(m, res).m = m
  BY DEF Outcome

\* What refresh_bid and refresh_ask may do, as one disjunction.
LEMMA RefreshCases ==
  ASSUME NEW m, NEW s \in Side, NEW c \in Cents, NEW o \in Refresh(m, s, c)
  PROVE  \/ o.m = m
         \/ /\ m.own[s].id = NoId
            /\ ~WouldCross(m, s, c)
            /\ RiskOk(s, c)
            /\ o \in PlaceQuote(m, s, c)
         \/ \E flag \in BOOLEAN :
              o.m = [m EXCEPT !.own = SetFade(@, s, flag)]
         \/ /\ m.own[s].id # NoId
            /\ o \in Reprice([m EXCEPT !.own = SetFade(@, s, FALSE)], s, c)
  <1> DEFINE faded(flag) == [m EXCEPT !.own = SetFade(@, s, flag)]
             near == m.own[s].cents - c \in -Threshold..Threshold
  <1>1. CASE m.own[s].id = NoId
    BY <1>1 DEF Refresh, Outcome
  <1>2. CASE m.own[s].id # NoId /\ near
    BY <1>2 DEF Refresh, Outcome
  <1>3. CASE m.own[s].id # NoId /\ ~near
    <2>1. \/ o = Outcome(faded(TRUE), "ok")
          \/ o = Outcome(faded(FALSE), "ok")
          \/ o = Outcome(m, "ok")
          \/ o \in Reprice(faded(FALSE), s, c)
      <3> HIDE DEF near
      <3> QED BY <1>3 DEF Refresh, near
    <2> HIDE DEF faded
    <2>2. \/ o.m = faded(TRUE)
          \/ o.m = faded(FALSE)
          \/ o.m = m
          \/ o \in Reprice(faded(FALSE), s, c)
      BY <2>1, OutcomeBook
    <2> QED BY <1>3, <2>2 DEF faded
  <1> QED BY <1>1, <1>2, <1>3

LEMMA RefreshGood ==
  ASSUME NEW m, GoodBook(m), NEW s \in Side, NEW c \in Cents,
         NEW o \in Refresh(m, s, c)
  PROVE  GoodBook(o.m)
  <1> DEFINE unfaded == [m EXCEPT !.own = SetFade(@, s, FALSE)]
  <1>1. GoodBook(unfaded) /\ unfaded.own[s].id = m.own[s].id
    BY FadedGood
  <1>2. CASE o.m = m
    BY <1>2
  <1>3. CASE ~WouldCross(m, s, c) /\ o \in PlaceQuote(m, s, c)
    BY <1>3, PlaceGood
  <1>4. CASE \E flag \in BOOLEAN :
               o.m = [m EXCEPT !.own = SetFade(@, s, flag)]
    BY <1>4, FadedGood
  <1>5. CASE m.own[s].id # NoId /\ o \in Reprice(unfaded, s, c)
    <2> HIDE DEF unfaded
    <2> QED BY <1>1, <1>5, RepriceGood
  <1> QED BY <1>2, <1>3, <1>4, <1>5, RefreshCases

LEMMA SuppressGood ==
  ASSUME NEW m, GoodBook(m), NEW s \in Side, NEW o \in Suppress(m, s)
  PROVE  GoodBook(o.m)
  BY ReleaseGood DEF Suppress, Outcome

LEMMA RefreshIfGood ==
  ASSUME NEW m, GoodBook(m), NEW s \in Side, NEW c \in Cents \cup {0},
         NEW o \in RefreshIf(m, s, c)
  PROVE  GoodBook(o.m)
  BY RefreshGood DEF RefreshIf, Outcome

LEMMA UpdateGood ==
  ASSUME NEW m, GoodBook(m), NEW bid \in Cents \cup {0},
         NEW ask \in Cents \cup {0}, NEW o \in Update(m, bid, ask)
  PROVE  GoodBook(o.m)
  <1>1. PICK o1 \in Suppress(m, "bid") :
          \/ o = o1
          \/ \E o2 \in Suppress(o1.m, "ask") :
               \/ o = o2
               \/ \E o3 \in RefreshIf(o2.m, "bid", bid) :
                    o = o3 \/ o \in RefreshIf(o3.m, "ask", ask)
    BY DEF Update, Then
  <1>2. "bid" \in Side /\ "ask" \in Side
    BY DEF Side
  <1>3. GoodBook(o1.m)
    BY <1>2, SuppressGood
  <1>4. \A o2 \in Suppress(o1.m, "ask") : GoodBook(o2.m)
    BY <1>2, <1>3, SuppressGood
  <1>5. \A o2 \in Suppress(o1.m, "ask") :
          \A o3 \in RefreshIf(o2.m, "bid", bid) : GoodBook(o3.m)
    BY <1>2, <1>4, RefreshIfGood
  <1>6. \A o2 \in Suppress(o1.m, "ask") :
          \A o3 \in RefreshIf(o2.m, "bid", bid) :
            \A o4 \in RefreshIf(o3.m, "ask", ask) : GoodBook(o4.m)
    BY <1>2, <1>5, RefreshIfGood
  <1> QED BY <1>1, <1>3, <1>4, <1>5, <1>6

-----------------------------------------------------------------------------
(* The handlers and the exchange.                                          *)

\* cancel_all and the reset of the Quoter: no own quote is left to track.
LEMMA CancelAllFacts ==
  ASSUME NEW m \in BookSet, NEW b \in CancelAll(m)
  PROVE  /\ GoodBook([b EXCEPT !.own = NoQuotes])
         /\ [b EXCEPT !.own = NoQuotes].exch = b.exch
         /\ b.exch \in OrderMap(RestingOrder)
         /\ DOMAIN b.exch \subseteq DOMAIN m.exch
         /\ \A i \in DOMAIN b.exch : b.exch[i] = m.exch[i]
  <1>1. PICK K, L : b = [m EXCEPT !.exch = Drop(@, K), !.open = Drop(@, L)]
    BY DEF CancelAll
  <1> DEFINE e == Drop(m.exch, K)
             op == Drop(m.open, L)
             c == [b EXCEPT !.own = NoQuotes]
  <1>2. /\ m.exch \in OrderMap(RestingOrder)
        /\ m.open \in OrderMap(OpenOrder)
        /\ m = [exch |-> m.exch, open |-> m.open, own |-> m.own]
    BY BookFields
  <1>3. e \in OrderMap(RestingOrder)
    BY <1>2, DropMap
  <1>4. op \in OrderMap(OpenOrder)
    BY <1>2, DropMap
  <1>5. DOMAIN e \subseteq DOMAIN m.exch /\ \A i \in DOMAIN e : e[i] = m.exch[i]
    BY DEF Drop
  <1>6. b = [exch |-> e, open |-> op, own |-> m.own]
    BY <1>1, <1>2
  <1>7. NoQuotes \in [Side -> OwnQuote] /\ \A s \in Side : NoQuotes[s].id = NoId
    BY DEF NoQuotes, NoQuote, OwnQuote
  <1> HIDE DEF e, op
  <1>8. c = [exch |-> e, open |-> op, own |-> NoQuotes]
    BY <1>6
  <1> HIDE DEF c
  <1>9. GoodBook(c)
    <2>1. c \in BookSet
      BY <1>3, <1>4, <1>7, <1>8 DEF BookSet
    <2>2. Tracked(c) /\ Uncrossed(c)
      BY <1>7, <1>8 DEF Tracked, Uncrossed, Side
    <2> QED BY <2>1, <2>2 DEF GoodBook
  <1>10. c.exch = b.exch
    BY <1>6, <1>8
  <1> QED BY <1>3, <1>5, <1>6, <1>9, <1>10 DEF c

\* The inductive invariant.
QuoteInv == TypeOK /\ OwnQuotesTracked /\ NoSelfCross

LEMMA InvBook ==
  ASSUME QuoteInv
  PROVE  GoodBook(Book) /\ Book.exch = exch
  <1>1. /\ Book \in BookSet
        /\ Book.exch = exch /\ Book.open = open /\ Book.own = own
    BY OrderMapType DEF QuoteInv, TypeOK, Book, BookSet
  <1>2. Tracked(Book)
    BY <1>1 DEF QuoteInv, OwnQuotesTracked, Tracked
  <1>3. Uncrossed(Book)
    BY <1>1 DEF QuoteInv, NoSelfCross, Uncrossed
  <1> QED BY <1>1, <1>2, <1>3 DEF GoodBook

\* A handler that leaves a good book, and nothing else, keeps the invariant.
LEMMA SetBookInv ==
  ASSUME QuoteInv, NEW b, GoodBook(b), SetBook(b),
         UNCHANGED <<external, net, openCache, halted, reduceOnly>>
  PROVE  QuoteInv'
  <1>1. /\ exch' = b.exch /\ open' = b.open /\ own' = b.own
        /\ b.exch \in OrderMap(RestingOrder)
        /\ b.open \in OrderMap(OpenOrder)
        /\ b.own \in [Side -> OwnQuote]
    BY BookFields DEF GoodBook, SetBook
  <1>2. TypeOK'
    BY <1>1, OrderMapType DEF QuoteInv, TypeOK, external
  <1>3. OwnQuotesTracked'
    BY <1>1 DEF GoodBook, Tracked, OwnQuotesTracked
  <1>4. NoSelfCross'
    BY <1>1 DEF GoodBook, Uncrossed, NoSelfCross
  <1> QED BY <1>2, <1>3, <1>4 DEF QuoteInv

LEMMA RunQuoterInv ==
  ASSUME QuoteInv, RunQuoter
  PROVE  QuoteInv'
  <1>1. PICK p \in Desired : \E o \in Update(Book, p[1], p[2]) : SetBook(o.m)
    BY DEF RunQuoter
  <1>2. PICK o \in Update(Book, p[1], p[2]) : SetBook(o.m)
    BY <1>1
  <1>3. p[1] \in Cents \cup {0} /\ p[2] \in Cents \cup {0}
    BY DEF Desired
  <1>4. GoodBook(o.m)
    BY <1>3, InvBook, UpdateGood
  <1> QED BY <1>2, <1>4, SetBookInv DEF RunQuoter

LEMMA CancelAllQuotesInv ==
  ASSUME QuoteInv, CancelAllQuotes
  PROVE  QuoteInv'
  <1>1. PICK m \in CancelAll(Book) : SetBook([m EXCEPT !.own = NoQuotes])
    BY DEF CancelAllQuotes
  <1>2. Book \in BookSet
    BY InvBook DEF GoodBook
  <1>3. GoodBook([m EXCEPT !.own = NoQuotes])
    BY <1>2, CancelAllFacts
  <1> QED BY <1>1, <1>3, SetBookInv DEF CancelAllQuotes

LEMMA FilledOpenFacts ==
  ASSUME QuoteInv, NEW f \in Fill
  PROVE  /\ FilledOpen(f) \in OrderMap(OpenOrder)
         /\ DOMAIN FilledOpen(f) \subseteq DOMAIN open
         /\ DOMAIN open \ {f.order} \subseteq DOMAIN FilledOpen(f)
         /\ \A id \in DOMAIN FilledOpen(f) :
              /\ FilledOpen(f)[id].side = open[id].side
              /\ FilledOpen(f)[id].price = open[id].price
  <1> DEFINE id == f.order
             filled == open[id].filled + f.qty
             ord == [open[id] EXCEPT !.filled = filled]
  <1>1. open \in OrderMap(OpenOrder)
    BY OrderMapType DEF QuoteInv, TypeOK
  <1>2. CASE id \notin DOMAIN open
    BY <1>1, <1>2 DEF FilledOpen
  <1>3. CASE id \in DOMAIN open /\ filled >= open[id].quantity
    <2>1. FilledOpen(f) = Drop(open, {id})
      BY <1>3 DEF FilledOpen
    <2>2. Drop(open, {id}) \in OrderMap(OpenOrder)
      BY <1>1, DropMap
    <2>3. /\ DOMAIN Drop(open, {id}) = DOMAIN open \ {id}
          /\ \A i \in DOMAIN open \ {id} : Drop(open, {id})[i] = open[i]
      BY DEF Drop
    <2> QED BY <2>1, <2>2, <2>3
  <1>4. CASE id \in DOMAIN open /\ ~(filled >= open[id].quantity)
    <2>1. open[id] \in OpenOrder
      BY <1>1, <1>4, OrderMapElim
    <2>2. filled \in 0..QuoteSize - 1
      <3>1. /\ open[id].filled \in 0..QuoteSize - 1
            /\ open[id].quantity = QuoteSize
        BY <2>1 DEF OpenOrder
      <3>2. f.qty \in 1..QuoteSize /\ QuoteSize \in Nat
        BY QuoteConstants DEF Fill
      <3> QED BY <1>4, <3>1, <3>2
    <2>3. /\ ord \in OpenOrder
          /\ ord.side = open[id].side
          /\ ord.price = open[id].price
      <3> HIDE DEF filled
      <3> QED BY <2>1, <2>2 DEF OpenOrder
    <2>4. FilledOpen(f) = [open EXCEPT ![id] = ord]
      BY <1>4 DEF FilledOpen
    <2>5. DOMAIN open \subseteq Ids /\ open \in [DOMAIN open -> OpenOrder]
      BY <1>1, OrderMapElim
    <2> HIDE DEF ord
    <2>6. [open EXCEPT ![id] = ord] \in [DOMAIN open -> OpenOrder]
      BY <2>3, <2>5
    <2>7. [open EXCEPT ![id] = ord] \in OrderMap(OpenOrder)
      BY <2>5, <2>6, OrderMapIntro
    <2>8. \A i \in DOMAIN open :
            /\ [open EXCEPT ![id] = ord][i].side = open[i].side
            /\ [open EXCEPT ![id] = ord][i].price = open[i].price
      BY <1>4, <2>3
    <2> QED BY <2>4, <2>6, <2>7, <2>8
  <1> QED BY <1>2, <1>3, <1>4

LEMMA OnFillInv ==
  ASSUME QuoteInv, NEW f \in fills, OnFill(f)
  PROVE  QuoteInv'
  <1>1. f \in Fill
    BY DEF QuoteInv, TypeOK
  <1>2. /\ open' \in OrderMap(OpenOrder)
        /\ DOMAIN open' \subseteq DOMAIN open
        /\ DOMAIN open \ {f.order} \subseteq DOMAIN open'
        /\ \A id \in DOMAIN open' : /\ open'[id].side = open[id].side
                                    /\ open'[id].price = open[id].price
    <2>1. open' = FilledOpen(f)
      BY DEF OnFill
    <2> QED BY <1>1, <2>1, FilledOpenFacts
  <1>3. own \in [Side -> OwnQuote]
    BY OrderMapType DEF QuoteInv, TypeOK
  <1>4. \A s \in Side : /\ ClearQuote(own, s)[s] \in OwnQuote
                        /\ ClearQuote(own, s)[s].id = NoId
    BY <1>3, SetQuoteFacts DEF ClearQuote
  <1>5. \A s \in Side :
          own'[s] = IF own[s].id = f.order /\ f.order \notin DOMAIN open'
                    THEN ClearQuote(own, s)[s] ELSE own[s]
    BY DEF OnFill, ForgetOrder
  <1>6. own' \in [Side -> OwnQuote]
    BY <1>3, <1>4 DEF OnFill, ForgetOrder
  <1>7. TypeOK'
    <2>1. net' \in Int
      <3>1. f.qty \in Int
        BY <1>1, QuoteConstants DEF Fill
      <3> QED BY <3>1 DEF OnFill, Signed, QuoteInv, TypeOK
    <2>2. openCache' \in Nat
      <3>1. IsFiniteSet(DOMAIN open')
        BY <1>2, OrderMapElim, QuoteConstants, FS_Subset
      <3> QED BY <3>1, FS_CardinalityType DEF OnFill
    <2>3. halted' \in BOOLEAN
      BY DEF OnFill, QuoteInv, TypeOK
    <2>4. fills' \subseteq Fill
      BY DEF OnFill, QuoteInv, TypeOK
    <2>5. /\ exch' \in OrderMap(RestingOrder)
          /\ trades' \in 0..MaxTrades
          /\ position' \in Int
          /\ reduceOnly' \in BOOLEAN
      BY OrderMapType DEF OnFill, QuoteInv, TypeOK
    <2> QED BY <1>2, <1>6, <2>1, <2>2, <2>3, <2>4, <2>5, OrderMapType DEF TypeOK
  <1>8. OwnQuotesTracked'
    <2> SUFFICES ASSUME NEW s \in Side, own'[s].id # NoId
                 PROVE  /\ own'[s].id \in DOMAIN open'
                        /\ open'[own'[s].id].side = s
                        /\ open'[own'[s].id].price = OrderPrice(s, own'[s].cents)
      BY DEF OwnQuotesTracked
    <2>1. /\ own'[s] = own[s]
          /\ ~(own[s].id = f.order /\ f.order \notin DOMAIN open')
      BY <1>4, <1>5
    <2>2. /\ own[s].id \in DOMAIN open
          /\ open[own[s].id].side = s
          /\ open[own[s].id].price = OrderPrice(s, own[s].cents)
      BY <2>1 DEF QuoteInv, OwnQuotesTracked
    <2>3. own[s].id \in DOMAIN open'
      BY <1>2, <2>1, <2>2
    <2> QED BY <1>2, <2>1, <2>2, <2>3
  <1>9. NoSelfCross'
    BY <1>4, <1>5 DEF QuoteInv, NoSelfCross, Side
  <1> QED BY <1>7, <1>8, <1>9 DEF QuoteInv

LEMMA ExchangeFillInv ==
  ASSUME QuoteInv, NEW id \in DOMAIN exch, NEW q \in 1..QuoteSize,
         ExchangeFill(id, q)
  PROVE  QuoteInv'
  <1> DEFINE f == [trade |-> trades + 1, order |-> id, side |-> exch[id].side,
                   qty |-> q]
             rest == [exch[id] EXCEPT !.left = @ - q]
  <1>1. /\ exch \in OrderMap(RestingOrder)
        /\ exch[id] \in RestingOrder
        /\ id \in Ids
        /\ DOMAIN exch \subseteq Ids
        /\ exch \in [DOMAIN exch -> RestingOrder]
    BY OrderMapElim, OrderMapType DEF QuoteInv, TypeOK
  <1>2. trades' \in 0..MaxTrades /\ trades + 1 \in 1..MaxTrades
    BY QuoteConstants DEF ExchangeFill, QuoteInv, TypeOK
  <1>3. f \in Fill
    BY <1>1, <1>2 DEF Fill, RestingOrder
  <1>4. fills' \subseteq Fill
    BY <1>3 DEF ExchangeFill, QuoteInv, TypeOK
  <1>5. position' \in Int
    <2>1. q \in Int /\ f.qty = q
      BY QuoteConstants
    <2>2. position' = position + Signed(f)
      BY DEF ExchangeFill
    <2>3. Signed(f) \in Int
      <3> HIDE DEF f
      <3> QED BY <2>1 DEF Signed
    <2> HIDE DEF f
    <2> QED BY <2>2, <2>3 DEF QuoteInv, TypeOK
  <1>6. exch' \in OrderMap(RestingOrder)
    <2>1. CASE q = exch[id].left
      BY <1>1, <2>1, DropMap DEF ExchangeFill
    <2>2. CASE q # exch[id].left
      <3>1. exch' = [exch EXCEPT ![id] = rest]
        BY <2>2 DEF ExchangeFill
      <3>2. rest \in RestingOrder
        <4>1. exch[id].left \in 1..QuoteSize /\ q <= exch[id].left
          BY <1>1 DEF RestingOrder, ExchangeFill
        <4>2. exch[id].left - q \in 1..QuoteSize
          BY <2>2, <4>1, QuoteConstants
        <4> QED BY <1>1, <4>2 DEF RestingOrder
      <3> HIDE DEF rest
      <3>3. exch' \in [DOMAIN exch -> RestingOrder]
        BY <1>1, <3>1, <3>2
      <3> QED BY <1>1, <3>3, OrderMapIntro
    <2> QED BY <2>1, <2>2
  <1>7. TypeOK'
    <2>1. UNCHANGED <<open, net, own, openCache, halted, reduceOnly>>
      BY DEF ExchangeFill
    <2> QED BY <1>2, <1>4, <1>5, <1>6, <2>1, OrderMapType DEF QuoteInv, TypeOK
  <1>8. OwnQuotesTracked' /\ NoSelfCross'
    BY DEF ExchangeFill, QuoteInv, OwnQuotesTracked, NoSelfCross
  <1> QED BY <1>7, <1>8 DEF QuoteInv

LEMMA ExchangePauseInv ==
  ASSUME QuoteInv, ExchangePause
  PROVE  QuoteInv'
  <1>1. exch' \in OrderMap(RestingOrder)
    BY DropMap, OrderMapType DEF ExchangePause, QuoteInv, TypeOK
  <1>2. UNCHANGED <<external, open, net, own, openCache, halted, reduceOnly>>
    BY DEF ExchangePause
  <1>3. TypeOK'
    BY <1>1, <1>2, OrderMapType DEF QuoteInv, TypeOK, external
  <1>4. OwnQuotesTracked' /\ NoSelfCross'
    BY <1>2 DEF QuoteInv, OwnQuotesTracked, NoSelfCross
  <1> QED BY <1>3, <1>4 DEF QuoteInv

-----------------------------------------------------------------------------
(* The theorems.                                                           *)

LEMMA QuoteInvInit == Init => QuoteInv
  <1> SUFFICES ASSUME Init PROVE QuoteInv
    OBVIOUS
  <1>1. /\ exch \in [{} -> RestingOrder]
        /\ open \in [{} -> OpenOrder]
    BY DEF Init
  <1>2. /\ exch \in OrderMap(RestingOrder)
        /\ open \in OrderMap(OpenOrder)
    BY <1>1, OrderMapIntro
  <1>3. own \in [Side -> OwnQuote] /\ \A s \in Side : own[s].id = NoId
    BY DEF Init, NoQuotes, NoQuote, OwnQuote
  <1>4. trades \in 0..MaxTrades
    BY QuoteConstants DEF Init
  <1>5. position \in Int /\ net \in Int /\ openCache \in Nat
    BY DEF Init
  <1>6. fills \subseteq Fill /\ halted \in BOOLEAN /\ reduceOnly \in BOOLEAN
    BY Zenon DEF Init
  <1>7. TypeOK
    BY <1>2, <1>3, <1>4, <1>5, <1>6, OrderMapType DEF TypeOK
  <1> QED BY <1>3, <1>7 DEF QuoteInv, OwnQuotesTracked, NoSelfCross, Side

LEMMA QuoteInvStep == QuoteInv /\ [Next]_vars => QuoteInv'
  <1> SUFFICES ASSUME QuoteInv, [Next]_vars PROVE QuoteInv'
    OBVIOUS
  <1>1. CASE OnDelta
    BY <1>1, RunQuoterInv DEF OnDelta
  <1>2. CASE RequoteIdleMarkets
    BY <1>2, RunQuoterInv DEF RequoteIdleMarkets
  <1>3. CASE \E f \in fills : OnFill(f)
    BY <1>3, OnFillInv
  <1>4. CASE OnDisconnect
    BY <1>4, CancelAllQuotesInv DEF OnDisconnect
  <1>5. CASE EnforceQuoteSafety
    BY <1>5, CancelAllQuotesInv DEF EnforceQuoteSafety
  <1>6. CASE FeedDead
    BY <1>6, CancelAllQuotesInv DEF FeedDead
  <1>7. CASE SetHalted
    BY <1>7 DEF SetHalted, QuoteInv, TypeOK, OwnQuotesTracked, NoSelfCross,
                external
  <1>8. CASE WindDown
    BY <1>8 DEF WindDown, QuoteInv, TypeOK, OwnQuotesTracked, NoSelfCross,
                external
  <1>9. CASE ExchangePause
    BY <1>9, ExchangePauseInv
  <1>10. CASE \E id \in DOMAIN exch : \E q \in 1..QuoteSize : ExchangeFill(id, q)
    BY <1>10, ExchangeFillInv
  <1>11. CASE UNCHANGED vars
    BY <1>11 DEF vars, external, QuoteInv, TypeOK, OwnQuotesTracked, NoSelfCross
  <1> QED
    BY <1>1, <1>2, <1>3, <1>4, <1>5, <1>6, <1>7, <1>8, <1>9, <1>10, <1>11
    DEF Next

\* The types of the session state hold for every bound on orders and trades.
THEOREM QuotesTypeCorrect == Spec => []TypeOK
  <1>1. QuoteInv => TypeOK
    BY DEF QuoteInv
  <1> QED BY <1>1, QuoteInvInit, QuoteInvStep, PTL DEF Spec

\* Whatever the exchange refuses, loses, renames or withdraws, the quote the
\* Quoter believes in is an order of open_orders_ with its side and price.
THEOREM QuotesStayTracked == Spec => []OwnQuotesTracked
  <1>1. QuoteInv => OwnQuotesTracked
    BY DEF QuoteInv
  <1> QED BY <1>1, QuoteInvInit, QuoteInvStep, PTL DEF Spec

\* The bid and the ask the Quoter keeps never cross, for every price set, cap
\* and limit and every combination of faults.
THEOREM QuotesNeverCross == Spec => []NoSelfCross
  <1>1. QuoteInv => NoSelfCross
    BY DEF QuoteInv
  <1> QED BY <1>1, QuoteInvInit, QuoteInvStep, PTL DEF Spec

-----------------------------------------------------------------------------
(* While halted the Quoter can only take quotes away: check_order gates    *)
(* both the place and the amend, so every path that is left is a release.  *)

Frozen(m, b) ==
  \A id \in DOMAIN b.exch :
    id \in DOMAIN m.exch /\ b.exch[id].price = m.exch[id].price

LEMMA ReleaseFrozen ==
  ASSUME NEW m, GoodBook(m), NEW s \in Side, NEW r \in Release(m, s)
  PROVE  Frozen(m, r.m)
  <1> DEFINE id == m.own[s].id
  <1>1. PICK o \in Cancel(m, id) :
          \/ r = o
          \/ r = Outcome([o.m EXCEPT !.own = ClearQuote(@, s)], "ok")
    BY DEF Release, ClearQuote
  <1>2. /\ o.m = [exch |-> o.m.exch, open |-> o.m.open, own |-> o.m.own]
        /\ DOMAIN o.m.exch \subseteq DOMAIN m.exch
        /\ \A i \in DOMAIN o.m.exch : o.m.exch[i] = m.exch[i]
    <2>1. m \in BookSet
      BY DEF GoodBook
    <2> HIDE DEF id
    <2> QED BY <2>1, CancelFacts
  <1>3. r.m.exch = o.m.exch
    <2>1. CASE r = o
      BY <2>1
    <2>2. CASE r = Outcome([o.m EXCEPT !.own = ClearQuote(@, s)], "ok")
      <3> DEFINE w == ClearQuote(o.m.own, s)
      <3>1. r.m = [o.m EXCEPT !.own = w]
        BY <2>2, OutcomeBook
      <3> HIDE DEF w
      <3> QED BY <1>2, <3>1
    <2> QED BY <1>1, <2>1, <2>2
  <1> QED BY <1>2, <1>3 DEF Frozen

LEMMA FrozenTrans ==
  ASSUME NEW m, NEW b, NEW c, Frozen(m, b), Frozen(b, c)
  PROVE  Frozen(m, c)
  BY DEF Frozen

LEMMA RefreshFrozen ==
  ASSUME halted, NEW m, GoodBook(m), NEW s \in Side, NEW c \in Cents,
         NEW o \in Refresh(m, s, c)
  PROVE  Frozen(m, o.m)
  <1> DEFINE unfaded == [m EXCEPT !.own = SetFade(@, s, FALSE)]
  <1>1. ~RiskOk(s, c)
    BY DEF RiskOk
  <1>2. Frozen(m, m)
    BY DEF Frozen
  <1>3. \A flag \in BOOLEAN : [m EXCEPT !.own = SetFade(@, s, flag)].exch = m.exch
    BY FadedGood
  <1>4. ASSUME NEW x \in Reprice(unfaded, s, c)
        PROVE  Frozen(m, x.m)
    <2>1. GoodBook(unfaded) /\ unfaded.exch = m.exch
      BY FadedGood
    <2> HIDE DEF unfaded
    <2>2. x = Outcome(unfaded, "no") \/ x \in Release(unfaded, s)
      <3>1. PICK a \in {Outcome(unfaded, "no")} :
              x = a \/ \E r \in Release(a.m, s) : x = r
        BY <1>1, <1>4 DEF Reprice
      <3> QED BY <3>1, OutcomeBook
    <2>3. Frozen(unfaded, x.m)
      <3>1. CASE x = Outcome(unfaded, "no")
        BY <3>1, OutcomeBook DEF Frozen
      <3>2. CASE x \in Release(unfaded, s)
        BY <2>1, <3>2, ReleaseFrozen
      <3> QED BY <2>2, <3>1, <3>2
    <2> QED BY <2>1, <2>3 DEF Frozen
  <1>5. CASE \E flag \in BOOLEAN :
               o.m = [m EXCEPT !.own = SetFade(@, s, flag)]
    <2>1. o.m.exch = m.exch
      BY <1>3, <1>5
    <2> QED BY <2>1 DEF Frozen
  <1> HIDE DEF unfaded
  <1>6. o.m = m \/ o \in Reprice(unfaded, s, c) \/
          \E flag \in BOOLEAN : o.m = [m EXCEPT !.own = SetFade(@, s, flag)]
    BY <1>1, RefreshCases DEF unfaded
  <1> QED BY <1>2, <1>4, <1>5, <1>6

LEMMA UpdateFrozen ==
  ASSUME halted, NEW m, GoodBook(m), NEW bid \in Cents \cup {0},
         NEW ask \in Cents \cup {0}, NEW o \in Update(m, bid, ask)
  PROVE  Frozen(m, o.m)
  <1>1. PICK o1 \in Suppress(m, "bid") :
          \/ o = o1
          \/ \E o2 \in Suppress(o1.m, "ask") :
               \/ o = o2
               \/ \E o3 \in RefreshIf(o2.m, "bid", bid) :
                    o = o3 \/ o \in RefreshIf(o3.m, "ask", ask)
    BY DEF Update, Then
  <1>2. "bid" \in Side /\ "ask" \in Side
    BY DEF Side
  <1>3. ASSUME NEW b, GoodBook(b), NEW s \in Side, NEW x \in Suppress(b, s)
        PROVE  Frozen(b, x.m) /\ GoodBook(x.m)
    <2>1. x \in Release(b, s) \/ x = Outcome(b, "ok")
      BY <1>3 DEF Suppress
    <2>2. Frozen(b, x.m)
      BY <1>3, <2>1, ReleaseFrozen, OutcomeBook DEF Frozen
    <2> QED BY <1>3, <2>2, SuppressGood
  <1>4. ASSUME NEW b, GoodBook(b), NEW s \in Side, NEW c \in Cents \cup {0},
               NEW x \in RefreshIf(b, s, c)
        PROVE  Frozen(b, x.m) /\ GoodBook(x.m)
    <2>1. (c \in Cents /\ x \in Refresh(b, s, c)) \/ x = Outcome(b, "ok")
      BY <1>4 DEF RefreshIf
    <2>2. Frozen(b, x.m)
      BY <1>4, <2>1, RefreshFrozen, OutcomeBook DEF Frozen
    <2> QED BY <1>4, <2>2, RefreshIfGood
  <1>5. Frozen(m, o1.m) /\ GoodBook(o1.m)
    BY <1>2, <1>3
  <1>6. CASE o = o1
    BY <1>5, <1>6
  <1>7. ASSUME NEW o2 \in Suppress(o1.m, "ask")
        PROVE  Frozen(m, o2.m) /\ GoodBook(o2.m)
    BY <1>2, <1>3, <1>5, <1>7, FrozenTrans
  <1>8. ASSUME NEW o2 \in Suppress(o1.m, "ask"),
               NEW o3 \in RefreshIf(o2.m, "bid", bid)
        PROVE  Frozen(m, o3.m) /\ GoodBook(o3.m)
    <2>1. Frozen(o2.m, o3.m) /\ GoodBook(o3.m)
      BY <1>2, <1>4, <1>7, <1>8
    <2> QED BY <1>7, <1>8, <2>1, FrozenTrans
  <1>9. ASSUME NEW o2 \in Suppress(o1.m, "ask"),
               NEW o3 \in RefreshIf(o2.m, "bid", bid),
               NEW o4 \in RefreshIf(o3.m, "ask", ask)
        PROVE  Frozen(m, o4.m)
    <2>1. Frozen(o3.m, o4.m)
      BY <1>2, <1>4, <1>8, <1>9
    <2> QED BY <1>8, <1>9, <2>1, FrozenTrans
  <1> QED BY <1>1, <1>6, <1>7, <1>8, <1>9

FrozenStep ==
  halted => \A id \in DOMAIN exch' :
    id \in DOMAIN exch /\ exch'[id].price = exch[id].price

LEMMA SetBookFrozen ==
  ASSUME NEW b, Frozen(Book, b), SetBook(b)
  PROVE  FrozenStep
  <1>1. Book.exch = exch /\ exch' = b.exch
    BY DEF Book, SetBook
  <1> QED BY <1>1 DEF Frozen, FrozenStep

LEMMA CancelAllQuotesFrozen ==
  ASSUME QuoteInv, CancelAllQuotes
  PROVE  FrozenStep
  <1>1. PICK m \in CancelAll(Book) : SetBook([m EXCEPT !.own = NoQuotes])
    BY DEF CancelAllQuotes
  <1>2. GoodBook(Book) /\ Book.exch = exch
    BY InvBook
  <1>3. /\ DOMAIN m.exch \subseteq DOMAIN exch
        /\ \A i \in DOMAIN m.exch : m.exch[i] = exch[i]
        /\ [m EXCEPT !.own = NoQuotes].exch = m.exch
    BY <1>2, CancelAllFacts DEF GoodBook
  <1>4. exch' = m.exch
    BY <1>1, <1>3 DEF SetBook
  <1> QED BY <1>3, <1>4 DEF FrozenStep

LEMMA HaltedStep == QuoteInv /\ Next => FrozenStep
  <1> SUFFICES ASSUME QuoteInv, Next PROVE FrozenStep
    OBVIOUS
  <1>1. CASE RunQuoter
    <2> SUFFICES ASSUME halted PROVE FrozenStep
      BY DEF FrozenStep
    <2>1. PICK p \in Desired :
            \E o \in Update(Book, p[1], p[2]) : SetBook(o.m)
      BY <1>1 DEF RunQuoter
    <2>2. PICK o \in Update(Book, p[1], p[2]) : SetBook(o.m)
      BY <2>1
    <2>3. p[1] \in Cents \cup {0} /\ p[2] \in Cents \cup {0}
      BY DEF Desired
    <2>4. Frozen(Book, o.m)
      BY <2>3, InvBook, UpdateFrozen
    <2> QED BY <2>2, <2>4, SetBookFrozen
  <1>2. CASE CancelAllQuotes
    BY <1>2, CancelAllQuotesFrozen
  <1>3. CASE UNCHANGED exch
    BY <1>3 DEF FrozenStep
  <1>4. CASE ExchangePause
    BY <1>4 DEF ExchangePause, Drop, FrozenStep
  <1>5. CASE \E id \in DOMAIN exch : \E q \in 1..QuoteSize : ExchangeFill(id, q)
    <2>1. PICK id \in DOMAIN exch, q \in 1..QuoteSize : ExchangeFill(id, q)
      BY <1>5
    <2>2. exch \in OrderMap(RestingOrder)
      BY OrderMapType DEF QuoteInv, TypeOK
    <2>3. exch[id] \in RestingOrder
      BY <2>2, OrderMapElim
    <2>4. CASE exch' = Drop(exch, {id})
      BY <2>4 DEF Drop, FrozenStep
    <2>5. CASE exch' = [exch EXCEPT ![id].left = @ - q]
      <3> DEFINE rest == [exch[id] EXCEPT !.left = @ - q]
      <3>1. exch' = [exch EXCEPT ![id] = rest]
        BY <2>5
      <3>2. rest.price = exch[id].price
        BY <2>3 DEF RestingOrder
      <3> HIDE DEF rest
      <3> QED BY <3>1, <3>2 DEF FrozenStep
    <2> QED BY <2>1, <2>4, <2>5 DEF ExchangeFill
  <1> QED
    BY <1>1, <1>2, <1>3, <1>4, <1>5
    DEF Next, OnDelta, RequoteIdleMarkets, OnFill, OnDisconnect,
        EnforceQuoteSafety, FeedDead, SetHalted, WindDown

\* A halt stops order flow at once: from then on no handler adds an order to
\* the exchange or moves one, for every configuration and all faults.
THEOREM HaltStopsOrderFlow == Spec => HaltFreezesQuotes
  <1>1. QuoteInv /\ [Next]_vars =>
          [halted => \A id \in DOMAIN exch' :
             id \in DOMAIN exch /\ exch'[id].price = exch[id].price]_vars
    BY HaltedStep DEF FrozenStep
  <1> QED
    BY <1>1, QuoteInvInit, QuoteInvStep, PTL DEF Spec, HaltFreezesQuotes

-----------------------------------------------------------------------------
(* Positions.  Every undelivered fill is counted once, because a trade has *)
(* its own number: an execution adds a fill the set does not hold yet, and *)
(* a delivery takes out one that it holds.                                 *)

FlightInv ==
  /\ IsFiniteSet(fills)
  /\ \A f \in fills : f.trade <= trades
  /\ PositionAgrees

LEMMA SignedInt ==
  ASSUME NEW f \in Fill
  PROVE  Signed(f) \in Int
  <1>1. f.qty \in Int
    BY QuoteConstants DEF Fill
  <1> QED BY <1>1 DEF Signed

LEMMA InFlightInt ==
  ASSUME NEW fs \in SUBSET Fill, IsFiniteSet(fs)
  PROVE  InFlight(fs) \in Int
  <1> DEFINE g == [f \in fs |-> Signed(f)]
  <1>1. \A f \in fs : g[f] \in Int
    BY SignedInt
  <1> HIDE DEF g
  <1>2. SumFunctionOnSet(g, fs) \in Int
    BY <1>1, SumInt
  <1> QED BY <1>2 DEF InFlight, g

\* A fill that joins the set adds its signed quantity.
LEMMA InFlightAdd ==
  ASSUME NEW fs \in SUBSET Fill, IsFiniteSet(fs), NEW f \in Fill, f \notin fs
  PROVE  /\ IsFiniteSet(fs \cup {f})
         /\ InFlight(fs \cup {f}) = InFlight(fs) + Signed(f)
  <1> DEFINE all == fs \cup {f}
             g == [x \in all |-> Signed(x)]
             h == [x \in fs |-> Signed(x)]
  <1>1. IsFiniteSet(all)
    BY FS_AddElement
  <1>2. \A x \in all : g[x] \in Int
    BY SignedInt
  <1>3. g[f] = Signed(f) /\ \A x \in fs : g[x] = h[x]
    OBVIOUS
  <1>4. InFlight(all) = SumFunctionOnSet(g, all)
    BY DEF InFlight
  <1>5. InFlight(fs) = SumFunctionOnSet(h, fs)
    BY DEF InFlight
  <1> HIDE DEF g, h
  <1>6. SumFunctionOnSet(g, fs) = SumFunctionOnSet(h, fs)
    BY <1>3, SumEqual
  <1>7. SumFunctionOnSet(g, all) = SumFunctionOnSet(g, fs) + g[f]
    BY <1>2, SumAdd
  <1> QED BY <1>1, <1>3, <1>4, <1>5, <1>6, <1>7

LEMMA FlightInit == Init => FlightInv
  <1> SUFFICES ASSUME Init PROVE FlightInv
    OBVIOUS
  <1>1. fills = {} /\ IsFiniteSet(fills)
    BY FS_EmptySet DEF Init
  <1>2. InFlight({}) = 0
    BY SumEmpty DEF InFlight
  <1>3. position = 0 /\ net = 0
    BY DEF Init
  <1> QED BY <1>1, <1>2, <1>3 DEF FlightInv, PositionAgrees

LEMMA FlightStep == QuoteInv /\ FlightInv /\ [Next]_vars => FlightInv'
  <1> SUFFICES ASSUME QuoteInv, FlightInv, [Next]_vars PROVE FlightInv'
    OBVIOUS
  <1>1. /\ fills \in SUBSET Fill /\ IsFiniteSet(fills)
        /\ trades \in Nat /\ position \in Int /\ net \in Int
        /\ position = net + InFlight(fills)
    BY DEF QuoteInv, TypeOK, FlightInv, PositionAgrees
  <1>2. CASE UNCHANGED <<fills, trades, position, net>>
    BY <1>2 DEF FlightInv, PositionAgrees
  <1>3. ASSUME NEW f \in fills, OnFill(f)
        PROVE  FlightInv'
    <2>1. /\ fills' = fills \ {f} /\ net' = net + Signed(f)
          /\ trades' = trades /\ position' = position
      BY <1>3 DEF OnFill
    <2>2. /\ fills' \in SUBSET Fill /\ f \in Fill /\ f \notin fills'
          /\ fills = fills' \cup {f}
      BY <1>1, <2>1
    <2>3. IsFiniteSet(fills')
      BY <1>1, <2>1, FS_Subset
    <2>4. InFlight(fills) = InFlight(fills') + Signed(f)
      BY <2>2, <2>3, InFlightAdd
    <2>5. Signed(f) \in Int /\ InFlight(fills') \in Int
      BY <2>2, <2>3, SignedInt, InFlightInt
    <2>6. position' = net' + InFlight(fills')
      BY <1>1, <2>1, <2>4, <2>5
    <2> QED BY <2>1, <2>3, <2>6 DEF FlightInv, PositionAgrees
  <1>4. ASSUME NEW id \in DOMAIN exch, NEW q \in 1..QuoteSize,
               ExchangeFill(id, q)
        PROVE  FlightInv'
    <2> DEFINE f == [trade |-> trades + 1, order |-> id,
                     side |-> exch[id].side, qty |-> q]
    <2>1. /\ fills' = fills \cup {f} /\ position' = position + Signed(f)
          /\ trades' = trades + 1 /\ net' = net
      BY <1>4 DEF ExchangeFill
    <2>2. f.trade = trades + 1
      OBVIOUS
    <2>3. f \in Fill
      <3>1. QuoteInv'
        BY <1>4, ExchangeFillInv
      <3> QED BY <2>1, <3>1 DEF QuoteInv, TypeOK
    <2> HIDE DEF f
    <2>4. f \notin fills
      <3>1. \A g \in fills : g.trade <= trades
        BY DEF FlightInv
      <3>2. ~(trades + 1 <= trades)
        BY <1>1
      <3> QED BY <2>2, <3>1, <3>2
    <2>5. /\ IsFiniteSet(fills')
          /\ InFlight(fills') = InFlight(fills) + Signed(f)
      BY <1>1, <2>1, <2>3, <2>4, InFlightAdd
    <2>6. Signed(f) \in Int /\ InFlight(fills) \in Int
      BY <1>1, <2>3, SignedInt, InFlightInt
    <2>7. position' = net' + InFlight(fills')
      BY <1>1, <2>1, <2>5, <2>6
    <2>8. \A g \in fills' : g.trade <= trades'
      <3>1. \A g \in fills : g.trade \in Int /\ g.trade <= trades
        BY <1>1, QuoteConstants DEF FlightInv, Fill
      <3> QED BY <1>1, <2>1, <2>2, <3>1
    <2> QED BY <2>5, <2>7, <2>8 DEF FlightInv, PositionAgrees
  <1> QED
    BY <1>2, <1>3, <1>4
    DEF Next, vars, external, OnDelta, RequoteIdleMarkets, RunQuoter,
        OnDisconnect, EnforceQuoteSafety, FeedDead, CancelAllQuotes,
        SetHalted, WindDown, ExchangePause

\* No fault makes the bot lose a trade: local position and fills under way
\* always make up the position the exchange holds, for every combination of
\* lost placements, failed cancels and amends to a new id.
THEOREM PositionAlwaysAgrees == Spec => []PositionAgrees
  <1>1. FlightInv => PositionAgrees
    BY DEF FlightInv
  <1> QED
    BY <1>1, QuoteInvInit, QuoteInvStep, FlightInit, FlightStep, PTL DEF Spec

-----------------------------------------------------------------------------
(* New orders and forgotten orders.  Two more facts about the book carry   *)
(* both results.  Sided: an order that is open and rests has one side.     *)
(* Accounted: a resting order is open, and what it has left, what was      *)
(* booked on it and what is under way for it never exceed its size, so no  *)
(* fill can fill it up in open_orders_ while it still rests.  An amend to  *)
(* a new id leaves the fills under way with the old one: hence "<=".       *)
(* Reducing relates a book to an earlier one: an order that was not there  *)
(* is on a side the Quoter does not suppress.                              *)

Pending(fs, id) ==
  SumFunctionOnSet([f \in fs |-> f.qty], {f \in fs : f.order = id})

\* The faults after which an order can rest that nobody has recorded: the
\* answer to a placement is lost, or the answer that names a new id is.
NoLostOrder ==
  /\ "place_lost" \notin Faults
  /\ ~({"amend_lost", "amend_new_id"} \subseteq Faults)

Sided(m) ==
  \A id \in DOMAIN m.exch \cap DOMAIN m.open : m.exch[id].side = m.open[id].side

Accounted(m) ==
  \A id \in DOMAIN m.exch :
    /\ id \in DOMAIN m.open
    /\ m.open[id].filled + Pending(fills, id) + m.exch[id].left <= QuoteSize

Sound(m) == GoodBook(m) /\ Sided(m) /\ (NoLostOrder => Accounted(m))

Reducing(m, b) ==
  \A id \in DOMAIN b.exch :
    \/ ~Suppressed(b.exch[id].side)
    \/ id \in DOMAIN m.exch /\ b.exch[id].side = m.exch[id].side

LEMMA ReducingSame ==
  ASSUME NEW m, NEW b, b.exch = m.exch
  PROVE  Reducing(m, b)
  BY DEF Reducing

LEMMA ReducingTrans ==
  ASSUME NEW m, NEW b, NEW c, Reducing(m, b), Reducing(b, c)
  PROVE  Reducing(m, c)
  BY DEF Reducing

\* Only the two order maps matter to Sided and Accounted.
LEMMA SameMaps ==
  ASSUME NEW m, Sound(m), NEW b, GoodBook(b), b.exch = m.exch, b.open = m.open
  PROVE  Sound(b)
  BY DEF Sound, Sided, Accounted

LEMMA NothingPending ==
  ASSUME NEW id, \A f \in fills : f.order # id
  PROVE  Pending(fills, id) = 0
  <1>1. {f \in fills : f.order = id} = {}
    OBVIOUS
  <1> QED BY <1>1, SumEmpty DEF Pending

LEMMA PendingNat ==
  ASSUME NEW fs \in SUBSET Fill, IsFiniteSet(fs), NEW id
  PROVE  Pending(fs, id) \in Nat
  <1> DEFINE g == [f \in fs |-> f.qty]
             K == {f \in fs : f.order = id}
  <1>1. IsFiniteSet(K)
    BY FS_Subset
  <1>2. \A f \in K : g[f] \in Nat
    BY QuoteConstants DEF Fill
  <1> HIDE DEF g, K
  <1>3. SumFunctionOnSet(g, K) \in Nat
    BY <1>1, <1>2, SumNat
  <1> QED BY <1>3 DEF Pending, g, K

LEMMA PlaceSound ==
  ASSUME NEW m, Sound(m), NEW s \in Side, NEW c \in Cents,
         ~WouldCross(m, s, c), ~Suppressed(s), NEW o \in PlaceQuote(m, s, c)
  PROVE  Sound(o.m) /\ Reducing(m, o.m)
  <1> DEFINE id == FreshId(m)
             rest == [side |-> s, price |-> OrderPrice(s, c),
                      left |-> QuoteSize]
             ord == [side |-> s, price |-> OrderPrice(s, c),
                     quantity |-> QuoteSize, filled |-> 0]
             ex == Put(m.exch, id, rest)
             op == Put(m.open, id, ord)
             resting == [m EXCEPT !.exch = Put(@, id, rest)]
             tracked == [resting EXCEPT !.open = Put(@, id, ord),
                                        !.own = SetQuote(@, s, id, c)]
  <1>1. GoodBook(m) /\ GoodBook(o.m)
    BY PlaceGood DEF Sound
  <1>2. m = [exch |-> m.exch, open |-> m.open, own |-> m.own]
    BY <1>1, BookFields DEF GoodBook
  <1>3. \/ o.m = m
        \/ FreshIds(m) # {} /\ o.m = tracked
        \/ FreshIds(m) # {} /\ o.m = resting /\ "place_lost" \in Faults
    BY DEF PlaceQuote, When, Outcome
  <1>4. CASE o.m = m
    BY <1>4, ReducingSame
  <1>5. CASE FreshIds(m) # {} /\ o.m # m
    <2>1. /\ id \in Ids /\ id \notin DOMAIN m.exch /\ id \notin DOMAIN m.open
          /\ \A f \in fills : f.order # id
      <3>1. FreshId(m) \in FreshIds(m)
        BY <1>5 DEF FreshId
      <3> QED BY <3>1 DEF FreshIds
    <2>2. resting = [exch |-> ex, open |-> m.open, own |-> m.own]
      BY <1>2
    <2>3. resting.exch = ex /\ resting.open = m.open
      BY <2>2
    <2>4. tracked.exch = ex /\ tracked.open = op
      <3> HIDE DEF resting, id, rest, ord
      <3>1. resting.open = m.open /\ resting.own = m.own
        BY <2>2
      <3>2. tracked = [resting EXCEPT !.open = op,
                                      !.own = SetQuote(m.own, s, id, c)]
        BY <3>1
      <3> HIDE DEF ex, op, tracked
      <3> QED BY <2>2, <3>2
    <2>5. /\ rest.side = s /\ rest.left = QuoteSize
          /\ ord.side = s /\ ord.filled = 0
      OBVIOUS
    <2>6. /\ o.m.exch = ex
          /\ \/ o.m.open = op
             \/ o.m.open = m.open /\ ~NoLostOrder
      <3> HIDE DEF resting, tracked, ex, op
      <3> QED BY <1>3, <1>5, <2>3, <2>4 DEF NoLostOrder
    <2> HIDE DEF id, rest, ord, resting, tracked
    <2>7. /\ DOMAIN ex = DOMAIN m.exch \cup {id}
          /\ ex[id] = rest
          /\ \A x \in DOMAIN m.exch : ex[x] = m.exch[x]
      BY <2>1 DEF Put
    <2>8. /\ DOMAIN op = DOMAIN m.open \cup {id}
          /\ op[id] = ord
          /\ \A x \in DOMAIN m.open : op[x] = m.open[x]
      BY <2>1 DEF Put
    <2> HIDE DEF ex, op
    <2>9. Sided(o.m)
      BY <2>1, <2>5, <2>6, <2>7, <2>8 DEF Sound, Sided
    <2>10. NoLostOrder => Accounted(o.m)
      <3>1. Pending(fills, id) = 0
        BY <2>1, NothingPending
      <3>2. op[id].filled + Pending(fills, id) + ex[id].left <= QuoteSize
        BY <2>5, <2>7, <2>8, <3>1, QuoteConstants
      <3>3. ASSUME NoLostOrder, NEW x \in DOMAIN m.exch
            PROVE  /\ x \in DOMAIN op
                   /\ op[x].filled + Pending(fills, x) + ex[x].left <= QuoteSize
        BY <2>7, <2>8, <3>3 DEF Sound, Accounted
      <3> QED BY <2>6, <2>7, <2>8, <3>2, <3>3 DEF Accounted
    <2>11. Reducing(m, o.m)
      BY <2>5, <2>6, <2>7 DEF Reducing
    <2> QED BY <1>1, <2>9, <2>10, <2>11 DEF Sound
  <1> QED BY <1>3, <1>4, <1>5

\* Orders that are taken from open_orders_ are gone from the exchange.
LEMMA CancelKeeps ==
  ASSUME NEW m \in BookSet, NEW id, NEW o \in Cancel(m, id)
  PROVE  /\ o.m = [exch |-> o.m.exch, open |-> o.m.open, own |-> o.m.own]
         /\ DOMAIN o.m.exch \subseteq DOMAIN m.exch
         /\ \A i \in DOMAIN o.m.exch : o.m.exch[i] = m.exch[i]
         /\ DOMAIN o.m.open \subseteq DOMAIN m.open
         /\ \A i \in DOMAIN o.m.open : o.m.open[i] = m.open[i]
         /\ DOMAIN o.m.exch \cap DOMAIN m.open \subseteq DOMAIN o.m.open
  <1> DEFINE ex == Drop(m.exch, {id})
             op == Drop(m.open, {id})
             gone == [m EXCEPT !.exch = Drop(@, {id})]
             done == [gone EXCEPT !.open = Drop(@, {id})]
  <1>1. m = [exch |-> m.exch, open |-> m.open, own |-> m.own]
    BY BookFields
  <1>2. gone = [exch |-> ex, open |-> m.open, own |-> m.own]
    BY <1>1
  <1>3. done = [exch |-> ex, open |-> op, own |-> m.own]
    <2> HIDE DEF gone
    <2> QED BY <1>2
  <1>4. o.m = m \/ o.m = gone \/ o.m = done
    BY DEF Cancel, When, Outcome
  <1>5. /\ DOMAIN ex = DOMAIN m.exch \ {id}
        /\ DOMAIN op = DOMAIN m.open \ {id}
        /\ \A i \in DOMAIN ex : ex[i] = m.exch[i]
        /\ \A i \in DOMAIN op : op[i] = m.open[i]
    BY DEF Drop
  <1> HIDE DEF ex, op, gone, done
  <1> QED BY <1>1, <1>2, <1>3, <1>4, <1>5

\* A book that lost resting orders, and open orders only with them.
LEMMA FewerSound ==
  ASSUME NEW m, Sound(m), NEW b, GoodBook(b),
         DOMAIN b.exch \subseteq DOMAIN m.exch,
         \A i \in DOMAIN b.exch : b.exch[i] = m.exch[i],
         DOMAIN b.open \subseteq DOMAIN m.open,
         \A i \in DOMAIN b.open : b.open[i] = m.open[i],
         DOMAIN b.exch \cap DOMAIN m.open \subseteq DOMAIN b.open
  PROVE  Sound(b) /\ Reducing(m, b)
  <1>1. Sided(b)
    BY DEF Sound, Sided
  <1>2. NoLostOrder => Accounted(b)
    BY DEF Sound, Accounted
  <1> QED BY <1>1, <1>2 DEF Sound, Reducing

LEMMA ReleaseSound ==
  ASSUME NEW m, Sound(m), NEW s \in Side, m.own[s].id # NoId,
         NEW r \in Release(m, s)
  PROVE  Sound(r.m) /\ Reducing(m, r.m)
  <1> DEFINE id == m.own[s].id
  <1>1. GoodBook(m) /\ m \in BookSet /\ GoodBook(r.m)
    BY ReleaseGood DEF Sound, GoodBook
  <1>2. PICK o \in Cancel(m, id) :
          \/ r = o
          \/ r = Outcome([o.m EXCEPT !.own = ClearQuote(@, s)], "ok")
    BY DEF Release, ClearQuote
  <1> HIDE DEF id
  <1>3. /\ o.m = [exch |-> o.m.exch, open |-> o.m.open, own |-> o.m.own]
        /\ DOMAIN o.m.exch \subseteq DOMAIN m.exch
        /\ \A i \in DOMAIN o.m.exch : o.m.exch[i] = m.exch[i]
    BY <1>1, CancelKeeps
  <1>4. r.m.exch = o.m.exch /\ r.m.open = o.m.open
    <2>1. CASE r = o
      BY <2>1
    <2>2. CASE r = Outcome([o.m EXCEPT !.own = ClearQuote(@, s)], "ok")
      <3> DEFINE w == ClearQuote(o.m.own, s)
      <3>1. r.m = [o.m EXCEPT !.own = w]
        BY <2>2, OutcomeBook
      <3> HIDE DEF w
      <3> QED BY <1>3, <3>1
    <2> QED BY <1>2, <2>1, <2>2
  <1>5. /\ DOMAIN o.m.open \subseteq DOMAIN m.open
        /\ \A i \in DOMAIN o.m.open : o.m.open[i] = m.open[i]
        /\ DOMAIN o.m.exch \cap DOMAIN m.open \subseteq DOMAIN o.m.open
    BY <1>1, CancelKeeps
  <1> QED BY <1>1, <1>3, <1>4, <1>5, FewerSound

LEMMA AmendSound ==
  ASSUME NEW m, Sound(m), NEW s \in Side, NEW c \in Cents,
         m.own[s].id # NoId, ~WouldCross(m, s, c), ~Suppressed(s),
         fills \subseteq Fill, IsFiniteSet(fills),
         NEW a \in Amend(m, s, c)
  PROVE  Sound(a.m) /\ Reducing(m, a.m)
  <1> DEFINE id == m.own[s].id
             rest == [m.exch[id] EXCEPT !.price = OrderPrice(s, c)]
             ord == [m.open[id] EXCEPT !.price = OrderPrice(s, c)]
             ex(n) == Put(Drop(m.exch, {id}), n, rest)
             op(n) == Put(Drop(m.open, {id}), n, ord)
  <1>1. GoodBook(m) /\ GoodBook(a.m)
    BY AmendGood DEF Sound
  <1>2. /\ m.exch \in OrderMap(RestingOrder)
        /\ m.open \in OrderMap(OpenOrder)
        /\ m = [exch |-> m.exch, open |-> m.open, own |-> m.own]
    BY <1>1, BookFields DEF GoodBook
  <1>3. id \in DOMAIN m.open /\ m.open[id].side = s
    BY <1>1 DEF GoodBook, Tracked
  <1>4. \/ a.m = m
        \/ /\ id \in DOMAIN m.exch
           /\ \E n \in AmendIds(m, s) :
                \/ a.m = Amended(m, s, c, n)
                \/ a.m = AmendTo(m, s, c, n) /\ "amend_lost" \in Faults
    BY DEF Amend, When, Outcome
  <1>5. CASE a.m = m
    BY <1>5, ReducingSame
  <1>6. ASSUME id \in DOMAIN m.exch, NEW n \in AmendIds(m, s),
               \/ a.m = Amended(m, s, c, n)
               \/ a.m = AmendTo(m, s, c, n) /\ "amend_lost" \in Faults
        PROVE  Sound(a.m) /\ Reducing(m, a.m)
    <2>1. \/ n = id
          \/ /\ "amend_new_id" \in Faults
             /\ n \notin DOMAIN m.exch /\ n \notin DOMAIN m.open
             /\ \A f \in fills : f.order # n
      <3>1. CASE n # id
        <4>1. /\ "amend_new_id" \in Faults /\ FreshIds(m) # {}
              /\ n = FreshId(m)
          BY <3>1 DEF AmendIds, When
        <4>2. FreshId(m) \in FreshIds(m)
          BY <4>1 DEF FreshId
        <4> QED BY <4>1, <4>2 DEF FreshIds
      <3> QED BY <3>1
    <2>2. rest.side = m.exch[id].side /\ rest.left = m.exch[id].left
      <3>1. m.exch[id] \in RestingOrder
        BY <1>2, <1>6, OrderMapElim
      <3> QED BY <3>1 DEF RestingOrder
    <2>3. ord.side = m.open[id].side /\ ord.filled = m.open[id].filled
      <3>1. m.open[id] \in OpenOrder
        BY <1>2, <1>3, OrderMapElim
      <3> QED BY <3>1 DEF OpenOrder
    <2>4. m.exch[id].side = s
      BY <1>3, <1>6 DEF Sound, Sided
    <2>5. AmendTo(m, s, c, n)
            = [exch |-> ex(n), open |-> m.open, own |-> m.own]
      BY <1>2 DEF AmendTo
    <2>6. Amended(m, s, c, n).exch = ex(n) /\ Amended(m, s, c, n).open = op(n)
      <3> DEFINE b == AmendTo(m, s, c, n)
                 w == SetQuote(m.own, s, n, c)
      <3>1. b.open = m.open /\ b.own = m.own
        BY <2>5
      <3>2. Amended(m, s, c, n) = [b EXCEPT !.open = op(n), !.own = w]
        BY <1>3, <3>1 DEF Amended
      <3> HIDE DEF ex, op, w, b
      <3>3. b = [exch |-> ex(n), open |-> m.open, own |-> m.own]
        BY <2>5 DEF b
      <3> QED BY <3>2, <3>3
    <2> HIDE DEF rest, ord
    <2>7. /\ DOMAIN ex(n) = (DOMAIN m.exch \ {id}) \cup {n}
          /\ ex(n)[n] = rest
          /\ \A x \in DOMAIN m.exch \ {id, n} : ex(n)[x] = m.exch[x]
      BY DEF Put, Drop
    <2>8. /\ DOMAIN op(n) = (DOMAIN m.open \ {id}) \cup {n}
          /\ op(n)[n] = ord
          /\ \A x \in DOMAIN m.open \ {id, n} : op(n)[x] = m.open[x]
      BY DEF Put, Drop
    <2> HIDE DEF ex, op, id
    <2>9. /\ a.m.exch = ex(n)
          /\ \/ a.m.open = op(n)
             \/ /\ a.m.open = m.open
                /\ "amend_lost" \in Faults
      BY <1>6, <2>5, <2>6
    <2>10. Sided(a.m)
      <3>1. CASE a.m.open = op(n)
        BY <1>3, <2>1, <2>2, <2>3, <2>4, <2>7, <2>8, <2>9, <3>1
        DEF Sound, Sided
      <3>2. CASE a.m.open = m.open
        BY <1>3, <2>1, <2>2, <2>4, <2>7, <2>9, <3>2 DEF Sound, Sided
      <3> QED BY <2>9, <3>1, <3>2
    <2>11. NoLostOrder => Accounted(a.m)
      <3> SUFFICES ASSUME NoLostOrder, NEW x \in DOMAIN a.m.exch
                   PROVE  /\ x \in DOMAIN a.m.open
                          /\ a.m.open[x].filled + Pending(fills, x)
                               + a.m.exch[x].left <= QuoteSize
        BY DEF Accounted
      <3>1. \A i \in DOMAIN m.exch :
              /\ i \in DOMAIN m.open
              /\ m.open[i].filled + Pending(fills, i) + m.exch[i].left
                   <= QuoteSize
        BY DEF Sound, Accounted
      <3>2. CASE x # n
        <4>1. /\ x \in DOMAIN m.exch \ {id, n}
              /\ a.m.exch[x] = m.exch[x]
          BY <2>7, <2>9, <3>2
        <4>2. x \in DOMAIN a.m.open /\ a.m.open[x] = m.open[x]
          BY <2>8, <2>9, <3>1, <4>1
        <4> QED BY <3>1, <4>1, <4>2
      <3>3. CASE x = n /\ n = id
        <4>1. x \in DOMAIN a.m.open /\ a.m.open[x].filled = m.open[id].filled
          BY <1>3, <2>3, <2>8, <2>9, <3>3
        <4>2. a.m.exch[x].left = m.exch[id].left
          BY <2>2, <2>7, <2>9, <3>3
        <4> QED BY <1>6, <3>1, <3>3, <4>1, <4>2
      <3>4. CASE x = n /\ n # id
        <4>1. "amend_lost" \notin Faults
          BY <2>1, <3>4 DEF NoLostOrder
        <4>2. x \in DOMAIN a.m.open /\ a.m.open[x].filled = m.open[id].filled
          BY <2>3, <2>8, <2>9, <3>4, <4>1
        <4>3. a.m.exch[x].left = m.exch[id].left
          BY <2>2, <2>7, <2>9, <3>4
        <4>4. Pending(fills, x) = 0
          BY <2>1, <3>4, NothingPending
        <4>5. Pending(fills, id) \in Nat
          BY PendingNat
        <4>6. m.open[id].filled \in Int /\ m.exch[id].left \in Int
          <5>1. m.open[id] \in OpenOrder /\ m.exch[id] \in RestingOrder
            BY <1>2, <1>3, <1>6, OrderMapElim
          <5> QED BY <5>1, QuoteConstants DEF OpenOrder, RestingOrder
        <4>7. m.open[id].filled + Pending(fills, id) + m.exch[id].left
                <= QuoteSize
          BY <1>6, <3>1
        <4>8. m.open[id].filled + 0 + m.exch[id].left <= QuoteSize
          BY <4>5, <4>6, <4>7, QuoteConstants
        <4> QED BY <4>2, <4>3, <4>4, <4>8
      <3> QED BY <3>2, <3>3, <3>4
    <2>12. Reducing(m, a.m)
      BY <2>2, <2>4, <2>7, <2>9 DEF Reducing
    <2> QED BY <1>1, <2>10, <2>11, <2>12 DEF Sound
  <1> HIDE DEF id
  <1> QED BY <1>4, <1>5, <1>6

LEMMA FadedSound ==
  ASSUME NEW m, Sound(m), NEW s \in Side, NEW flag \in BOOLEAN
  PROVE  /\ Sound([m EXCEPT !.own = SetFade(@, s, flag)])
         /\ Reducing(m, [m EXCEPT !.own = SetFade(@, s, flag)])
         /\ [m EXCEPT !.own = SetFade(@, s, flag)].own[s].id = m.own[s].id
  <1> DEFINE b == [m EXCEPT !.own = SetFade(@, s, flag)]
             w == SetFade(m.own, s, flag)
  <1>1. GoodBook(b) /\ b.own[s].id = m.own[s].id /\ b.exch = m.exch
    BY FadedGood DEF Sound
  <1>2. b.open = m.open
    <2>1. m = [exch |-> m.exch, open |-> m.open, own |-> m.own]
      BY BookFields DEF Sound, GoodBook
    <2>2. b = [m EXCEPT !.own = w]
      OBVIOUS
    <2> HIDE DEF w, b
    <2> QED BY <2>1, <2>2
  <1> HIDE DEF b
  <1>3. Sound(b) /\ Reducing(m, b) /\ b.own[s].id = m.own[s].id
    BY <1>1, <1>2, SameMaps, ReducingSame
  <1> QED BY <1>3 DEF b

LEMMA RepriceSound ==
  ASSUME NEW m, Sound(m), NEW s \in Side, NEW c \in Cents,
         m.own[s].id # NoId, ~Suppressed(s),
         fills \subseteq Fill, IsFiniteSet(fills),
         NEW o \in Reprice(m, s, c)
  PROVE  Sound(o.m) /\ Reducing(m, o.m)
  <1> DEFINE may == ~WouldCross(m, s, c) /\ RiskOk(s, c)
             amended == IF may THEN Amend(m, s, c) ELSE {Outcome(m, "no")}
  <1>1. PICK a \in amended :
          \/ o = a
          \/ /\ a.res = "no"
             /\ \E r \in Release(a.m, s) :
                  o = r \/ (may /\ o \in PlaceQuote(r.m, s, c))
    BY DEF Reprice
  <1>2. Sound(a.m) /\ Reducing(m, a.m) /\ (a.res = "no" => a.m = m)
    <2>1. CASE may
      <3>1. a.res = "no" => a.m = m
        BY <1>1, <2>1, AmendGood DEF Sound
      <3> QED BY <1>1, <2>1, <3>1, AmendSound
    <2>2. CASE ~may
      <3>1. a.m = m
        BY <1>1, <2>2, OutcomeBook
      <3> QED BY <3>1, ReducingSame
    <2> QED BY <2>1, <2>2
  <1>3. ASSUME NEW r \in Release(m, s)
        PROVE  /\ Sound(r.m) /\ Reducing(m, r.m)
               /\ may => \A x \in PlaceQuote(r.m, s, c) :
                           Sound(x.m) /\ Reducing(m, x.m)
    <2>1. Sound(r.m) /\ Reducing(m, r.m)
      BY <1>3, ReleaseSound
    <2>2. r.m.own[Other(s)] = m.own[Other(s)]
      BY <1>3, ReleaseGood DEF Sound
    <2>3. may => ~WouldCross(r.m, s, c)
      BY <2>2 DEF WouldCross
    <2>4. ASSUME may, NEW x \in PlaceQuote(r.m, s, c)
          PROVE  Sound(x.m) /\ Reducing(m, x.m)
      <3>1. Sound(x.m) /\ Reducing(r.m, x.m)
        BY <2>1, <2>3, <2>4, PlaceSound
      <3> QED BY <2>1, <3>1, ReducingTrans
    <2> QED BY <2>1, <2>4
  <1> QED BY <1>1, <1>2, <1>3

LEMMA RefreshSound ==
  ASSUME NEW m, Sound(m), NEW s \in Side, NEW c \in Cents, ~Suppressed(s),
         fills \subseteq Fill, IsFiniteSet(fills),
         NEW o \in Refresh(m, s, c)
  PROVE  Sound(o.m) /\ Reducing(m, o.m)
  <1> DEFINE unfaded == [m EXCEPT !.own = SetFade(@, s, FALSE)]
  <1>1. /\ Sound(unfaded) /\ Reducing(m, unfaded)
        /\ unfaded.own[s].id = m.own[s].id
    BY FadedSound
  <1>2. CASE o.m = m
    BY <1>2, ReducingSame
  <1>3. CASE ~WouldCross(m, s, c) /\ o \in PlaceQuote(m, s, c)
    BY <1>3, PlaceSound
  <1>4. CASE \E flag \in BOOLEAN :
               o.m = [m EXCEPT !.own = SetFade(@, s, flag)]
    <2>1. PICK flag \in BOOLEAN : o.m = [m EXCEPT !.own = SetFade(@, s, flag)]
      BY <1>4
    <2> QED BY <2>1, FadedSound
  <1>5. CASE m.own[s].id # NoId /\ o \in Reprice(unfaded, s, c)
    <2> HIDE DEF unfaded
    <2>1. Sound(o.m) /\ Reducing(unfaded, o.m)
      BY <1>1, <1>5, RepriceSound
    <2> QED BY <1>1, <2>1, ReducingTrans
  <1> QED BY <1>2, <1>3, <1>4, <1>5, RefreshCases

LEMMA SuppressSound ==
  ASSUME NEW m, Sound(m), NEW s \in Side, NEW o \in Suppress(m, s)
  PROVE  Sound(o.m) /\ Reducing(m, o.m)
  <1>1. CASE m.own[s].id # NoId /\ o \in Release(m, s)
    BY <1>1, ReleaseSound
  <1>2. CASE o = Outcome(m, "ok")
    BY <1>2, OutcomeBook, ReducingSame
  <1> QED BY <1>1, <1>2 DEF Suppress

LEMMA RefreshIfSound ==
  ASSUME NEW m, Sound(m), NEW s \in Side, NEW c \in Cents \cup {0},
         fills \subseteq Fill, IsFiniteSet(fills),
         NEW o \in RefreshIf(m, s, c)
  PROVE  Sound(o.m) /\ Reducing(m, o.m)
  <1>1. CASE c \in Cents /\ ~Suppressed(s) /\ o \in Refresh(m, s, c)
    BY <1>1, RefreshSound
  <1>2. CASE o = Outcome(m, "ok")
    BY <1>2, OutcomeBook, ReducingSame
  <1> QED BY <1>1, <1>2 DEF RefreshIf

LEMMA UpdateSound ==
  ASSUME NEW m, Sound(m), NEW bid \in Cents \cup {0},
         NEW ask \in Cents \cup {0},
         fills \subseteq Fill, IsFiniteSet(fills),
         NEW o \in Update(m, bid, ask)
  PROVE  Sound(o.m) /\ Reducing(m, o.m)
  <1>1. PICK o1 \in Suppress(m, "bid") :
          \/ o = o1
          \/ \E o2 \in Suppress(o1.m, "ask") :
               \/ o = o2
               \/ \E o3 \in RefreshIf(o2.m, "bid", bid) :
                    o = o3 \/ o \in RefreshIf(o3.m, "ask", ask)
    BY DEF Update, Then
  <1>2. "bid" \in Side /\ "ask" \in Side
    BY DEF Side
  <1>3. Sound(o1.m) /\ Reducing(m, o1.m)
    BY <1>2, SuppressSound
  <1>4. CASE o = o1
    BY <1>3, <1>4
  <1>5. ASSUME NEW o2 \in Suppress(o1.m, "ask")
        PROVE  Sound(o2.m) /\ Reducing(m, o2.m)
    <2>1. Sound(o2.m) /\ Reducing(o1.m, o2.m)
      BY <1>2, <1>3, <1>5, SuppressSound
    <2> QED BY <1>3, <2>1, ReducingTrans
  <1>6. ASSUME NEW o2 \in Suppress(o1.m, "ask"),
               NEW o3 \in RefreshIf(o2.m, "bid", bid)
        PROVE  Sound(o3.m) /\ Reducing(m, o3.m)
    <2>1. Sound(o2.m) /\ Reducing(m, o2.m)
      BY <1>5
    <2>2. Sound(o3.m) /\ Reducing(o2.m, o3.m)
      BY <1>2, <1>6, <2>1, RefreshIfSound
    <2> QED BY <2>1, <2>2, ReducingTrans
  <1>7. ASSUME NEW o2 \in Suppress(o1.m, "ask"),
               NEW o3 \in RefreshIf(o2.m, "bid", bid),
               NEW o4 \in RefreshIf(o3.m, "ask", ask)
        PROVE  Sound(o4.m) /\ Reducing(m, o4.m)
    <2>1. Sound(o3.m) /\ Reducing(m, o3.m)
      BY <1>6
    <2>2. Sound(o4.m) /\ Reducing(o3.m, o4.m)
      BY <1>2, <1>7, <2>1, RefreshIfSound
    <2> QED BY <2>1, <2>2, ReducingTrans
  <1> QED BY <1>1, <1>4, <1>5, <1>6, <1>7

\* cancel_all erases an order from open_orders_ only with the exchange's word
\* that it is gone.
LEMMA CancelAllSound ==
  ASSUME NEW m, Sound(m), NEW b \in CancelAll(m)
  PROVE  /\ Sound([b EXCEPT !.own = NoQuotes])
         /\ Reducing(m, [b EXCEPT !.own = NoQuotes])
  <1> DEFINE resting == DOMAIN m.open \cap DOMAIN m.exch
             c == [b EXCEPT !.own = NoQuotes]
  <1>1. m \in BookSet
    BY DEF Sound, GoodBook
  <1>2. PICK K, L : b = [m EXCEPT !.exch = Drop(@, resting \ K),
                                  !.open = Drop(@, resting \ (K \cup L))]
    BY DEF CancelAll
  <1> DEFINE e == Drop(m.exch, resting \ K)
             op == Drop(m.open, resting \ (K \cup L))
  <1>3. m = [exch |-> m.exch, open |-> m.open, own |-> m.own]
    BY <1>1, BookFields
  <1>4. b = [exch |-> e, open |-> op, own |-> m.own]
    BY <1>2, <1>3
  <1>5. GoodBook(c)
    BY <1>1, CancelAllFacts
  <1>6. /\ DOMAIN e \subseteq DOMAIN m.exch
        /\ \A i \in DOMAIN e : e[i] = m.exch[i]
        /\ DOMAIN op \subseteq DOMAIN m.open
        /\ \A i \in DOMAIN op : op[i] = m.open[i]
        /\ DOMAIN e \cap DOMAIN m.open \subseteq DOMAIN op
    BY DEF Drop
  <1> HIDE DEF e, op
  <1>7. c.exch = e /\ c.open = op
    BY <1>4
  <1> HIDE DEF c
  <1>8. Sound(c) /\ Reducing(m, c)
    BY <1>5, <1>6, <1>7, FewerSound
  <1> QED BY <1>8 DEF c

\* A fill that joins the set is pending for its own order only.
LEMMA PendingAdd ==
  ASSUME NEW fs \in SUBSET Fill, IsFiniteSet(fs), NEW f \in Fill, f \notin fs,
         NEW id
  PROVE  Pending(fs \cup {f}, id)
           = Pending(fs, id) + (IF f.order = id THEN f.qty ELSE 0)
  <1> DEFINE all == fs \cup {f}
             g == [x \in all |-> x.qty]
             h == [x \in fs |-> x.qty]
             K == {x \in fs : x.order = id}
             N == {x \in all : x.order = id}
  <1>1. IsFiniteSet(K) /\ f \notin K
    BY FS_Subset
  <1>2. \A x \in K \cup {f} : g[x] \in Int
    BY QuoteConstants DEF Fill
  <1>3. g[f] = f.qty /\ \A x \in K : g[x] = h[x]
    OBVIOUS
  <1>4. Pending(all, id) = SumFunctionOnSet(g, N)
    BY DEF Pending
  <1>5. Pending(fs, id) = SumFunctionOnSet(h, K) /\ Pending(fs, id) \in Nat
    BY PendingNat DEF Pending
  <1>6. (f.order = id => N = K \cup {f}) /\ (f.order # id => N = K)
    OBVIOUS
  <1> HIDE DEF g, h, K, N
  <1>7. SumFunctionOnSet(g, K) = SumFunctionOnSet(h, K)
    BY <1>1, <1>3, SumEqual
  <1>8. SumFunctionOnSet(g, K \cup {f}) = SumFunctionOnSet(g, K) + g[f]
    BY <1>1, <1>2, SumAdd
  <1> QED BY <1>3, <1>4, <1>5, <1>6, <1>7, <1>8

SidesAgree ==
  \A id \in DOMAIN exch \cap DOMAIN open : exch[id].side = open[id].side

OrdersAccounted ==
  \A id \in DOMAIN exch :
    /\ id \in DOMAIN open
    /\ open[id].filled + Pending(fills, id) + exch[id].left <= QuoteSize

\* The inductive invariant of the whole module.
FullInv ==
  /\ QuoteInv
  /\ FlightInv
  /\ SidesAgree
  /\ NoLostOrder => OrdersAccounted

LEMMA FullBook ==
  ASSUME FullInv
  PROVE  Sound(Book) /\ fills \subseteq Fill /\ IsFiniteSet(fills)
  <1>1. GoodBook(Book)
    BY InvBook DEF FullInv
  <1>2. Book.exch = exch /\ Book.open = open
    BY DEF Book
  <1>3. Sided(Book)
    BY <1>2 DEF FullInv, SidesAgree, Sided
  <1>4. NoLostOrder => Accounted(Book)
    BY <1>2 DEF FullInv, OrdersAccounted, Accounted
  <1> QED BY <1>1, <1>3, <1>4 DEF Sound, FullInv, FlightInv, QuoteInv, TypeOK

\* What a handler of the session leaves, and which orders are new in it.
LEMMA HandlerBook ==
  ASSUME FullInv, RunQuoter \/ CancelAllQuotes
  PROVE  \E b : Sound(b) /\ Reducing(Book, b) /\ SetBook(b)
  <1>1. Sound(Book) /\ fills \subseteq Fill /\ IsFiniteSet(fills)
    BY FullBook
  <1>2. CASE RunQuoter
    <2>1. PICK p \in Desired :
            \E o \in Update(Book, p[1], p[2]) : SetBook(o.m)
      BY <1>2 DEF RunQuoter
    <2>2. PICK o \in Update(Book, p[1], p[2]) : SetBook(o.m)
      BY <2>1
    <2>3. p[1] \in Cents \cup {0} /\ p[2] \in Cents \cup {0}
      BY DEF Desired
    <2>4. Sound(o.m) /\ Reducing(Book, o.m)
      BY <1>1, <2>3, UpdateSound
    <2> QED BY <2>2, <2>4
  <1>3. CASE CancelAllQuotes
    <2>1. PICK m \in CancelAll(Book) : SetBook([m EXCEPT !.own = NoQuotes])
      BY <1>3 DEF CancelAllQuotes
    <2>2. /\ Sound([m EXCEPT !.own = NoQuotes])
          /\ Reducing(Book, [m EXCEPT !.own = NoQuotes])
      BY <1>1, CancelAllSound
    <2> QED BY <2>1, <2>2
  <1> QED BY <1>2, <1>3

LEMMA OnFillFull ==
  ASSUME FullInv, NEW f \in fills, OnFill(f)
  PROVE  SidesAgree' /\ (NoLostOrder => OrdersAccounted)'
  <1>1. QuoteInv /\ f \in Fill /\ f.qty \in Nat
    BY QuoteConstants DEF FullInv, QuoteInv, TypeOK, Fill
  <1>2. /\ fills' = fills \ {f} /\ exch' = exch
        /\ open' = FilledOpen(f)
    BY DEF OnFill
  <1>3. SidesAgree'
    <2>1. /\ DOMAIN open' \subseteq DOMAIN open
          /\ \A id \in DOMAIN open' : open'[id].side = open[id].side
      BY <1>1, <1>2, FilledOpenFacts
    <2> QED BY <1>2, <2>1 DEF FullInv, SidesAgree
  <1>4. ASSUME NoLostOrder, NEW id \in DOMAIN exch
        PROVE  /\ id \in DOMAIN open'
               /\ open'[id].filled + Pending(fills', id) + exch[id].left
                    <= QuoteSize
    <2>1. /\ id \in DOMAIN open
          /\ open[id].filled + Pending(fills, id) + exch[id].left <= QuoteSize
      BY <1>4 DEF FullInv, OrdersAccounted
    <2>2. /\ fills' \in SUBSET Fill /\ IsFiniteSet(fills')
          /\ f \notin fills' /\ fills = fills' \cup {f}
      BY <1>2, FS_Subset DEF FullInv, FlightInv, QuoteInv, TypeOK
    <2>3. Pending(fills, id)
            = Pending(fills', id) + (IF f.order = id THEN f.qty ELSE 0)
      BY <1>1, <2>2, PendingAdd
    <2>4. Pending(fills', id) \in Nat
      BY <2>2, PendingNat
    <2>5. open[id] \in OpenOrder /\ exch[id] \in RestingOrder
      BY <1>1, <2>1, OrderMapType, OrderMapElim DEF QuoteInv, TypeOK
    <2>6. /\ open[id].filled \in Nat /\ open[id].quantity = QuoteSize
          /\ exch[id].left \in Nat /\ exch[id].left >= 1
          /\ QuoteSize \in Nat
      BY <2>5, QuoteConstants DEF OpenOrder, RestingOrder
    <2>7. CASE f.order # id
      <3>1. id \in DOMAIN open' /\ open'[id] = open[id]
        BY <1>2, <2>1, <2>7 DEF FilledOpen, Drop
      <3>2. Pending(fills, id) = Pending(fills', id)
        BY <2>3, <2>4, <2>7
      <3> QED BY <2>1, <3>1, <3>2
    <2>8. CASE f.order = id
      <3>1. Pending(fills, id) = Pending(fills', id) + f.qty
        BY <2>3, <2>8
      <3>2. /\ (open[id].filled + f.qty) + Pending(fills', id) + exch[id].left
                 <= QuoteSize
            /\ ~(open[id].filled + f.qty >= open[id].quantity)
        BY <1>1, <2>1, <2>4, <2>6, <3>1
      <3> DEFINE ord == [open[id] EXCEPT !.filled = open[id].filled + f.qty]
      <3>3. ord.filled = open[id].filled + f.qty
        BY <2>5 DEF OpenOrder
      <3>4. open' = [open EXCEPT ![id] = ord]
        BY <1>2, <2>1, <2>8, <3>2 DEF FilledOpen
      <3> HIDE DEF ord
      <3>5. id \in DOMAIN open' /\ open'[id] = ord
        BY <2>1, <3>4
      <3> QED BY <3>2, <3>3, <3>5
    <2> QED BY <2>7, <2>8
  <1> QED BY <1>2, <1>3, <1>4 DEF OrdersAccounted, NoLostOrder

LEMMA ExchangeFillFull ==
  ASSUME FullInv, NEW id \in DOMAIN exch, NEW q \in 1..QuoteSize,
         ExchangeFill(id, q)
  PROVE  SidesAgree' /\ (NoLostOrder => OrdersAccounted)'
  <1> DEFINE f == [trade |-> trades + 1, order |-> id, side |-> exch[id].side,
                   qty |-> q]
             rest == [exch[id] EXCEPT !.left = @ - q]
  <1>1. /\ exch[id] \in RestingOrder
        /\ open' = open
        /\ fills' = fills \cup {f} /\ f.order = id /\ f.qty = q
        /\ f.trade = trades + 1
        /\ exch' = IF q = exch[id].left THEN Drop(exch, {id})
                   ELSE [exch EXCEPT ![id].left = @ - q]
    BY OrderMapType, OrderMapElim DEF ExchangeFill, FullInv, QuoteInv, TypeOK
  <1>2. rest.side = exch[id].side /\ rest.left = exch[id].left - q
    BY <1>1 DEF RestingOrder
  <1>3. /\ DOMAIN exch' \subseteq DOMAIN exch
        /\ \A x \in DOMAIN exch' :
             exch'[x] = IF x = id THEN rest ELSE exch[x]
    <2>1. CASE q = exch[id].left
      BY <1>1, <2>1 DEF Drop
    <2>2. CASE q # exch[id].left
      <3>1. exch' = [exch EXCEPT ![id] = rest]
        BY <1>1, <2>2
      <3> HIDE DEF rest
      <3> QED BY <3>1
    <2> QED BY <2>1, <2>2
  <1>4. f \in Fill /\ f \notin fills
    <2>1. QuoteInv'
      BY ExchangeFillInv DEF FullInv
    <2>2. f \in Fill
      BY <1>1, <2>1 DEF QuoteInv, TypeOK
    <2>3. /\ \A g \in fills : g.trade <= trades
          /\ trades \in Nat
      BY DEF FullInv, FlightInv, QuoteInv, TypeOK
    <2>4. ~(trades + 1 <= trades)
      BY <2>3
    <2> HIDE DEF f
    <2> QED BY <1>1, <2>2, <2>3, <2>4
  <1> HIDE DEF f, rest
  <1>5. SidesAgree'
    <2>1. \A x \in DOMAIN exch' : exch'[x].side = exch[x].side
      BY <1>2, <1>3
    <2>2. open' = open
      BY <1>1
    <2> QED BY <1>3, <2>1, <2>2 DEF FullInv, SidesAgree
  <1>6. ASSUME NoLostOrder, NEW x \in DOMAIN exch'
        PROVE  /\ x \in DOMAIN open
               /\ open[x].filled + Pending(fills', x) + exch'[x].left
                    <= QuoteSize
    <2>1. /\ x \in DOMAIN open /\ x \in DOMAIN exch
          /\ open[x].filled + Pending(fills, x) + exch[x].left <= QuoteSize
      BY <1>3, <1>6 DEF FullInv, OrdersAccounted
    <2>2. fills \in SUBSET Fill /\ IsFiniteSet(fills)
      BY DEF FullInv, FlightInv, QuoteInv, TypeOK
    <2>3. Pending(fills', x)
            = Pending(fills, x) + (IF f.order = x THEN f.qty ELSE 0)
      BY <1>1, <1>4, <2>2, PendingAdd
    <2>4. Pending(fills, x) \in Nat
      BY <2>2, PendingNat
    <2>5. open[x] \in OpenOrder /\ exch[x] \in RestingOrder
      BY <2>1, OrderMapType, OrderMapElim DEF FullInv, QuoteInv, TypeOK
    <2>6. open[x].filled \in Nat /\ exch[x].left \in Nat /\ QuoteSize \in Nat
      BY <2>5, QuoteConstants DEF OpenOrder, RestingOrder
    <2>7. CASE x # id
      <3>1. exch'[x] = exch[x]
        BY <1>3, <1>6, <2>7
      <3>2. f.order # x
        BY <1>1, <2>7
      <3>3. Pending(fills', x) = Pending(fills, x)
        BY <2>3, <2>4, <3>2
      <3> QED BY <2>1, <3>1, <3>3
    <2>8. CASE x = id
      <3>1. /\ Pending(fills', x) = Pending(fills, x) + q
            /\ exch'[x].left = exch[x].left - q
        BY <1>1, <1>2, <1>3, <1>6, <2>3, <2>8
      <3>2. q \in Nat
        BY QuoteConstants
      <3> QED BY <2>1, <2>4, <2>6, <3>1, <3>2
    <2> QED BY <2>7, <2>8
  <1> QED BY <1>1, <1>5, <1>6 DEF OrdersAccounted, NoLostOrder

LEMMA FullInit == Init => FullInv
  <1> SUFFICES ASSUME Init PROVE FullInv
    OBVIOUS
  <1>1. DOMAIN exch = {}
    BY DEF Init
  <1> QED
    BY <1>1, QuoteInvInit, FlightInit DEF FullInv, SidesAgree, OrdersAccounted

LEMMA FullStep == FullInv /\ [Next]_vars => FullInv'
  <1> SUFFICES ASSUME FullInv, [Next]_vars PROVE FullInv'
    OBVIOUS
  <1>1. QuoteInv' /\ FlightInv'
    BY QuoteInvStep, FlightStep DEF FullInv
  <1> SUFFICES SidesAgree' /\ (NoLostOrder => OrdersAccounted)'
    BY <1>1 DEF FullInv
  <1>2. CASE /\ RunQuoter \/ CancelAllQuotes
             /\ UNCHANGED fills
    <2>1. PICK b : Sound(b) /\ Reducing(Book, b) /\ SetBook(b)
      BY <1>2, HandlerBook
    <2>2. exch' = b.exch /\ open' = b.open /\ fills' = fills
      BY <1>2, <2>1 DEF SetBook
    <2>3. SidesAgree'
      BY <2>1, <2>2 DEF Sound, Sided, SidesAgree
    <2>4. (NoLostOrder => OrdersAccounted)'
      BY <2>1, <2>2 DEF Sound, Accounted, OrdersAccounted, NoLostOrder
    <2> QED BY <2>3, <2>4
  <1>3. CASE UNCHANGED <<exch, open, fills>>
    BY <1>3 DEF FullInv, SidesAgree, OrdersAccounted, NoLostOrder
  <1>4. CASE \E f \in fills : OnFill(f)
    BY <1>4, OnFillFull
  <1>5. CASE ExchangePause
    <2>1. DOMAIN exch' = {}
      BY <1>5 DEF ExchangePause, Drop
    <2> QED BY <2>1 DEF SidesAgree, OrdersAccounted
  <1>6. CASE \E id \in DOMAIN exch : \E q \in 1..QuoteSize : ExchangeFill(id, q)
    BY <1>6, ExchangeFillFull
  <1> QED
    BY <1>2, <1>3, <1>4, <1>5, <1>6
    DEF Next, vars, external, OnDelta, RequoteIdleMarkets, RunQuoter,
        OnDisconnect, EnforceQuoteSafety, FeedDead, CancelAllQuotes,
        SetHalted, WindDown

\* In the wind-down an order is new only on a side that is not suppressed.
LEMMA WindDownStep ==
  FullInv /\ Next =>
    (reduceOnly => \A id \in DOMAIN exch' \ DOMAIN exch :
       IF exch'[id].side = "bid" THEN net < 0 ELSE net > 0)
  <1> SUFFICES ASSUME FullInv, Next, reduceOnly,
                      NEW id \in DOMAIN exch' \ DOMAIN exch
               PROVE  IF exch'[id].side = "bid" THEN net < 0 ELSE net > 0
    OBVIOUS
  <1>1. CASE RunQuoter \/ CancelAllQuotes
    <2>1. PICK b : Sound(b) /\ Reducing(Book, b) /\ SetBook(b)
      BY <1>1, HandlerBook
    <2>2. exch' = b.exch /\ Book.exch = exch
      BY <2>1 DEF SetBook, Book
    <2>3. ~Suppressed(exch'[id].side)
      BY <2>1, <2>2 DEF Reducing
    <2>4. net \in Int
      BY DEF FullInv, QuoteInv, TypeOK
    <2> QED BY <2>3, <2>4 DEF Suppressed
  <1>2. CASE DOMAIN exch' \subseteq DOMAIN exch
    BY <1>2
  <1>3. CASE ExchangePause
    BY <1>3 DEF ExchangePause, Drop
  <1>4. CASE \E i \in DOMAIN exch : \E q \in 1..QuoteSize : ExchangeFill(i, q)
    <2>1. PICK i \in DOMAIN exch, q \in 1..QuoteSize : ExchangeFill(i, q)
      BY <1>4
    <2>2. \/ exch' = Drop(exch, {i})
          \/ exch' = [exch EXCEPT ![i].left = @ - q]
      BY <2>1 DEF ExchangeFill
    <2> QED BY <1>2, <2>2 DEF Drop
  <1> QED
    BY <1>1, <1>2, <1>3, <1>4
    DEF Next, OnDelta, RequoteIdleMarkets, OnFill, OnDisconnect,
        EnforceQuoteSafety, FeedDead, SetHalted, WindDown

\* Reduce-only holds through every path that can create an order, the amend
\* that answers with a new id included, for all limits and all faults.
THEOREM WindDownOnlyReduces == Spec => WindDownReduces
  <1>1. FullInv /\ [Next]_vars =>
          [reduceOnly => \A id \in DOMAIN exch' \ DOMAIN exch :
             IF exch'[id].side = "bid" THEN net < 0 ELSE net > 0]_vars
    BY WindDownStep
  <1> QED BY <1>1, FullInit, FullStep, PTL DEF Spec, WindDownReduces

\* The OrderManager forgets no resting order, whatever else goes wrong, as
\* long as no answer is lost that would have told it an order's id.
THEOREM NoOrderForgotten ==
  ASSUME NoLostOrder
  PROVE  Spec => []OrdersNotForgotten
  <1>1. FullInv => OrdersNotForgotten
    BY DEF FullInv, OrdersAccounted, OrdersNotForgotten
  <1> QED BY <1>1, FullInit, FullStep, PTL DEF Spec
=============================================================================
