------------------------------ MODULE Orderbook ------------------------------
(***************************************************************************)
(* LocalOrderbook (engine/orderbook.cpp): the book of one market as two    *)
(* ladders of levels, best price first, and the prices read off it.        *)
(*                                                                         *)
(* A level is [price, qty]; qty counts contracts and price cents.  A book  *)
(* is [yes, no], each a sequence of levels; the YES ask is implied by the  *)
(* best NO level.  Prices the code computes as doubles are fractions       *)
(* <<numerator, denominator>>.                                             *)
(***************************************************************************)
EXTENDS Integers, SequencesExt

Complement(price) == 100 - price
EmptyBook == [yes |-> <<>>, no |-> <<>>]
Sides == {"yes", "no"}

Level(price, qty) == [price |-> price, qty |-> qty]
BetterPrice(left, right) == left.price > right.price

(* std::sort by price: the i-th level is the one that i levels precede,    *)
(* itself included.                                                        *)
BestFirst(levels) ==
    LET rank == [k \in DOMAIN levels |-> Cardinality({j \in DOMAIN levels :
                    \/ BetterPrice(levels[j], levels[k])
                    \/ j <= k /\ levels[j].price = levels[k].price})]
    IN  [i \in DOMAIN levels |-> levels[CHOOSE k \in DOMAIN levels : rank[k] = i]]

ApplySnapshot(snap) == [s \in Sides |-> BestFirst(snap[s])]

(* Mutant: the search passes the level it looks for.                       *)
MutInsertionPoint(levels, price) ==
    1 + Cardinality({i \in DOMAIN levels : levels[i].price >= price})

(* lower_bound on a descending ladder: behind every better price.          *)
InsertionPoint(levels, price) ==
    1 + Cardinality({i \in DOMAIN levels : levels[i].price > price})

HasLevel(levels, price) ==
    LET i == InsertionPoint(levels, price)
    IN  i <= Len(levels) /\ levels[i].price = price

Adjusted(levels, i, delta) ==
    LET qty == levels[i].qty + delta
    IN  IF qty <= 0 THEN RemoveAt(levels, i) ELSE [levels EXCEPT ![i].qty = qty]

(* A signed increment of one level's size; a decrement of a level that is  *)
(* not there is dropped.                                                   *)
ApplyDelta(book, side, price, delta) ==
    LET levels == book[side]
        i == InsertionPoint(levels, price)
    IN  [book EXCEPT ![side] =
            IF HasLevel(levels, price) THEN Adjusted(levels, i, delta)
            ELSE IF delta > 0 THEN InsertAt(levels, i, Level(price, delta))
            ELSE levels]

-----------------------------------------------------------------------------
(* Prices.  The callers ask for them of a book with both sides only.       *)
TwoSided(book) == book.yes # <<>> /\ book.no # <<>>
BestBid(book) == Head(book.yes)
BestAsk(book) == Level(Complement(Head(book.no).price), Head(book.no).qty)

(* Twice the mid, 0 when a side is empty.                                  *)
DoubleMid(book) ==
    IF TwoSided(book) THEN BestBid(book).price + BestAsk(book).price ELSE 0

SpreadCents(book) ==
    IF TwoSided(book) THEN BestAsk(book).price - BestBid(book).price ELSE 0

(* Mutant: each side is weighted by its own size.                          *)
MutMicroPrice(book) ==
    <<BestBid(book).price * BestBid(book).qty + BestAsk(book).price * BestAsk(book).qty,
      BestBid(book).qty + BestAsk(book).qty>>

(* Each side's price weighted by the opposite side's size.                 *)
MicroPrice(book) ==
    <<BestBid(book).price * BestAsk(book).qty + BestAsk(book).price * BestBid(book).qty,
      BestBid(book).qty + BestAsk(book).qty>>

(* What the first `depth` levels of side s add up to, weighted by size and *)
(* by decay[d], d the distance from the mid in half cents.                 *)
SideDepth(book, s, depth, decay) ==
    LET levels == book[s]
        price(i) == IF s = "yes" THEN levels[i].price ELSE Complement(levels[i].price)
        used == 1..(IF depth > 0 /\ depth < Len(levels) THEN depth ELSE Len(levels))
        dist(i) == LET d == 2 * price(i) - DoubleMid(book)
                   IN  IF d < 0 THEN 0 - d ELSE d
        weight(i) == levels[i].qty * decay[dist(i)]
    IN  <<SumFunctionOnSet([i \in used |-> weight(i)], used),
          SumFunctionOnSet([i \in used |-> weight(i) * price(i)], used)>>

(* clearing_price_cents: the micro-price of the whole ladder.              *)
ClearingPrice(book, depth, decay) ==
    LET bid == SideDepth(book, "yes", depth, decay)
        ask == SideDepth(book, "no", depth, decay)
    IN  <<bid[2] * ask[1] * ask[1] + ask[2] * bid[1] * bid[1],
          bid[1] * ask[1] * (bid[1] + ask[1])>>
=============================================================================
