-------------------------- MODULE OrderbookProofs --------------------------
(***************************************************************************)
(* Proofs about the two modules that read books, FeedBook and              *)
(* MarketScanner, and the ladders of Orderbook: of a feed for any set of   *)
(* prices and any number of changes, losses and drops; of a scan for any   *)
(* listing, configuration and answers.                                     *)
(***************************************************************************)
EXTENDS FeedBook, MarketScanner, SumTheorems

-----------------------------------------------------------------------------
(* Ladders.  A ladder is what a book keeps of one side.                    *)

Levels == [price : Prices, qty : Nat]

(* L holds the levels of f, which gives every price its size, best first.  *)
IsLadder(L, f) ==
    /\ L \in Seq(Levels)
    /\ \A i, j \in 1..Len(L) : i < j => L[i].price > L[j].price
    /\ \A i \in 1..Len(L) : L[i].qty = f[L[i].price] /\ L[i].qty > 0
    /\ \A p \in Prices : f[p] > 0 => \E i \in 1..Len(L) : L[i].price = p

(* A level is its price and its size.                                      *)
LEMMA LevelFacts ==
    /\ \A x \in Levels : x.price \in Prices /\ x.qty \in Nat
    /\ \A x, y \in Levels : x.price = y.price /\ x.qty = y.qty => x = y
    /\ \A p, q : Level(p, q).price = p /\ Level(p, q).qty = q
    /\ \A p \in Prices, q \in Nat : Level(p, q) \in Levels
BY DEF Levels, Level

(* Prices are numbers, and finitely many.                                  *)
LEMMA PricesFinite ==
    /\ IsFiniteSet(Prices) /\ Prices \subseteq Nat
    /\ \A S \in SUBSET Prices : IsFiniteSet(S) /\ Cardinality(S) \in Nat
<1>1. IsFiniteSet(1..99)
  <2>1. 1 \in Int /\ 99 \in Int
    OBVIOUS
  <2> QED BY <2>1, FS_Interval
<1>2. Prices \in SUBSET (1..99)
  BY BoundsAssumption
<1>3. IsFiniteSet(Prices)
  BY <1>1, <1>2, FS_Subset
<1>4. ASSUME NEW S \in SUBSET Prices PROVE IsFiniteSet(S) /\ Cardinality(S) \in Nat
  BY <1>3, FS_Subset, FS_CardinalityType
<1> QED BY <1>2, <1>3, <1>4

(* A set of naturals has a least element.                                  *)
LEMMA LeastOf ==
    ASSUME NEW S \in SUBSET Nat, S # {}
    PROVE  \E m \in S : \A x \in S : m <= x
<1> DEFINE less == {ss \in Nat \X Nat : ss[1] < ss[2]}
<1>1. IsWellFoundedOn(less, Nat)
  BY NatLessThanWellFounded DEF OpToRel
<1>2. PICK m \in S : \A k \in S : ~(<<k, m>> \in less)
  <2> HIDE DEF less
  <2> QED BY <1>1, WFMin
<1>3. \A k \in S : ~(k < m)
  BY <1>2
<1> QED BY <1>3

(* How many levels of a ladder are better than its k-th: k - 1.            *)
LEMMA BetterLevels ==
    ASSUME NEW f, NEW L, IsLadder(L, f), NEW k \in 1..Len(L)
    PROVE  Cardinality({q \in Prices : f[q] > 0 /\ q > L[k].price}) = k - 1
<1> DEFINE better == {q \in Prices : f[q] > 0 /\ q > L[k].price}
           priceAt == [i \in 1..(k - 1) |-> L[i].price]
<1>1. /\ L \in Seq(Levels) /\ Len(L) \in Nat
      /\ \A i \in 1..Len(L) : L[i].price \in Prices /\ L[i].price \in Nat
  <2>1. L \in Seq(Levels)
    BY DEF IsLadder
  <2>2. Len(L) \in Nat /\ \A i \in 1..Len(L) : L[i] \in Levels
    BY <2>1
  <2> QED BY <2>1, <2>2, PricesFinite, LevelFacts
<1>2. priceAt \in [1..(k - 1) -> better]
  <2> SUFFICES ASSUME NEW i \in 1..(k - 1) PROVE L[i].price \in better
    OBVIOUS
  <2>1. i \in 1..Len(L) /\ i < k
    BY <1>1
  <2> QED BY <1>1, <2>1 DEF IsLadder
<1>3. \A i, j \in 1..(k - 1) : i # j => priceAt[i] # priceAt[j]
  <2> SUFFICES ASSUME NEW i \in 1..(k - 1), NEW j \in 1..(k - 1), i < j
               PROVE  L[i].price # L[j].price
    OBVIOUS
  <2> QED BY <1>1 DEF IsLadder
<1>4. ASSUME NEW q \in better PROVE \E i \in 1..(k - 1) : priceAt[i] = q
  <2>1. PICK i \in 1..Len(L) : L[i].price = q
    BY DEF IsLadder
  <2>2. i < k
    BY <1>1, <2>1 DEF IsLadder
  <2> QED BY <1>1, <2>1, <2>2
<1>5. priceAt \in Bijection(1..(k - 1), better)
  <2> HIDE DEF better, priceAt
  <2> QED BY <1>2, <1>3, <1>4 DEF Bijection, Injection, Surjection, IsInjective
<1>6. IsFiniteSet(1..(k - 1)) /\ Cardinality(1..(k - 1)) = k - 1
  <2>1. 1 \in Int /\ k - 1 \in Int /\ k >= 1
    BY <1>1
  <2>2. IsFiniteSet(1..(k - 1)) /\ Cardinality(1..(k - 1)) = IF 1 > k - 1 THEN 0 ELSE k - 1 - 1 + 1
    BY <2>1, FS_Interval
  <2> QED BY <2>1, <2>2
<1> QED BY <1>5, <1>6, FS_Bijection DEF ExistsBijection

(* There is one ladder for a side's sizes.                                 *)
LEMMA OneLadder ==
    ASSUME NEW f, NEW L, NEW M, IsLadder(L, f), IsLadder(M, f)
    PROVE  L = M
<1>1. ASSUME NEW A, NEW B, IsLadder(A, f), IsLadder(B, f), NEW k \in 1..Len(A)
      PROVE  k \in 1..Len(B) /\ A[k] = B[k]
  <2>1. A[k].price \in Prices /\ f[A[k].price] > 0
    BY <1>1, LevelFacts DEF IsLadder
  <2>2. PICK j \in 1..Len(B) : B[j].price = A[k].price
    BY <1>1, <2>1 DEF IsLadder
  <2>3. k - 1 = j - 1
    <3> DEFINE above(L0, i) == Cardinality({q \in Prices : f[q] > 0 /\ q > L0[i].price})
    <3>1. above(A, k) = k - 1
      BY <1>1, BetterLevels
    <3>2. above(B, j) = j - 1
      BY <1>1, BetterLevels
    <3> QED BY <2>2, <3>1, <3>2
  <2>4. Len(A) \in Nat /\ Len(B) \in Nat
    BY <1>1 DEF IsLadder
  <2>5. k = j
    BY <2>3, <2>4
  <2>6. A[k] \in Levels /\ B[k] \in Levels
    BY <1>1, <2>5 DEF IsLadder
  <2>7. A[k].qty = B[k].qty
    BY <1>1, <2>2, <2>5 DEF IsLadder
  <2> QED BY <2>2, <2>5, <2>6, <2>7, LevelFacts
<1>2. /\ L \in Seq(Levels) /\ Len(L) \in Nat
      /\ M \in Seq(Levels) /\ Len(M) \in Nat
  BY DEF IsLadder
<1>3. Len(L) = Len(M)
  <2>1. CASE Len(L) > Len(M)
    BY <1>1, <1>2, <2>1
  <2>2. CASE Len(M) > Len(L)
    BY <1>1, <1>2, <2>2
  <2> QED BY <1>2, <2>1, <2>2
<1>4. \A k \in 1..Len(L) : L[k] = M[k]
  BY <1>1
<1> QED BY <1>2, <1>3, <1>4

-----------------------------------------------------------------------------
(* The listing of the exchange, and its sort.                              *)

Upto(S, p) == Cardinality({q \in S : q <= p})

(* A higher price has more prices up to it.                                *)
LEMMA UptoGrows ==
    ASSUME NEW S \in SUBSET Prices, NEW p \in S, NEW q \in S, p < q
    PROVE  Upto(S, p) < Upto(S, q)
<1> DEFINE low == {x \in S : x <= p}
           high == {x \in S : x <= q}
<1>1. p \in Nat /\ q \in Nat /\ S \subseteq Nat
  BY PricesFinite
<1>2. low \in SUBSET high /\ q \in high /\ q \notin low
  <2>1. \A x \in S : x <= p => x <= q
    BY <1>1
  <2>2. q <= q /\ ~(q <= p)
    BY <1>1
  <2> QED BY <2>1, <2>2
<1>3. IsFiniteSet(high) /\ Cardinality(high) \in Nat /\ Cardinality(low) \in Nat
  <2>1. high \in SUBSET Prices /\ low \in SUBSET Prices
    OBVIOUS
  <2> HIDE DEF high, low
  <2> QED BY <2>1, PricesFinite
<1>4. Cardinality(low) <= Cardinality(high) /\ Cardinality(low) # Cardinality(high)
  <2> HIDE DEF high, low
  <2>1. Cardinality(low) <= Cardinality(high) /\ (Cardinality(high) = Cardinality(low) => high = low)
    BY <1>2, <1>3, FS_Subset
  <2> QED BY <1>2, <2>1
<1>5. Cardinality(low) < Cardinality(high)
  <2> HIDE DEF high, low
  <2> QED BY <1>3, <1>4
<1> QED BY <1>5 DEF Upto

(* The number of prices up to p determines p.                              *)
LEMMA UptoOne ==
    ASSUME NEW S \in SUBSET Prices, NEW p \in S, NEW q \in S, Upto(S, p) = Upto(S, q)
    PROVE  p = q
<1>1. p \in Nat /\ q \in Nat
  BY PricesFinite
<1>2. Upto(S, p) \in Nat /\ Upto(S, q) \in Nat
  <2>1. {x \in S : x <= p} \in SUBSET Prices /\ {x \in S : x <= q} \in SUBSET Prices
    OBVIOUS
  <2> QED BY <2>1, PricesFinite DEF Upto
<1>3. ~(p < q) /\ ~(q < p)
  BY <1>2, UptoGrows
<1> QED BY <1>1, <1>3

(* Every place of the listing is taken.                                    *)
LEMMA UptoAll ==
    ASSUME NEW S \in SUBSET Prices, NEW i \in 1..Cardinality(S)
    PROVE  \E p \in S : Upto(S, p) = i
<1> DEFINE size == Cardinality(S)
           I == {n \in Nat : n \in 1..size => \E p \in S : Upto(S, p) = n}
<1>1. IsFiniteSet(S) /\ size \in Nat /\ S \subseteq Nat
  BY PricesFinite
<1>2. 0 \in I
  BY <1>1
<1>3. ASSUME NEW n \in Nat, n \in I PROVE n + 1 \in I
  <2> SUFFICES ASSUME n + 1 \in 1..size PROVE \E p \in S : Upto(S, p) = n + 1
    OBVIOUS
  <2>1. n < size
    BY <1>1
  <2>2. \E B \in SUBSET S : /\ Cardinality(B) = n
                           /\ \A b \in B, x \in S \ B : b < x
    <3>1. CASE n = 0
      BY <3>1, FS_EmptySet
    <3>2. CASE n # 0
      <4>1. PICK p \in S : Upto(S, p) = n
        BY <1>1, <1>3, <2>1, <3>2
      <4> DEFINE B == {q \in S : q <= p}
      <4>2. B \in SUBSET S /\ Cardinality(B) = n
        BY <4>1 DEF Upto
      <4>3. \A b \in B, x \in S \ B : b < x
        BY <1>1
      <4> QED BY <4>2, <4>3
    <3> QED BY <3>1, <3>2
  <2>3. PICK B \in SUBSET S : /\ Cardinality(B) = n
                            /\ \A b \in B, x \in S \ B : b < x
    BY <2>2
  <2>4. S \ B # {} /\ S \ B \in SUBSET Nat
    <3>1. B # S
      BY <1>1, <2>1, <2>3
    <3> QED BY <1>1, <3>1
  <2>5. PICK m \in S \ B : \A x \in S \ B : m <= x
    BY <2>4, LeastOf
  <2>6. {q \in S : q <= m} = B \cup {m}
    <3>1. \A q \in S : q <= m => q \in B \/ q = m
      BY <1>1, <2>5
    <3>2. \A q \in B : q <= m
      BY <1>1, <2>3, <2>5
    <3> QED BY <1>1, <2>5, <3>1, <3>2
  <2>7. IsFiniteSet(B)
    BY <1>1, FS_Subset
  <2>8. Cardinality(B \cup {m}) = n + 1
    BY <2>3, <2>5, <2>7, FS_AddElement
  <2> QED BY <2>5, <2>6, <2>8 DEF Upto
<1>4. Nat \subseteq I
  <2> HIDE DEF I
  <2> QED BY <1>2, <1>3, NatSetInduction
<1> QED BY <1>1, <1>4

(* The listing of one side: its used prices in ascending order.            *)
LEMMA ListingAscends ==
    ASSUME NEW sizes, NEW s \in Sides, sizes[s] \in [Prices -> Nat]
    PROVE  LET A == Listing(sizes)[s] IN
           /\ A \in Seq(Levels)
           /\ \A i, j \in 1..Len(A) : i < j => A[i].price < A[j].price
           /\ \A i \in 1..Len(A) : A[i].qty = sizes[s][A[i].price] /\ A[i].qty > 0
           /\ \A p \in Prices : sizes[s][p] > 0 => \E i \in 1..Len(A) : A[i].price = p
<1> DEFINE used == {p \in Prices : sizes[s][p] > 0}
           nth == [i \in 1..Cardinality(used) |->
                        CHOOSE p \in used : Cardinality({q \in used : q <= p}) = i]
           A == [i \in DOMAIN nth |-> Level(nth[i], sizes[s][nth[i]])]
           n == Cardinality(used)
<1>1. Listing(sizes)[s] = A
  BY DEF Listing
<1>2. used \in SUBSET Prices /\ n \in Nat /\ used \subseteq Nat
  <2>1. used \in SUBSET Prices
    OBVIOUS
  <2> HIDE DEF used
  <2> QED BY <2>1, PricesFinite
<1>3. \A i \in 1..n : nth[i] \in used /\ Upto(used, nth[i]) = i
  <2> SUFFICES ASSUME NEW i \in 1..n PROVE nth[i] \in used /\ Upto(used, nth[i]) = i
    OBVIOUS
  <2> HIDE DEF used
  <2>1. \E p \in used : Upto(used, p) = i
    BY <1>2, UptoAll
  <2>2. nth[i] = CHOOSE p \in used : Upto(used, p) = i
    BY DEF Upto
  <2> HIDE DEF nth
  <2> QED BY <2>1, <2>2
<1>4. DOMAIN nth = 1..n
  OBVIOUS
<1> HIDE DEF nth
<1>5. \A i \in 1..n : A[i] = Level(nth[i], sizes[s][nth[i]])
  BY <1>4
<1>6. \A i \in 1..n : /\ A[i] \in Levels
                     /\ A[i].price = nth[i]
                     /\ A[i].qty = sizes[s][nth[i]]
  BY <1>3, <1>5, LevelFacts
<1>7. A \in Seq(Levels) /\ Len(A) = n
  <2>1. A \in [1..n -> Levels]
    BY <1>4, <1>6
  <2> HIDE DEF A, n
  <2> QED BY <1>2, <2>1
<1> HIDE DEF A
<1>8. ASSUME NEW i \in 1..n, NEW j \in 1..n, i < j PROVE nth[i] < nth[j]
  <2> HIDE DEF used
  <2>1. nth[i] \in used /\ nth[j] \in used /\ nth[i] \in Nat /\ nth[j] \in Nat
    BY <1>2, <1>3
  <2>2. nth[i] # nth[j]
    BY <1>3, <1>8
  <2>3. nth[j] < nth[i] => j < i
    BY <1>2, <1>3, <2>1, UptoGrows
  <2> QED BY <1>2, <1>8, <2>1, <2>2, <2>3
<1>9. ASSUME NEW p \in used PROVE \E i \in 1..n : nth[i] = p
  <2> HIDE DEF used
  <2> DEFINE low == {q \in used : q <= p}
  <2>1. low \in SUBSET used /\ p \in low
    BY <1>2
  <2>2. IsFiniteSet(used) /\ IsFiniteSet(low) /\ Cardinality(low) \in Nat /\ low # {}
    <3>1. low \in SUBSET Prices
      BY <1>2
    <3> HIDE DEF low
    <3> QED BY <1>2, <2>1, <3>1, PricesFinite
  <2>3. Cardinality(low) \in 1..n
    <3> HIDE DEF low
    <3>1. Cardinality(low) <= Cardinality(used)
      BY <2>1, <2>2, FS_Subset
    <3>2. Cardinality(low) # 0
      BY <2>2, FS_EmptySet
    <3> QED BY <1>2, <2>2, <3>1, <3>2
  <2>4. Upto(used, p) \in 1..n
    BY <2>3 DEF Upto
  <2>5. PICK k \in 1..n : k = Upto(used, p)
    BY <2>4
  <2>6. Upto(used, nth[k]) = Upto(used, p) /\ nth[k] \in used
    BY <1>3, <2>5
  <2>7. nth[k] = p
    <3>1. \A x, y \in used : Upto(used, x) = Upto(used, y) => x = y
      <4>1. used \in SUBSET Prices
        BY <1>2
      <4> QED BY <4>1, UptoOne
    <3> QED BY <2>6, <3>1
  <2> QED BY <2>7
<1>10. \A i \in 1..n : sizes[s][nth[i]] > 0
  BY <1>3
<1>11. \A p \in Prices : sizes[s][p] > 0 => \E i \in 1..n : nth[i] = p
  BY <1>9
<1> HIDE DEF used
<1> QED BY <1>1, <1>6, <1>7, <1>8, <1>10, <1>11
(* The sort turns an ascending list round.                                 *)
LEMMA SortTurns ==
    ASSUME NEW A \in Seq(Levels),
           \A i, j \in 1..Len(A) : i < j => A[i].price < A[j].price
    PROVE  /\ BestFirst(A) \in Seq(Levels) /\ Len(BestFirst(A)) = Len(A)
           /\ \A i \in 1..Len(A) : BestFirst(A)[i] = A[Len(A) + 1 - i]
<1> DEFINE n == Len(A)
           behind(k) == {j \in DOMAIN A :
                            \/ BetterPrice(A[j], A[k])
                            \/ j <= k /\ A[j].price = A[k].price}
           rank == [k \in DOMAIN A |-> Cardinality({j \in DOMAIN A :
                        \/ BetterPrice(A[j], A[k])
                        \/ j <= k /\ A[j].price = A[k].price})]
           B == [i \in DOMAIN A |-> A[CHOOSE k \in DOMAIN A : rank[k] = i]]
<1>1. BestFirst(A) = B
  BY DEF BestFirst
<1>2. n \in Nat /\ DOMAIN A = 1..n
  OBVIOUS
<1>3. \A i \in 1..n : A[i] \in Levels /\ A[i].price \in Nat
  <2>1. \A i \in 1..n : A[i] \in Levels
    OBVIOUS
  <2> HIDE DEF n
  <2> QED BY <2>1, LevelFacts, PricesFinite
<1>4. ASSUME NEW k \in 1..n PROVE rank[k] = n + 1 - k
  <2>1. behind(k) = k..n
    <3>1. ASSUME NEW j \in 1..n PROVE j \in behind(k) <=> j >= k
      <4>1. CASE j < k
        BY <1>2, <1>3, <4>1 DEF BetterPrice
      <4>2. CASE j = k
        BY <1>2, <1>3, <4>2 DEF BetterPrice
      <4>3. CASE j > k
        <5>1. A[k].price < A[j].price
          BY <4>3
        <5>2. A[j].price > A[k].price
          BY <1>3, <5>1
        <5>3. BetterPrice(A[j], A[k])
          BY <5>2 DEF BetterPrice
        <5>4. j \in DOMAIN A
          BY <1>2
        <5>5. j \in behind(k)
          BY <5>3, <5>4, Zenon
        <5> HIDE DEF behind, n
        <5> QED BY <1>2, <4>3, <5>5
      <4> QED BY <1>2, <4>1, <4>2, <4>3
    <3>2. behind(k) \subseteq 1..n
      BY <1>2
    <3> HIDE DEF behind, n
    <3>3. \A j \in k..n : j \in 1..n /\ j >= k
      BY <1>2
    <3>4. \A j \in 1..n : j >= k => j \in k..n
      BY <1>2
    <3> QED BY <3>1, <3>2, <3>3, <3>4
  <2>2. k \in Int /\ n \in Int /\ k <= n
    BY <1>2
  <2>3. Cardinality(k..n) = IF k > n THEN 0 ELSE n - k + 1
    BY <2>2, FS_Interval
  <2>4. rank[k] = Cardinality(behind(k))
    <3>1. k \in DOMAIN A
      BY <1>2
    <3> QED BY <3>1, Zenon
  <2> HIDE DEF rank, behind, n
  <2> QED BY <2>1, <2>2, <2>3, <2>4
<1>5. ASSUME NEW i \in 1..n PROVE (CHOOSE k \in DOMAIN A : rank[k] = i) = n + 1 - i
  <2> HIDE DEF rank, n
  <2>1. n + 1 - i \in 1..n
    BY <1>2
  <2>2. \A k \in 1..n : rank[k] = i <=> k = n + 1 - i
    BY <1>2, <1>4
  <2> QED BY <1>2, <2>1, <2>2
<1>6. \A i \in 1..n : B[i] = A[n + 1 - i]
  BY <1>2, <1>5
<1>7. \A i \in 1..n : n + 1 - i \in 1..n
  BY <1>2
<1>8. B \in Seq(Levels) /\ Len(B) = n
  <2>1. DOMAIN B = 1..n
    BY <1>2
  <2>2. B \in [1..n -> Levels]
    <3>1. B = [i \in 1..n |-> B[i]]
      BY <2>1
    <3> HIDE DEF B
    <3> QED BY <1>3, <1>6, <1>7, <3>1
  <2> HIDE DEF B, n
  <2> QED BY <1>2, <2>2
<1> QED BY <1>1, <1>6, <1>8

(* The books of the exchange.                                              *)
AllSizes == [Sides -> [Prices -> Nat]]

(* A snapshot that missed nothing is a ladder of each side's levels.       *)
LEMMA BookOfLadders ==
    ASSUME NEW sizes \in AllSizes
    PROVE  /\ DOMAIN BookOf(sizes) = Sides
           /\ \A s \in Sides : IsLadder(BookOf(sizes)[s], sizes[s])
           /\ BookOf(sizes) = ApplySnapshot(Listing(sizes))
<1>1. ASSUME NEW s \in Sides PROVE IsLadder(BestFirst(Listing(sizes)[s]), sizes[s])
  <2> DEFINE A == Listing(sizes)[s]
             B == BestFirst(A)
             f == sizes[s]
             n == Len(A)
  <2>1. f \in [Prices -> Nat]
    BY DEF AllSizes
  <2>2. /\ A \in Seq(Levels)
        /\ \A i, j \in 1..n : i < j => A[i].price < A[j].price
        /\ \A i \in 1..n : A[i].qty = f[A[i].price] /\ A[i].qty > 0
        /\ \A p \in Prices : f[p] > 0 => \E i \in 1..n : A[i].price = p
    BY <2>1, ListingAscends
  <2> HIDE DEF A, f
  <2>3. /\ B \in Seq(Levels) /\ Len(B) = n
        /\ \A i \in 1..n : B[i] = A[n + 1 - i]
    BY <2>2, SortTurns
  <2>4. n \in Nat /\ \A i \in 1..n : n + 1 - i \in 1..n
    BY <2>2
  <2>5. \A i \in 1..n : A[i].price \in Nat
    <3>1. \A i \in 1..n : A[i] \in Levels
      BY <2>2
    <3> QED BY <3>1, LevelFacts, PricesFinite
  <2> HIDE DEF B, n
  <2>6. \A i, j \in 1..n : i < j => B[i].price > B[j].price
    <3> SUFFICES ASSUME NEW i \in 1..n, NEW j \in 1..n, i < j PROVE B[i].price > B[j].price
      OBVIOUS
    <3>1. n + 1 - j < n + 1 - i /\ n + 1 - j \in 1..n /\ n + 1 - i \in 1..n
      BY <2>4
    <3>2. A[n + 1 - j].price < A[n + 1 - i].price
      BY <2>2, <3>1
    <3> QED BY <2>3, <2>5, <3>1, <3>2
  <2>7. \A i \in 1..n : B[i].qty = f[B[i].price] /\ B[i].qty > 0
    <3> SUFFICES ASSUME NEW i \in 1..n PROVE B[i].qty = f[B[i].price] /\ B[i].qty > 0
      OBVIOUS
    <3>1. PICK k \in 1..n : k = n + 1 - i
      BY <2>4
    <3> QED BY <2>2, <2>3, <3>1
  <2>8. ASSUME NEW p \in Prices, f[p] > 0 PROVE \E i \in 1..n : B[i].price = p
    <3>1. PICK k \in 1..n : A[k].price = p
      BY <2>2, <2>8
    <3>2. n + 1 - k \in 1..n /\ n + 1 - (n + 1 - k) = k
      BY <2>4
    <3>3. B[n + 1 - k] = A[k]
      BY <2>3, <3>2
    <3> QED BY <3>1, <3>2, <3>3
  <2>9. IsLadder(B, f)
    BY <2>3, <2>6, <2>7, <2>8 DEF IsLadder
  <2> QED BY <2>9 DEF B, A, f
<1> QED BY <1>1 DEF BookOf, ApplySnapshot
-----------------------------------------------------------------------------
(* A delta.                                                                *)

(* What is known of a ladder's levels one by one.                          *)
LEMMA LadderFacts ==
    ASSUME NEW f, NEW L, IsLadder(L, f)
    PROVE  /\ L \in Seq(Levels) /\ Len(L) \in Nat /\ DOMAIN L = 1..Len(L)
           /\ \A i \in 1..Len(L) : /\ L[i] \in Levels /\ L[i].price \in Prices
                                  /\ L[i].price \in Nat
                                  /\ L[i].qty = f[L[i].price] /\ L[i].qty > 0
                                  /\ L[i].qty \in Nat
<1>1. L \in Seq(Levels)
  BY DEF IsLadder
<1>2. Len(L) \in Nat /\ DOMAIN L = 1..Len(L) /\ \A i \in 1..Len(L) : L[i] \in Levels
  BY <1>1
<1>3. \A i \in 1..Len(L) : L[i].qty = f[L[i].price] /\ L[i].qty > 0
  BY DEF IsLadder
<1> QED BY <1>1, <1>2, <1>3, LevelFacts, PricesFinite

(* The insertion point separates the better levels from the others.        *)
LEMMA InsertionSplits ==
    ASSUME NEW f, NEW L, IsLadder(L, f), NEW p \in Prices
    PROVE  /\ InsertionPoint(L, p) \in 1..(Len(L) + 1)
           /\ \A k \in 1..Len(L) : L[k].price > p <=> k < InsertionPoint(L, p)
<1> DEFINE n == Len(L)
           rest == {k \in 1..(n + 1) : k = n + 1 \/ ~(L[k].price > p)}
<1>1. n \in Nat /\ DOMAIN L = 1..n /\ \A i \in 1..n : L[i].price \in Nat
  BY LadderFacts
<1>2. p \in Nat
  BY PricesFinite
<1>3. \A i, j \in 1..n : i < j => L[i].price > L[j].price
  BY DEF IsLadder
<1> HIDE DEF n
<1>4. rest \in SUBSET Nat /\ n + 1 \in rest
  BY <1>1
<1>5. PICK m \in rest : \A x \in rest : m <= x
  <2> HIDE DEF rest
  <2> QED BY <1>4, LeastOf
<1>6. m \in 1..(n + 1)
  OBVIOUS
<1>7. ASSUME NEW k \in 1..n PROVE L[k].price > p <=> k < m
  <2>1. CASE k < m
    BY <1>1, <1>5, <1>6, <2>1
  <2>2. CASE k = m
    BY <1>1, <1>5, <2>2
  <2>3. CASE k > m
    <3>1. m \in 1..n /\ ~(L[m].price > p) /\ L[m].price > L[k].price
      BY <1>1, <1>3, <1>5, <1>6, <2>3
    <3> QED BY <1>1, <1>2, <2>3, <3>1
  <2> QED BY <1>1, <1>6, <2>1, <2>2, <2>3
<1>8. {k \in DOMAIN L : L[k].price > p} = 1..(m - 1)
  <2>1. \A k \in 1..(m - 1) : k \in 1..n /\ k < m
    BY <1>1, <1>6
  <2>2. \A k \in 1..n : k < m => k \in 1..(m - 1)
    BY <1>1, <1>6
  <2> QED BY <1>1, <1>7, <2>1, <2>2
<1>9. Cardinality(1..(m - 1)) = m - 1
  <2>1. 1 \in Int /\ m - 1 \in Int /\ m >= 1
    BY <1>1, <1>6
  <2>2. Cardinality(1..(m - 1)) = IF 1 > m - 1 THEN 0 ELSE m - 1 - 1 + 1
    BY <2>1, FS_Interval
  <2> QED BY <2>1, <2>2
<1>10. InsertionPoint(L, p) = m
  <2>1. InsertionPoint(L, p) = 1 + (m - 1)
    BY <1>8, <1>9 DEF InsertionPoint
  <2> QED BY <1>1, <1>6, <2>1
<1> QED BY <1>6, <1>7, <1>10 DEF n

(* Erasing a level of a vector.                                            *)
LEMMA RemoveShifts ==
    ASSUME NEW S, NEW L \in Seq(S), NEW i \in 1..Len(L)
    PROVE  /\ RemoveAt(L, i) \in Seq(S) /\ Len(RemoveAt(L, i)) = Len(L) - 1
           /\ \A k \in 1..(Len(L) - 1) :
                 RemoveAt(L, i)[k] = IF k < i THEN L[k] ELSE L[k + 1]
<1> DEFINE n == Len(L)
           front == SubSeq(L, 1, i - 1)
           back == SubSeq(L, i + 1, n)
<1>1. n \in Nat
  OBVIOUS
<1>2. /\ front \in Seq(S) /\ Len(front) = i - 1
      /\ \A k \in 1..(i - 1) : front[k] = L[k]
  BY <1>1
<1>3. /\ back \in Seq(S) /\ Len(back) = n - i
      /\ \A k \in 1..(n - i) : back[k] = L[i + k]
  BY <1>1
<1>4. RemoveAt(L, i) = front \o back
  BY DEF RemoveAt
<1> HIDE DEF front, back, n
<1>5. /\ front \o back \in Seq(S) /\ Len(front \o back) = (i - 1) + (n - i)
      /\ \A k \in 1..((i - 1) + (n - i)) :
            (front \o back)[k] = IF k <= i - 1 THEN front[k] ELSE back[k - (i - 1)]
  BY <1>2, <1>3
<1>6. i \in 1..n
  BY DEF n
<1>7. (i - 1) + (n - i) = n - 1
  BY <1>1, <1>6
<1>8. ASSUME NEW k \in 1..(n - 1)
      PROVE  (front \o back)[k] = IF k < i THEN L[k] ELSE L[k + 1]
  <2>1. CASE k < i
    <3>1. k <= i - 1 /\ k \in 1..(i - 1)
      BY <1>1, <1>6, <2>1
    <3> QED BY <1>2, <1>5, <1>7, <2>1, <3>1
  <2>2. CASE ~(k < i)
    <3>1. ~(k <= i - 1) /\ k - (i - 1) \in 1..(n - i) /\ i + (k - (i - 1)) = k + 1
      BY <1>1, <1>6, <2>2
    <3> QED BY <1>3, <1>5, <1>7, <2>2, <3>1
  <2> QED BY <2>1, <2>2
<1> QED BY <1>4, <1>5, <1>7, <1>8 DEF n

(* Inserting a level into a vector.                                        *)
LEMMA InsertShifts ==
    ASSUME NEW S, NEW L \in Seq(S), NEW i \in 1..(Len(L) + 1), NEW e \in S
    PROVE  /\ InsertAt(L, i, e) \in Seq(S) /\ Len(InsertAt(L, i, e)) = Len(L) + 1
           /\ \A k \in 1..(Len(L) + 1) :
                 InsertAt(L, i, e)[k] =
                    IF k < i THEN L[k] ELSE IF k = i THEN e ELSE L[k - 1]
<1> DEFINE n == Len(L)
           front == SubSeq(L, 1, i - 1)
           back == SubSeq(L, i, n)
           most == front \o <<e>>
<1>1. n \in Nat
  OBVIOUS
<1>2. /\ front \in Seq(S) /\ Len(front) = i - 1
      /\ \A k \in 1..(i - 1) : front[k] = L[k]
  BY <1>1
<1>3. /\ back \in Seq(S) /\ Len(back) = n + 1 - i
      /\ \A k \in 1..(n + 1 - i) : back[k] = L[i + k - 1]
  BY <1>1
<1>4. InsertAt(L, i, e) = most \o back
  BY DEF InsertAt
<1>5. i \in 1..(n + 1)
  OBVIOUS
<1> HIDE DEF front, back, n
<1>6. /\ most \in Seq(S) /\ Len(most) = i
      /\ most[i] = e /\ \A k \in 1..(i - 1) : most[k] = L[k]
  BY <1>1, <1>2, <1>5
<1> HIDE DEF most
<1>7. /\ most \o back \in Seq(S) /\ Len(most \o back) = i + (n + 1 - i)
      /\ \A k \in 1..(i + (n + 1 - i)) :
            (most \o back)[k] = IF k <= i THEN most[k] ELSE back[k - i]
  <2>1. most \in Seq(S) /\ back \in Seq(S)
    BY <1>3, <1>6
  <2>2. /\ most \o back \in Seq(S) /\ Len(most \o back) = Len(most) + Len(back)
        /\ \A k \in 1..(Len(most) + Len(back)) :
              (most \o back)[k] = IF k <= Len(most) THEN most[k] ELSE back[k - Len(most)]
    BY <2>1
  <2> QED BY <1>3, <1>6, <2>2
<1>8. i + (n + 1 - i) = n + 1
  BY <1>1, <1>5
<1>9. ASSUME NEW k \in 1..(n + 1)
      PROVE  (most \o back)[k] = IF k < i THEN L[k] ELSE IF k = i THEN e ELSE L[k - 1]
  <2>1. CASE k < i
    <3>1. k <= i /\ k \in 1..(i - 1)
      BY <1>1, <1>5, <2>1
    <3> QED BY <1>6, <1>7, <1>8, <2>1, <3>1
  <2>2. CASE k = i
    BY <1>5, <1>6, <1>7, <1>8, <2>2
  <2>3. CASE k > i
    <3>1. ~(k <= i) /\ ~(k < i) /\ k # i /\ k - i \in 1..(n + 1 - i) /\ i + (k - i) - 1 = k - 1
      BY <1>1, <1>5, <2>3
    <3> QED BY <1>3, <1>7, <1>8, <3>1
  <2>4. k < i \/ k = i \/ k > i
    BY <1>1, <1>5
  <2> QED BY <2>1, <2>2, <2>3, <2>4
<1> QED BY <1>4, <1>7, <1>8, <1>9 DEF n
(* Ladders by their indices.                                               *)
LEMMA LadderMeans ==
    ASSUME NEW f, NEW L \in Seq(Levels),
           \A i, j \in 1..Len(L) : i < j => L[i].price > L[j].price,
           \A i \in 1..Len(L) : L[i].qty = f[L[i].price] /\ L[i].qty > 0,
           \A p \in Prices : f[p] > 0 => \E i \in 1..Len(L) : L[i].price = p
    PROVE  IsLadder(L, f)
BY DEF IsLadder

(* A level whose size falls to nothing is erased.                          *)
LEMMA LevelErased ==
    ASSUME NEW f \in [Prices -> Nat], NEW L, IsLadder(L, f),
           NEW i \in 1..Len(L), NEW p \in Prices, L[i].price = p
    PROVE  IsLadder(RemoveAt(L, i), [f EXCEPT ![p] = 0])
<1> DEFINE n == Len(L)
           R == RemoveAt(L, i)
           g == [f EXCEPT ![p] = 0]
           old(k) == IF k < i THEN k ELSE k + 1
<1>1. /\ L \in Seq(Levels) /\ n \in Nat
      /\ \A k \in 1..n : L[k].price \in Prices /\ L[k].price \in Nat
      /\ \A k \in 1..n : L[k].qty = f[L[k].price] /\ L[k].qty > 0
  BY LadderFacts
<1>2. /\ R \in Seq(Levels) /\ Len(R) = n - 1
      /\ \A k \in 1..(n - 1) : R[k] = IF k < i THEN L[k] ELSE L[k + 1]
  BY <1>1, RemoveShifts
<1>3. /\ \A k, j \in 1..n : k < j => L[k].price > L[j].price
      /\ \A x \in Prices : f[x] > 0 => \E k \in 1..n : L[k].price = x
  BY DEF IsLadder
<1>4. i \in 1..n
  OBVIOUS
<1>5. g \in [Prices -> Nat] /\ g[p] = 0 /\ \A x \in Prices \ {p} : g[x] = f[x]
  OBVIOUS
<1> HIDE DEF n, R, g
<1>6. \A k \in 1..(n - 1) : R[k] = L[old(k)] /\ old(k) \in 1..n /\ old(k) # i
  BY <1>1, <1>2, <1>4
<1>7. \A k, j \in 1..(n - 1) : k < j => old(k) < old(j)
  BY <1>1, <1>4
<1> HIDE DEF old
<1>8. \A k, j \in 1..(n - 1) : k < j => R[k].price > R[j].price
  BY <1>3, <1>6, <1>7
<1>9. ASSUME NEW k \in 1..(n - 1) PROVE R[k].qty = g[R[k].price] /\ R[k].qty > 0
  <2>1. PICK j \in 1..n : R[k] = L[j] /\ j # i
    BY <1>6
  <2>2. L[j].price # p
    BY <1>1, <1>3, <1>4, <2>1
  <2> QED BY <1>1, <1>5, <2>1, <2>2
<1>10. ASSUME NEW x \in Prices, g[x] > 0 PROVE \E k \in 1..(n - 1) : R[k].price = x
  <2>1. x # p /\ f[x] > 0
    BY <1>5, <1>10
  <2>2. PICK j \in 1..n : L[j].price = x
    BY <1>3, <2>1
  <2>3. j # i
    BY <2>1, <2>2
  <2>4. CASE j < i
    <3>1. j \in 1..(n - 1)
      BY <1>1, <1>4, <2>4
    <3> QED BY <1>2, <2>2, <2>4, <3>1
  <2>5. CASE j > i
    <3>1. j - 1 \in 1..(n - 1) /\ ~(j - 1 < i) /\ (j - 1) + 1 = j
      BY <1>1, <1>4, <2>5
    <3>2. R[j - 1] = L[j]
      BY <1>2, <3>1
    <3> QED BY <2>2, <3>1, <3>2
  <2> QED BY <1>1, <1>4, <2>3, <2>4, <2>5
<1>11. IsLadder(R, g)
  BY <1>2, <1>8, <1>9, <1>10, LadderMeans
<1> QED BY <1>11 DEF R, g

(* A level that is there takes its new size.                               *)
LEMMA LevelResized ==
    ASSUME NEW f \in [Prices -> Nat], NEW L, IsLadder(L, f),
           NEW i \in 1..Len(L), NEW p \in Prices, L[i].price = p,
           NEW q \in Nat, q > 0
    PROVE  IsLadder([L EXCEPT ![i].qty = q], [f EXCEPT ![p] = q])
<1> DEFINE n == Len(L)
           e == [L[i] EXCEPT !.qty = q]
           R == [L EXCEPT ![i] = e]
           g == [f EXCEPT ![p] = q]
<1>1. /\ L \in Seq(Levels) /\ n \in Nat
      /\ \A k \in 1..n : L[k].price \in Prices /\ L[k].price \in Nat
      /\ \A k \in 1..n : L[k].qty = f[L[k].price] /\ L[k].qty > 0
  BY LadderFacts
<1>2. L[i] \in Levels
  BY <1>1
<1>3. e \in Levels /\ e.price = p /\ e.qty = q
  BY <1>2 DEF Levels
<1>4. [L EXCEPT ![i].qty = q] = R
  OBVIOUS
<1> HIDE DEF e
<1>5. /\ R \in Seq(Levels) /\ Len(R) = n /\ R[i] = e
      /\ \A k \in 1..n : k # i => R[k] = L[k]
  BY <1>1, <1>3
<1>6. /\ \A k, j \in 1..n : k < j => L[k].price > L[j].price
      /\ \A x \in Prices : f[x] > 0 => \E k \in 1..n : L[k].price = x
  BY DEF IsLadder
<1>7. i \in 1..n
  OBVIOUS
<1>8. g \in [Prices -> Nat] /\ g[p] = q /\ \A x \in Prices \ {p} : g[x] = f[x]
  OBVIOUS
<1> HIDE DEF n, R, g
<1>9. \A k \in 1..n : R[k].price = L[k].price
  BY <1>3, <1>5
<1>10. \A k, j \in 1..n : k < j => R[k].price > R[j].price
  BY <1>6, <1>9
<1>11. ASSUME NEW k \in 1..n PROVE R[k].qty = g[R[k].price] /\ R[k].qty > 0
  <2>1. CASE k = i
    BY <1>3, <1>5, <1>8, <2>1
  <2>2. CASE k # i
    <3>1. L[k].price # p
      BY <1>1, <1>6, <1>7, <2>2
    <3> QED BY <1>1, <1>5, <1>8, <2>2, <3>1
  <2> QED BY <2>1, <2>2
<1>12. ASSUME NEW x \in Prices, g[x] > 0 PROVE \E k \in 1..n : R[k].price = x
  <2>1. CASE x = p
    BY <1>3, <1>5, <1>7, <2>1
  <2>2. CASE x # p
    BY <1>6, <1>8, <1>9, <1>12, <2>2
  <2> QED BY <2>1, <2>2
<1>13. IsLadder(R, g)
  BY <1>5, <1>10, <1>11, <1>12, LadderMeans
<1> QED BY <1>4, <1>13 DEF R, g

(* A new level goes in at the insertion point.                             *)
LEMMA LevelInserted ==
    ASSUME NEW f \in [Prices -> Nat], NEW L, IsLadder(L, f),
           NEW p \in Prices, f[p] = 0, NEW q \in Nat, q > 0
    PROVE  IsLadder(InsertAt(L, InsertionPoint(L, p), Level(p, q)), [f EXCEPT ![p] = q])
<1> DEFINE n == Len(L)
           i == InsertionPoint(L, p)
           e == Level(p, q)
           R == InsertAt(L, i, e)
           g == [f EXCEPT ![p] = q]
           old(k) == IF k < i THEN k ELSE k - 1
<1>1. /\ L \in Seq(Levels) /\ n \in Nat
      /\ \A k \in 1..n : L[k].price \in Prices /\ L[k].price \in Nat
      /\ \A k \in 1..n : L[k].qty = f[L[k].price] /\ L[k].qty > 0
  BY LadderFacts
<1>2. i \in 1..(n + 1) /\ \A k \in 1..n : L[k].price > p <=> k < i
  BY InsertionSplits
<1>3. e \in Levels /\ e.price = p /\ e.qty = q
  BY LevelFacts
<1> HIDE DEF e, i
<1>4. /\ R \in Seq(Levels) /\ Len(R) = n + 1
      /\ \A k \in 1..(n + 1) :
            R[k] = IF k < i THEN L[k] ELSE IF k = i THEN e ELSE L[k - 1]
  BY <1>1, <1>2, <1>3, InsertShifts
<1>5. /\ \A k, j \in 1..n : k < j => L[k].price > L[j].price
      /\ \A x \in Prices : f[x] > 0 => \E k \in 1..n : L[k].price = x
  BY DEF IsLadder
<1>6. g \in [Prices -> Nat] /\ g[p] = q /\ \A x \in Prices \ {p} : g[x] = f[x]
  OBVIOUS
<1>7. p \in Nat
  BY PricesFinite
<1>8. \A k \in 1..n : L[k].price # p
  BY <1>1
<1> HIDE DEF n, R, g
<1>9. \A k \in 1..(n + 1) : k # i => R[k] = L[old(k)] /\ old(k) \in 1..n
  BY <1>1, <1>2, <1>4
<1>10. /\ R[i] = e
       /\ \A k \in 1..(n + 1) : k < i => R[k].price > p
       /\ \A k \in 1..(n + 1) : k > i => R[k].price < p
  <2>1. R[i] = e
    BY <1>1, <1>2, <1>4
  <2>2. ASSUME NEW k \in 1..(n + 1), k < i PROVE R[k].price > p
    <3>1. k \in 1..n /\ R[k] = L[k]
      BY <1>1, <1>2, <1>4, <2>2
    <3> QED BY <1>2, <2>2, <3>1
  <2>3. ASSUME NEW k \in 1..(n + 1), k > i PROVE R[k].price < p
    <3>1. k - 1 \in 1..n /\ ~(k - 1 < i) /\ ~(k < i) /\ k # i
      BY <1>1, <1>2, <2>3
    <3>2. R[k] = L[k - 1]
      BY <1>4, <3>1
    <3>3. ~(L[k - 1].price > p) /\ L[k - 1].price # p /\ L[k - 1].price \in Nat
      BY <1>1, <1>2, <1>8, <3>1
    <3> QED BY <1>7, <3>2, <3>3
  <2> QED BY <2>1, <2>2, <2>3
<1>11. \A k, j \in 1..(n + 1) : k < j /\ k # i /\ j # i => old(k) < old(j)
  BY <1>1, <1>2
<1>12. \A k \in 1..(n + 1) : R[k].price \in Nat
  BY <1>1, <1>3, <1>7, <1>9, <1>10
<1> HIDE DEF old
<1>13. ASSUME NEW k \in 1..(n + 1), NEW j \in 1..(n + 1), k < j
       PROVE  R[k].price > R[j].price
  <2>1. CASE k = i
    BY <1>3, <1>7, <1>10, <1>12, <1>13, <2>1
  <2>2. CASE j = i
    BY <1>3, <1>7, <1>10, <1>12, <1>13, <2>2
  <2>3. CASE k # i /\ j # i
    <3>1. old(k) < old(j) /\ old(k) \in 1..n /\ old(j) \in 1..n
      BY <1>9, <1>11, <1>13, <2>3
    <3> QED BY <1>5, <1>9, <2>3, <3>1
  <2> QED BY <2>1, <2>2, <2>3
<1>14. ASSUME NEW k \in 1..(n + 1) PROVE R[k].qty = g[R[k].price] /\ R[k].qty > 0
  <2>1. CASE k = i
    BY <1>3, <1>6, <1>10, <2>1
  <2>2. CASE k # i
    <3>1. PICK j \in 1..n : R[k] = L[j]
      BY <1>9, <2>2
    <3> QED BY <1>1, <1>6, <1>8, <3>1
  <2> QED BY <2>1, <2>2
<1>15. ASSUME NEW x \in Prices, g[x] > 0 PROVE \E k \in 1..(n + 1) : R[k].price = x
  <2>1. CASE x = p
    BY <1>2, <1>3, <1>10, <2>1
  <2>2. CASE x # p
    <3>1. PICK j \in 1..n : L[j].price = x
      BY <1>5, <1>6, <1>15, <2>2
    <3>2. CASE j < i
      <4>1. j \in 1..(n + 1)
        BY <1>1
      <4> QED BY <1>4, <3>1, <3>2, <4>1
    <3>3. CASE ~(j < i)
      <4>1. j + 1 \in 1..(n + 1) /\ ~(j + 1 < i) /\ j + 1 # i /\ (j + 1) - 1 = j
        BY <1>1, <1>2, <3>3
      <4>2. R[j + 1] = L[j]
        BY <1>4, <4>1
      <4> QED BY <3>1, <4>1, <4>2
    <3> QED BY <3>2, <3>3
  <2> QED BY <2>1, <2>2
<1>16. IsLadder(R, g)
  BY <1>4, <1>13, <1>14, <1>15, LadderMeans
<1> QED BY <1>16 DEF R, g, e, i
(* apply_delta on the book of the exchange before a change of one level is *)
(* the book after it: for any number of levels, whichever of the cases of  *)
(* find_level and insertion_point the change meets.                        *)
LEMMA DeltaExact ==
    ASSUME NEW sizes \in AllSizes, NEW s \in Sides, NEW p \in Prices,
           NEW q \in Nat, q # sizes[s][p]
    PROVE  ApplyDelta(BookOf(sizes), s, p, q - sizes[s][p])
                = BookOf([sizes EXCEPT ![s][p] = q])
<1> DEFINE f == sizes[s]
           g == [f EXCEPT ![p] = q]
           after == [sizes EXCEPT ![s][p] = q]
           old == BookOf(sizes)
           L == old[s]
           d == q - f[p]
           i == InsertionPoint(L, p)
           M == IF HasLevel(L, p) THEN Adjusted(L, i, d)
                ELSE IF d > 0 THEN InsertAt(L, i, Level(p, d)) ELSE L
<1>1. f \in [Prices -> Nat] /\ f[p] \in Nat
  BY DEF AllSizes
<1>2. after \in AllSizes /\ after[s] = g /\ \A x \in Sides \ {s} : after[x] = sizes[x]
  BY DEF AllSizes
<1>3. DOMAIN old = Sides /\ \A x \in Sides : IsLadder(old[x], sizes[x])
  BY BookOfLadders
<1>4. DOMAIN BookOf(after) = Sides /\ \A x \in Sides : IsLadder(BookOf(after)[x], after[x])
  BY <1>2, BookOfLadders
<1>5. ApplyDelta(old, s, p, d) = [old EXCEPT ![s] = M]
  BY DEF ApplyDelta
<1> HIDE DEF old, g, after, f
<1>6. IsLadder(L, f)
  BY <1>3 DEF f
<1> HIDE DEF L
<1>7. i \in 1..(Len(L) + 1) /\ \A k \in 1..Len(L) : L[k].price > p <=> k < i
  BY <1>6, InsertionSplits
<1>8. /\ Len(L) \in Nat
      /\ \A k \in 1..Len(L) : /\ L[k].price \in Nat /\ L[k].qty = f[L[k].price]
                             /\ L[k].qty \in Nat
  BY <1>6, LadderFacts
<1>9. p \in Nat
  BY PricesFinite
<1> HIDE DEF i
<1>10. IsLadder(M, g)
  <2>1. CASE HasLevel(L, p)
    <3>1. i \in 1..Len(L) /\ L[i].price = p
      BY <1>7, <1>8, <2>1 DEF HasLevel, i
    <3>2. L[i].qty + d = q
      BY <1>1, <1>8, <3>1
    <3>3. M = IF q <= 0 THEN RemoveAt(L, i) ELSE [L EXCEPT ![i].qty = q]
      BY <2>1, <3>2 DEF Adjusted
    <3>4. CASE q = 0
      <4>1. M = RemoveAt(L, i)
        BY <3>3, <3>4
      <4>2. IsLadder(RemoveAt(L, i), [f EXCEPT ![p] = 0])
        BY <1>1, <1>6, <3>1, LevelErased
      <4> HIDE DEF M
      <4> QED BY <3>4, <4>1, <4>2, Zenon DEF g
    <3>5. CASE q > 0
      <4>1. M = [L EXCEPT ![i].qty = q]
        BY <3>3, <3>5
      <4>2. IsLadder([L EXCEPT ![i].qty = q], [f EXCEPT ![p] = q])
        BY <1>1, <1>6, <3>1, <3>5, LevelResized
      <4> HIDE DEF M
      <4> QED BY <4>1, <4>2, Zenon DEF g
    <3> QED BY <3>4, <3>5
  <2>2. CASE ~HasLevel(L, p)
    <3>1. \A k \in 1..Len(L) : L[k].price # p
      <4> SUFFICES ASSUME NEW k \in 1..Len(L), L[k].price = p PROVE FALSE
        OBVIOUS
      <4>1. ~(k < i) /\ i \in 1..Len(L)
        BY <1>7, <1>8, <1>9
      <4>2. L[i].price # p /\ ~(L[i].price > p)
        BY <1>7, <1>8, <2>2, <4>1 DEF HasLevel, i
      <4>3. i < k => L[i].price > L[k].price
        BY <1>6, <4>1 DEF IsLadder
      <4> QED BY <1>8, <1>9, <4>1, <4>2, <4>3
    <3>2. f[p] = 0
      BY <1>1, <1>6, <3>1 DEF IsLadder
    <3>3. d = q /\ q > 0
      BY <1>1, <3>2 DEF f
    <3>4. M = InsertAt(L, i, Level(p, q))
      BY <2>2, <3>3
    <3>5. IsLadder(InsertAt(L, InsertionPoint(L, p), Level(p, q)), [f EXCEPT ![p] = q])
      BY <1>1, <1>6, <3>2, <3>3, LevelInserted
    <3> HIDE DEF M
    <3> QED BY <3>4, <3>5, Zenon DEF g, i
  <2> QED BY <2>1, <2>2
<1> HIDE DEF M
<1>11. BookOf(after)[s] = M
  BY <1>2, <1>4, <1>10, OneLadder
<1>12. ASSUME NEW x \in Sides, x # s PROVE BookOf(after)[x] = old[x]
  BY <1>2, <1>3, <1>4, <1>12, OneLadder
<1>13. BookOf(after) = [old EXCEPT ![s] = M]
  <2>1. BookOf(after) = [x \in Sides |-> BookOf(after)[x]]
    BY <1>4 DEF BookOf
  <2>2. [old EXCEPT ![s] = M] = [x \in Sides |-> IF x = s THEN M ELSE old[x]]
    BY <1>3 DEF old, BookOf
  <2> QED BY <1>11, <1>12, <2>1, <2>2
<1> QED BY <1>5, <1>13 DEF old, after, d, f

-----------------------------------------------------------------------------
(* The numbers of the messages.                                            *)

Snapshots == {Listing(sizes) : sizes \in AllSizes}
Messages ==
    [seq : {1}, type : {"snapshot"}, snap : Snapshots]
        \cup [seq : Nat, type : {"delta"}, side : Sides, price : Prices, delta : Int]

(* The part of the state the numbers are made of.                          *)
FeedType ==
    /\ ladder \in AllSizes
    /\ conn \in {"down", "up", "closing"}
    /\ srvSeq \in Nat /\ lastSeq \in Nat
    /\ chan \in Seq(Messages)

(* The messages on their way carry numbers the server has used, in order   *)
(* and newer than the last one handled; on a connection that stands, a     *)
(* number not handled and not on its way is one that was lost.             *)
Numbered ==
    /\ conn = "down" => chan = <<>> /\ srvSeq = 0 /\ lost = {}
    /\ conn # "down" => lastSeq <= srvSeq
    /\ \A i \in 1..Len(chan) : chan[i].seq > lastSeq /\ chan[i].seq <= srvSeq
    /\ \A i, j \in 1..Len(chan) : i < j => chan[i].seq < chan[j].seq
    /\ conn = "up" => \A k \in (lastSeq + 1)..srvSeq :
                        k \in lost \/ \E i \in 1..Len(chan) : chan[i].seq = k
(* What the messages are made of.                                          *)
LEMMA MessageFacts ==
    /\ \A m \in Messages : m.seq \in Nat
    /\ ladder \in AllSizes => /\ Snapshot \in Messages /\ Snapshot.seq = 1
                              /\ Snapshot.type = "snapshot"
                              /\ Snapshot.snap = Listing(ladder)
    /\ \A n \in Nat, s \in Sides, p \in Prices, d \in Int :
            /\ Delta(n, s, p, d) \in Messages /\ Delta(n, s, p, d).seq = n
            /\ Delta(n, s, p, d).type = "delta" /\ Delta(n, s, p, d).side = s
            /\ Delta(n, s, p, d).price = p /\ Delta(n, s, p, d).delta = d
<1>1. \A m \in Messages : m.seq \in Nat
  BY DEF Messages
<1>2. ASSUME ladder \in AllSizes
      PROVE  /\ Snapshot \in Messages /\ Snapshot.seq = 1
             /\ Snapshot.type = "snapshot" /\ Snapshot.snap = Listing(ladder)
  <2>1. Listing(ladder) \in Snapshots
    BY <1>2 DEF Snapshots
  <2> QED BY <2>1 DEF Snapshot, Messages
<1>3. ASSUME NEW n \in Nat, NEW s \in Sides, NEW p \in Prices, NEW d \in Int
      PROVE  /\ Delta(n, s, p, d) \in Messages /\ Delta(n, s, p, d).seq = n
             /\ Delta(n, s, p, d).type = "delta" /\ Delta(n, s, p, d).side = s
             /\ Delta(n, s, p, d).price = p /\ Delta(n, s, p, d).delta = d
  BY DEF Delta, Messages
<1> QED BY <1>1, <1>2, <1>3

(* A change of one level of the exchange's book.                           *)
LEMMA ChangeFacts ==
    ASSUME FeedType, ServerChange
    PROVE  /\ ladder' \in AllSizes
           /\ \E s \in Sides, p \in Prices, q \in Nat :
                 /\ q # ladder[s][p] /\ q - ladder[s][p] \in Int
                 /\ ladder' = [ladder EXCEPT ![s][p] = q]
                 /\ IF Streaming
                      THEN /\ srvSeq' = srvSeq + 1
                           /\ Send(Delta(srvSeq + 1, s, p, q - ladder[s][p]))
                      ELSE UNCHANGED <<srvSeq, chan, lost, losses>>
<1>1. PICK s \in Sides, p \in Prices, q \in 0..MaxQty :
         /\ q # ladder[s][p]
         /\ ladder' = [ladder EXCEPT ![s][p] = q]
         /\ IF Streaming
              THEN /\ srvSeq' = srvSeq + 1
                   /\ Send(Delta(srvSeq + 1, s, p, q - ladder[s][p]))
              ELSE UNCHANGED <<srvSeq, chan, lost, losses>>
  BY DEF ServerChange
<1>2. ladder \in [Sides -> [Prices -> Nat]]
  BY DEF FeedType, AllSizes
<1>3. q \in Nat /\ ladder[s][p] \in Nat
  BY <1>2, BoundsAssumption
<1>4. ladder' \in [Sides -> [Prices -> Nat]]
  BY <1>1, <1>2, <1>3
<1>5. q - ladder[s][p] \in Int
  BY <1>3
<1> QED BY <1>1, <1>3, <1>4, <1>5 DEF AllSizes

(* The next message of the server, on its way or lost.                     *)
LEMMA SendNumbered ==
    ASSUME FeedType, Numbered, NEW msg \in Messages, conn = "up", conn' = "up",
           msg.seq = srvSeq + 1, srvSeq' = srvSeq + 1, lastSeq' = lastSeq, Send(msg)
    PROVE  chan' \in Seq(Messages) /\ Numbered'
<1> DEFINE n == Len(chan)
<1>1. chan \in Seq(Messages) /\ n \in Nat /\ srvSeq \in Nat /\ lastSeq \in Nat
  BY DEF FeedType
<1>2. \A i \in 1..n : chan[i].seq \in Nat
  <2>1. \A i \in 1..n : chan[i] \in Messages
    BY <1>1
  <2> QED BY <2>1, MessageFacts
<1>3. /\ lastSeq <= srvSeq
      /\ \A i \in 1..n : chan[i].seq > lastSeq /\ chan[i].seq <= srvSeq
      /\ \A i, j \in 1..n : i < j => chan[i].seq < chan[j].seq
      /\ \A k \in (lastSeq + 1)..srvSeq :
            k \in lost \/ \E i \in 1..n : chan[i].seq = k
  BY DEF Numbered
<1>4. CASE chan' = Append(chan, msg) /\ lost' = lost
  <2>1. /\ chan' \in Seq(Messages) /\ Len(chan') = n + 1
        /\ chan'[n + 1] = msg /\ \A i \in 1..n : chan'[i] = chan[i]
    BY <1>1, <1>4
  <2> HIDE DEF n
  <2>2. \A i \in 1..(n + 1) : i \in 1..n \/ i = n + 1
    BY <1>1
  <2>3. n + 1 \in 1..(n + 1) /\ \A i \in 1..n : i \in 1..(n + 1)
    BY <1>1
  <2>4. \A i \in 1..(n + 1) : chan'[i].seq > lastSeq /\ chan'[i].seq <= srvSeq + 1
    BY <1>1, <1>2, <1>3, <2>1, <2>2
  <2>5. \A i, j \in 1..(n + 1) : i < j => chan'[i].seq < chan'[j].seq
    <3> SUFFICES ASSUME NEW i \in 1..(n + 1), NEW j \in 1..(n + 1), i < j
                 PROVE  chan'[i].seq < chan'[j].seq
      OBVIOUS
    <3>1. i \in 1..n
      BY <1>1
    <3>2. CASE j \in 1..n
      BY <1>3, <2>1, <3>1, <3>2
    <3>3. CASE j = n + 1
      BY <1>1, <1>2, <1>3, <2>1, <3>1, <3>3
    <3> QED BY <2>2, <3>2, <3>3
  <2>6. ASSUME NEW k \in (lastSeq + 1)..(srvSeq + 1)
        PROVE  k \in lost \/ \E i \in 1..(n + 1) : chan'[i].seq = k
    <3>1. CASE k = srvSeq + 1
      BY <2>1, <2>3, <3>1
    <3>2. CASE k # srvSeq + 1
      <4>1. k \in (lastSeq + 1)..srvSeq
        BY <1>1, <3>2
      <4> QED BY <1>3, <2>1, <2>3, <4>1
    <3> QED BY <3>1, <3>2
  <2> QED BY <1>1, <1>3, <1>4, <2>1, <2>4, <2>5, <2>6 DEF Numbered
<1>5. CASE chan' = chan /\ lost' = lost \cup {msg.seq}
  <2> HIDE DEF n
  <2>1. \A i \in 1..n : chan[i].seq > lastSeq /\ chan[i].seq <= srvSeq + 1
    BY <1>1, <1>2, <1>3
  <2>2. ASSUME NEW k \in (lastSeq + 1)..(srvSeq + 1)
        PROVE  k \in lost' \/ \E i \in 1..n : chan[i].seq = k
    <3>1. CASE k = srvSeq + 1
      BY <1>5, <3>1
    <3>2. CASE k # srvSeq + 1
      <4>1. k \in (lastSeq + 1)..srvSeq
        BY <1>1, <3>2
      <4> QED BY <1>3, <1>5, <4>1
    <3> QED BY <3>1, <3>2
  <2> QED BY <1>1, <1>3, <1>5, <2>1, <2>2 DEF Numbered, n
<1> QED BY <1>4, <1>5 DEF Send

(* A message taken off the channel.                                        *)
LEMMA TakenOff ==
    ASSUME FeedType, Numbered, chan # <<>>
    PROVE  /\ Len(chan) \in Nat /\ Len(chan) >= 1 /\ Head(chan) = chan[1]
           /\ Tail(chan) \in Seq(Messages) /\ Len(Tail(chan)) = Len(chan) - 1
           /\ \A i \in 1..(Len(chan) - 1) : Tail(chan)[i] = chan[i + 1]
           /\ Head(chan) \in Messages /\ Head(chan).seq \in Nat
           /\ Head(chan).seq > lastSeq /\ Head(chan).seq <= srvSeq
<1>1. chan \in Seq(Messages)
  BY DEF FeedType
<1>2. /\ Len(chan) \in Nat /\ Len(chan) >= 1 /\ Head(chan) = chan[1]
      /\ Tail(chan) \in Seq(Messages) /\ Len(Tail(chan)) = Len(chan) - 1
      /\ \A i \in 1..(Len(chan) - 1) : Tail(chan)[i] = chan[i + 1]
      /\ chan[1] \in Messages /\ 1 \in 1..Len(chan)
  BY <1>1
<1>3. chan[1].seq > lastSeq /\ chan[1].seq <= srvSeq
  BY <1>2 DEF Numbered
<1> QED BY <1>2, <1>3, MessageFacts

(* Every step keeps the numbering, whatever the switches of the            *)
(* environment allow.                                                      *)
LEMMA NumberedStep ==
    FeedType /\ Numbered /\ [Next]_vars => FeedType' /\ Numbered'
<1> SUFFICES ASSUME FeedType, Numbered, [Next]_vars PROVE FeedType' /\ Numbered'
  OBVIOUS
<1> USE DEF server, feed, session
<1>1. CASE ServerSnapshot
  <2>1. /\ conn = "up" /\ srvSeq = 0 /\ srvSeq' = 1 /\ Send(Snapshot)
        /\ UNCHANGED <<ladder, conn, lastSeq>>
    BY <1>1 DEF ServerSnapshot, Subscribing
  <2>2. Snapshot \in Messages /\ Snapshot.seq = 1
    BY MessageFacts DEF FeedType
  <2>3. chan' \in Seq(Messages) /\ Numbered'
    BY <2>1, <2>2, SendNumbered
  <2> QED BY <2>1, <2>3 DEF FeedType
<1>2. CASE ServerChange
  <2>1. UNCHANGED <<conn, lastSeq>>
    BY <1>2 DEF ServerChange
  <2>2. ladder' \in AllSizes
    BY <1>2, ChangeFacts
  <2>3. PICK s \in Sides, p \in Prices, q \in Nat :
           /\ q - ladder[s][p] \in Int
           /\ IF Streaming
                THEN /\ srvSeq' = srvSeq + 1
                     /\ Send(Delta(srvSeq + 1, s, p, q - ladder[s][p]))
                ELSE UNCHANGED <<srvSeq, chan, lost, losses>>
    BY <1>2, ChangeFacts
  <2>4. CASE Streaming
    <3> DEFINE msg == Delta(srvSeq + 1, s, p, q - ladder[s][p])
    <3>1. srvSeq \in Nat /\ srvSeq + 1 \in Nat
      BY DEF FeedType
    <3>2. msg \in Messages /\ msg.seq = srvSeq + 1
      BY <2>3, <3>1, MessageFacts
    <3>3. Send(msg) /\ srvSeq' = srvSeq + 1 /\ conn = "up"
      BY <2>3, <2>4 DEF Streaming
    <3> HIDE DEF msg
    <3>4. chan' \in Seq(Messages) /\ Numbered'
      BY <2>1, <3>2, <3>3, SendNumbered
    <3> QED BY <2>1, <2>2, <3>1, <3>3, <3>4 DEF FeedType
  <2>5. CASE ~Streaming
    BY <2>1, <2>2, <2>3, <2>5 DEF FeedType, Numbered
  <2> QED BY <2>4, <2>5
<1>3. CASE HandleMessage
  <2> DEFINE n == Len(chan)
  <2>1. /\ chan # <<>> /\ chan' = Tail(chan) /\ UNCHANGED <<ladder, srvSeq, lost>>
        /\ conn \in {"up", "closing"}
    BY <1>3 DEF HandleMessage
  <2>2. /\ n \in Nat /\ n >= 1 /\ Head(chan) = chan[1]
        /\ chan' \in Seq(Messages) /\ Len(chan') = n - 1
        /\ \A i \in 1..(n - 1) : chan'[i] = chan[i + 1]
        /\ Head(chan).seq \in Nat
        /\ Head(chan).seq > lastSeq /\ Head(chan).seq <= srvSeq
    BY <2>1, TakenOff
  <2>3. srvSeq \in Nat /\ lastSeq \in Nat /\ \A i \in 1..n : chan[i].seq \in Nat
    <3>1. \A i \in 1..n : chan[i] \in Messages
      BY DEF FeedType
    <3> QED BY <3>1, MessageFacts DEF FeedType
  <2>4. /\ \A i \in 1..n : chan[i].seq > lastSeq /\ chan[i].seq <= srvSeq
        /\ \A i, j \in 1..n : i < j => chan[i].seq < chan[j].seq
        /\ conn = "up" => \A k \in (lastSeq + 1)..srvSeq :
                            k \in lost \/ \E i \in 1..n : chan[i].seq = k
    BY DEF Numbered
  <2> HIDE DEF n
  <2>5. \A i \in 1..(n - 1) : i + 1 \in 1..n /\ 1 < i + 1 /\ 1 \in 1..n
    BY <2>2
  <2>6. \A i, j \in 1..(n - 1) : i < j => chan'[i].seq < chan'[j].seq
    <3> SUFFICES ASSUME NEW i \in 1..(n - 1), NEW j \in 1..(n - 1), i < j
                 PROVE  chan'[i].seq < chan'[j].seq
      OBVIOUS
    <3>1. i + 1 < j + 1
      BY <2>2
    <3> QED BY <2>2, <2>4, <2>5, <3>1
  <2>7. CASE /\ lastSeq' = Head(chan).seq /\ conn' = conn
    <3>1. lastSeq' \in Nat /\ lastSeq' > lastSeq /\ lastSeq' <= srvSeq /\ lastSeq' = chan[1].seq
      BY <2>2, <2>7
    <3>2. \A i \in 1..(n - 1) : chan'[i].seq > lastSeq' /\ chan'[i].seq <= srvSeq
      <4> SUFFICES ASSUME NEW i \in 1..(n - 1)
                   PROVE  chan'[i].seq > lastSeq' /\ chan'[i].seq <= srvSeq
        OBVIOUS
      <4>1. chan'[i] = chan[i + 1] /\ i + 1 \in 1..n /\ 1 < i + 1 /\ 1 \in 1..n
        BY <2>2, <2>5
      <4>2. chan[1].seq < chan[i + 1].seq /\ chan[i + 1].seq \in Nat
        BY <2>3, <2>4, <4>1
      <4> QED BY <2>3, <2>4, <3>1, <4>1, <4>2
    <3>3. ASSUME conn = "up", NEW k \in (lastSeq' + 1)..srvSeq
          PROVE  k \in lost \/ \E i \in 1..(n - 1) : chan'[i].seq = k
      <4>1. k \in (lastSeq + 1)..srvSeq /\ k # chan[1].seq
        BY <2>3, <3>1
      <4>2. CASE \E i \in 1..n : chan[i].seq = k
        <5>1. PICK i \in 1..n : chan[i].seq = k
          BY <4>2
        <5>2. i # 1
          BY <4>1, <5>1
        <5>3. i - 1 \in 1..(n - 1) /\ (i - 1) + 1 = i
          BY <2>2, <5>2
        <5>4. chan'[i - 1] = chan[i]
          BY <2>2, <5>3
        <5> QED BY <5>1, <5>3, <5>4
      <4> QED BY <2>4, <3>3, <4>1, <4>2
    <3> QED BY <2>1, <2>2, <2>3, <2>6, <2>7, <3>1, <3>2, <3>3 DEF FeedType, Numbered
  <2>8. CASE lastSeq' = 0 /\ conn' = "closing"
    <3>1. \A i \in 1..(n - 1) : chan'[i].seq > 0 /\ chan'[i].seq <= srvSeq
      BY <2>2, <2>3, <2>4, <2>5
    <3> QED BY <2>1, <2>2, <2>3, <2>6, <2>8, <3>1 DEF FeedType, Numbered
  <2> QED BY <1>3, <2>7, <2>8 DEF HandleMessage, GapFound
<1>4. CASE OnDisconnect
  <2>1. /\ conn' = "down" /\ srvSeq' = 0 /\ lost' = {} /\ chan' = <<>>
        /\ UNCHANGED <<ladder, lastSeq>>
    BY <1>4 DEF OnDisconnect
  <2> QED BY <2>1 DEF FeedType, Numbered
<1>5. CASE HandleConnect
  <2>1. /\ conn = "down" /\ conn' = "up" /\ lastSeq' = 0
        /\ UNCHANGED <<ladder, srvSeq, chan, lost>>
    BY <1>5 DEF HandleConnect
  <2> QED BY <2>1 DEF FeedType, Numbered
<1>6. CASE FetchBook \/ AddMarket \/ Subscribe \/ DropMarket \/ UNCHANGED vars
  <2>1. UNCHANGED <<ladder, conn, srvSeq, chan, lost, lastSeq>>
    BY <1>6 DEF FetchBook, AddMarket, Subscribe, DropMarket, vars
  <2> QED BY <2>1 DEF FeedType, Numbered
<1> QED BY <1>1, <1>2, <1>3, <1>4, <1>5, <1>6 DEF Next

(* The initial states.                                                     *)
LEMMA NumberedInit == Init => FeedType /\ Numbered
<1> SUFFICES ASSUME Init PROVE FeedType /\ Numbered
  OBVIOUS
<1>1. ladder \in [Sides -> [Prices -> Nat]]
  BY BoundsAssumption DEF Init
<1> QED BY <1>1 DEF Init, FeedType, Numbered, AllSizes

(* sequence_intact forces a resync only when a message of this connection  *)
(* was lost: the counts that handle_connect clears never make a message of *)
(* a new connection look like a gap.  It holds for any number of changes,  *)
(* losses and drops, a lost snapshot, messages dispatched after close()    *)
(* and a market adopted again included.                                    *)
THEOREM NoFalseGapHolds == Spec => NoFalseGap
<1> DEFINE Justified == (conn = "up" /\ conn' = "closing") => lost # {}
<1>1. ASSUME FeedType, Numbered, [Next]_vars PROVE [Justified]_vars
  <2> SUFFICES ASSUME conn = "up", conn' = "closing" PROVE lost # {}
    OBVIOUS
  <2>1. CASE HandleMessage
    <3>1. ~SequenceIntact(Head(chan).seq) /\ chan # <<>>
      BY <2>1 DEF HandleMessage
    <3>2. /\ Head(chan).seq \in Nat /\ Head(chan).seq > lastSeq /\ Head(chan).seq <= srvSeq
          /\ Head(chan) = chan[1] /\ Len(chan) \in Nat /\ Len(chan) >= 1
      BY <1>1, <3>1, TakenOff
    <3>3. lastSeq \in Nat /\ srvSeq \in Nat
      BY <1>1 DEF FeedType
    <3>4. Head(chan).seq > lastSeq + 1 /\ lastSeq + 1 \in (lastSeq + 1)..srvSeq
      BY <3>1, <3>2, <3>3 DEF SequenceIntact
    <3>5. ASSUME NEW i \in 1..Len(chan) PROVE chan[i].seq # lastSeq + 1
      <4>1. i = 1 \/ chan[1].seq < chan[i].seq
        BY <1>1, <3>2 DEF Numbered
      <4>2. chan[i].seq \in Nat
        <5>1. chan[i] \in Messages
          BY <1>1 DEF FeedType
        <5> QED BY <5>1, MessageFacts
      <4> QED BY <3>2, <3>3, <3>4, <4>1, <4>2
    <3>6. lastSeq + 1 \in lost
      BY <1>1, <3>4, <3>5 DEF Numbered
    <3> QED BY <3>6
  <2>2. CASE ~HandleMessage
    BY <1>1, <2>2 DEF Next, ServerSnapshot, ServerChange, OnDisconnect, HandleConnect,
       FetchBook, AddMarket, Subscribe, DropMarket, vars, server, feed, session
  <2> QED BY <2>1, <2>2
<1> QED BY <1>1, NumberedInit, NumberedStep, PTL DEF Spec, NoFalseGap
-----------------------------------------------------------------------------
(* The book.                                                               *)

(* What message m says, when past[k] is the exchange's book at number k.   *)
Carries(m, past) ==
    IF m.seq = 1
      THEN m.type = "snapshot" /\ m.snap = Listing(past[1])
      ELSE /\ m.type = "delta" /\ m.side \in Sides /\ m.price \in Prices
           /\ \E q \in Nat :
                 /\ q # past[m.seq - 1][m.side][m.price]
                 /\ m.delta = q - past[m.seq - 1][m.side][m.price]
                 /\ past[m.seq] = [past[m.seq - 1] EXCEPT ![m.side][m.price] = q]

(* b shows no level with more on it than sizes has.                        *)
Within(b, sizes) ==
    \E local \in AllSizes :
        /\ b = BookOf(local)
        /\ \A s \in Sides, p \in Prices : local[s][p] <= sizes[s][p]

(* past is the history of the exchange's book on this connection: the      *)
(* books were shown, the messages on their way tell their changes, and a   *)
(* traded market has the book of the last message handled.  A market that  *)
(* was dropped starts from an empty book again and has no more than that.  *)
Follows(past) ==
    /\ \A k \in 1..srvSeq : BookOf(past[k]) \in shown
    /\ \A k \in 1..srvSeq : ~Crossed(past[k])
    /\ (conn = "up" /\ lastSeq > 0) => Within(book, past[lastSeq])
    /\ (conn = "up" /\ srvSeq > 0) => past[srvSeq] = ladder
    /\ (tracked /\ conn = "up" /\ lastSeq > 0) => book = BookOf(past[lastSeq])
    /\ \A i \in 1..Len(chan) : Carries(chan[i], past)

Explained == \E past \in [1..srvSeq -> AllSizes] : Follows(past)

(* A market is adopted before it is subscribed to, from a book that was    *)
(* shown, and the snapshot of a subscription is not lost.                  *)
Seeded ==
    /\ BookOf(ladder) \in shown
    /\ 1 \notin lost
    /\ rotation # "idle" => ~subscribed
    /\ ~subscribed => srvSeq = 0
    /\ rotation = "fetched" => ApplySnapshot(fetched) \in shown

(* No book is crossed: the exchange's, those it has had, the local one.    *)
Sane(b) == \E sizes \in AllSizes : ~Crossed(sizes) /\ b = BookOf(sizes)
Uncrossed == ~Crossed(ladder) /\ Sane(book) /\ \A b \in shown : Sane(b)

(* The inductive invariant, and what it needs of the environment: a        *)
(* snapshot is not lost, nothing is dispatched after close(), a dropped    *)
(* market is not adopted again.                                            *)
BookInv == FeedType /\ Numbered /\ Seeded /\ Explained /\ BookWasReal /\ Uncrossed
Orderly == ~LoseSnapshot /\ ~DrainOnClose /\ ~Readopt

(* A market that was dropped shows nothing.                                *)
LEMMA EmptyIsWithin ==
    /\ Sane(EmptyBook)
    /\ \A sizes \in AllSizes : Within(EmptyBook, sizes)
<1> DEFINE none == [s \in Sides |-> [p \in Prices |-> 0]]
<1>1. none \in AllSizes /\ \A s \in Sides, p \in Prices : none[s][p] = 0
  BY DEF AllSizes
<1> HIDE DEF none
<1>2. ASSUME NEW s \in Sides PROVE BookOf(none)[s] = <<>>
  <2> DEFINE L == BookOf(none)[s]
  <2>1. IsLadder(L, none[s])
    BY <1>1, BookOfLadders
  <2>2. L \in Seq(Levels) /\ Len(L) \in Nat
        /\ \A i \in 1..Len(L) : L[i].price \in Prices /\ L[i].qty = none[s][L[i].price] /\ L[i].qty > 0
    BY <2>1, LadderFacts
  <2> HIDE DEF L
  <2>3. Len(L) = 0
    BY <1>1, <2>2
  <2>4. L = <<>>
    BY <2>2, <2>3
  <2> QED BY <2>4 DEF L
<1>3. BookOf(none) = [s \in Sides |-> BookOf(none)[s]]
  BY DEF BookOf
<1>4. BookOf(none) = EmptyBook
  BY <1>2, <1>3 DEF EmptyBook, Sides
<1>5. ~Crossed(none)
  BY <1>1 DEF Crossed, Sides
<1>6. ASSUME NEW sizes \in AllSizes, NEW s \in Sides, NEW p \in Prices
      PROVE  none[s][p] <= sizes[s][p]
  BY <1>1 DEF AllSizes
<1> QED BY <1>1, <1>4, <1>5, <1>6 DEF Sane, Within

(* What shows no more than an uncrossed book is not crossed.               *)
LEMMA WithinIsSane ==
    ASSUME NEW b, NEW sizes \in AllSizes, ~Crossed(sizes), Within(b, sizes)
    PROVE  Sane(b)
<1>1. PICK local \in AllSizes :
         b = BookOf(local) /\ \A s \in Sides, p \in Prices : local[s][p] <= sizes[s][p]
  BY DEF Within
<1>2. ASSUME NEW y \in Prices, NEW n \in Prices, local["yes"][y] > 0, local["no"][n] > 0,
             y + n >= 100
      PROVE  FALSE
  <2>1. /\ local["yes"][y] <= sizes["yes"][y] /\ local["no"][n] <= sizes["no"][n]
        /\ local["yes"][y] \in Nat /\ local["no"][n] \in Nat
        /\ sizes["yes"][y] \in Nat /\ sizes["no"][n] \in Nat
    BY <1>1 DEF Sides, AllSizes
  <2>2. sizes["yes"][y] > 0 /\ sizes["no"][n] > 0
    BY <1>2, <2>1
  <2> QED BY <1>2, <2>2 DEF Crossed
<1>3. ~Crossed(local)
  BY <1>2 DEF Crossed
<1> QED BY <1>1, <1>3 DEF Sane

(* A decrement below nothing erases the level, or finds none.              *)
LEMMA DeltaBelow ==
    ASSUME NEW sizes \in AllSizes, NEW s \in Sides, NEW p \in Prices,
           NEW d \in Int, d < 0, sizes[s][p] + d <= 0
    PROVE  ApplyDelta(BookOf(sizes), s, p, d) = BookOf([sizes EXCEPT ![s][p] = 0])
<1> DEFINE f == sizes[s]
           b == BookOf(sizes)
           L == b[s]
           i == InsertionPoint(L, p)
<1>1. sizes \in [Sides -> [Prices -> Nat]] /\ f[p] \in Nat
  BY DEF AllSizes
<1>2. /\ IsLadder(L, f) /\ DOMAIN b = Sides /\ b = [x \in Sides |-> b[x]]
  BY BookOfLadders DEF BookOf
<1>3. i \in 1..(Len(L) + 1) /\ Len(L) \in Nat
  BY <1>2, InsertionSplits, LadderFacts
<1>4. HasLevel(L, p) => i \in 1..Len(L) /\ L[i].price = p /\ L[i].qty = f[p] /\ f[p] > 0
  <2> SUFFICES ASSUME HasLevel(L, p)
               PROVE  i \in 1..Len(L) /\ L[i].price = p /\ L[i].qty = f[p] /\ f[p] > 0
    OBVIOUS
  <2>1. i <= Len(L) /\ L[i].price = p
    BY DEF HasLevel
  <2>2. i \in 1..Len(L)
    BY <1>3, <2>1
  <2> QED BY <1>2, <2>1, <2>2, LadderFacts
<1>5. CASE f[p] = 0
  <2>1. ~HasLevel(L, p)
    BY <1>4, <1>5
  <2>2. ApplyDelta(b, s, p, d) = [b EXCEPT ![s] = L]
    <3>1. ~(d > 0)
      OBVIOUS
    <3> HIDE DEF b, i
    <3> QED BY <2>1, <3>1, Zenon DEF ApplyDelta
  <2>3. [b EXCEPT ![s] = L] = b
    <3> HIDE DEF b
    <3> QED BY <1>2
  <2>4. [sizes EXCEPT ![s][p] = 0] = sizes
    BY <1>1, <1>5
  <2> QED BY <2>2, <2>3, <2>4
<1>6. CASE f[p] # 0
  <2> DEFINE e == 0 - f[p]
  <2>1. e \in Int /\ e < 0 /\ f[p] + e = 0
    BY <1>1, <1>6
  <2>2. ApplyDelta(b, s, p, e) = BookOf([sizes EXCEPT ![s][p] = 0])
    <3>1. 0 \in Nat /\ 0 # sizes[s][p]
      BY <1>6
    <3>2. \A q \in Nat : q # sizes[s][p] =>
             ApplyDelta(BookOf(sizes), s, p, q - sizes[s][p]) = BookOf([sizes EXCEPT ![s][p] = q])
      BY DeltaExact
    <3> QED BY <3>1, <3>2
  <2>3. ~(d > 0) /\ ~(e > 0) /\ f[p] + d <= 0 /\ f[p] + e <= 0
    BY <1>1, <2>1
  <2> HIDE DEF e, f, b, L, i
  <2>4. HasLevel(L, p) => Adjusted(L, i, d) = RemoveAt(L, i) /\ Adjusted(L, i, e) = RemoveAt(L, i)
    BY <1>4, <2>3 DEF Adjusted
  <2>5. ApplyDelta(b, s, p, d) = ApplyDelta(b, s, p, e)
    BY <2>3, <2>4 DEF ApplyDelta, L, i
  <2> QED BY <2>2, <2>5 DEF b
<1> QED BY <1>5, <1>6

(* A change of the exchange's book, applied to one within it.              *)
LEMMA DeltaWithin ==
    ASSUME NEW b, NEW sizes \in AllSizes, Within(b, sizes),
           NEW s \in Sides, NEW p \in Prices, NEW q \in Nat, q # sizes[s][p]
    PROVE  Within(ApplyDelta(b, s, p, q - sizes[s][p]), [sizes EXCEPT ![s][p] = q])
<1>1. PICK local \in AllSizes :
         b = BookOf(local) /\ \A x \in Sides, y \in Prices : local[x][y] <= sizes[x][y]
  BY DEF Within
<1> DEFINE d == q - sizes[s][p]
           to == IF local[s][p] + d > 0 THEN local[s][p] + d ELSE 0
           after == [local EXCEPT ![s][p] = to]
           target == [sizes EXCEPT ![s][p] = q]
<1>2. /\ local \in [Sides -> [Prices -> Nat]] /\ sizes \in [Sides -> [Prices -> Nat]]
      /\ local[s][p] \in Nat /\ sizes[s][p] \in Nat /\ local[s][p] <= sizes[s][p]
      /\ d \in Int /\ d # 0
  <2>1. local \in [Sides -> [Prices -> Nat]] /\ sizes \in [Sides -> [Prices -> Nat]]
    BY DEF AllSizes
  <2>2. local[s][p] \in Nat /\ sizes[s][p] \in Nat /\ local[s][p] <= sizes[s][p]
    BY <1>1, <2>1
  <2>3. d \in Int /\ d # 0
    BY <2>2
  <2> QED BY <2>1, <2>2, <2>3
<1>3. to \in Nat /\ to <= q
  BY <1>2
<1>4. ApplyDelta(b, s, p, d) = BookOf(after)
  <2>1. CASE local[s][p] + d > 0
    <3>1. to = local[s][p] + d /\ to # local[s][p] /\ to - local[s][p] = d
      BY <1>2, <2>1
    <3> HIDE DEF d, to
    <3> QED BY <1>1, <1>3, <3>1, DeltaExact
  <2>2. CASE ~(local[s][p] + d > 0)
    <3>1. local[s][p] + d <= 0 /\ to = 0
      BY <1>2, <2>2
    <3>2. CASE d < 0
      <4> HIDE DEF d, to
      <4> QED BY <1>1, <1>2, <3>1, <3>2, DeltaBelow
    <3>3. CASE ~(d < 0)
      BY <1>2, <3>1, <3>3
    <3> QED BY <3>2, <3>3
  <2> QED BY <2>1, <2>2
<1>5. after \in AllSizes
  <2> HIDE DEF to
  <2> QED BY <1>2, <1>3 DEF AllSizes
<1>6. ASSUME NEW x \in Sides, NEW y \in Prices PROVE after[x][y] <= target[x][y]
  <2>1. after[x][y] = IF x = s /\ y = p THEN to ELSE local[x][y]
    <3> HIDE DEF to
    <3> QED BY <1>2
  <2>2. target[x][y] = IF x = s /\ y = p THEN q ELSE sizes[x][y]
    BY <1>2
  <2> HIDE DEF to, after, target
  <2> QED BY <1>1, <1>3, <2>1, <2>2
<1> HIDE DEF after, target, d
<1>7. Within(ApplyDelta(b, s, p, d), target)
  BY <1>4, <1>5, <1>6 DEF Within
<1> QED BY <1>7 DEF d, target

(* A book is within itself.                                                *)
LEMMA WithinItself ==
    ASSUME NEW sizes \in AllSizes PROVE Within(BookOf(sizes), sizes)
<1>1. \A s \in Sides, p \in Prices : sizes[s][p] <= sizes[s][p]
  BY DEF AllSizes
<1> QED BY <1>1 DEF Within

(* A message that tells a change tells it still when more history is known.*)
LEMMA CarriesOn ==
    ASSUME NEW n \in Nat, NEW past, NEW more, NEW m, m.seq \in Nat,
           m.seq >= 1, m.seq <= n, \A k \in 1..n : more[k] = past[k], Carries(m, past)
    PROVE  Carries(m, more)
<1>1. CASE m.seq = 1
  <2>1. more[1] = past[1]
    BY <1>1
  <2> QED BY <1>1, <2>1 DEF Carries
<1>2. CASE m.seq # 1
  <2>1. more[m.seq] = past[m.seq] /\ more[m.seq - 1] = past[m.seq - 1]
    BY <1>2
  <2> QED BY <1>2, <2>1 DEF Carries
<1> QED BY <1>1, <1>2

(* A step of the server extends the history by the book it then has.       *)
LEMMA SendExplained ==
    ASSUME BookInv, NEW msg, msg.seq = srvSeq + 1,
           conn = "up", conn' = "up", srvSeq' = srvSeq + 1, lastSeq' = lastSeq,
           Send(msg), ladder' \in AllSizes, ~Crossed(ladder'), BookOf(ladder') \in shown',
           shown \subseteq shown', tracked' = tracked, book' = book,
           \A past \in [1..srvSeq -> AllSizes], more \in [1..(srvSeq + 1) -> AllSizes] :
              /\ Follows(past) /\ more[srvSeq + 1] = ladder'
              /\ \A k \in 1..srvSeq : more[k] = past[k]
              => Carries(msg, more)
    PROVE  Explained'
<1>1. srvSeq \in Nat /\ lastSeq \in Nat /\ lastSeq <= srvSeq /\ chan \in Seq(Messages)
  BY DEF BookInv, FeedType, Numbered
<1>2. PICK past \in [1..srvSeq -> AllSizes] : Follows(past)
  BY DEF BookInv, Explained
<1> DEFINE n == srvSeq
           longer == [k \in 1..(n + 1) |-> IF k = n + 1 THEN ladder' ELSE past[k]]
<1>3. longer \in [1..(n + 1) -> AllSizes]
  <2>1. \A k \in 1..(n + 1) : k = n + 1 \/ k \in 1..n
    BY <1>1
  <2>2. \A k \in 1..(n + 1) : (IF k = n + 1 THEN ladder' ELSE past[k]) \in AllSizes
    BY <2>1
  <2> QED BY <2>2
<1>4. PICK more \in [1..(n + 1) -> AllSizes] :
         more[n + 1] = ladder' /\ \A k \in 1..n : more[k] = past[k]
  <2>1. n + 1 \in 1..(n + 1) /\ \A k \in 1..n : k \in 1..(n + 1) /\ k # n + 1
    BY <1>1
  <2>2. longer[n + 1] = ladder' /\ \A k \in 1..n : longer[k] = past[k]
    BY <2>1
  <2> HIDE DEF longer
  <2> QED BY <1>3, <2>2
<1>5. Carries(msg, more)
  BY <1>2, <1>4
<1>6. \A k \in 1..(n + 1) : BookOf(more[k]) \in shown'
  <2>1. \A k \in 1..(n + 1) : k = n + 1 \/ k \in 1..n
    BY <1>1
  <2>2. \A k \in 1..n : BookOf(past[k]) \in shown'
    BY <1>2 DEF Follows
  <2> QED BY <1>4, <2>1, <2>2
<1>7. (tracked /\ lastSeq > 0) => book = BookOf(more[lastSeq])
  <2> SUFFICES ASSUME tracked, lastSeq > 0 PROVE book = BookOf(more[lastSeq])
    OBVIOUS
  <2>1. lastSeq \in 1..n
    BY <1>1
  <2>2. more[lastSeq] = past[lastSeq]
    BY <1>4, <2>1
  <2>3. book = BookOf(past[lastSeq])
    BY <1>2 DEF Follows
  <2> QED BY <2>2, <2>3
<1>7a. lastSeq > 0 => Within(book, more[lastSeq])
  <2> SUFFICES ASSUME lastSeq > 0 PROVE Within(book, more[lastSeq])
    OBVIOUS
  <2>1. lastSeq \in 1..n
    BY <1>1
  <2>2. more[lastSeq] = past[lastSeq]
    BY <1>4, <2>1
  <2>3. Within(book, past[lastSeq])
    BY <1>2 DEF Follows
  <2> QED BY <2>2, <2>3
<1>7b. \A k \in 1..(n + 1) : ~Crossed(more[k])
  <2>1. \A k \in 1..(n + 1) : k = n + 1 \/ k \in 1..n
    BY <1>1
  <2>2. \A k \in 1..n : ~Crossed(past[k])
    BY <1>2 DEF Follows
  <2> QED BY <1>4, <2>1, <2>2
<1>8. ASSUME NEW i \in 1..Len(chan) PROVE Carries(chan[i], more)
  <2>1. chan[i] \in Messages
    BY <1>1
  <2>2. chan[i].seq \in Nat /\ chan[i].seq > lastSeq /\ chan[i].seq <= n
    BY <2>1, MessageFacts DEF BookInv, Numbered
  <2>3. chan[i].seq >= 1
    BY <1>1, <2>2
  <2>4. Carries(chan[i], past)
    BY <1>2 DEF Follows
  <2> QED BY <1>1, <1>4, <2>2, <2>3, <2>4, CarriesOn
<1>9. \A i \in 1..Len(chan') : Carries(chan'[i], more)
  <2>1. CASE chan' = chan
    BY <1>8, <2>1
  <2>2. CASE chan' = Append(chan, msg)
    <3>1. /\ Len(chan) \in Nat /\ Len(chan') = Len(chan) + 1
          /\ chan'[Len(chan) + 1] = msg /\ \A i \in 1..Len(chan) : chan'[i] = chan[i]
      BY <1>1, <2>2
    <3>2. \A i \in 1..(Len(chan) + 1) : i \in 1..Len(chan) \/ i = Len(chan) + 1
      BY <3>1
    <3> QED BY <1>5, <1>8, <3>1, <3>2
  <2> QED BY <2>1, <2>2 DEF Send
<1>10. Follows(more)'
  <2>1. srvSeq' = n + 1
    OBVIOUS
  <2> HIDE DEF n
  <2> QED BY <1>4, <1>6, <1>7, <1>7a, <1>7b, <1>9, <2>1 DEF Follows
<1> QED BY <1>10 DEF Explained

(* The server answers a subscription.                                      *)
LEMMA SnapshotKeeps ==
    ASSUME Orderly, BookInv, ServerSnapshot
    PROVE  Seeded' /\ Explained' /\ BookWasReal'
<1>1. /\ conn = "up" /\ subscribed /\ srvSeq = 0 /\ srvSeq' = srvSeq + 1 /\ Send(Snapshot)
      /\ UNCHANGED <<ladder, shown, conn, subscribed, lastSeq, tracked, book, rotation, fetched>>
  BY DEF ServerSnapshot, Subscribing, server, session
<1>2. ladder \in AllSizes /\ BookOf(ladder) \in shown /\ ~Crossed(ladder)
  BY DEF BookInv, FeedType, Seeded, Uncrossed
<1>3. Snapshot.seq = 1 /\ Snapshot.type = "snapshot" /\ Snapshot.snap = Listing(ladder)
  BY <1>2, MessageFacts
<1>4. lost' = lost
  BY <1>1, <1>3 DEF Send, Orderly
<1>5. Seeded'
  BY <1>1, <1>4 DEF BookInv, Seeded
<1>6. \A more : more[srvSeq + 1] = ladder' => Carries(Snapshot, more)
  BY <1>1, <1>3 DEF Carries
<1>7. Snapshot.seq = srvSeq + 1
  BY <1>1, <1>3
<1>8. Explained'
  BY <1>1, <1>2, <1>6, <1>7, SendExplained
<1>9. BookWasReal'
  BY <1>1 DEF BookInv, BookWasReal
<1> QED BY <1>5, <1>8, <1>9

(* The exchange's book changes.                                            *)
LEMMA ChangeKeeps ==
    ASSUME Orderly, BookInv, ServerChange
    PROVE  Seeded' /\ Explained' /\ BookWasReal'
<1>1. /\ shown' = shown \cup {BookOf(ladder')}
      /\ ~Crossed(ladder')
      /\ UNCHANGED <<conn, subscribed, lastSeq, tracked, book, rotation, fetched>>
  BY DEF ServerChange, session
<1>2. FeedType /\ Numbered /\ Seeded /\ srvSeq \in Nat /\ ladder \in AllSizes
  BY DEF BookInv, FeedType
<1>3. ladder' \in AllSizes
  BY <1>2, ChangeFacts
<1>4. PICK s \in Sides, p \in Prices, q \in Nat :
         /\ q # ladder[s][p] /\ q - ladder[s][p] \in Int
         /\ ladder' = [ladder EXCEPT ![s][p] = q]
         /\ IF Streaming
              THEN /\ srvSeq' = srvSeq + 1
                   /\ Send(Delta(srvSeq + 1, s, p, q - ladder[s][p]))
              ELSE UNCHANGED <<srvSeq, chan, lost, losses>>
  BY <1>2, ChangeFacts
<1>5. BookWasReal'
  BY <1>1 DEF BookInv, BookWasReal
<1>6. CASE Streaming
  <2> DEFINE d == q - ladder[s][p]
             msg == Delta(srvSeq + 1, s, p, d)
  <2>1. conn = "up" /\ srvSeq > 0 /\ srvSeq + 1 \in Nat
    BY <1>2, <1>6 DEF Streaming
  <2>2. /\ msg.seq = srvSeq + 1 /\ msg.type = "delta" /\ msg.side = s
        /\ msg.price = p /\ msg.delta = d
    BY <1>4, <2>1, MessageFacts
  <2>3. srvSeq' = srvSeq + 1 /\ Send(msg)
    BY <1>4, <1>6
  <2> HIDE DEF msg
  <2>4. 1 \notin lost'
    <3>1. 1 # msg.seq /\ 1 \notin lost
      BY <1>2, <2>1, <2>2 DEF Seeded
    <3> QED BY <2>3, <3>1 DEF Send
  <2>5. subscribed
    BY <1>2, <2>1 DEF Seeded
  <2>6. Seeded'
    BY <1>1, <1>2, <2>4, <2>5 DEF Seeded
  <2>7. ASSUME NEW past \in [1..srvSeq -> AllSizes],
               NEW more \in [1..(srvSeq + 1) -> AllSizes],
               Follows(past), more[srvSeq + 1] = ladder',
               \A k \in 1..srvSeq : more[k] = past[k]
        PROVE  Carries(msg, more)
    <3>1. more[srvSeq] = ladder
      <4>1. srvSeq \in 1..srvSeq /\ past[srvSeq] = ladder
        BY <1>2, <2>1, <2>7 DEF Follows
      <4> QED BY <2>7, <4>1
    <3>2. msg.seq # 1 /\ msg.seq - 1 = srvSeq
      BY <1>2, <2>1, <2>2
    <3>3. \E x \in Nat : /\ x # more[srvSeq][s][p] /\ d = x - more[srvSeq][s][p]
                        /\ more[srvSeq + 1] = [more[srvSeq] EXCEPT ![s][p] = x]
      BY <1>4, <2>7, <3>1
    <3> HIDE DEF d
    <3> QED BY <2>2, <3>2, <3>3 DEF Carries
  <2>8. Explained'
    BY <1>1, <1>3, <2>1, <2>2, <2>3, <2>7, SendExplained
  <2> QED BY <1>5, <2>6, <2>8
<1>7. CASE ~Streaming
  <2>1. UNCHANGED <<srvSeq, chan, lost>> /\ ~(conn = "up" /\ srvSeq > 0)
    BY <1>4, <1>7 DEF Streaming
  <2>2. Seeded'
    BY <1>1, <1>2, <2>1 DEF Seeded
  <2>3. PICK past \in [1..srvSeq -> AllSizes] : Follows(past)
    BY DEF BookInv, Explained
  <2>4. Follows(past)'
    BY <1>1, <1>2, <2>1, <2>3 DEF Follows, Numbered
  <2>5. Explained'
    BY <2>1, <2>4 DEF Explained
  <2> QED BY <1>5, <2>2, <2>5
<1> QED BY <1>6, <1>7

(* The feed thread handles a message, or finds a gap.                      *)
LEMMA HandleKeeps ==
    ASSUME Orderly, BookInv, HandleMessage
    PROVE  Seeded' /\ Explained' /\ BookWasReal'
<1> DEFINE m == Head(chan)
           n == Len(chan)
<1>1. /\ conn = "up" /\ chan # <<>> /\ chan' = Tail(chan)
      /\ UNCHANGED <<ladder, shown, srvSeq, subscribed, lost, tracked, rotation, fetched>>
  BY DEF HandleMessage, Orderly, server
<1>2. FeedType /\ Numbered /\ Seeded /\ BookWasReal /\ srvSeq \in Nat /\ lastSeq \in Nat
  BY DEF BookInv, FeedType
<1>3. /\ n \in Nat /\ n >= 1 /\ m = chan[1] /\ Len(chan') = n - 1
      /\ \A i \in 1..(n - 1) : chan'[i] = chan[i + 1]
      /\ m.seq \in Nat /\ m.seq > lastSeq /\ m.seq <= srvSeq
  BY <1>1, <1>2, TakenOff
<1>4. PICK past \in [1..srvSeq -> AllSizes] : Follows(past)
  BY DEF BookInv, Explained
<1>5. Seeded'
  BY <1>1, <1>2 DEF Seeded
<1>6. \A i \in 1..Len(chan') : Carries(chan'[i], past)
  <2>1. \A i \in 1..n : Carries(chan[i], past)
    BY <1>4 DEF Follows
  <2>2. \A i \in 1..(n - 1) : i + 1 \in 1..n
    BY <1>3
  <2> HIDE DEF n
  <2> QED BY <1>3, <2>1, <2>2
<1>7. Carries(m, past)
  <2>1. 1 \in 1..n
    BY <1>3
  <2> QED BY <1>3, <1>4, <2>1 DEF Follows
<1>8. \A k \in 1..srvSeq : BookOf(past[k]) \in shown
  BY <1>4 DEF Follows
<1>9. /\ (srvSeq > 0) => past[srvSeq] = ladder
      /\ \A k \in 1..srvSeq : ~Crossed(past[k])
      /\ lastSeq > 0 => Within(book, past[lastSeq])
  BY <1>1, <1>4 DEF Follows
<1>10. CASE /\ SequenceIntact(m.seq) /\ lastSeq' = m.seq /\ Dispatch(m) /\ conn' = conn
  <2>1. m.seq \in 1..srvSeq
    BY <1>2, <1>3
  <2>2. Within(book', past[m.seq]) /\ (tracked => book' = BookOf(past[m.seq]))
    <3>1. CASE m.seq = 1
      <4>1. m.type = "snapshot" /\ m.snap = Listing(past[1])
        BY <1>7, <3>1 DEF Carries
      <4>2. book' = ApplySnapshot(m.snap)
        BY <1>10, <4>1 DEF Dispatch, OnSnapshot
      <4>3. past[1] \in AllSizes
        BY <2>1, <3>1
      <4> QED BY <3>1, <4>1, <4>2, <4>3, BookOfLadders, WithinItself
    <3>2. CASE m.seq # 1
      <4>1. lastSeq > 0 /\ m.seq = lastSeq + 1
        <5>1. CASE lastSeq = 0
          <6>1. 1 \in (lastSeq + 1)..srvSeq /\ 1 \notin lost
            BY <1>2, <1>3, <5>1 DEF Seeded
          <6>2. PICK i \in 1..n : chan[i].seq = 1
            BY <1>1, <1>2, <6>1 DEF Numbered
          <6>3. i = 1 \/ chan[1].seq < chan[i].seq
            BY <1>2, <1>3 DEF Numbered
          <6> QED BY <1>3, <3>2, <5>1, <6>2, <6>3
        <5>2. CASE lastSeq # 0
          BY <1>2, <1>10, <5>2 DEF SequenceIntact
        <5> QED BY <5>1, <5>2
      <4>2. m.seq - 1 = lastSeq /\ lastSeq \in 1..srvSeq
        <5>1. lastSeq \in Nat /\ srvSeq \in Nat /\ m.seq <= srvSeq /\ m.seq = lastSeq + 1
              /\ lastSeq > 0
          BY <1>2, <1>3, <4>1
        <5> HIDE DEF m
        <5> QED BY <5>1
      <4>3. /\ m.type = "delta" /\ m.side \in Sides /\ m.price \in Prices
            /\ \E q \in Nat :
                 /\ q # past[lastSeq][m.side][m.price]
                 /\ m.delta = q - past[lastSeq][m.side][m.price]
                 /\ past[m.seq] = [past[lastSeq] EXCEPT ![m.side][m.price] = q]
        BY <1>7, <3>2, <4>2 DEF Carries
      <4>4. PICK q \in Nat :
                 /\ q # past[lastSeq][m.side][m.price]
                 /\ m.delta = q - past[lastSeq][m.side][m.price]
                 /\ past[m.seq] = [past[lastSeq] EXCEPT ![m.side][m.price] = q]
        BY <4>3
      <4>5. tracked => book = BookOf(past[lastSeq])
        BY <1>1, <1>4, <4>1 DEF Follows
      <4>6. book' = ApplyDelta(book, m.side, m.price, m.delta)
        BY <1>10, <4>3 DEF Dispatch, OnDelta
      <4>7. past[lastSeq] \in AllSizes
        BY <4>2
      <4>8. ApplyDelta(BookOf(past[lastSeq]), m.side, m.price, q - past[lastSeq][m.side][m.price])
               = BookOf([past[lastSeq] EXCEPT ![m.side][m.price] = q])
        BY <4>3, <4>4, <4>7, DeltaExact
      <4>9. Within(ApplyDelta(book, m.side, m.price, q - past[lastSeq][m.side][m.price]),
                   [past[lastSeq] EXCEPT ![m.side][m.price] = q])
        BY <1>9, <4>1, <4>3, <4>4, <4>7, DeltaWithin
      <4> HIDE DEF m
      <4> QED BY <4>4, <4>5, <4>6, <4>8, <4>9
    <3> QED BY <3>1, <3>2
  <2> HIDE DEF m
  <2>3. BookWasReal'
    BY <1>1, <1>8, <2>1, <2>2 DEF BookWasReal
  <2>4. Follows(past)'
    BY <1>1, <1>6, <1>8, <1>9, <1>10, <2>2 DEF Follows
  <2>5. Explained'
    BY <1>1, <2>4 DEF Explained
  <2> QED BY <1>5, <2>3, <2>5
<1>11. CASE GapFound
  <2>1. lastSeq' = 0 /\ conn' = "closing" /\ book' = book
    BY <1>11 DEF GapFound
  <2>2. BookWasReal'
    BY <1>1, <1>2, <2>1 DEF BookWasReal
  <2>3. Follows(past)'
    BY <1>1, <1>6, <1>8, <1>9, <2>1 DEF Follows
  <2>4. Explained'
    BY <1>1, <2>3 DEF Explained
  <2> QED BY <1>5, <2>2, <2>4
<1> QED BY <1>10, <1>11 DEF HandleMessage

(* With no message sent yet there is nothing to explain.                   *)
LEMMA NothingSent == \E past : past \in [1..0 -> AllSizes]
<1>1. [k \in 1..0 |-> ladder] \in [1..0 -> AllSizes]
  OBVIOUS
<1> QED BY <1>1

(* No step crosses a book.                                                 *)
LEMMA UncrossedStep ==
    ASSUME Orderly, BookInv, [Next]_vars, Explained', FeedType'
    PROVE  Uncrossed'
<1>0. Numbered /\ Seeded /\ Uncrossed /\ FeedType
  BY DEF BookInv
<1>1. ASSUME ladder' = ladder, shown' = shown, book' = book PROVE Uncrossed'
  BY <1>0, <1>1 DEF Uncrossed, Sane
<1>2. ASSUME ladder' = ladder, shown' = shown, Sane(book') PROVE Uncrossed'
  BY <1>0, <1>2 DEF Uncrossed, Sane
<1>3. CASE ServerChange
  <2>1. /\ ~Crossed(ladder') /\ shown' = shown \cup {BookOf(ladder')} /\ book' = book
    BY <1>3 DEF ServerChange, session
  <2>2. ladder' \in AllSizes
    BY DEF FeedType
  <2>3. Sane(BookOf(ladder')) /\ Sane(book') /\ \A b \in shown : Sane(b)
    BY <1>0, <2>1, <2>2 DEF Uncrossed, Sane
  <2>4. \A b \in shown' : Sane(b)
    BY <2>1, <2>3
  <2> QED BY <2>1, <2>3, <2>4 DEF Uncrossed, Sane
<1>4. CASE HandleMessage
  <2>1. ladder' = ladder /\ shown' = shown
    BY <1>4 DEF HandleMessage, server
  <2>2. CASE GapFound
    BY <1>1, <2>1, <2>2 DEF GapFound
  <2>3. CASE lastSeq' = Head(chan).seq /\ conn' = conn
    <3>1. conn' = "up" /\ lastSeq' > 0 /\ lastSeq' <= srvSeq' /\ lastSeq' \in Nat
          /\ srvSeq' \in Nat
      <4>1. chan # <<>> /\ conn = "up" /\ srvSeq' = srvSeq
        BY <1>4 DEF HandleMessage, Orderly
      <4>2. Head(chan).seq \in Nat /\ Head(chan).seq > lastSeq /\ Head(chan).seq <= srvSeq
        BY <1>0, <4>1, <1>4, TakenOff DEF HandleMessage
      <4> QED BY <1>0, <2>3, <4>1, <4>2 DEF FeedType
    <3>2. PICK past \in [1..srvSeq' -> AllSizes] : Follows(past)'
      BY DEF Explained
    <3>3. lastSeq' \in 1..srvSeq'
      BY <3>1
    <3>4. Within(book', past[lastSeq']) /\ ~Crossed(past[lastSeq']) /\ past[lastSeq'] \in AllSizes
      BY <3>1, <3>2, <3>3 DEF Follows, Within
    <3>5. Sane(book')
      BY <3>4, WithinIsSane
    <3> QED BY <1>2, <2>1, <3>5
  <2> QED BY <1>4, <2>2, <2>3 DEF HandleMessage
<1>5. CASE AddMarket
  <2>1. book' \in shown /\ ladder' = ladder /\ shown' = shown
    BY <1>0, <1>5 DEF AddMarket, Seeded, server
  <2> QED BY <1>0, <1>2, <2>1 DEF Uncrossed
<1>6. CASE DropMarket
  BY <1>2, <1>6, EmptyIsWithin DEF DropMarket, server
<1>7. CASE \/ ServerSnapshot \/ OnDisconnect \/ HandleConnect \/ FetchBook \/ Subscribe
           \/ UNCHANGED vars
  BY <1>1, <1>7 DEF ServerSnapshot, OnDisconnect, HandleConnect, FetchBook, Subscribe, vars,
     server, session
<1> QED BY <1>3, <1>4, <1>5, <1>6, <1>7 DEF Next

(* Every step keeps the invariant.                                         *)
LEMMA BookStep == Orderly /\ BookInv /\ [Next]_vars => BookInv'
<1> SUFFICES ASSUME Orderly, BookInv, [Next]_vars
             PROVE  Seeded' /\ Explained' /\ BookWasReal'
  BY NumberedStep, UncrossedStep DEF BookInv
<1> USE DEF server, feed, session
<1>0. /\ FeedType /\ Numbered /\ Seeded /\ Explained /\ BookWasReal
      /\ srvSeq \in Nat /\ lastSeq \in Nat /\ ladder \in AllSizes
  BY DEF BookInv, FeedType
<1>1. CASE ServerSnapshot BY <1>1, SnapshotKeeps
<1>2. CASE ServerChange BY <1>2, ChangeKeeps
<1>3. CASE HandleMessage BY <1>3, HandleKeeps
<1>4. CASE OnDisconnect
  <2>1. /\ conn' = "down" /\ srvSeq' = 0 /\ lost' = {} /\ chan' = <<>>
        /\ UNCHANGED <<ladder, shown, subscribed, tracked, book, rotation, fetched>>
    BY <1>4 DEF OnDisconnect
  <2>2. PICK past : past \in [1..0 -> AllSizes]
    BY NothingSent
  <2>3. Follows(past)'
    BY <2>1 DEF Follows
  <2>4. Explained'
    BY <2>1, <2>2, <2>3 DEF Explained
  <2> QED BY <1>0, <2>1, <2>4 DEF Seeded, BookWasReal
<1>5. CASE HandleConnect
  <2>1. /\ conn = "down" /\ lastSeq' = 0
        /\ UNCHANGED <<ladder, shown, srvSeq, chan, lost, subscribed, tracked, book, rotation, fetched>>
    BY <1>5 DEF HandleConnect
  <2>2. srvSeq' = 0 /\ chan' = <<>>
    BY <1>0, <2>1 DEF Numbered
  <2>3. PICK past : past \in [1..0 -> AllSizes]
    BY NothingSent
  <2>4. Follows(past)'
    BY <2>1, <2>2 DEF Follows
  <2>5. Explained'
    BY <2>2, <2>3, <2>4 DEF Explained
  <2> QED BY <1>0, <2>1, <2>5 DEF Seeded, BookWasReal
<1>6. CASE FetchBook
  <2>1. /\ rotation' = "fetched" /\ fetched' = Listing(ladder) /\ ~subscribed
        /\ UNCHANGED <<ladder, shown, conn, srvSeq, subscribed, chan, lost, lastSeq, tracked, book>>
    BY <1>6 DEF FetchBook, Orderly
  <2>2. ApplySnapshot(fetched') \in shown
    BY <1>0, <2>1, BookOfLadders DEF Seeded
  <2>3. Explained'
    BY <1>0, <2>1 DEF Explained, Follows
  <2> QED BY <1>0, <2>1, <2>2, <2>3 DEF Seeded, BookWasReal
<1>7. CASE AddMarket
  <2>1. /\ rotation = "fetched" /\ rotation' = "added" /\ book' = ApplySnapshot(fetched)
        /\ UNCHANGED <<ladder, shown, conn, srvSeq, subscribed, chan, lost, lastSeq>>
    BY <1>7 DEF AddMarket
  <2>2. book' \in shown /\ ~subscribed /\ srvSeq = 0
    BY <1>0, <2>1 DEF Seeded
  <2>3. ~(conn = "up" /\ lastSeq > 0)
    BY <1>0, <2>2 DEF Numbered
  <2>4. PICK past \in [1..srvSeq -> AllSizes] : Follows(past)
    BY <1>0 DEF Explained
  <2>5. Follows(past)'
    BY <2>1, <2>3, <2>4 DEF Follows
  <2>6. Explained'
    BY <2>1, <2>5 DEF Explained
  <2> QED BY <1>0, <2>1, <2>2, <2>6 DEF Seeded, BookWasReal
<1>8. CASE Subscribe
  <2>1. /\ rotation' = "idle" /\ subscribed' = TRUE
        /\ UNCHANGED <<ladder, shown, conn, srvSeq, chan, lost, lastSeq, tracked, book, fetched>>
    BY <1>8 DEF Subscribe
  <2>2. Explained'
    BY <1>0, <2>1 DEF Explained, Follows
  <2> QED BY <1>0, <2>1, <2>2 DEF Seeded, BookWasReal
<1>9. CASE DropMarket
  <2>1. /\ tracked' = FALSE /\ book' = EmptyBook
        /\ UNCHANGED <<ladder, shown, conn, srvSeq, subscribed, chan, lost, lastSeq, rotation, fetched>>
    BY <1>9 DEF DropMarket
  <2>2. PICK past \in [1..srvSeq -> AllSizes] : Follows(past)
    BY <1>0 DEF Explained
  <2>3. (conn = "up" /\ lastSeq > 0) => Within(EmptyBook, past[lastSeq])
    <3>1. (conn = "up" /\ lastSeq > 0) => lastSeq \in 1..srvSeq
      BY <1>0 DEF Numbered
    <3> QED BY <3>1, EmptyIsWithin
  <2>3a. Follows(past)'
    BY <2>1, <2>2, <2>3 DEF Follows
  <2>4. Explained'
    BY <2>1, <2>3a DEF Explained
  <2> QED BY <1>0, <2>1, <2>4 DEF Seeded, BookWasReal
<1>10. CASE UNCHANGED vars
  <2>1. UNCHANGED <<ladder, shown, conn, srvSeq, subscribed, chan, lost, lastSeq, tracked, book,
                    rotation, fetched>>
    BY <1>10 DEF vars
  <2>2. Explained'
    BY <1>0, <2>1 DEF Explained, Follows
  <2> QED BY <1>0, <2>1, <2>2 DEF Seeded, BookWasReal
<1> QED BY <1>1, <1>2, <1>3, <1>4, <1>5, <1>6, <1>7, <1>8, <1>9, <1>10 DEF Next

(* The initial states.                                                     *)
LEMMA BookInitially == Init => BookInv
<1> SUFFICES ASSUME Init PROVE Seeded /\ Explained /\ BookWasReal /\ Uncrossed
  BY NumberedInit DEF BookInv
<1>1. Explained
  <2>1. PICK past : past \in [1..0 -> AllSizes]
    BY NothingSent
  <2>2. Follows(past) /\ srvSeq = 0
    BY DEF Init, Follows
  <2> QED BY <2>1, <2>2 DEF Explained
<1>2. Seeded /\ BookWasReal
  BY DEF Init, Seeded, BookWasReal, TrueBook
<1>3. Uncrossed
  <2>1. ladder \in AllSizes /\ ~Crossed(ladder) /\ shown = {BookOf(ladder)} /\ book = EmptyBook
    BY NumberedInit DEF Init, TrueBook, FeedType
  <2>2. Sane(BookOf(ladder)) /\ Sane(EmptyBook)
    BY <2>1, EmptyIsWithin DEF Sane
  <2> QED BY <2>1, <2>2 DEF Uncrossed
<1> QED BY <1>1, <1>2, <1>3

(* The quoter never prices a market on a book the exchange never had,      *)
(* however many messages were lost, connections dropped and markets        *)
(* adopted: sequence_intact lets nothing through that apply_delta would    *)
(* put on the wrong book.                                                  *)
THEOREM BookWasRealHolds ==
    ASSUME Orderly
    PROVE  Spec => []BookWasReal
<1>1. BookInv => BookWasReal
  BY DEF BookInv
<1>2. BookInv /\ [Next]_vars => BookInv'
  BY BookStep
<1> QED BY <1>1, <1>2, BookInitially, PTL DEF Spec

(* Once every message of the subscription is handled, the local book is    *)
(* the exchange's, level for level, for any number of levels and changes.  *)
THEOREM BookMirrorsExchangeHolds ==
    ASSUME Orderly
    PROVE  Spec => []BookMirrorsExchange
<1>1. ASSUME BookInv PROVE BookMirrorsExchange
  <2> SUFFICES ASSUME tracked, conn = "up", lastSeq > 0, lastSeq = srvSeq PROVE book = BookOf(ladder)
    BY DEF BookMirrorsExchange, TrueBook
  <2>1. PICK past \in [1..srvSeq -> AllSizes] : Follows(past)
    BY <1>1 DEF BookInv, Explained
  <2>2. past[srvSeq] = ladder /\ book = BookOf(past[lastSeq])
    BY <2>1 DEF Follows
  <2> QED BY <2>2
<1>2. BookInv /\ [Next]_vars => BookInv'
  BY BookStep
<1> QED BY <1>1, <1>2, BookInitially, PTL DEF Spec

-----------------------------------------------------------------------------
(* The prices read off a book.                                             *)

(* One summand is the sum.                                                 *)
LEMMA OneSummand ==
    ASSUME NEW f, f[1] \in Int
    PROVE  SumFunctionOnSet(f, 1..1) = f[1]
<1>1. 1..1 = {1} /\ {1} \ {1} = {} /\ IsFiniteSet({1})
  <2>1. IsFiniteSet({1})
    BY FS_Singleton
  <2> QED BY <2>1
<1>2. \A x \in {1} : f[x] \in Int
  OBVIOUS
<1>3. SumFunctionOnSet(f, {1}) = f[1] + SumFunctionOnSet(f, {1} \ {1})
  BY <1>1, <1>2, SumTakeOut
<1> QED BY <1>1, <1>3, SumEmpty

(* A product of naturals, and how products distribute.                     *)
LEMMA Products ==
    ASSUME NEW x \in Int, NEW y \in Int, NEW z \in Int
    PROVE  /\ x * y \in Int /\ x * y = y * x /\ (x * y) * z = x * (y * z)
           /\ x * (y + z) = x * y + x * z
           /\ (x \in Nat /\ y \in Nat) => x * y \in Nat
OBVIOUS

(* Weighted by any sizes, the mean of two prices lies between them.        *)
LEMMA MeanBetween ==
    ASSUME NEW bid \in Int, NEW ask \in Int, bid <= ask, NEW v \in Nat, NEW w \in Nat
    PROVE  /\ bid * (v + w) <= bid * w + ask * v
           /\ bid * w + ask * v <= ask * (v + w)
<1> DEFINE g == ask - bid
<1>1. g \in Nat /\ ask = bid + g
  OBVIOUS
<1>2. /\ bid * (v + w) = bid * v + bid * w
      /\ ask * (v + w) = ask * v + ask * w
  BY Products
<1>3. ask * v = bid * v + g * v /\ ask * w = bid * w + g * w
  <2> HIDE DEF g
  <2>1. (bid + g) * v = bid * v + g * v /\ (bid + g) * w = bid * w + g * w
    BY <1>1
  <2> QED BY <1>1, <2>1
<1>4. /\ g * v \in Nat /\ g * w \in Nat
      /\ bid * v \in Int /\ bid * w \in Int /\ ask * v \in Int /\ ask * w \in Int
  <2> HIDE DEF g
  <2> QED BY <1>1, Products
<1>5. \A a, b, c, d, e, f \in Int :
         (c = a + e /\ d = b + f /\ e >= 0 /\ f >= 0)
            => a + b <= b + c /\ b + c <= c + d
  OBVIOUS
<1> HIDE DEF g
<1>6. bid * v + bid * w <= bid * w + ask * v /\ bid * w + ask * v <= ask * v + ask * w
  BY <1>3, <1>4, <1>5
<1> QED BY <1>2, <1>6

(* A factor that is not negative keeps an order.                           *)
LEMMA FactorKeeps ==
    ASSUME NEW x \in Int, NEW y \in Int, x <= y, NEW k \in Nat
    PROVE  k * x <= k * y
<1> DEFINE g == y - x
<1>1. g \in Nat /\ y = x + g
  OBVIOUS
<1> HIDE DEF g
<1>2. k * y = k * x + k * g /\ k * g \in Nat /\ k * x \in Int /\ k * y \in Int
  BY <1>1, Products
<1> QED BY <1>2

(* clearing_price_cents with one level a side: the two weights as factors. *)
LEMMA ClearingFactors ==
    ASSUME NEW bid \in Int, NEW ask \in Int, NEW v \in Nat, NEW w \in Nat
    PROVE  /\ (v * bid) * w * w + (w * ask) * v * v = (v * w) * (bid * w + ask * v)
           /\ v * w * (v + w) = (v * w) * (v + w)
           /\ v * w \in Nat
<1>1. (v * bid) * w * w = (v * w) * (bid * w)
  <2>1. v * bid \in Int /\ bid * w \in Int /\ w * w \in Int
    BY Products
  <2>2. (v * bid) * w * w = (v * bid) * (w * w)
    BY <2>1, Products
  <2>3. (v * bid) * (w * w) = v * (bid * (w * w))
    BY <2>1, Products
  <2>4. bid * (w * w) = (bid * w) * w /\ (bid * w) * w = w * (bid * w)
    BY <2>1, Products
  <2>5. v * (w * (bid * w)) = (v * w) * (bid * w)
    BY <2>1, Products
  <2> QED BY <2>2, <2>3, <2>4, <2>5
<1>2. (w * ask) * v * v = (v * w) * (ask * v)
  <2>1. w * ask \in Int /\ ask * v \in Int /\ v * v \in Int /\ w * v \in Int
    BY Products
  <2>2. (w * ask) * v * v = (w * ask) * (v * v)
    BY <2>1, Products
  <2>3. (w * ask) * (v * v) = w * (ask * (v * v))
    BY <2>1, Products
  <2>4. ask * (v * v) = (ask * v) * v /\ (ask * v) * v = v * (ask * v)
    BY <2>1, Products
  <2>5. w * (v * (ask * v)) = (w * v) * (ask * v) /\ w * v = v * w
    BY <2>1, Products
  <2> QED BY <2>2, <2>3, <2>4, <2>5
<1>3. v * w \in Nat /\ v * w \in Int /\ bid * w \in Int /\ ask * v \in Int
  BY Products
<1>4. (v * w) * (bid * w + ask * v) = (v * w) * (bid * w) + (v * w) * (ask * v)
  BY <1>3, Products
<1> QED BY <1>1, <1>2, <1>3, <1>4

(* The best levels of a book that is not crossed.                          *)
LEMMA SaneBest ==
    ASSUME NEW b, Sane(b), TwoSided(b)
    PROVE  /\ b["yes"] = b.yes /\ b["no"] = b.no
           /\ \A s \in Sides : /\ Len(b[s]) \in Nat /\ Len(b[s]) >= 1
                               /\ Head(b[s]) = b[s][1]
                               /\ b[s][1].price \in 1..99
                               /\ b[s][1].qty \in Nat /\ b[s][1].qty > 0
           /\ b["yes"][1].price + b["no"][1].price < 100
<1>1. PICK sizes \in AllSizes : ~Crossed(sizes) /\ b = BookOf(sizes)
  BY DEF Sane
<1>2. \A s \in Sides : IsLadder(b[s], sizes[s])
  BY <1>1, BookOfLadders
<1>3. ASSUME NEW s \in Sides
      PROVE  /\ Len(b[s]) \in Nat /\ Len(b[s]) >= 1 /\ Head(b[s]) = b[s][1]
             /\ b[s][1].price \in Prices /\ b[s][1].price \in 1..99
             /\ b[s][1].qty \in Nat /\ b[s][1].qty > 0
             /\ b[s][1].qty = sizes[s][b[s][1].price]
  <2> DEFINE L == b[s]
  <2>1. IsLadder(L, sizes[s]) /\ L # <<>>
    BY <1>2 DEF TwoSided, Sides
  <2> HIDE DEF L
  <2>2. /\ L \in Seq(Levels) /\ Len(L) \in Nat
        /\ \A i \in 1..Len(L) : /\ L[i].price \in Prices /\ L[i].qty = sizes[s][L[i].price]
                                /\ L[i].qty > 0 /\ L[i].qty \in Nat
    BY <2>1, LadderFacts
  <2>3. Len(L) >= 1 /\ Head(L) = L[1] /\ 1 \in 1..Len(L)
    BY <2>1, <2>2
  <2>4. L[1].price \in Prices /\ L[1].qty = sizes[s][L[1].price] /\ L[1].qty > 0 /\ L[1].qty \in Nat
    BY <2>2, <2>3
  <2>5. L[1].price \in 1..99
    BY <2>4, BoundsAssumption
  <2> QED BY <2>2, <2>3, <2>4, <2>5 DEF L
<1> DEFINE y == b["yes"][1].price
           n == b["no"][1].price
<1>4. /\ y \in Prices /\ n \in Prices /\ y \in 1..99 /\ n \in 1..99
      /\ sizes["yes"][y] > 0 /\ sizes["no"][n] > 0
  BY <1>3 DEF Sides
<1>5. y + n < 100
  <2> HIDE DEF y, n
  <2>1. ~(y + n >= 100)
    BY <1>1, <1>4 DEF Crossed
  <2> QED BY <1>4, <2>1
<1> QED BY <1>3, <1>5

(* The bid and the ask, which are less than a contract apart.              *)
LEMMA BestPrices ==
    ASSUME NEW b, Sane(b), TwoSided(b)
    PROVE  LET bid == BestBid(b)
               ask == BestAsk(b)
           IN  /\ bid.price = b["yes"][1].price /\ ask.price = 100 - b["no"][1].price
               /\ bid.qty = b["yes"][1].qty /\ ask.qty = b["no"][1].qty
               /\ bid.price \in Int /\ ask.price \in Int /\ bid.price <= ask.price
               /\ ask.price - bid.price \in 0..200 /\ ask.price - bid.price \in Nat
               /\ bid.qty \in Nat /\ ask.qty \in Nat
<1> DEFINE y == b["yes"][1].price
           n == b["no"][1].price
           bid == BestBid(b)
           ask == BestAsk(b)
<1>1. /\ bid.price = y /\ ask.price = 100 - n
      /\ bid.qty = b["yes"][1].qty /\ ask.qty = b["no"][1].qty
  BY SaneBest DEF BestBid, BestAsk, Level, Complement, Sides
<1>2. /\ y \in 1..99 /\ n \in 1..99 /\ y + n < 100
      /\ b["yes"][1].qty \in Nat /\ b["no"][1].qty \in Nat
  BY SaneBest DEF Sides
<1>3. bid.qty \in Nat /\ ask.qty \in Nat
  BY <1>1, <1>2, Zenon
<1>4. /\ y \in Int /\ 100 - n \in Int /\ y <= 100 - n
      /\ (100 - n) - y \in 0..200 /\ (100 - n) - y \in Nat
  <2> HIDE DEF y, n
  <2> QED BY <1>2
<1> HIDE DEF bid, ask, y, n
<1>5. /\ bid.price \in Int /\ ask.price \in Int /\ bid.price <= ask.price
      /\ ask.price - bid.price \in 0..200 /\ ask.price - bid.price \in Nat
  BY <1>1, <1>4
<1> QED BY <1>1, <1>3, <1>5 DEF bid, ask, y, n

(* The YES price of side s's best level, and how far it is from the mid.   *)
YesPrice(b, s) == IF s = "yes" THEN b[s][1].price ELSE Complement(b[s][1].price)
FromMid(b, s) ==
    LET d == 2 * YesPrice(b, s) - DoubleMid(b) IN IF d < 0 THEN 0 - d ELSE d

(* What the best level of side s adds up to, when it is all that is read.  *)
LEMMA BestDepth ==
    ASSUME NEW b, NEW s \in Sides, NEW depth, NEW decay,
           Len(b[s]) \in Nat, Len(b[s]) >= 1,
           depth = 1 \/ (depth = 0 /\ Len(b[s]) = 1),
           b[s][1].qty \in Nat, YesPrice(b, s) \in Int, decay[FromMid(b, s)] \in Nat
    PROVE  LET weight == b[s][1].qty * decay[FromMid(b, s)]
           IN  SideDepth(b, s, depth, decay) = <<weight, weight * YesPrice(b, s)>>
<1> DEFINE n == Len(b[s])
           cents(i) == IF s = "yes" THEN b[s][i].price ELSE Complement(b[s][i].price)
           used == 1..(IF depth > 0 /\ depth < n THEN depth ELSE n)
           dist(i) == LET d == 2 * cents(i) - DoubleMid(b) IN IF d < 0 THEN 0 - d ELSE d
           weight(i) == b[s][i].qty * decay[dist(i)]
           F == [i \in used |-> weight(i)]
           G == [i \in used |-> weight(i) * cents(i)]
<1>1. used = 1..1
  <2>1. n \in Nat /\ n >= 1 /\ (depth = 1 \/ (depth = 0 /\ n = 1))
    OBVIOUS
  <2> HIDE DEF n
  <2>2. CASE depth = 1
    BY <2>1, <2>2
  <2>3. CASE depth = 0 /\ n = 1
    BY <2>3
  <2> QED BY <2>1, <2>2, <2>3
<1>2. cents(1) = YesPrice(b, s) /\ dist(1) = FromMid(b, s)
  BY DEF YesPrice, FromMid
<1> HIDE DEF dist, cents
<1>3. weight(1) \in Int /\ weight(1) * cents(1) \in Int
  <2>1. PICK q \in Nat, k \in Nat, p \in Int :
           q = b[s][1].qty /\ k = decay[dist(1)] /\ p = cents(1)
    BY <1>2
  <2>2. q * k \in Int
    BY <2>1
  <2>3. (q * k) * p \in Int
    BY <2>1, <2>2, Products
  <2> QED BY <2>1, <2>2, <2>3
<1>4. SideDepth(b, s, depth, decay) = <<SumFunctionOnSet(F, used), SumFunctionOnSet(G, used)>>
  BY DEF SideDepth, cents, dist
<1>5. weight(1) = b[s][1].qty * decay[FromMid(b, s)]
  BY <1>2
<1> HIDE DEF weight, used
<1>6. F[1] = weight(1) /\ G[1] = weight(1) * cents(1)
  BY <1>1
<1> HIDE DEF F, G
<1>7. SumFunctionOnSet(F, used) = weight(1) /\ SumFunctionOnSet(G, used) = weight(1) * cents(1)
  BY <1>1, <1>3, <1>6, OneSummand
<1> QED BY <1>2, <1>4, <1>5, <1>7

(* The two sides are as far from the mid, so both have the same weight.    *)
LEMMA BestClearing ==
    ASSUME NEW b, Sane(b), TwoSided(b), NEW depth, NEW decay \in [0..200 -> Nat],
           \A s \in Sides : depth = 1 \/ (depth = 0 /\ Len(b[s]) = 1)
    PROVE  LET k == decay[BestAsk(b).price - BestBid(b).price]
               v == BestBid(b).qty * k
               w == BestAsk(b).qty * k
           IN  /\ k \in Nat
               /\ ClearingPrice(b, depth, decay)
                    = <<(v * w) * (BestBid(b).price * w + BestAsk(b).price * v),
                        (v * w) * (v + w)>>
<1> DEFINE bid == BestBid(b).price
           ask == BestAsk(b).price
           far == ask - bid
           k == decay[far]
           v == BestBid(b).qty * k
           w == BestAsk(b).qty * k
<1>1. /\ bid = b["yes"][1].price /\ ask = 100 - b["no"][1].price
      /\ BestBid(b).qty = b["yes"][1].qty /\ BestAsk(b).qty = b["no"][1].qty
  BY BestPrices
<1>2. /\ bid \in Int /\ ask \in Int /\ far \in 0..200 /\ far \in Nat
      /\ BestBid(b).qty \in Nat /\ BestAsk(b).qty \in Nat
  BY BestPrices
<1>3. DoubleMid(b) = bid + ask
  BY DEF DoubleMid
<1>4. k \in Nat
  BY <1>2
<1>5. YesPrice(b, "yes") = bid /\ YesPrice(b, "no") = ask
  BY <1>1 DEF YesPrice, Complement
<1>6. 2 * bid - (bid + ask) = 0 - far /\ 2 * ask - (bid + ask) = far
  <2> HIDE DEF bid, ask
  <2> QED BY <1>2
<1>7. FromMid(b, "yes") = far /\ FromMid(b, "no") = far
  <2> HIDE DEF bid, ask, far
  <2>1. 0 - (0 - far) = far /\ (~(0 - far < 0) => 0 - far = far) /\ ~(far < 0)
    BY <1>2
  <2> QED BY <1>3, <1>5, <1>6, <2>1 DEF FromMid
<1>8. \A s \in Sides : Len(b[s]) \in Nat /\ Len(b[s]) >= 1 /\ b[s][1].qty \in Nat
  BY SaneBest
<1>9. SideDepth(b, "yes", depth, decay) = <<v, v * bid>>
  <2>1. "yes" \in Sides
    BY DEF Sides
  <2> HIDE DEF bid, ask, far
  <2> QED BY <1>1, <1>2, <1>4, <1>5, <1>7, <1>8, <2>1, BestDepth
<1>10. SideDepth(b, "no", depth, decay) = <<w, w * ask>>
  <2>1. "no" \in Sides
    BY DEF Sides
  <2> HIDE DEF bid, ask, far
  <2> QED BY <1>1, <1>2, <1>4, <1>5, <1>7, <1>8, <2>1, BestDepth
<1>11. v \in Nat /\ w \in Nat
  <2> HIDE DEF k
  <2> QED BY <1>2, <1>4, Products
<1> HIDE DEF v, w
<1>12. ClearingPrice(b, depth, decay)
          = <<(v * bid) * w * w + (w * ask) * v * v, v * w * (v + w)>>
  BY <1>9, <1>10 DEF ClearingPrice
<1> HIDE DEF bid, ask
<1>13. ClearingPrice(b, depth, decay)
          = <<(v * w) * (bid * w + ask * v), (v * w) * (v + w)>>
  BY <1>2, <1>11, <1>12, ClearingFactors
<1> QED BY <1>4, <1>13 DEF v, w, bid, ask

(* The prices of a book that is not crossed.                               *)
LEMMA SanePrices ==
    ASSUME Sane(book) PROVE ClearingIsMicro
<1> DEFINE flat == [d \in 0..200 |-> 1]
           halving == [d \in 0..200 |-> IF d = 0 THEN 4 ELSE IF d = 1 THEN 2 ELSE 1]
           micro == MicroPrice(book)
           clearing == ClearingPrice(book, 0, flat)
           best == ClearingPrice(book, 1, halving)
           bid == BestBid(book).price
           ask == BestAsk(book).price
           v == BestBid(book).qty
           w == BestAsk(book).qty
<1> SUFFICES ASSUME TwoSided(book)
             PROVE  /\ (Len(book.yes) = 1 /\ Len(book.no) = 1)
                          => clearing[1] * micro[2] = micro[1] * clearing[2]
                    /\ bid * micro[2] <= micro[1] /\ micro[1] <= ask * micro[2]
                    /\ bid * best[2] <= best[1] /\ best[1] <= ask * best[2]
  BY Zenon DEF ClearingIsMicro
<1>2. /\ bid \in Int /\ ask \in Int /\ bid <= ask /\ v \in Nat /\ w \in Nat
      /\ ask - bid \in 0..200
  BY BestPrices
<1>3. micro[1] = bid * w + ask * v /\ micro[2] = v + w
  BY DEF MicroPrice
<1>4. flat \in [0..200 -> Nat] /\ halving \in [0..200 -> Nat] /\ flat[ask - bid] = 1
  BY <1>2
<1>5. bid * micro[2] <= micro[1] /\ micro[1] <= ask * micro[2]
  <2> HIDE DEF micro, bid, ask, v, w
  <2> QED BY <1>2, <1>3, MeanBetween
<1>6. bid * best[2] <= best[1] /\ best[1] <= ask * best[2]
  <2> DEFINE k == halving[ask - bid]
             x == v * k
             y == w * k
  <2>1. k \in Nat /\ best = <<(x * y) * (bid * y + ask * x), (x * y) * (x + y)>>
    <3> HIDE DEF halving
    <3> QED BY <1>4, BestClearing
  <2> HIDE DEF k, best, bid, ask, v, w
  <2>2. x \in Nat /\ y \in Nat
    BY <1>2, <2>1, Products
  <2> HIDE DEF x, y
  <2>3. /\ x * y \in Nat /\ x + y \in Int /\ bid * y \in Int /\ ask * x \in Int
        /\ bid * (x + y) \in Int /\ ask * (x + y) \in Int
    BY <1>2, <2>2, Products
  <2> DEFINE P == x * y
             M == bid * y + ask * x
             S == x + y
  <2>4. bid * S <= M /\ M <= ask * S
    BY <1>2, <2>2, MeanBetween
  <2>5. M \in Int /\ S \in Int /\ P \in Nat /\ bid * S \in Int /\ ask * S \in Int
    BY <2>3
  <2>6. best[1] = P * M /\ best[2] = P * S
    BY <2>1
  <2> HIDE DEF P, M, S
  <2>7. P * (bid * S) <= P * M /\ P * M <= P * (ask * S)
    BY <2>4, <2>5, FactorKeeps
  <2>8. P * (bid * S) = bid * (P * S) /\ P * (ask * S) = ask * (P * S)
    <3>1. ASSUME NEW c \in Int PROVE P * (c * S) = c * (P * S)
      <4>1. P * (c * S) = (P * c) * S /\ P * c = c * P /\ (c * P) * S = c * (P * S)
        BY <2>5, Products
      <4> QED BY <4>1
    <3> QED BY <1>2, <3>1
  <2> QED BY <2>6, <2>7, <2>8
<1>7. ASSUME Len(book.yes) = 1, Len(book.no) = 1
      PROVE  clearing[1] * micro[2] = micro[1] * clearing[2]
  <2>1. \A s \in Sides : Len(book[s]) = 1
    BY <1>7 DEF Sides
  <2>2. flat[ask - bid] = 1 /\ v * flat[ask - bid] = v /\ w * flat[ask - bid] = w
    <3>1. v * 1 = v /\ w * 1 = w
      BY <1>2
    <3> QED BY <1>4, <3>1
  <2>3. clearing = <<(v * w) * (bid * w + ask * v), (v * w) * (v + w)>>
    <3> HIDE DEF flat
    <3>1. LET k == flat[ask - bid]
          IN  clearing = <<((v * k) * (w * k)) * (bid * (w * k) + ask * (v * k)),
                           ((v * k) * (w * k)) * ((v * k) + (w * k))>>
      BY <1>4, <2>1, BestClearing
    <3> HIDE DEF bid, ask, v, w, clearing
    <3> QED BY <2>2, <3>1
  <2> DEFINE P == v * w
             M == bid * w + ask * v
             S == v + w
  <2>4. P \in Int /\ M \in Int /\ S \in Int
    <3> HIDE DEF bid, ask, v, w
    <3>1. v * w \in Int /\ bid * w \in Int /\ ask * v \in Int
      BY <1>2, Products
    <3> QED BY <1>2, <3>1
  <2>5. clearing[1] = P * M /\ clearing[2] = P * S /\ micro[1] = M /\ micro[2] = S
    BY <1>3, <2>3
  <2> HIDE DEF P, M, S, clearing, micro
  <2>6. (P * M) * S = M * (P * S)
    <3>1. (P * M) * S = (M * P) * S /\ (M * P) * S = M * (P * S)
      BY <2>4, Products
    <3> QED BY <3>1
  <2> QED BY <2>5, <2>6
<1> QED BY <1>5, <1>6, <1>7

(* The prices read off the local book, of a market that is traded or no    *)
(* longer, lie between its best bid and ask, and the full-depth clearing   *)
(* price of clearing_price_cents is the micro-price with one level a side. *)
THEOREM ClearingIsMicroHolds ==
    ASSUME Orderly
    PROVE  Spec => []ClearingIsMicro
<1>1. BookInv => ClearingIsMicro
  BY SanePrices DEF BookInv, Uncrossed
<1>2. BookInv /\ [Next]_vars => BookInv'
  BY BookStep
<1> QED BY <1>1, <1>2, BookInitially, PTL DEF Spec

-----------------------------------------------------------------------------
(* The scan for markets, over any listing, configuration and answers.      *)

(* The cursor has passed page p of series s.                               *)
Passed(s, p) == phase # "listing" \/ s < series \/ (s = series /\ p < page)

ScanType ==
    /\ listing \in Listings /\ config \in Configs
    /\ phase \in {"listing", "incentives", "probing", "done", "failed"}
    /\ series \in 1..Len(listing) /\ page \in 1..Len(listing[series])
    /\ collected \in Seq(Listed)

(* What was collected are the markets of the pages passed, all of them.    *)
Collecting ==
    phase # "failed" =>
    /\ \A a \in 1..Len(collected) :
          \E s \in 1..Len(listing) : \E p \in 1..Len(listing[s]) :
             /\ Passed(s, p)
             /\ \E i \in 1..Len(listing[s][p]) : collected[a] = listing[s][p][i]
    /\ \A s \in 1..Len(listing) : \A p \in 1..Len(listing[s]) :
          Passed(s, p) => \A i \in 1..Len(listing[s][p]) :
             \E a \in 1..Len(collected) : collected[a] = listing[s][p][i]

(* What was ranked are the candidates, best first.                         *)
Ranking ==
    phase \in {"probing", "done"} =>
    /\ ranked \in Seq(ToSet(ranked))
    /\ \A i, j \in 1..Len(ranked) : i < j => ranked[i].score >= ranked[j].score
    /\ TickersOf(ranked) = {collected[a].ticker : a \in Candidates}

(* The pages of a listing.                                                 *)
LEMMA ListingFacts ==
    ASSUME NEW l \in Listings
    PROVE  /\ l \in Seq(Seq(Seq(Listed))) /\ Len(l) \in Nat /\ Len(l) >= 1
           /\ \A s \in 1..Len(l) :
                 /\ l[s] \in Seq(Seq(Listed)) /\ Len(l[s]) \in Nat /\ Len(l[s]) >= 1
                 /\ \A p \in 1..Len(l[s]) : /\ l[s][p] \in Seq(Listed)
                                            /\ Len(l[s][p]) \in Nat
<1>1. l \in Seq(Seq(Seq(Listed))) /\ l # <<>> /\ \A s \in DOMAIN l : l[s] # <<>>
  BY AnswersAssumption
<1> DEFINE P == Seq(Listed)
<1>2. \A s \in 1..Len(l) : l[s] \in Seq(P) /\ l[s] # <<>>
  BY <1>1
<1>3. \A s \in 1..Len(l) : Len(l[s]) \in Nat /\ Len(l[s]) >= 1
  <2> HIDE DEF P
  <2> QED BY <1>2
<1>4. ASSUME NEW s \in 1..Len(l), NEW p \in 1..Len(l[s])
      PROVE  l[s][p] \in P
  <2> HIDE DEF P
  <2> QED BY <1>2
<1>5. \A x \in P : Len(x) \in Nat
  OBVIOUS
<1> QED BY <1>1, <1>2, <1>3, <1>4, <1>5

(* Appending a page: the markets of both.                                  *)
LEMMA PageAppended ==
    ASSUME NEW m \in Seq(Listed), NEW n \in Seq(Listed)
    PROVE  /\ m \o n \in Seq(Listed) /\ Len(m \o n) = Len(m) + Len(n)
           /\ \A a \in 1..Len(m) : (m \o n)[a] = m[a] /\ a \in 1..Len(m \o n)
           /\ \A i \in 1..Len(n) : /\ (m \o n)[Len(m) + i] = n[i]
                                   /\ Len(m) + i \in 1..Len(m \o n)
           /\ \A a \in 1..Len(m \o n) : a \in 1..Len(m) \/ a - Len(m) \in 1..Len(n)
OBVIOUS

(* The markets of the whole listing, once the last page is passed.         *)
LEMMA AllMarketsAre ==
    ASSUME ScanType
    PROVE  \A m : m \in AllMarkets <=>
              \E s \in 1..Len(listing) : \E p \in 1..Len(listing[s]) :
                 \E i \in 1..Len(listing[s][p]) : m = listing[s][p][i]
<1>1. DOMAIN listing = 1..Len(listing)
  BY ListingFacts DEF ScanType
<1>2. ASSUME NEW s \in 1..Len(listing) PROVE DOMAIN listing[s] = 1..Len(listing[s])
  BY ListingFacts DEF ScanType
<1>3. ASSUME NEW s \in 1..Len(listing), NEW p \in 1..Len(listing[s])
      PROVE  DOMAIN listing[s][p] = 1..Len(listing[s][p])
  BY ListingFacts DEF ScanType
<1> DEFINE onPage(s, p) == ToSet(listing[s][p])
           of(s) == UNION {onPage(s, p) : p \in DOMAIN listing[s]}
<1>4. ASSUME NEW s \in 1..Len(listing), NEW p \in 1..Len(listing[s]), NEW m
      PROVE  m \in onPage(s, p) <=> \E i \in 1..Len(listing[s][p]) : m = listing[s][p][i]
  BY <1>3 DEF ToSet
<1>5. AllMarkets = UNION {of(s) : s \in DOMAIN listing}
  BY DEF AllMarkets
<1> HIDE DEF onPage
<1>6. ASSUME NEW s \in 1..Len(listing), NEW m
      PROVE  m \in of(s) <=> \E p \in 1..Len(listing[s]) : m \in onPage(s, p)
  BY <1>2
<1> HIDE DEF of
<1>7. \A m : m \in AllMarkets <=> \E s \in 1..Len(listing) : m \in of(s)
  BY <1>1, <1>5
<1> SUFFICES ASSUME NEW m
             PROVE  m \in AllMarkets <=>
                      \E s \in 1..Len(listing) : \E p \in 1..Len(listing[s]) :
                         \E i \in 1..Len(listing[s][p]) : m = listing[s][p][i]
  OBVIOUS
<1>8. ASSUME m \in AllMarkets
      PROVE  \E s \in 1..Len(listing) : \E p \in 1..Len(listing[s]) :
                \E i \in 1..Len(listing[s][p]) : m = listing[s][p][i]
  <2>1. PICK s \in 1..Len(listing) : m \in of(s)
    BY <1>7, <1>8
  <2>2. PICK p \in 1..Len(listing[s]) : m \in onPage(s, p)
    BY <1>6, <2>1
  <2>3. PICK i \in DOMAIN listing[s][p] : m = listing[s][p][i]
    BY <2>2 DEF onPage, ToSet
  <2>4. i \in 1..Len(listing[s][p])
    BY <1>3
  <2> QED BY <2>3, <2>4
<1>9. ASSUME NEW s \in 1..Len(listing), NEW p \in 1..Len(listing[s]),
             NEW i \in 1..Len(listing[s][p]), m = listing[s][p][i]
      PROVE  m \in AllMarkets
  <2>1. m \in onPage(s, p)
    BY <1>4, <1>9
  <2>2. m \in of(s)
    BY <1>6, <2>1
  <2> QED BY <1>7, <2>2
<1> QED BY <1>8, <1>9

(* A market may be traded: as scan's filters say it, without the rounding. *)
Tradable(m) ==
    /\ m.status = "active" /\ m.bid > 0 /\ m.ask > 0
    /\ ~(m.date # None /\ m.date < config.today)
    /\ m.bid + m.ask \in 2 * config.minPrice..2 * config.maxPrice + 1
    /\ m.ask - m.bid \in config.minSpread..config.maxSpread
    /\ m.volume >= config.minVolume
    /\ m.days \in config.minDays..config.maxDays

(* The rounded mid passes the price filter exactly when the mid does.      *)
LEMMA EligibleIsTradable ==
    ASSUME NEW m \in Listed, config \in Configs
    PROVE  Eligible(m) <=> Tradable(m)
<1>1. /\ m.bid \in Nat /\ m.ask \in Nat /\ m.date \in Int /\ m.volume \in Nat
      /\ m.days \in Int
  BY DEF Listed
<1>2. /\ config.minPrice \in Int /\ config.maxPrice \in Int /\ config.minSpread \in Int
      /\ config.maxSpread \in Int /\ config.today \in Int
  BY ScannerAssumption
<1>3. ASSUME NEW x \in Int, NEW low \in Int, NEW high \in Int
      PROVE  x \div 2 \in low..high <=> x \in 2 * low..2 * high + 1
  OBVIOUS
<1>4. (m.bid + m.ask) \div 2 \in config.minPrice..config.maxPrice
        <=> m.bid + m.ask \in 2 * config.minPrice..2 * config.maxPrice + 1
  <2>1. m.bid + m.ask \in Int
    BY <1>1
  <2> QED BY <1>2, <1>3, <2>1
<1>5. (m.date = None \/ m.date >= config.today) <=> ~(m.date # None /\ m.date < config.today)
  BY <1>1, <1>2
<1>6. (m.bid # 0 <=> m.bid > 0) /\ (m.ask # 0 <=> m.ask > 0)
  BY <1>1
<1> QED BY <1>4, <1>5, <1>6, Zenon DEF Eligible, Tradable

(* The filters depend on the configuration only.                           *)
LEMMA EligibleKept ==
    ASSUME NEW m, config' = config
    PROVE  Eligible(m)' <=> Eligible(m)
BY DEF Eligible

(* A page that arrives: what was collected stays what was passed.          *)
LEMMA PageCollected ==
    ASSUME ScanType, Collecting, FetchPage
    PROVE  /\ ScanType' /\ Collecting'
           /\ phase' \in {"listing", "incentives"}
           /\ collected' = collected \o listing[series][page]
           /\ listing[series][page] \in Seq(Listed)
<1> DEFINE new == listing[series][page]
<1>1. /\ phase = "listing" /\ collected' = collected \o new
      /\ listing' = listing /\ config' = config
  BY DEF FetchPage, Pages
<1>2. new \in Seq(Listed) /\ Len(listing) \in Nat /\ Len(listing[series]) \in Nat
  BY ListingFacts DEF ScanType
<1>3. collected' \in Seq(Listed)
  BY <1>1, <1>2, PageAppended DEF ScanType
<1>4. /\ phase' \in {"listing", "incentives"}
      /\ series' \in 1..Len(listing) /\ page' \in 1..Len(listing[series'])
      /\ \A s \in 1..Len(listing) : \A p \in 1..Len(listing[s]) :
            Passed(s, p)' <=> (Passed(s, p) \/ (s = series /\ p = page))
  <2>1. CASE page < Len(Pages) /\ page' = page + 1 /\ UNCHANGED <<series, phase>>
    BY <1>1, <1>2, <2>1 DEF ScanType, Passed, Pages
  <2>2. CASE /\ page = Len(Pages) /\ series < Len(listing)
             /\ series' = series + 1 /\ page' = 1 /\ UNCHANGED phase
    <3>1. series' \in 1..Len(listing) /\ page' \in 1..Len(listing[series'])
      <4>1. series' \in 1..Len(listing)
        BY <1>2, <2>2 DEF ScanType
      <4>2. Len(listing[series']) \in Nat /\ Len(listing[series']) >= 1
        BY <4>1, ListingFacts DEF ScanType
      <4> QED BY <2>2, <4>1, <4>2
    <3>2. ASSUME NEW s \in 1..Len(listing), NEW p \in 1..Len(listing[s])
          PROVE  Passed(s, p)' <=> (Passed(s, p) \/ (s = series /\ p = page))
      <4>1. CASE s = series
        <5>1. p <= page
          BY <1>2, <2>2, <4>1 DEF Pages
        <5> QED BY <1>1, <1>2, <2>2, <4>1, <5>1 DEF ScanType, Passed
      <4>2. CASE s # series
        <5>1. s < series' <=> s < series
          BY <1>2, <2>2, <4>2 DEF ScanType
        <5>2. ~(s = series' /\ p < page')
          BY <1>2, <2>2 DEF ScanType
        <5> QED BY <1>1, <2>2, <4>2, <5>1, <5>2 DEF Passed
      <4> QED BY <4>1, <4>2
    <3> QED BY <1>1, <2>2, <3>1, <3>2
  <2>3. CASE /\ page = Len(Pages) /\ series = Len(listing)
             /\ phase' = "incentives" /\ UNCHANGED <<series, page>>
    <3>1. ASSUME NEW s \in 1..Len(listing), NEW p \in 1..Len(listing[s])
          PROVE  Passed(s, p) \/ (s = series /\ p = page)
      <4>1. CASE s = series
        <5>1. p <= page
          BY <1>2, <2>3, <4>1 DEF Pages
        <5> QED BY <1>2, <4>1, <5>1 DEF ScanType, Passed
      <4>2. CASE s # series
        BY <1>2, <2>3, <4>2 DEF ScanType, Passed
      <4> QED BY <4>1, <4>2
    <3>2. \A s, p : Passed(s, p)'
      BY <2>3 DEF Passed
    <3> QED BY <2>3, <3>1, <3>2 DEF ScanType
  <2> QED BY <2>1, <2>2, <2>3 DEF FetchPage
<1>5. ScanType'
  BY <1>1, <1>3, <1>4 DEF ScanType
<1> HIDE DEF new
<1>6. /\ \A a \in 1..Len(collected) : collected'[a] = collected[a] /\ a \in 1..Len(collected')
      /\ \A i \in 1..Len(new) : /\ collected'[Len(collected) + i] = new[i]
                                /\ Len(collected) + i \in 1..Len(collected')
      /\ \A a \in 1..Len(collected') : \/ a \in 1..Len(collected)
                                       \/ a - Len(collected) \in 1..Len(new)
      /\ \A a \in 1..Len(collected') : Len(collected) + (a - Len(collected)) = a
  <2>1. collected \in Seq(Listed) /\ Len(collected) \in Nat
    BY DEF ScanType
  <2> QED BY <1>1, <1>2, <1>3, <2>1, PageAppended
<1>7. ASSUME NEW a \in 1..Len(collected')
      PROVE  \E s \in 1..Len(listing) : \E p \in 1..Len(listing[s]) :
                /\ Passed(s, p)'
                /\ \E i \in 1..Len(listing[s][p]) : collected'[a] = listing[s][p][i]
  <2>1. CASE a \in 1..Len(collected)
    <3>1. PICK s \in 1..Len(listing) : \E p \in 1..Len(listing[s]) :
                /\ Passed(s, p)
                /\ \E i \in 1..Len(listing[s][p]) : collected[a] = listing[s][p][i]
      BY <1>1, <2>1 DEF Collecting
    <3>2. PICK p \in 1..Len(listing[s]) :
                /\ Passed(s, p)
                /\ \E i \in 1..Len(listing[s][p]) : collected[a] = listing[s][p][i]
      BY <3>1
    <3>3. Passed(s, p)' /\ collected'[a] = collected[a]
      BY <1>4, <1>6, <2>1, <3>2
    <3> QED BY <3>2, <3>3
  <2>2. CASE a - Len(collected) \in 1..Len(new)
    <3>1. collected'[a] = new[a - Len(collected)]
      BY <1>6, <2>2
    <3>2. PICK s \in 1..Len(listing) : s = series
      BY DEF ScanType
    <3>3. PICK p \in 1..Len(listing[s]) : p = page
      BY <3>2 DEF ScanType
    <3>4. Passed(s, p)' /\ new = listing[s][p]
      BY <1>4, <3>2, <3>3 DEF new
    <3> QED BY <2>2, <3>1, <3>4
  <2> QED BY <1>6, <2>1, <2>2
<1>8. ASSUME NEW s \in 1..Len(listing), NEW p \in 1..Len(listing[s]), Passed(s, p)',
             NEW i \in 1..Len(listing[s][p])
      PROVE  \E a \in 1..Len(collected') : collected'[a] = listing[s][p][i]
  <2>1. CASE Passed(s, p)
    <3>1. PICK a \in 1..Len(collected) : collected[a] = listing[s][p][i]
      BY <1>1, <2>1 DEF Collecting
    <3> QED BY <1>6, <3>1
  <2>2. CASE s = series /\ p = page
    <3>1. new = listing[s][p]
      BY <2>2 DEF new
    <3> QED BY <1>6, <3>1
  <2> QED BY <1>4, <1>8, <2>1, <2>2
<1>9. ASSUME NEW a \in 1..Len(collected')
      PROVE  \E s \in 1..Len(listing') : \E p \in 1..Len(listing'[s]) :
                /\ Passed(s, p)'
                /\ \E i \in 1..Len(listing'[s][p]) : collected'[a] = listing'[s][p][i]
  BY <1>1, <1>7
<1>10. ASSUME NEW s \in 1..Len(listing'), NEW p \in 1..Len(listing'[s]), Passed(s, p)',
              NEW i \in 1..Len(listing'[s][p])
       PROVE  \E a \in 1..Len(collected') : collected'[a] = listing'[s][p][i]
  BY <1>1, <1>8, <1>10
<1>11. Collecting'
  BY <1>9, <1>10, Zenon DEF Collecting
<1> QED BY <1>1, <1>2, <1>4, <1>5, <1>11 DEF new

(* Every other step leaves what was collected as it is.                    *)
LEMMA CollectingKept ==
    ASSUME ScanType, Collecting, UNCHANGED <<listing, config, series, page, collected>>,
           phase' \in {"listing", "incentives", "probing", "done", "failed"},
           \/ phase' = phase \/ phase' = "failed"
           \/ phase \in {"incentives", "probing"} /\ phase' \in {"probing", "done"}
    PROVE  ScanType' /\ Collecting'
<1>1. ScanType'
  BY DEF ScanType
<1>2. ASSUME phase' # "failed", NEW s, NEW p
      PROVE  phase # "failed" /\ (Passed(s, p)' <=> Passed(s, p))
  BY <1>2 DEF Passed
<1>3. ASSUME phase' # "failed", NEW a \in 1..Len(collected')
      PROVE  \E s \in 1..Len(listing') : \E p \in 1..Len(listing'[s]) :
                /\ Passed(s, p)'
                /\ \E i \in 1..Len(listing'[s][p]) : collected'[a] = listing'[s][p][i]
  <2>1. PICK s \in 1..Len(listing) : \E p \in 1..Len(listing[s]) :
           /\ Passed(s, p)
           /\ \E i \in 1..Len(listing[s][p]) : collected[a] = listing[s][p][i]
    BY <1>2, <1>3 DEF Collecting
  <2>2. PICK p \in 1..Len(listing[s]) :
           /\ Passed(s, p)
           /\ \E i \in 1..Len(listing[s][p]) : collected[a] = listing[s][p][i]
    BY <2>1
  <2>3. Passed(s, p)'
    BY <1>2, <1>3, <2>2
  <2> QED BY <2>2, <2>3
<1>4. ASSUME phase' # "failed", NEW s \in 1..Len(listing'), NEW p \in 1..Len(listing'[s]),
             Passed(s, p)', NEW i \in 1..Len(listing'[s][p])
      PROVE  \E a \in 1..Len(collected') : collected'[a] = listing'[s][p][i]
  <2>1. Passed(s, p) /\ phase # "failed"
    BY <1>2, <1>4
  <2>2. PICK a \in 1..Len(collected) : collected[a] = listing[s][p][i]
    BY <1>4, <2>1 DEF Collecting
  <2> QED BY <2>2
<1>5. Collecting'
  BY <1>3, <1>4, Zenon DEF Collecting
<1> QED BY <1>1, <1>5

(* A function on 1..n is a sequence of its values.                         *)
LEMMA SequenceOfItself ==
    ASSUME NEW n \in Nat, NEW f, f = [i \in 1..n |-> f[i]]
    PROVE  f \in Seq(ToSet(f)) /\ Len(f) = n /\ DOMAIN f = 1..n
<1>1. DOMAIN f = 1..n
  OBVIOUS
<1>2. \A i \in 1..n : f[i] \in ToSet(f)
  BY <1>1 DEF ToSet
<1> DEFINE S == ToSet(f)
<1> HIDE DEF S
<1>3. f \in [1..n -> S]
  BY <1>1, <1>2 DEF S
<1> QED BY <1>3 DEF S

(* A ranking puts every candidate in one place, the best first.            *)
LEMMA RankingOrders ==
    ASSUME ScanType, NEW rewards, NEW p \in Rankings(Scores(rewards))
    PROVE  LET n == Cardinality(Candidates)
               score == Scores(rewards)
           IN  /\ n \in Nat /\ DOMAIN p = 1..n
               /\ \A i \in 1..n : p[i] \in Candidates /\ p[i] \in 1..Len(collected)
               /\ \A a \in Candidates : \E i \in 1..n : p[i] = a
               /\ \A i, j \in 1..n : i # j => p[i] # p[j]
               /\ \A i, j \in 1..n : i < j => score[p[i]] >= score[p[j]]
<1> DEFINE n == Cardinality(Candidates)
           C == Candidates
           score == Scores(rewards)
<1>1. DOMAIN score = C
  BY DEF Scores
<1>2. Len(collected) \in Nat /\ C \subseteq 1..Len(collected)
  BY DEF ScanType, Candidates
<1>3. IsFiniteSet(C) /\ n \in Nat
  <2>1. IsFiniteSet(1..Len(collected))
    BY <1>2, FS_Interval
  <2>2. IsFiniteSet(C)
    BY <1>2, <2>1, FS_Subset
  <2> QED BY <2>2, FS_CardinalityType
<1> HIDE DEF C, score
<1>4. /\ p \in [1..n -> C]
      /\ \A i, j \in 1..n : i < j => p[i] # p[j] /\ score[p[i]] >= score[p[j]]
  <2>1. n = Cardinality(DOMAIN score)
    BY <1>1 DEF C
  <2> QED BY <1>1, <2>1 DEF Rankings, score
<1> HIDE DEF n
<1>5. \A i, j \in 1..n : i # j => p[i] # p[j]
  <2>1. \A i, j \in 1..n : i # j => i < j \/ j < i
    BY <1>3
  <2> QED BY <1>4, <2>1
<1>6. p \in Injection(1..n, C)
  BY <1>4, <1>5 DEF Injection, IsInjective
<1>7. Cardinality(1..n) = n
  <2>1. 1 \in Int /\ n \in Int
    BY <1>3
  <2> QED BY <1>3, <2>1, FS_Interval
<1>8. p \in Surjection(1..n, C)
  <2>1. Cardinality(1..n) = Cardinality(C)
    BY <1>7 DEF n, C
  <2> QED BY <1>3, <1>6, <2>1, FS_Injection
<1>9. \A a \in C : \E i \in 1..n : p[i] = a
  BY <1>8 DEF Surjection
<1> QED BY <1>2, <1>3, <1>4, <1>5, <1>9 DEF n, C, score

(* The answer to the incentive request: the candidates are ranked.         *)
LEMMA CandidatesRanked ==
    ASSUME ScanType, FetchIncentives
    PROVE  \E rewards : \E p \in Rankings(Scores(rewards)) :
              LET n == Cardinality(Candidates)
                  score == Scores(rewards)
              IN  /\ ranked' \in Seq(ToSet(ranked')) /\ Len(ranked') = n
                  /\ DOMAIN ranked' = 1..n
                  /\ \A i \in 1..n : /\ ranked'[i].ticker = collected[p[i]].ticker
                                     /\ ranked'[i].score = score[p[i]]
<1>1. PICK rewards \in RewardTables : \E p \in Rankings(Scores(rewards)) :
         ranked' = [i \in DOMAIN p |-> [ticker |-> collected[p[i]].ticker,
                                       score |-> Scores(rewards)[p[i]]]]
  BY DEF FetchIncentives
<1> DEFINE n == Cardinality(Candidates)
           score == Scores(rewards)
<1>2. PICK p \in Rankings(score) :
         ranked' = [i \in DOMAIN p |-> [ticker |-> collected[p[i]].ticker,
                                       score |-> score[p[i]]]]
  BY <1>1
<1>3. n \in Nat /\ DOMAIN p = 1..n
  BY RankingOrders
<1> HIDE DEF n, score
<1>4. ranked' = [i \in 1..n |-> ranked'[i]]
  BY <1>2, <1>3
<1>5. ranked' \in Seq(ToSet(ranked')) /\ Len(ranked') = n /\ DOMAIN ranked' = 1..n
  <2> DEFINE f == ranked'
  <2>1. f = [i \in 1..n |-> f[i]]
    BY <1>4
  <2> HIDE DEF f
  <2>2. f \in Seq(ToSet(f)) /\ Len(f) = n /\ DOMAIN f = 1..n
    BY <1>3, <2>1, SequenceOfItself
  <2> QED BY <2>2 DEF f, ToSet
<1>6. ASSUME NEW i \in 1..n
      PROVE  ranked'[i].ticker = collected[p[i]].ticker /\ ranked'[i].score = score[p[i]]
  BY <1>2, <1>3
<1> QED BY <1>5, <1>6 DEF n, score

(* The candidates change with what was collected only.                     *)
LEMMA CandidatesKept ==
    ASSUME UNCHANGED <<config, collected>>
    PROVE  Candidates' = Candidates
<1>1. \A m : Eligible(m)' <=> Eligible(m)
  BY EligibleKept
<1>2. ASSUME NEW i PROVE (Eligible(collected[i])') <=> Eligible(collected[i])
  <2>1. PICK m : m = collected[i]
    OBVIOUS
  <2>2. m = collected'[i]
    BY <2>1
  <2> QED BY <2>1, <2>2 DEF Eligible
<1> QED BY <1>2 DEF Candidates

(* The ranking of FetchIncentives.                                         *)
LEMMA RankingMade ==
    ASSUME ScanType, FetchIncentives
    PROVE  Ranking'
<1>1. PICK rewards : \E p \in Rankings(Scores(rewards)) :
         LET n == Cardinality(Candidates)
             score == Scores(rewards)
         IN  /\ ranked' \in Seq(ToSet(ranked')) /\ Len(ranked') = n
             /\ DOMAIN ranked' = 1..n
             /\ \A i \in 1..n : /\ ranked'[i].ticker = collected[p[i]].ticker
                                /\ ranked'[i].score = score[p[i]]
  BY CandidatesRanked
<1> DEFINE n == Cardinality(Candidates)
           score == Scores(rewards)
           C == Candidates
<1>2. PICK p \in Rankings(score) :
         /\ ranked' \in Seq(ToSet(ranked')) /\ Len(ranked') = n
         /\ DOMAIN ranked' = 1..n
         /\ \A i \in 1..n : /\ ranked'[i].ticker = collected[p[i]].ticker
                            /\ ranked'[i].score = score[p[i]]
  BY <1>1
<1>3. /\ n \in Nat /\ DOMAIN p = 1..n
      /\ \A i \in 1..n : p[i] \in C
      /\ \A a \in C : \E i \in 1..n : p[i] = a
      /\ \A i, j \in 1..n : i < j => score[p[i]] >= score[p[j]]
  BY RankingOrders
<1>4. UNCHANGED <<config, collected>> /\ Candidates' = C
  <2>1. UNCHANGED <<config, collected>>
    BY DEF FetchIncentives
  <2> QED BY <2>1, CandidatesKept
<1> HIDE DEF n, score, C
<1>5. \A i, j \in 1..Len(ranked') : i < j => ranked'[i].score >= ranked'[j].score
  BY <1>2, <1>3
<1>6. {ranked'[i].ticker : i \in DOMAIN ranked'} = {collected[a].ticker : a \in C}
  <2>1. ASSUME NEW i \in 1..n PROVE \E a \in C : ranked'[i].ticker = collected[a].ticker
    BY <1>2, <1>3
  <2>2. ASSUME NEW a \in C PROVE \E i \in 1..n : ranked'[i].ticker = collected[a].ticker
    BY <1>2, <1>3
  <2>3. DOMAIN ranked' = 1..n
    BY <1>2
  <2>4. {ranked'[i].ticker : i \in 1..n} \subseteq {collected[a].ticker : a \in C}
    BY <2>1
  <2>5. {collected[a].ticker : a \in C} \subseteq {ranked'[i].ticker : i \in 1..n}
    BY <2>2
  <2> QED BY <2>3, <2>4, <2>5, Zenon
<1>7. TickersOf(ranked)' = {collected'[a].ticker : a \in Candidates'}
  BY <1>4, <1>6 DEF TickersOf
<1>8. ranked' \in Seq(ToSet(ranked)')
  BY <1>2 DEF ToSet
<1> QED BY <1>5, <1>7, <1>8 DEF Ranking

(* The part of the invariant that does not need the tickers to differ.     *)
ListingInv == ScanType /\ Collecting /\ Ranking

LEMMA ListingInitially == ScanInit => ListingInv
<1> SUFFICES ASSUME ScanInit PROVE ListingInv
  OBVIOUS
<1>1. ScanType
  <2>1. Len(listing) \in Nat /\ Len(listing) >= 1
    BY ListingFacts DEF ScanInit
  <2>2. 1 \in 1..Len(listing)
    BY <2>1
  <2>3. Len(listing[1]) \in Nat /\ Len(listing[1]) >= 1
    BY <2>2, ListingFacts DEF ScanInit
  <2>4. series \in 1..Len(listing) /\ page \in 1..Len(listing[series])
    BY <2>2, <2>3 DEF ScanInit
  <2> QED BY <2>4 DEF ScanInit, ScanType
<1>2. Collecting
  <2>1. ASSUME NEW s \in 1..Len(listing), NEW p \in 1..Len(listing[s]) PROVE ~Passed(s, p)
    <3>1. Len(listing) \in Nat /\ Len(listing[s]) \in Nat
      BY ListingFacts DEF ScanInit
    <3> QED BY <3>1 DEF Passed, ScanInit
  <2>2. Len(collected) = 0
    BY DEF ScanInit
  <2> QED BY <2>1, <2>2 DEF Collecting
<1>3. Ranking
  BY DEF ScanInit, Ranking
<1> QED BY <1>1, <1>2, <1>3 DEF ListingInv

(* A ranking stays while its candidates do.                                *)
LEMMA RankingKept ==
    ASSUME Ranking, UNCHANGED <<config, collected, ranked>>,
           phase' \in {"probing", "done"} => phase \in {"probing", "done"}
    PROVE  Ranking'
<1>1. Candidates' = Candidates
  BY CandidatesKept
<1>2. TickersOf(ranked)' = TickersOf(ranked) /\ ToSet(ranked)' = ToSet(ranked)
  BY DEF TickersOf, ToSet
<1>3. {collected'[a].ticker : a \in Candidates'} = {collected[a].ticker : a \in Candidates}
  BY <1>1
<1> QED BY <1>2, <1>3 DEF Ranking

(* Where a probe leads.                                                    *)
LEMMA ProbePhases ==
    ASSUME Probe
    PROVE  /\ phase = "probing" /\ phase' \in {"probing", "done"}
           /\ UNCHANGED <<listing, config, series, page, attempt, collected, ranked>>
BY DEF Probe, Leave

(* Every step keeps the listing's part of the invariant.                   *)
LEMMA ListingStep == ListingInv /\ [ScanNext]_scanVars => ListingInv'
<1> SUFFICES ASSUME ListingInv, [ScanNext]_scanVars PROVE ListingInv'
  OBVIOUS
<1> USE DEF ListingInv
<1>1. CASE FetchPage
  <2>1. ScanType' /\ Collecting' /\ phase' \in {"listing", "incentives"}
    BY <1>1, PageCollected
  <2> QED BY <2>1 DEF Ranking
<1>2. CASE RefusePage
  <2>1. ScanType' /\ Collecting'
    BY <1>2, CollectingKept DEF RefusePage
  <2>2. phase' \notin {"probing", "done"}
    BY <1>2 DEF RefusePage
  <2> QED BY <2>1, <2>2 DEF Ranking
<1>3. CASE FetchIncentives
  <2>1. /\ UNCHANGED <<listing, config, series, page, collected>>
        /\ phase = "incentives" /\ phase' \in {"probing", "done"}
    BY <1>3 DEF FetchIncentives
  <2>2. ScanType' /\ Collecting'
    BY <2>1, CollectingKept
  <2> QED BY <1>3, <2>2, RankingMade
<1>4. CASE RefuseIncentives
  <2>1. ScanType' /\ Collecting'
    BY <1>4, CollectingKept DEF RefuseIncentives
  <2>2. phase' \notin {"probing", "done"}
    BY <1>4 DEF RefuseIncentives
  <2> QED BY <2>1, <2>2 DEF Ranking
<1>5. CASE Probe
  <2>1. ScanType' /\ Collecting'
    BY <1>5, CollectingKept, ProbePhases
  <2> QED BY <1>5, <2>1, ProbePhases, RankingKept
<1>6. CASE UNCHANGED scanVars
  <2>1. ScanType' /\ Collecting'
    BY <1>6, CollectingKept DEF scanVars, ScanType
  <2> QED BY <1>6, <2>1, RankingKept DEF scanVars
<1> QED BY <1>1, <1>2, <1>3, <1>4, <1>5, <1>6 DEF ScanNext, Scan, Finished

(* A scan ranks every tradable market of the whole listing, or fails: no   *)
(* retry, page or series loses one, however many there are.                *)
THEOREM RanksWholeListingHolds == ScanSpec => []RanksWholeListing
<1>1. ASSUME ListingInv PROVE RanksWholeListing
  <2> SUFFICES ASSUME phase \in {"probing", "done"}
               PROVE  TickersOf(ranked) = {m.ticker : m \in {k \in AllMarkets : Tradable(k)}}
    BY DEF RanksWholeListing, Tradable
  <2>1. \A s, p : Passed(s, p)
    BY DEF Passed
  <2>2. \A a \in 1..Len(collected) : collected[a] \in AllMarkets /\ collected[a] \in Listed
    <3>1. \A a \in 1..Len(collected) : collected[a] \in Listed
      BY <1>1 DEF ListingInv, ScanType
    <3> QED BY <1>1, <3>1, AllMarketsAre DEF ListingInv, Collecting
  <2>3. \A m \in AllMarkets : \E a \in 1..Len(collected) : collected[a] = m
    <3> SUFFICES ASSUME NEW m \in AllMarkets
                 PROVE  \E a \in 1..Len(collected) : collected[a] = m
      OBVIOUS
    <3>1. PICK s \in 1..Len(listing) : \E p \in 1..Len(listing[s]) :
             \E i \in 1..Len(listing[s][p]) : m = listing[s][p][i]
      BY <1>1, AllMarketsAre DEF ListingInv
    <3>2. PICK p \in 1..Len(listing[s]) :
             \E i \in 1..Len(listing[s][p]) : m = listing[s][p][i]
      BY <3>1
    <3>3. \A i \in 1..Len(listing[s][p]) :
             \E a \in 1..Len(collected) : collected[a] = listing[s][p][i]
      <4>1. Passed(s, p) /\ phase # "failed" /\ Collecting
        BY <1>1, <2>1 DEF ListingInv
      <4> HIDE DEF Passed
      <4> QED BY <4>1 DEF Collecting
    <3> QED BY <3>2, <3>3
  <2>4. Candidates = {a \in 1..Len(collected) : Tradable(collected[a])}
    <3>1. DOMAIN collected = 1..Len(collected) /\ config \in Configs
      BY <1>1 DEF ListingInv, ScanType
    <3> QED BY <2>2, <3>1, EligibleIsTradable DEF Candidates
  <2>5. {collected[a].ticker : a \in Candidates}
           = {m.ticker : m \in {k \in AllMarkets : Tradable(k)}}
    BY <2>2, <2>3, <2>4
  <2> QED BY <1>1, <2>5 DEF ListingInv, Ranking
<1>2. ListingInv /\ [ScanNext]_scanVars => ListingInv'
  BY ListingStep
<1> QED BY <1>1, <1>2, ListingInitially, PTL DEF ScanSpec

-----------------------------------------------------------------------------
(* The probes.                                                             *)

GateNames == {"flow", "book", "reversion"}

OneOf(seq) == \A i, j \in 1..Len(seq) : seq[i] = seq[j] => i = j

(* Two sequences without repetition or common elements, one after another. *)
LEMMA ConcatOneOf ==
    ASSUME NEW S, NEW T, NEW s \in Seq(S), NEW t \in Seq(T), S \cap T = {},
           OneOf(s), OneOf(t)
    PROVE  s \o t \in Seq(S \cup T) /\ OneOf(s \o t)
<1>1. s \o t \in Seq(S \cup T) /\ Len(s \o t) = Len(s) + Len(t)
  <2>1. s \in Seq(S \cup T) /\ t \in Seq(S \cup T)
    OBVIOUS
  <2> QED BY <2>1
<1>2. \A i \in 1..Len(s) : (s \o t)[i] = s[i] /\ s[i] \in S
  OBVIOUS
<1>3. \A i \in 1..Len(s \o t) : i \notin 1..Len(s) =>
         (s \o t)[i] = t[i - Len(s)] /\ i - Len(s) \in 1..Len(t) /\ t[i - Len(s)] \in T
  OBVIOUS
<1>4. Len(s) \in Nat /\ Len(t) \in Nat
  OBVIOUS
<1>5. ASSUME NEW i \in 1..Len(s \o t), NEW j \in 1..Len(s \o t), (s \o t)[i] = (s \o t)[j]
      PROVE  i = j
  <2>1. CASE i \in 1..Len(s) /\ j \in 1..Len(s)
    BY <1>2, <1>5, <2>1 DEF OneOf
  <2>2. CASE i \notin 1..Len(s) /\ j \notin 1..Len(s)
    <3>1. i - Len(s) = j - Len(s)
      BY <1>3, <1>5, <2>2 DEF OneOf
    <3> QED BY <1>1, <1>4, <3>1
  <2>3. CASE i \in 1..Len(s) <=> j \notin 1..Len(s)
    BY <1>2, <1>3, <1>5, <2>3
  <2> QED BY <2>1, <2>2, <2>3
<1> QED BY <1>1, <1>5 DEF OneOf

(* The gates are different, and fixed by the configuration.                *)
LEMMA GatesFacts ==
    /\ Gates \in Seq(GateNames) /\ Len(Gates) \in Nat
    /\ \A i, j \in 1..Len(Gates) : Gates[i] = Gates[j] => i = j
<1> DEFINE F == IF ChecksTrades THEN <<"flow">> ELSE <<>>
           B == IF config.minSpread > 0 THEN <<"book">> ELSE <<>>
           R == IF config.minKappa > 0 THEN <<"reversion">> ELSE <<>>
<1>1. Gates = F \o B \o R
  BY DEF Gates
<1>2. F \in Seq({"flow"}) /\ B \in Seq({"book"}) /\ R \in Seq({"reversion"})
  <2>1. ASSUME NEW e PROVE <<e>> \in Seq({e}) /\ <<>> \in Seq({e})
    OBVIOUS
  <2> QED BY <2>1, Zenon
<1>3. OneOf(F) /\ OneOf(B) /\ OneOf(R)
  BY DEF OneOf
<1> HIDE DEF F, B, R
<1>4. F \o B \in Seq({"flow"} \cup {"book"}) /\ OneOf(F \o B)
  <2>1. {"flow"} \cap {"book"} = {}
    OBVIOUS
  <2> QED BY <1>2, <1>3, <2>1, ConcatOneOf
<1>5. /\ F \o B \o R \in Seq(({"flow"} \cup {"book"}) \cup {"reversion"})
      /\ OneOf(F \o B \o R)
  <2>1. ({"flow"} \cup {"book"}) \cap {"reversion"} = {}
    OBVIOUS
  <2> QED BY <1>2, <1>3, <1>4, <2>1, ConcatOneOf
<1>6. ({"flow"} \cup {"book"}) \cup {"reversion"} = GateNames
  BY DEF GateNames
<1>7. Gates \in Seq(GateNames)
  BY <1>1, <1>5, <1>6, Zenon
<1> QED BY <1>1, <1>5, <1>7 DEF OneOf

LEMMA GatesKept ==
    ASSUME config' = config
    PROVE  Gates' = Gates
BY DEF Gates, ChecksTrades

(* What a probe's answer is worth is fixed by the configuration.           *)
LEMMA PassesKept ==
    ASSUME config' = config, NEW g, NEW answer
    PROVE  Passes(g, answer)' <=> Passes(g, answer)
<1>1. ASSUME NEW t PROVE ShowsPriceDiscovery(t)' <=> ShowsPriceDiscovery(t)
  BY DEF ShowsPriceDiscovery, Recent
<1>2. ASSUME NEW t PROVE IsTwoSided(t)' <=> IsTwoSided(t)
  BY DEF IsTwoSided, Recent, SumOver
<1>3. ASSUME NEW t PROVE EnoughPerHour(t)' <=> EnoughPerHour(t)
  BY DEF EnoughPerHour
<1>4. ProbeLimit' = ProbeLimit
  BY DEF ProbeLimit, Max2
<1>5. ASSUME NEW data PROVE PassesFlow(data)' <=> PassesFlow(data)
  <2> DEFINE trades == SubSeq(data, 1, Min({Len(data), ProbeLimit}))
  <2>1. PICK t : t = trades
    OBVIOUS
  <2>2. t = trades'
    BY <1>4, <2>1
  <2> QED BY <1>1, <1>2, <1>3, <2>1, <2>2 DEF PassesFlow
<1>6. ASSUME NEW data PROVE PassesBook(data)' <=> PassesBook(data)
  BY DEF PassesBook
<1>7. ASSUME NEW data PROVE PassesReversion(data)' <=> PassesReversion(data)
  BY DEF PassesReversion
<1> QED BY <1>5, <1>6, <1>7, Zenon DEF Passes

(* The exchange lists every ticker once.                                   *)
TickersOnce ==
    \A l \in Listings : \A s, t \in 1..Len(l) :
        \A p \in 1..Len(l[s]), q \in 1..Len(l[t]) :
            \A i \in 1..Len(l[s][p]), j \in 1..Len(l[t][q]) :
                l[s][p][i].ticker = l[t][q][j].ticker => s = t /\ p = q /\ i = j

Apart(seq) == \A a, b \in 1..Len(seq) : seq[a].ticker = seq[b].ticker => a = b

(* The place of a market in a listing.                                     *)
Place(l, s, p, i) == s \in 1..Len(l) /\ p \in 1..Len(l[s]) /\ i \in 1..Len(l[s][p])

LEMMA TickersOnceAt ==
    ASSUME TickersOnce
    PROVE  \A l \in Listings : \A s, t, p, q, i, j :
              /\ Place(l, s, p, i) /\ Place(l, t, q, j)
              /\ l[s][p][i].ticker = l[t][q][j].ticker
              => s = t /\ p = q /\ i = j
<1> SUFFICES ASSUME NEW l \in Listings, NEW s, NEW t, NEW p, NEW q, NEW i, NEW j,
                    Place(l, s, p, i), Place(l, t, q, j),
                    l[s][p][i].ticker = l[t][q][j].ticker
             PROVE  s = t /\ p = q /\ i = j
  OBVIOUS
<1> USE DEF Place
<1>1. \A u, v \in 1..Len(l) : \A x \in 1..Len(l[u]), y \in 1..Len(l[v]) :
         \A m \in 1..Len(l[u][x]), n \in 1..Len(l[v][y]) :
            l[u][x][m].ticker = l[v][y][n].ticker => u = v /\ x = y /\ m = n
  BY DEF TickersOnce
<1>2. \A x \in 1..Len(l[s]), y \in 1..Len(l[t]) :
         \A m \in 1..Len(l[s][x]), n \in 1..Len(l[t][y]) :
            l[s][x][m].ticker = l[t][y][n].ticker => s = t /\ x = y /\ m = n
  BY <1>1
<1>3. \A m \in 1..Len(l[s][p]), n \in 1..Len(l[t][q]) :
         l[s][p][m].ticker = l[t][q][n].ticker => s = t /\ p = q /\ m = n
  BY <1>2
<1> QED BY <1>3

(* What is collected then has every ticker once.                           *)
LEMMA CollectedApart ==
    ASSUME TickersOnce, ScanType, Collecting, Apart(collected), FetchPage
    PROVE  Apart(collected)'
<1> DEFINE new == listing[series][page]
           all == collected \o new
<1>1. collected' = all /\ phase = "listing"
  BY DEF FetchPage, Pages
<1>2. /\ new \in Seq(Listed) /\ collected \in Seq(Listed) /\ listing \in Listings
      /\ series \in 1..Len(listing) /\ page \in 1..Len(listing[series])
  BY PageCollected DEF ScanType
<1>3. Len(collected) \in Nat /\ Len(new) \in Nat
  BY <1>2
<1> HIDE DEF new
<1>4. /\ \A a \in 1..Len(collected) : all[a] = collected[a]
      /\ \A i \in 1..Len(new) : all[Len(collected) + i] = new[i]
      /\ \A a \in 1..Len(all) : \/ a \in 1..Len(collected)
                                \/ a - Len(collected) \in 1..Len(new)
      /\ \A a \in 1..Len(all) : Len(collected) + (a - Len(collected)) = a
      /\ Len(all) = Len(collected) + Len(new)
  BY <1>2, <1>3, PageAppended
<1> HIDE DEF all
<1>5. ASSUME NEW a \in 1..Len(collected), NEW i \in 1..Len(new)
      PROVE  collected[a].ticker # new[i].ticker
  <2>1. PICK s \in 1..Len(listing) : \E p \in 1..Len(listing[s]) :
           Passed(s, p) /\ \E k \in 1..Len(listing[s][p]) : collected[a] = listing[s][p][k]
    BY <1>1 DEF Collecting
  <2>2. PICK p \in 1..Len(listing[s]) :
           Passed(s, p) /\ \E k \in 1..Len(listing[s][p]) : collected[a] = listing[s][p][k]
    BY <2>1
  <2>3. PICK k \in 1..Len(listing[s][p]) : collected[a] = listing[s][p][k]
    BY <2>2
  <2>4. ~(s = series /\ p = page)
    <3>1. series \in Int /\ page \in Int
      BY <1>2
    <3> QED BY <1>1, <2>2, <3>1 DEF Passed
  <2>5. i \in 1..Len(listing[series][page]) /\ new[i] = listing[series][page][i]
    BY DEF new
  <2>6. collected[a].ticker = listing[s][p][k].ticker
        /\ new[i].ticker = listing[series][page][i].ticker
    BY <2>3, <2>5
  <2>7. listing[s][p][k].ticker # listing[series][page][i].ticker
    <3>1. SUFFICES ASSUME listing[s][p][k].ticker = listing[series][page][i].ticker
                   PROVE  FALSE
      OBVIOUS
    <3>2. Place(listing, s, p, k) /\ Place(listing, series, page, i)
      BY <1>2, <2>5 DEF Place
    <3> QED BY <1>2, <2>4, <3>1, <3>2, TickersOnceAt
  <2> QED BY <2>6, <2>7
<1>6. ASSUME NEW i \in 1..Len(new), NEW j \in 1..Len(new), new[i].ticker = new[j].ticker
      PROVE  i = j
  <2>1. /\ i \in 1..Len(listing[series][page]) /\ j \in 1..Len(listing[series][page])
        /\ listing[series][page][i].ticker = listing[series][page][j].ticker
    BY <1>6 DEF new
  <2>2. Place(listing, series, page, i) /\ Place(listing, series, page, j)
    BY <1>2, <2>1 DEF Place
  <2> QED BY <1>2, <2>1, <2>2, TickersOnceAt
<1>7. ASSUME NEW a \in 1..Len(all), NEW b \in 1..Len(all), all[a].ticker = all[b].ticker
      PROVE  a = b
  <2> DEFINE c == a - Len(collected)
             d == b - Len(collected)
  <2>1. CASE a \in 1..Len(collected) /\ b \in 1..Len(collected)
    BY <1>4, <1>7, <2>1 DEF Apart
  <2>2. CASE a \in 1..Len(collected) /\ d \in 1..Len(new)
    <3>1. all[a] = collected[a] /\ all[b] = new[d]
      BY <1>4, <2>2
    <3> HIDE DEF d
    <3> QED BY <1>5, <1>7, <2>2, <3>1
  <2>3. CASE c \in 1..Len(new) /\ b \in 1..Len(collected)
    <3>1. all[b] = collected[b] /\ all[a] = new[c]
      BY <1>4, <2>3
    <3> HIDE DEF c
    <3> QED BY <1>5, <1>7, <2>3, <3>1
  <2>4. CASE c \in 1..Len(new) /\ d \in 1..Len(new)
    <3>1. all[a] = new[c] /\ all[b] = new[d]
      BY <1>4, <2>4
    <3>2. c = d
      <4> HIDE DEF c, d
      <4> QED BY <1>6, <1>7, <2>4, <3>1
    <3> QED BY <1>3, <1>4, <3>2
  <2> QED BY <1>4, <2>1, <2>2, <2>3, <2>4
<1> QED BY <1>1, <1>7 DEF Apart

(* And so has what is ranked.                                              *)
LEMMA RankedApart ==
    ASSUME ScanType, Apart(collected), FetchIncentives
    PROVE  Apart(ranked)'
<1>1. PICK rewards : \E p \in Rankings(Scores(rewards)) :
         LET n == Cardinality(Candidates)
             score == Scores(rewards)
         IN  /\ ranked' \in Seq(ToSet(ranked')) /\ Len(ranked') = n
             /\ DOMAIN ranked' = 1..n
             /\ \A i \in 1..n : /\ ranked'[i].ticker = collected[p[i]].ticker
                                /\ ranked'[i].score = score[p[i]]
  BY CandidatesRanked
<1> DEFINE n == Cardinality(Candidates)
<1>2. PICK p \in Rankings(Scores(rewards)) :
         /\ Len(ranked') = n
         /\ \A i \in 1..n : ranked'[i].ticker = collected[p[i]].ticker
  BY <1>1
<1>3. /\ \A i \in 1..n : p[i] \in 1..Len(collected)
      /\ \A i, j \in 1..n : i # j => p[i] # p[j]
  BY RankingOrders
<1> HIDE DEF n
<1> QED BY <1>2, <1>3 DEF Apart

Key(k, j) == <<ranked[k].ticker, Gates[j]>>
Cleared(k, j) == Key(k, j) \in DOMAIN answers /\ Passes(Gates[j], answers[Key(k, j)])
TurnedDown(k, j) == Key(k, j) \in DOMAIN answers /\ ~Passes(Gates[j], answers[Key(k, j)])

(* How far the probes have come.                                           *)
Reached ==
    /\ at \in 1..(Len(ranked) + 1) /\ gate \in 1..Len(Gates)
    /\ admitted \in Seq(ToSet(ranked)) /\ Len(admitted) <= config.topN
    /\ phase = "probing" => at <= Len(ranked) /\ Len(admitted) < config.topN
    /\ phase = "done" => at = Len(ranked) + 1 \/ Len(admitted) = config.topN

(* Every answer is to one probe made, of a candidate's gate.               *)
Asked ==
    \A key \in DOMAIN answers : \E k \in 1..Len(ranked) : \E j \in 1..Len(Gates) :
        /\ key = Key(k, j) /\ (k < at \/ (k = at /\ j < gate))
        /\ answers[key] \subseteq Answers(Gates[j])

(* A candidate left behind passed every gate, and is admitted, or it       *)
(* failed one.                                                             *)
Admitting ==
    \A i \in 1..Len(admitted) : \E k \in 1..Len(ranked) :
        /\ k < at /\ admitted[i] = ranked[k]
        /\ \A j \in 1..Len(Gates) : Cleared(k, j)
LeavingOut ==
    \A k \in 1..Len(ranked) : k < at =>
        \/ \E j \in 1..Len(Gates) : TurnedDown(k, j)
        \/ \E i \in 1..Len(admitted) : admitted[i] = ranked[k]
Clearing == phase = "probing" => \A j \in 1..Len(Gates) : j < gate => Cleared(at, j)

Probed == Reached /\ Asked /\ Admitting /\ LeavingOut /\ Clearing

Probing ==
    /\ phase \in {"listing", "incentives"} =>
          at = 1 /\ gate = 1 /\ admitted = <<>> /\ answers = <<>>
    /\ phase \in {"probing", "done"} /\ Gates # <<>> => Probed
    /\ phase \in {"probing", "done"} /\ Gates = <<>> =>
          phase = "done" /\ admitted = Truncated(ranked)

(* No probe is made twice.                                                 *)
LEMMA FreshKey ==
    ASSUME Apart(ranked), Asked, at \in 1..Len(ranked), gate \in 1..Len(Gates)
    PROVE  Key(at, gate) \notin DOMAIN answers
<1> SUFFICES ASSUME Key(at, gate) \in DOMAIN answers PROVE FALSE
  OBVIOUS
<1>1. PICK k \in 1..Len(ranked), j \in 1..Len(Gates) :
         Key(at, gate) = Key(k, j) /\ (k < at \/ (k = at /\ j < gate))
  BY DEF Asked
<1>2. ranked[k].ticker = ranked[at].ticker /\ Gates[j] = Gates[gate]
  BY <1>1 DEF Key
<1>3. k = at
  BY <1>2 DEF Apart
<1>4. j = gate
  BY <1>2, GatesFacts
<1>5. at \in Int /\ gate \in Int
  OBVIOUS
<1> QED BY <1>1, <1>3, <1>4, <1>5

(* What a recorded answer is worth, after a step.                          *)
LEMMA PassesAfter ==
    ASSUME UNCHANGED <<config, ranked>>, NEW k, NEW j, NEW g, NEW answer,
           g = Gates[j], answer = answers'[Key(k, j)]
    PROVE  Passes(Gates[j], answers[Key(k, j)])' <=> Passes(g, answer)
<1>1. Gates'[j] = g /\ Key(k, j)' = Key(k, j)
  BY GatesKept DEF Key
<1>2. answers'[Key(k, j)'] = answer
  BY <1>1
<1>3. Passes(Gates[j], answers[Key(k, j)])' <=> Passes(g, answer)'
  BY <1>1, <1>2, Zenon DEF Passes
<1> QED BY <1>3, PassesKept

(* One more answer leaves the others, and what they are worth.             *)
LEMMA OneMoreAnswer ==
    ASSUME UNCHANGED <<config, ranked>>, NEW K, NEW G, NEW answer,
           Key(K, G) \notin DOMAIN answers, answers' = Answered(Key(K, G), answer)
    PROVE  /\ DOMAIN answers' = DOMAIN answers \cup {Key(K, G)}
           /\ answers'[Key(K, G)] = answer
           /\ \A key \in DOMAIN answers : answers'[key] = answers[key]
           /\ \A k, j : Cleared(k, j) => Cleared(k, j)'
           /\ \A k, j : TurnedDown(k, j) => TurnedDown(k, j)'
           /\ Passes(Gates[G], answer) => Cleared(K, G)'
           /\ ~Passes(Gates[G], answer) => TurnedDown(K, G)'
<1>1. /\ DOMAIN answers' = DOMAIN answers \cup {Key(K, G)}
      /\ answers'[Key(K, G)] = answer
      /\ \A key \in DOMAIN answers : answers'[key] = answers[key]
  <2> DEFINE key == Key(K, G)
  <2> HIDE DEF key
  <2>1. answers' = [k \in DOMAIN answers \cup {key} |-> IF k = key THEN answer ELSE answers[k]]
    BY DEF Answered, key
  <2>2. key \notin DOMAIN answers
    BY DEF key
  <2> QED BY <2>1, <2>2 DEF key
<1>2. \A k, j : Key(k, j)' = Key(k, j)
  BY GatesKept DEF Key
<1>3. ASSUME NEW k, NEW j, Key(k, j) \in DOMAIN answers
      PROVE  /\ Key(k, j)' \in DOMAIN answers'
             /\ Passes(Gates[j], answers[Key(k, j)])' <=> Passes(Gates[j], answers[Key(k, j)])
  <2>1. PICK g, a : g = Gates[j] /\ a = answers[Key(k, j)]
    OBVIOUS
  <2>2. a = answers'[Key(k, j)]
    BY <1>1, <1>3, <2>1
  <2> QED BY <1>1, <1>2, <1>3, <2>1, <2>2, PassesAfter
<1>4. /\ Key(K, G)' \in DOMAIN answers'
      /\ Passes(Gates[G], answers[Key(K, G)])' <=> Passes(Gates[G], answer)
  <2>1. PICK g : g = Gates[G]
    OBVIOUS
  <2> QED BY <1>1, <1>2, <2>1, PassesAfter
<1> QED BY <1>1, <1>3, <1>4 DEF Cleared, TurnedDown

(* A probe: the candidate goes on to its next gate, or is left.            *)
LEMMA ProbeKeeps ==
    ASSUME ScanType, Ranking, Apart(ranked), Probed, Probe
    PROVE  Probed'
<1>1. /\ UNCHANGED <<listing, config, series, page, attempt, collected, ranked>>
      /\ phase = "probing" /\ Gates' = Gates
  BY ProbePhases, GatesKept
<1>2. /\ at \in 1..Len(ranked) /\ gate \in 1..Len(Gates) /\ Len(admitted) < config.topN
      /\ admitted \in Seq(ToSet(ranked)) /\ Len(admitted) \in Nat /\ config.topN \in Nat
      /\ Len(ranked) \in Nat /\ Len(Gates) \in Nat /\ ToSet(ranked)' = ToSet(ranked)
  <2>1. Len(ranked) \in Nat /\ Len(Gates) \in Nat /\ config.topN \in Nat
    BY <1>1, GatesFacts, ScannerAssumption DEF Ranking, ScanType
  <2>2. ToSet(ranked)' = ToSet(ranked)
    BY <1>1 DEF ToSet
  <2> QED BY <1>1, <2>1, <2>2 DEF Probed, Reached
<1>3. PICK K \in 1..Len(ranked), G \in 1..Len(Gates) : K = at /\ G = gate
  BY <1>2
<1>4. PICK answer \in {{data} : data \in Answers(Gates[gate])} \cup {Refused} :
         /\ answers' = Answered(<<ranked[at].ticker, Gates[gate]>>, answer)
         /\ \/ /\ Passes(Gates[gate], answer) /\ gate < Len(Gates)
               /\ gate' = gate + 1 /\ UNCHANGED <<at, admitted, phase>>
            \/ /\ Passes(Gates[gate], answer) /\ gate = Len(Gates)
               /\ Leave(TRUE)
            \/ /\ ~Passes(Gates[gate], answer)
               /\ Leave(FALSE)
  BY DEF Probe
<1>5. answer \subseteq Answers(Gates[G])
  BY <1>3, <1>4 DEF Refused
<1>6. Key(K, G) \notin DOMAIN answers
  BY <1>2, <1>3, FreshKey DEF Probed
<1>7. answers' = Answered(Key(K, G), answer)
  BY <1>3, <1>4 DEF Key
<1>8. /\ DOMAIN answers' = DOMAIN answers \cup {Key(K, G)}
      /\ answers'[Key(K, G)] = answer
      /\ \A key \in DOMAIN answers : answers'[key] = answers[key]
      /\ \A k, j : Cleared(k, j) => Cleared(k, j)'
      /\ \A k, j : TurnedDown(k, j) => TurnedDown(k, j)'
      /\ Passes(Gates[G], answer) => Cleared(K, G)'
      /\ ~Passes(Gates[G], answer) => TurnedDown(K, G)'
  BY <1>1, <1>6, <1>7, OneMoreAnswer
<1>9. \A k, j : Key(k, j)' = Key(k, j)
  BY <1>1 DEF Key
<1>10. ASSUME NEW k, NEW j, k < K \/ (k = K /\ j < G) \/ (k = K /\ j = G),
              \/ at' = K /\ gate' = G + 1
              \/ at' = K + 1,
              k \in 1..Len(ranked), j \in 1..Len(Gates)
       PROVE  k < at' \/ (k = at' /\ j < gate')
  BY <1>2, <1>10
<1>11. ASSUME (at' = K /\ gate' = G + 1) \/ at' = K + 1
       PROVE  Asked'
  <2> SUFFICES ASSUME NEW key \in DOMAIN answers'
               PROVE  \E k \in 1..Len(ranked) : \E j \in 1..Len(Gates) :
                         /\ key = Key(k, j) /\ (k < at' \/ (k = at' /\ j < gate'))
                         /\ answers'[key] \subseteq Answers(Gates[j])
    <3>1. \A g : Answers(g)' = Answers(g)
      BY DEF Answers
    <3>2. ASSUME NEW k, NEW j PROVE Answers(Gates[j])' = Answers(Gates[j])
      BY <1>1 DEF Answers
    <3> QED BY <1>1, <1>9, <3>2, Zenon DEF Asked
  <2>1. CASE key = Key(K, G)
    <3>1. K < at' \/ (K = at' /\ G < gate')
      BY <1>10, <1>11
    <3> QED BY <1>5, <1>8, <2>1, <3>1
  <2>2. CASE key \in DOMAIN answers
    <3>1. PICK k \in 1..Len(ranked), j \in 1..Len(Gates) :
             /\ key = Key(k, j) /\ (k < at \/ (k = at /\ j < gate))
             /\ answers[key] \subseteq Answers(Gates[j])
      BY <2>2 DEF Probed, Asked
    <3>2. k < at' \/ (k = at' /\ j < gate')
      BY <1>3, <1>10, <1>11, <3>1
    <3> QED BY <1>8, <2>2, <3>1, <3>2
  <2> QED BY <1>8, <2>1, <2>2
<1>12. \A j \in 1..Len(Gates) : j < G => Cleared(K, j)
  BY <1>1, <1>3 DEF Probed, Clearing
<1>13. \A i \in 1..Len(admitted) : \E k \in 1..Len(ranked) :
          /\ k < K /\ admitted[i] = ranked[k]
          /\ \A j \in 1..Len(Gates) : Cleared(k, j)'
  BY <1>3, <1>8 DEF Probed, Admitting
<1>14. \A k \in 1..Len(ranked) : k < K =>
          \/ \E j \in 1..Len(Gates) : TurnedDown(k, j)'
          \/ \E i \in 1..Len(admitted) : admitted[i] = ranked[k]
  BY <1>3, <1>8 DEF Probed, LeavingOut
<1>15. CASE /\ Passes(Gates[gate], answer) /\ gate < Len(Gates)
            /\ gate' = gate + 1 /\ UNCHANGED <<at, admitted, phase>>
  <2>1. Reached'
    BY <1>1, <1>2, <1>15 DEF Probed, Reached
  <2>2. Asked'
    BY <1>3, <1>11, <1>15
  <2>3. Admitting'
    BY <1>1, <1>3, <1>13, <1>15, Zenon DEF Admitting
  <2>4. LeavingOut'
    BY <1>1, <1>3, <1>14, <1>15, Zenon DEF LeavingOut
  <2>5. ASSUME NEW j \in 1..Len(Gates), j < gate' PROVE Cleared(K, j)'
    <3>1. j < G \/ j = G
      BY <1>2, <1>3, <1>15, <2>5
    <3> QED BY <1>3, <1>8, <1>12, <1>15, <3>1
  <2>6. Clearing'
    <3>1. ASSUME NEW j PROVE Cleared(at, j)' <=> Cleared(K, j)'
      <4>1. at' = K
        BY <1>3, <1>15
      <4> QED BY <4>1 DEF Cleared, Key
    <3> QED BY <1>1, <2>5, <3>1 DEF Clearing
  <2> QED BY <2>1, <2>2, <2>3, <2>4, <2>6 DEF Probed
<1>16. CASE Passes(Gates[gate], answer) /\ gate = Len(Gates) /\ Leave(TRUE)
  <2>1. /\ gate' = 1 /\ at' = K + 1 /\ admitted' = Append(admitted, ranked[K])
        /\ phase' = IF at' > Len(ranked) \/ Len(admitted') >= config.topN
                      THEN "done" ELSE phase
    BY <1>1, <1>3, <1>16 DEF Leave
  <2>2. /\ Len(admitted') = Len(admitted) + 1 /\ admitted' \in Seq(ToSet(ranked))
        /\ \A i \in 1..Len(admitted) : admitted'[i] = admitted[i] /\ i \in 1..Len(admitted')
        /\ admitted'[Len(admitted) + 1] = ranked[K] /\ Len(admitted) + 1 \in 1..Len(admitted')
        /\ \A i \in 1..Len(admitted') : i \in 1..Len(admitted) \/ i = Len(admitted) + 1
    <3>1. ranked[K] \in ToSet(ranked)
      BY <1>1 DEF Ranking, ToSet
    <3> QED BY <1>2, <2>1, <3>1
  <2>3. Reached'
    BY <1>1, <1>2, <1>3, <2>1, <2>2 DEF Reached
  <2>4. \A j \in 1..Len(Gates) : Cleared(K, j)'
    <3>1. \A j \in 1..Len(Gates) : j < G \/ j = G
      BY <1>2, <1>3, <1>16
    <3> QED BY <1>3, <1>8, <1>12, <1>16, <3>1
  <2>5. ASSUME NEW i \in 1..Len(admitted')
        PROVE  \E k \in 1..Len(ranked) : /\ k < at' /\ admitted'[i] = ranked[k]
                                         /\ \A j \in 1..Len(Gates) : Cleared(k, j)'
    <3>1. CASE i \in 1..Len(admitted)
      <4>1. PICK k \in 1..Len(ranked) : /\ k < K /\ admitted[i] = ranked[k]
                                        /\ \A j \in 1..Len(Gates) : Cleared(k, j)'
        BY <1>13, <3>1
      <4>2. k < at'
        BY <1>2, <2>1, <4>1
      <4> QED BY <2>2, <3>1, <4>1, <4>2
    <3>2. CASE i = Len(admitted) + 1
      <4>1. K < at'
        BY <1>2, <2>1
      <4> QED BY <2>2, <2>4, <3>2, <4>1
    <3> QED BY <2>2, <3>1, <3>2
  <2>6. ASSUME NEW k \in 1..Len(ranked), k < at'
        PROVE  \/ \E j \in 1..Len(Gates) : TurnedDown(k, j)'
               \/ \E i \in 1..Len(admitted') : admitted'[i] = ranked[k]
    <3>1. k < K \/ k = K
      BY <1>2, <2>1, <2>6
    <3> QED BY <1>14, <2>2, <3>1
  <2>7. Admitting' /\ LeavingOut'
    BY <1>1, <2>5, <2>6, Zenon DEF Admitting, LeavingOut
  <2>8. Clearing'
    <3>1. \A j \in 1..Len(Gates) : ~(j < gate')
      BY <1>2, <2>1
    <3> QED BY <1>1, <3>1, Zenon DEF Clearing
  <2>9. Asked'
    BY <1>11, <2>1
  <2> QED BY <2>3, <2>7, <2>8, <2>9 DEF Probed
<1>17. CASE ~Passes(Gates[gate], answer) /\ Leave(FALSE)
  <2>1. /\ gate' = 1 /\ at' = K + 1 /\ admitted' = admitted
        /\ phase' = IF at' > Len(ranked) \/ Len(admitted') >= config.topN
                      THEN "done" ELSE phase
    BY <1>1, <1>3, <1>17 DEF Leave
  <2>2. Reached'
    BY <1>1, <1>2, <1>3, <2>1 DEF Reached
  <2>3. ASSUME NEW i \in 1..Len(admitted')
        PROVE  \E k \in 1..Len(ranked) : /\ k < at' /\ admitted'[i] = ranked[k]
                                         /\ \A j \in 1..Len(Gates) : Cleared(k, j)'
    <3>1. PICK k \in 1..Len(ranked) : /\ k < K /\ admitted[i] = ranked[k]
                                      /\ \A j \in 1..Len(Gates) : Cleared(k, j)'
      BY <1>13, <2>1
    <3>2. k < at'
      BY <1>2, <2>1, <3>1
    <3> QED BY <2>1, <3>1, <3>2
  <2>4. ASSUME NEW k \in 1..Len(ranked), k < at'
        PROVE  \/ \E j \in 1..Len(Gates) : TurnedDown(k, j)'
               \/ \E i \in 1..Len(admitted') : admitted'[i] = ranked[k]
    <3>1. k < K \/ k = K
      BY <1>2, <2>1, <2>4
    <3>2. TurnedDown(K, G)'
      BY <1>3, <1>8, <1>17
    <3> QED BY <1>14, <2>1, <3>1, <3>2
  <2>5. Admitting' /\ LeavingOut'
    BY <1>1, <2>3, <2>4, Zenon DEF Admitting, LeavingOut
  <2>6. Clearing'
    <3>1. \A j \in 1..Len(Gates) : ~(j < gate')
      BY <1>2, <2>1
    <3> QED BY <1>1, <3>1, Zenon DEF Clearing
  <2>7. Asked'
    BY <1>11, <2>1
  <2> QED BY <2>2, <2>5, <2>6, <2>7 DEF Probed
<1> QED BY <1>4, <1>15, <1>16, <1>17

(* Nothing is lost while nothing changes.                                  *)
LEMMA ProbedKept ==
    ASSUME Probed, UNCHANGED scanVars
    PROVE  Probed'
<1>1. UNCHANGED <<config, phase, ranked, at, gate, admitted, answers>> /\ Gates' = Gates
  BY GatesKept DEF scanVars
<1>2. \A k, j : Key(k, j)' = Key(k, j)
  BY <1>1 DEF Key
<1>3. ASSUME NEW k, NEW j
      PROVE  (Cleared(k, j)' <=> Cleared(k, j)) /\ (TurnedDown(k, j)' <=> TurnedDown(k, j))
  <2>1. PICK g, a : g = Gates[j] /\ a = answers[Key(k, j)]
    OBVIOUS
  <2>2. a = answers'[Key(k, j)]
    BY <1>1, <2>1
  <2>3. Passes(Gates[j], answers[Key(k, j)])' <=> Passes(Gates[j], answers[Key(k, j)])
    BY <1>1, <2>1, <2>2, PassesAfter
  <2> QED BY <1>1, <1>2, <2>3 DEF Cleared, TurnedDown
<1>4. Reached'
  <2>1. ToSet(ranked)' = ToSet(ranked)
    BY <1>1 DEF ToSet
  <2> QED BY <1>1, <2>1 DEF Probed, Reached
<1>5. Asked'
  <2>1. ASSUME NEW j PROVE Answers(Gates[j])' = Answers(Gates[j])
    BY <1>1 DEF Answers
  <2> QED BY <1>1, <1>2, <2>1, Zenon DEF Probed, Asked
<1>6. Admitting' /\ LeavingOut'
  BY <1>1, <1>3, Zenon DEF Probed, Admitting, LeavingOut
<1>7. Clearing'
  <2>1. PICK K : K = at
    OBVIOUS
  <2>2. ASSUME NEW j PROVE Cleared(at, j)' <=> Cleared(K, j)'
    BY <1>1, <2>1 DEF Cleared, Key
  <2> QED BY <1>1, <1>3, <2>1, <2>2 DEF Probed, Clearing
<1> QED BY <1>4, <1>5, <1>6, <1>7 DEF Probed

(* The probes start at the first gate of the best candidate.               *)
LEMMA ProbingStarts ==
    ASSUME ScanType, Probing, FetchIncentives, Ranking'
    PROVE  Probing'
<1>1. /\ phase = "incentives" /\ phase' \in {"probing", "done"}
      /\ at = 1 /\ gate = 1 /\ admitted = <<>> /\ answers = <<>>
      /\ UNCHANGED <<config, at, gate, answers>> /\ Gates' = Gates
  BY GatesKept DEF FetchIncentives, Probing
<1>2. CASE Gates = <<>>
  <2>1. phase' = "done" /\ admitted' = Truncated(ranked)'
    BY <1>1, <1>2 DEF FetchIncentives, Truncated
  <2> QED BY <1>1, <1>2, <2>1 DEF Probing
<1>3. CASE Gates # <<>>
  <2>1. /\ admitted' = <<>>
        /\ phase' = IF ranked' = <<>> \/ config.topN = 0 THEN "done" ELSE "probing"
    BY <1>1, <1>3 DEF FetchIncentives
  <2>2. /\ Len(ranked') \in Nat /\ (ranked' # <<>> => Len(ranked') >= 1)
        /\ (ranked' = <<>> => Len(ranked') = 0)
    <3>1. PICK S : S = ToSet(ranked)'
      OBVIOUS
    <3>2. ranked' \in Seq(S)
      BY <1>1, <3>1 DEF Ranking
    <3> QED BY <3>2
  <2>3. Len(Gates) >= 1 /\ Len(Gates) \in Nat
    <3>1. Gates \in Seq(GateNames)
      BY GatesFacts
    <3> QED BY <1>3, <3>1
  <2>4. config.topN \in Nat
    BY ScannerAssumption DEF ScanType
  <2>5. admitted' \in Seq(ToSet(ranked)') /\ Len(admitted') = 0
    BY <2>1
  <2>6. Reached'
    BY <1>1, <2>1, <2>2, <2>3, <2>4, <2>5 DEF Reached
  <2>7. DOMAIN answers' = {}
    BY <1>1
  <2>8. Asked' /\ Admitting' /\ LeavingOut' /\ Clearing'
    <3>1. \A k \in 1..Len(ranked') : ~(k < at')
      BY <1>1, <2>2
    <3>2. \A j \in 1..Len(Gates') : ~(j < gate')
      BY <1>1, <2>3
    <3>3. \A i \in 1..Len(admitted') : FALSE
      BY <2>5
    <3>4. Asked'
      BY <2>7, Zenon DEF Asked
    <3>5. Admitting' /\ LeavingOut' /\ Clearing'
      BY <3>1, <3>2, <3>3, Zenon DEF Admitting, LeavingOut, Clearing
    <3> QED BY <3>4, <3>5
  <2> QED BY <1>1, <1>3, <2>6, <2>8 DEF Probing, Probed
<1> QED BY <1>2, <1>3

(* The whole invariant, of listings that have every ticker once.           *)
ScanInv == ListingInv /\ Apart(collected) /\ Apart(ranked) /\ Probing

LEMMA ScanInitially == ScanInit => ScanInv
<1> SUFFICES ASSUME ScanInit PROVE ScanInv
  OBVIOUS
<1>1. Apart(collected) /\ Apart(ranked)
  BY DEF ScanInit, Apart
<1>2. Probing
  BY DEF ScanInit, Probing
<1> QED BY <1>1, <1>2, ListingInitially DEF ScanInv

LEMMA ScanStep ==
    ASSUME TickersOnce
    PROVE  ScanInv /\ [ScanNext]_scanVars => ScanInv'
<1> SUFFICES ASSUME ScanInv, [ScanNext]_scanVars PROVE ScanInv'
  OBVIOUS
<1>1. ListingInv' /\ ScanType /\ Collecting /\ Ranking /\ Ranking'
  <2>1. ListingInv /\ ListingInv'
    BY ListingStep DEF ScanInv
  <2> QED BY <2>1 DEF ListingInv
<1>2. ASSUME UNCHANGED collected PROVE Apart(collected)'
  BY <1>2 DEF ScanInv, Apart
<1>3. ASSUME UNCHANGED ranked PROVE Apart(ranked)'
  BY <1>3 DEF ScanInv, Apart
<1>4. CASE FetchPage
  <2>1. Apart(collected)'
    BY <1>1, <1>4, CollectedApart DEF ScanInv
  <2>2. /\ phase = "listing" /\ phase' \in {"listing", "incentives"}
        /\ UNCHANGED <<ranked, at, gate, admitted, answers>>
    BY <1>4 DEF FetchPage
  <2>3. Probing'
    BY <2>2 DEF ScanInv, Probing
  <2> QED BY <1>1, <1>3, <2>1, <2>2, <2>3 DEF ScanInv
<1>5. CASE RefusePage
  <2>1. /\ phase = "listing" /\ phase' \in {"listing", "failed"}
        /\ UNCHANGED <<collected, ranked, at, gate, admitted, answers>>
    BY <1>5 DEF RefusePage
  <2>2. Probing'
    BY <2>1 DEF ScanInv, Probing
  <2> QED BY <1>1, <1>2, <1>3, <2>1, <2>2 DEF ScanInv
<1>6. CASE FetchIncentives
  <2>1. UNCHANGED collected
    BY <1>6 DEF FetchIncentives
  <2>2. Apart(ranked)'
    BY <1>1, <1>6, RankedApart DEF ScanInv
  <2>3. Probing'
    BY <1>1, <1>6, ProbingStarts DEF ScanInv
  <2> QED BY <1>1, <1>2, <2>1, <2>2, <2>3 DEF ScanInv
<1>7. CASE RefuseIncentives
  <2>1. phase' = "failed" /\ UNCHANGED <<collected, ranked>>
    BY <1>7 DEF RefuseIncentives
  <2>2. Probing'
    BY <2>1 DEF Probing
  <2> QED BY <1>1, <1>2, <1>3, <2>1, <2>2 DEF ScanInv
<1>8. CASE Probe
  <2>1. /\ phase = "probing" /\ phase' \in {"probing", "done"}
        /\ UNCHANGED <<config, collected, ranked>> /\ Gates' = Gates
    BY <1>8, ProbePhases, GatesKept
  <2>2. Gates # <<>> /\ Probed
    BY <2>1 DEF ScanInv, Probing
  <2>3. Probed'
    BY <1>1, <1>8, <2>2, ProbeKeeps DEF ScanInv
  <2>4. Probing'
    BY <2>1, <2>2, <2>3 DEF Probing
  <2> QED BY <1>1, <1>2, <1>3, <2>1, <2>4 DEF ScanInv
<1>9. CASE UNCHANGED scanVars
  <2>1. /\ UNCHANGED <<config, phase, collected, ranked, at, gate, admitted, answers>>
        /\ Gates' = Gates
    BY <1>9, GatesKept DEF scanVars
  <2>2. Probed => Probed'
    BY <1>9, ProbedKept
  <2>3. Truncated(ranked)' = Truncated(ranked)
    BY <2>1 DEF Truncated
  <2>4. Probing'
    BY <2>1, <2>2, <2>3 DEF ScanInv, Probing
  <2> QED BY <1>1, <1>2, <1>3, <2>1, <2>4 DEF ScanInv
<1> QED BY <1>4, <1>5, <1>6, <1>7, <1>8, <1>9 DEF ScanNext, Scan, Finished

(* The smaller of two numbers.                                             *)
LEMMA MinOfTwo ==
    ASSUME NEW a \in Int, NEW b \in Int
    PROVE  /\ Min({a, b}) \in {a, b}
           /\ Min({a, b}) <= a /\ Min({a, b}) <= b
<1> DEFINE least(x) == x \in {a, b} /\ \A y \in {a, b} : x <= y
<1>1. \E x : least(x)
  <2>1. CASE a <= b
    <3>1. least(a)
      BY <2>1
    <3> QED BY <3>1
  <2>2. CASE b <= a
    <3>1. least(b)
      BY <2>2
    <3> QED BY <3>1
  <2> QED BY <2>1, <2>2
<1>2. least(Min({a, b}))
  <2>1. Min({a, b}) = CHOOSE x \in {a, b} : \A y \in {a, b} : x <= y
    BY DEF Min
  <2> QED BY <1>1, <2>1, Zenon
<1> QED BY <1>2

(* The best topN of a ranking.                                             *)
LEMMA TruncatedFacts ==
    ASSUME NEW S, NEW seq \in Seq(S), config.topN \in Nat
    PROVE  LET n == Min({Len(seq), config.topN})
           IN  /\ n \in Nat /\ n <= Len(seq) /\ n <= config.topN
               /\ n = Len(seq) \/ n = config.topN
               /\ Len(Truncated(seq)) = n
               /\ \A i \in 1..n : Truncated(seq)[i] = seq[i]
               /\ DOMAIN Truncated(seq) = 1..n
<1> DEFINE n == Min({Len(seq), config.topN})
<1>1. Len(seq) \in Nat
  OBVIOUS
<1>2. n \in {Len(seq), config.topN} /\ n <= Len(seq) /\ n <= config.topN
  <2>1. Len(seq) \in Int /\ config.topN \in Int
    BY <1>1
  <2> QED BY <2>1, MinOfTwo
<1>3. n \in Nat /\ (n = Len(seq) \/ n = config.topN)
  BY <1>1, <1>2
<1> HIDE DEF n
<1>4. Truncated(seq) = SubSeq(seq, 1, n)
  BY DEF Truncated, n
<1>5. /\ Len(SubSeq(seq, 1, n)) = n /\ DOMAIN SubSeq(seq, 1, n) = 1..n
      /\ \A i \in 1..n : SubSeq(seq, 1, n)[i] = seq[i]
  BY <1>1, <1>2, <1>3
<1> QED BY <1>2, <1>3, <1>4, <1>5 DEF n

(* The picks are the best candidates that no probe turned down, and no     *)
(* more than topN, in every listing that has each ticker once.             *)
THEOREM PicksAreBestHolds ==
    ASSUME TickersOnce
    PROVE  ScanSpec => []PicksAreBest
<1>1. ASSUME ScanInv PROVE PicksAreBest
  <2> SUFFICES ASSUME phase = "done"
               PROVE  /\ Len(admitted) <= config.topN
                      /\ \A r \in ToSet(ranked) \ ToSet(admitted) :
                            \/ \E g \in ToSet(Gates) :
                                  /\ <<r.ticker, g>> \in DOMAIN answers
                                  /\ ~Passes(g, answers[<<r.ticker, g>>])
                            \/ /\ Len(admitted) = config.topN
                               /\ \A pick \in ToSet(admitted) : pick.score >= r.score
    BY DEF PicksAreBest
  <2>1. /\ Ranking /\ config.topN \in Nat
        /\ ranked \in Seq(ToSet(ranked)) /\ Len(ranked) \in Nat
        /\ DOMAIN ranked = 1..Len(ranked)
    <3>1. Ranking /\ config.topN \in Nat
      BY <1>1, ScannerAssumption DEF ScanInv, ListingInv, ScanType
    <3>2. ranked \in Seq(ToSet(ranked))
      BY <3>1 DEF Ranking
    <3> QED BY <3>1, <3>2
  <2>2. \A r \in ToSet(ranked) : \E k \in 1..Len(ranked) : r = ranked[k]
    BY <2>1 DEF ToSet
  <2>3. CASE Gates = <<>>
    <3>1. admitted = Truncated(ranked)
      BY <1>1, <2>3 DEF ScanInv, Probing
    <3> DEFINE n == Min({Len(ranked), config.topN})
    <3>2. /\ n \in Nat /\ n <= Len(ranked) /\ n <= config.topN
          /\ n = Len(ranked) \/ n = config.topN
          /\ Len(admitted) = n /\ \A i \in 1..n : admitted[i] = ranked[i]
          /\ DOMAIN admitted = 1..n
      BY <2>1, <3>1, TruncatedFacts
    <3> HIDE DEF n
    <3>3. ASSUME NEW r \in ToSet(ranked) \ ToSet(admitted)
          PROVE  /\ Len(admitted) = config.topN
                 /\ \A pick \in ToSet(admitted) : pick.score >= r.score
      <4>1. PICK k \in 1..Len(ranked) : r = ranked[k]
        BY <2>2
      <4>2. k \notin 1..n
        <5>1. ASSUME k \in 1..n PROVE FALSE
          <6>1. r = admitted[k] /\ k \in DOMAIN admitted
            BY <3>2, <4>1, <5>1
          <6> QED BY <6>1 DEF ToSet
        <5> QED BY <5>1
      <4>3. n < k /\ n = config.topN
        <5>1. k \in Nat /\ k >= 1 /\ k <= Len(ranked)
          BY <2>1
        <5>2. n \in Nat /\ n <= Len(ranked)
          BY <3>2
        <5>3. n < k
          BY <4>2, <5>1, <5>2
        <5>4. n # Len(ranked)
          BY <5>1, <5>2, <5>3
        <5> QED BY <3>2, <5>3, <5>4
      <4>4. ASSUME NEW pick \in ToSet(admitted) PROVE pick.score >= r.score
        <5>1. PICK i \in 1..n : pick = admitted[i]
          BY <3>2 DEF ToSet
        <5>2. i < k /\ i \in 1..Len(ranked) /\ pick = ranked[i]
          BY <2>1, <3>2, <4>3, <5>1
        <5> QED BY <2>1, <4>1, <5>2 DEF Ranking
      <4> QED BY <3>2, <4>3, <4>4
    <3> QED BY <3>2, <3>3
  <2>4. CASE Gates # <<>>
    <3>1. Probed
      BY <1>1, <2>4 DEF ScanInv, Probing
    <3>2. /\ at \in 1..(Len(ranked) + 1) /\ admitted \in Seq(ToSet(ranked))
          /\ Len(admitted) <= config.topN
          /\ at = Len(ranked) + 1 \/ Len(admitted) = config.topN
      BY <3>1 DEF Probed, Reached
    <3>3. DOMAIN admitted = 1..Len(admitted)
      BY <3>2
    <3>4. DOMAIN Gates = 1..Len(Gates)
      <4>1. Gates \in Seq(GateNames)
        BY GatesFacts
      <4> QED BY <4>1
    <3>5. ASSUME NEW r \in ToSet(ranked) \ ToSet(admitted)
          PROVE  \/ \E g \in ToSet(Gates) : /\ <<r.ticker, g>> \in DOMAIN answers
                                            /\ ~Passes(g, answers[<<r.ticker, g>>])
                 \/ /\ Len(admitted) = config.topN
                    /\ \A pick \in ToSet(admitted) : pick.score >= r.score
      <4>1. PICK k \in 1..Len(ranked) : r = ranked[k]
        BY <2>2
      <4>2. CASE k < at
        <5>1. ~\E i \in 1..Len(admitted) : admitted[i] = ranked[k]
          BY <3>3, <4>1 DEF ToSet
        <5>2. PICK j \in 1..Len(Gates) : TurnedDown(k, j)
          BY <3>1, <4>2, <5>1 DEF Probed, LeavingOut
        <5>3. Gates[j] \in ToSet(Gates)
          BY <3>4 DEF ToSet
        <5> QED BY <4>1, <5>2, <5>3 DEF TurnedDown, Key
      <4>3. CASE at <= k
        <5>1. Len(admitted) = config.topN
          BY <2>1, <3>2, <4>3
        <5>2. ASSUME NEW pick \in ToSet(admitted) PROVE pick.score >= r.score
          <6>1. PICK i \in 1..Len(admitted) : pick = admitted[i]
            BY <3>3 DEF ToSet
          <6>2. PICK m \in 1..Len(ranked) : m < at /\ admitted[i] = ranked[m]
            BY <3>1 DEF Probed, Admitting
          <6>3. m < k
            BY <2>1, <3>2, <4>3, <6>2
          <6> QED BY <2>1, <4>1, <6>1, <6>2, <6>3 DEF Ranking
        <5> QED BY <5>1, <5>2
      <4>4. k < at \/ at <= k
        <5>1. k \in Nat /\ at \in Nat
          BY <2>1, <3>2
        <5> QED BY <5>1
      <4> QED BY <4>2, <4>3, <4>4
    <3> QED BY <3>2, <3>5
  <2> QED BY <2>3, <2>4
<1>2. ScanInv /\ [ScanNext]_scanVars => ScanInv'
  BY ScanStep
<1> QED BY <1>1, <1>2, ScanInitially, PTL DEF ScanSpec

-----------------------------------------------------------------------------
(* What the gates' answers mean.                                           *)

(* A nonempty finite set of numbers has a greatest and a least one.        *)
LEMMA Extremes ==
    ASSUME NEW S \in SUBSET Int, IsFiniteSet(S), S # {}
    PROVE  /\ Max(S) \in S /\ \A y \in S : Max(S) >= y
           /\ Min(S) \in S /\ \A y \in S : Min(S) <= y
<1> DEFINE F == {T \in SUBSET S : \/ T = {}
                                  \/ /\ \E x \in T : \A y \in T : x >= y
                                     /\ \E x \in T : \A y \in T : x <= y}
<1>1. {} \in F
  OBVIOUS
<1>2. ASSUME NEW T \in SUBSET S, NEW z \in S, T \in F
      PROVE  T \cup {z} \in F
  <2>1. CASE T = {}
    BY <2>1
  <2>2. CASE T # {}
    <3>1. PICK a \in T : \A y \in T : a >= y
      BY <1>2, <2>2
    <3>2. PICK b \in T : \A y \in T : b <= y
      BY <1>2, <2>2
    <3>3. \E x \in T \cup {z} : \A y \in T \cup {z} : x >= y
      <4>1. CASE z >= a
        BY <3>1, <4>1
      <4>2. CASE a >= z
        BY <3>1, <4>2
      <4> QED BY <4>1, <4>2
    <3>4. \E x \in T \cup {z} : \A y \in T \cup {z} : x <= y
      <4>1. CASE z <= b
        BY <3>2, <4>1
      <4>2. CASE b <= z
        BY <3>2, <4>2
      <4> QED BY <4>1, <4>2
    <3> QED BY <3>3, <3>4
  <2> QED BY <2>1, <2>2
<1>3. S \in F
  <2> HIDE DEF F
  <2> QED BY <1>1, <1>2, FiniteSetInduction
<1>4. /\ \E x \in S : \A y \in S : x >= y
      /\ \E x \in S : \A y \in S : x <= y
  BY <1>3
<1> QED BY <1>4 DEF Max, Min

(* The values of a function on a finite set.                               *)
LEMMA ValuesFinite ==
    ASSUME NEW S, IsFiniteSet(S), NEW f
    PROVE  IsFiniteSet({f[x] : x \in S})
<1> DEFINE T == {f[x] : x \in S}
           g == [x \in S |-> f[x]]
<1>1. g \in Surjection(S, T)
  BY DEF Surjection
<1> HIDE DEF g
<1> QED BY <1>1, FS_Surjection

(* The sort puts a level with the best price first.                        *)
LEMMA BestIsFirst ==
    ASSUME NEW levels \in Seq(RestLevel), levels # <<>>
    PROVE  /\ BestFirst(levels) # <<>>
           /\ \A k \in DOMAIN levels : Head(BestFirst(levels)).price >= levels[k].price
           /\ Head(BestFirst(levels)).price \in Int
<1> DEFINE D == DOMAIN levels
           price(k) == levels[k].price
           ahead(k) == {j \in D : \/ BetterPrice(levels[j], levels[k])
                                  \/ j <= k /\ levels[j].price = levels[k].price}
<1>1. /\ D = 1..Len(levels) /\ Len(levels) \in Nat /\ Len(levels) >= 1
      /\ \A k \in D : levels[k] \in RestLevel
  OBVIOUS
<1>2. \A k \in D : price(k) \in Int
  BY <1>1 DEF RestLevel
<1>3. IsFiniteSet(D) /\ D \subseteq Nat /\ 1 \in D
  <2>1. 1 \in Int /\ Len(levels) \in Int
    BY <1>1
  <2>2. IsFiniteSet(1..Len(levels))
    BY <2>1, FS_Interval
  <2> QED BY <1>1, <2>2
<1>4. ASSUME NEW k \in D
      PROVE  /\ IsFiniteSet(ahead(k)) /\ k \in ahead(k)
             /\ ahead(k) = {j \in D : price(j) > price(k) \/ (j <= k /\ price(j) = price(k))}
  <2>1. ahead(k) \subseteq D
    OBVIOUS
  <2>2. IsFiniteSet(ahead(k))
    BY <1>3, <2>1, FS_Subset
  <2>3. k <= k
    BY <1>3
  <2> QED BY <2>2, <2>3 DEF BetterPrice
<1> DEFINE top == Max({price(k) : k \in D})
           c == Min({k \in D : price(k) = top})
<1>5. /\ top \in Int /\ \A k \in D : price(k) <= top
      /\ \E k \in D : price(k) = top
  <2> DEFINE P == {price(k) : k \in D}
  <2>1. IsFiniteSet(P)
    <3> DEFINE f == [k \in D |-> price(k)]
    <3>1. P = {f[k] : k \in D}
      OBVIOUS
    <3> HIDE DEF f
    <3> QED BY <1>3, <3>1, ValuesFinite
  <2>2. P \in SUBSET Int /\ P # {}
    BY <1>2, <1>3
  <2>3. top \in P /\ \A y \in P : top >= y
    <3> HIDE DEF P
    <3>1. Max(P) \in P /\ \A y \in P : Max(P) >= y
      BY <2>1, <2>2, Extremes
    <3> QED BY <3>1 DEF P
  <2> HIDE DEF top
  <2> QED BY <1>2, <2>3
<1> HIDE DEF top
<1>6. c \in D /\ price(c) = top /\ \A k \in D : price(k) = top => c <= k
  <2> DEFINE E == {k \in D : price(k) = top}
  <2>1. IsFiniteSet(E)
    BY <1>3, FS_Subset
  <2>2. E \in SUBSET Int /\ E # {}
    BY <1>3, <1>5
  <2>3. c \in E /\ \A y \in E : c <= y
    <3> HIDE DEF E
    <3>1. Min(E) \in E /\ \A y \in E : Min(E) <= y
      BY <2>1, <2>2, Extremes
    <3> QED BY <3>1 DEF E
  <2> HIDE DEF c
  <2> QED BY <2>3
<1> HIDE DEF c
<1>7. Cardinality(ahead(c)) = 1
  <2>1. ahead(c) = {c}
    <3>1. ASSUME NEW j \in ahead(c) PROVE j = c
      <4>1. j \in D /\ (price(j) > price(c) \/ (j <= c /\ price(j) = price(c)))
        BY <1>4, <1>6
      <4>2. price(j) = top /\ j <= c
        BY <1>2, <1>5, <1>6, <4>1
      <4>3. c <= j /\ c \in Nat /\ j \in Nat
        BY <1>3, <1>6, <4>1, <4>2
      <4> QED BY <4>2, <4>3
    <3> HIDE DEF ahead
    <3> QED BY <1>4, <1>6, <3>1
  <2> QED BY <2>1, FS_Singleton
<1>8. ASSUME NEW k \in D, Cardinality(ahead(k)) = 1 PROVE price(k) = top
  <2> SUFFICES ASSUME price(k) # top PROVE FALSE
    OBVIOUS
  <2>1. c \in ahead(k) /\ k \in ahead(k) /\ c # k
    <3>1. price(c) > price(k)
      BY <1>2, <1>5, <1>6
    <3> QED BY <1>4, <1>6, <3>1
  <2> HIDE DEF ahead
  <2>2. \A x, y \in ahead(k) : x = y
    <3>1. PICK x : ahead(k) = {x}
      BY <1>4, <1>8, FS_Singleton
    <3> QED BY <3>1
  <2> QED BY <2>1, <2>2
<1> DEFINE rank == [k \in D |-> Cardinality(ahead(k))]
           first == CHOOSE k \in D : rank[k] = 1
<1>9. first \in D /\ price(first) = top
  <2>1. rank[c] = 1 /\ c \in D
    BY <1>6, <1>7
  <2>2. first \in D /\ rank[first] = 1
    <3> HIDE DEF rank
    <3> QED BY <2>1
  <2> HIDE DEF first
  <2> QED BY <1>8, <2>2
<1>10. BestFirst(levels) = [i \in D |-> levels[CHOOSE k \in D : rank[k] = i]]
  BY DEF BestFirst
<1>11. DOMAIN BestFirst(levels) = D /\ BestFirst(levels)[1] = levels[first]
  <2> HIDE DEF rank
  <2> QED BY <1>3, <1>10
<1> HIDE DEF first
<1>12. BestFirst(levels) # <<>> /\ Head(BestFirst(levels)) = levels[first]
  BY <1>3, <1>11
<1> QED BY <1>2, <1>5, <1>9, <1>12

(* A book that passes is as wide as it must be, at every pair of levels.   *)
LEMMA BookIsWide ==
    ASSUME NEW snap \in Books, config \in Configs, PassesBook(snap),
           NEW k \in DOMAIN snap.yes, NEW l \in DOMAIN snap.no
    PROVE  snap.yes[k].price + snap.no[l].price <= 100 - config.minSpread
<1>1. /\ snap["yes"] \in Seq(RestLevel) /\ snap["no"] \in Seq(RestLevel)
      /\ config.minSpread \in Int
  BY AnswersAssumption, ScannerAssumption DEF Sides
<1> DEFINE Y == BestFirst(snap["yes"])
           N == BestFirst(snap["no"])
           live == ApplySnapshot(snap)
<1>2. live.yes = Y /\ live.no = N
  BY DEF ApplySnapshot, Sides
<1>3. /\ snap["yes"] # <<>> /\ k \in DOMAIN snap["yes"]
      /\ snap["no"] # <<>> /\ l \in DOMAIN snap["no"]
  OBVIOUS
<1>4. Y # <<>> /\ Head(Y).price >= snap["yes"][k].price /\ Head(Y).price \in Int
  BY <1>1, <1>3, BestIsFirst
<1>5. N # <<>> /\ Head(N).price >= snap["no"][l].price /\ Head(N).price \in Int
  BY <1>1, <1>3, BestIsFirst
<1>6. snap["yes"][k].price \in Int /\ snap["no"][l].price \in Int
  <2>1. snap["yes"][k] \in RestLevel /\ snap["no"][l] \in RestLevel
    BY <1>1, <1>3
  <2> QED BY <2>1 DEF RestLevel
<1>7. TwoSided(live) => SpreadCents(live) >= config.minSpread
  BY DEF PassesBook
<1> HIDE DEF Y, N, live
<1>8. TwoSided(live)
  BY <1>2, <1>4, <1>5 DEF TwoSided
<1>9. SpreadCents(live) = (100 - Head(N).price) - Head(Y).price
  BY <1>2, <1>8 DEF SpreadCents, BestAsk, BestBid, Level, Complement
<1> DEFINE y == snap["yes"][k].price
           n == snap["no"][l].price
           hy == Head(Y).price
           hn == Head(N).price
           m == config.minSpread
<1>10. (100 - hn) - hy >= m
  BY <1>7, <1>8, <1>9
<1>11. hy >= y /\ hn >= n /\ hy \in Int /\ hn \in Int /\ y \in Int /\ n \in Int /\ m \in Int
  BY <1>1, <1>4, <1>5, <1>6
<1>12. y + n <= 100 - m
  <2> HIDE DEF y, n, hy, hn, m
  <2> QED BY <1>10, <1>11
<1> QED BY <1>12

(* The first prints of a tape.                                             *)
LEMMA FirstPrints ==
    ASSUME NEW tape \in Seq(PublicTrade), NEW n \in Nat, n <= Len(tape)
    PROVE  /\ SubSeq(tape, 1, n) \in Seq(PublicTrade) /\ Len(SubSeq(tape, 1, n)) = n
           /\ DOMAIN SubSeq(tape, 1, n) = 1..n
           /\ \A i \in 1..n : SubSeq(tape, 1, n)[i] = tape[i] /\ i \in DOMAIN tape
OBVIOUS

(* The recent prints of a tape are prints of it, and none is older.        *)
LEMMA RecentFacts ==
    ASSUME NEW tape \in Seq(PublicTrade), NEW minutes \in Int
    PROVE  /\ Recent(tape, minutes) \in Seq(PublicTrade)
           /\ \A i \in DOMAIN Recent(tape, minutes) :
                 /\ i \in DOMAIN tape /\ Recent(tape, minutes)[i] = tape[i]
                 /\ tape[i].age <= minutes
<1> DEFINE old == {i \in DOMAIN tape : tape[i].age > minutes}
<1>1. /\ DOMAIN tape = 1..Len(tape) /\ Len(tape) \in Nat
      /\ \A i \in DOMAIN tape : tape[i].age \in Int
  <2>1. \A i \in DOMAIN tape : tape[i] \in PublicTrade
    OBVIOUS
  <2> QED BY <2>1 DEF PublicTrade
<1>2. CASE old = {}
  <2>1. Recent(tape, minutes) = tape
    BY <1>2 DEF Recent
  <2> QED BY <1>1, <1>2, <2>1
<1>3. CASE old # {}
  <2>1. IsFiniteSet(old) /\ old \in SUBSET Int
    <3>1. 1 \in Int /\ Len(tape) \in Int
      BY <1>1
    <3>2. IsFiniteSet(1..Len(tape))
      BY <3>1, FS_Interval
    <3> QED BY <1>1, <3>2, FS_Subset
  <2>2. Min(old) \in old /\ \A y \in old : Min(old) <= y
    <3> HIDE DEF old
    <3> QED BY <1>3, <2>1, Extremes
  <2>3. PICK q \in 1..Len(tape) : q = Min(old) /\ \A y \in old : q <= y
    BY <1>1, <2>2
  <2>4. PICK n \in Nat : n = q - 1 /\ n < q /\ n <= Len(tape)
    BY <1>1
  <2>5. Recent(tape, minutes) = SubSeq(tape, 1, n)
    BY <1>3, <2>3, <2>4 DEF Recent
  <2>6. ASSUME NEW i \in 1..n PROVE i \in DOMAIN tape /\ tape[i].age <= minutes
    <3>1. i \in DOMAIN tape
      BY <2>4, FirstPrints
    <3>2. i < q
      BY <2>4
    <3>3. i \notin old
      <4> HIDE DEF old
      <4> QED BY <2>3, <3>2
    <3> QED BY <1>1, <3>1, <3>3
  <2>7. /\ SubSeq(tape, 1, n) \in Seq(PublicTrade) /\ DOMAIN SubSeq(tape, 1, n) = 1..n
        /\ \A i \in 1..n : SubSeq(tape, 1, n)[i] = tape[i]
    BY <2>4, FirstPrints
  <2> QED BY <2>5, <2>6, <2>7
<1> QED BY <1>2, <1>3

(* What is asked of the configuration.                                     *)
LEMMA ConfigNumbers ==
    ASSUME config \in Configs
    PROVE  /\ config.maxStale \in Int /\ config.minPerHour \in Int
           /\ config.minRange \in Int /\ config.lookback \in Int
           /\ config.minMinority \in Int
           /\ ProbeLimit \in Nat /\ ProbeLimit >= 1
<1>1. /\ config.maxStale \in Int /\ config.minPerHour \in Int
      /\ config.minRange \in Int /\ config.lookback \in Int
      /\ config.minMinority \in Int /\ ProbeTrades \in Nat \ {0}
  BY ScannerAssumption
<1>2. PICK p \in Nat \ {0} : ProbeLimit = Max2(config.minPerHour, p)
  <2>1. 1 \in Nat \ {0}
    OBVIOUS
  <2> QED BY <1>1, <2>1 DEF ProbeLimit
<1> QED BY <1>1, <1>2 DEF Max2

(* A sum of zeros.                                                         *)
LEMMA SumZero ==
    ASSUME NEW S, IsFiniteSet(S), NEW f, \A x \in S : f[x] = 0
    PROVE  SumFunctionOnSet(f, S) = 0
<1> DEFINE F == {T \in SUBSET S : SumFunctionOnSet(f, T) = 0}
<1>1. {} \in F
  BY SumEmpty
<1>2. ASSUME NEW T \in SUBSET S, NEW z \in S, T \in F
      PROVE  T \cup {z} \in F
  <2>1. CASE z \in T
    <3>1. T \cup {z} = T
      BY <2>1
    <3> QED BY <1>2, <3>1
  <2>2. CASE z \notin T
    <3>1. IsFiniteSet(T)
      BY FS_Subset
    <3>2. \A x \in T \cup {z} : f[x] \in Int
      OBVIOUS
    <3>3. SumFunctionOnSet(f, T \cup {z}) = SumFunctionOnSet(f, T) + f[z]
      BY <2>2, <3>1, <3>2, SumAdd
    <3> QED BY <1>2, <3>3
  <2> QED BY <2>1, <2>2
<1>3. S \in F
  <2> HIDE DEF F
  <2> QED BY <1>1, <1>2, FiniteSetInduction
<1> QED BY <1>3

(* A positive sum over a sequence has a summand that is not zero.          *)
LEMMA SummandOf ==
    ASSUME NEW S, NEW seq \in Seq(S), NEW f, DOMAIN f = DOMAIN seq,
           f = [i \in DOMAIN seq |-> f[i]], \A i \in DOMAIN seq : f[i] \in Nat
    PROVE  /\ SumFunction(f) \in Nat
           /\ SumFunction(f) > 0 => \E i \in DOMAIN seq : f[i] # 0
<1>1. IsFiniteSet(DOMAIN seq)
  <2>1. DOMAIN seq = 1..Len(seq) /\ 1 \in Int /\ Len(seq) \in Int
    OBVIOUS
  <2> QED BY <2>1, FS_Interval
<1>2. SumFunction(f) = SumFunctionOnSet(f, DOMAIN seq)
  BY DEF SumFunction
<1>3. SumFunctionOnSet(f, DOMAIN seq) \in Nat
  BY <1>1, SumNat
<1>4. ASSUME \A i \in DOMAIN seq : f[i] = 0 PROVE SumFunction(f) = 0
  BY <1>1, <1>2, <1>4, SumZero
<1> QED BY <1>2, <1>3, <1>4

(* A tape that passes the price test has two recent prints that far apart. *)
LEMMA PricesMoved ==
    ASSUME NEW tape \in Seq(PublicTrade), config \in Configs, ShowsPriceDiscovery(tape)
    PROVE  \E i, j \in DOMAIN tape :
              /\ tape[i].age <= config.lookback /\ tape[j].age <= config.lookback
              /\ tape[i].px - tape[j].px >= config.minRange
<1> DEFINE recent == Recent(tape, config.lookback)
           prices == {recent[i].px : i \in DOMAIN recent}
<1>1. /\ recent \in Seq(PublicTrade)
      /\ \A i \in DOMAIN recent : /\ i \in DOMAIN tape /\ recent[i] = tape[i]
                                  /\ tape[i].age <= config.lookback
  BY ConfigNumbers, RecentFacts
<1>2. Len(recent) >= 2 /\ Max(prices) - Min(prices) >= config.minRange
  BY DEF ShowsPriceDiscovery
<1> HIDE DEF recent
<1>3. DOMAIN recent = 1..Len(recent) /\ Len(recent) \in Nat /\ 1 \in DOMAIN recent
  BY <1>1, <1>2
<1>4. \A i \in DOMAIN recent : recent[i].px \in Int
  <2>1. \A i \in DOMAIN recent : recent[i] \in PublicTrade
    BY <1>1
  <2> QED BY <2>1 DEF PublicTrade
<1>5. IsFiniteSet(prices) /\ prices \in SUBSET Int /\ prices # {}
  <2>1. 1 \in Int /\ Len(recent) \in Int
    BY <1>3
  <2>2. IsFiniteSet(DOMAIN recent)
    BY <1>3, <2>1, FS_Interval
  <2> DEFINE f == [i \in DOMAIN recent |-> recent[i].px]
  <2>3. prices = {f[i] : i \in DOMAIN recent}
    OBVIOUS
  <2>4. IsFiniteSet({f[i] : i \in DOMAIN recent})
    <3> HIDE DEF f
    <3> QED BY <2>2, ValuesFinite
  <2> QED BY <1>3, <1>4, <2>3, <2>4
<1>6. Max(prices) \in prices /\ Min(prices) \in prices
  <2> HIDE DEF prices
  <2> QED BY <1>5, Extremes
<1>7. PICK i \in DOMAIN recent : Max(prices) = recent[i].px
  BY <1>6
<1>8. PICK j \in DOMAIN recent : Min(prices) = recent[j].px
  BY <1>6
<1>9. recent[i].px - recent[j].px >= config.minRange
  BY <1>2, <1>7, <1>8
<1> QED BY <1>1, <1>9

(* A tape that passes the sides test has recent prints of both takers.     *)
LEMMA BothSidesTook ==
    ASSUME NEW tape \in Seq(PublicTrade), config \in Configs, config.minMinority > 0,
           IsTwoSided(tape)
    PROVE  \E i, j \in DOMAIN tape :
              /\ tape[i].age <= HourMinutes /\ tape[j].age <= HourMinutes
              /\ tape[i].taker # tape[j].taker
<1> DEFINE recent == Recent(tape, HourMinutes)
           sized == SumOver(recent, LAMBDA t : t.qty) > 0
           share(s) == [i \in DOMAIN recent |->
                           IF recent[i].taker # s THEN 0
                           ELSE IF sized THEN recent[i].qty ELSE 1]
           yes == SumFunction(share("yes"))
           no == SumFunction(share("no"))
<1>1. HourMinutes \in Int
  BY DEF HourMinutes
<1>2. /\ recent \in Seq(PublicTrade)
      /\ \A i \in DOMAIN recent : /\ i \in DOMAIN tape /\ recent[i] = tape[i]
                                  /\ tape[i].age <= HourMinutes
  BY <1>1, RecentFacts
<1>3. yes + no > 0 /\ 100 * Min({yes, no}) >= config.minMinority * (yes + no)
  BY DEF IsTwoSided, SumOver
<1> HIDE DEF recent, sized
<1>4. \A i \in DOMAIN recent : recent[i].qty \in Nat
  <2>1. \A i \in DOMAIN recent : recent[i] \in PublicTrade
    BY <1>2
  <2> QED BY <2>1 DEF PublicTrade
<1>5. ASSUME NEW s
      PROVE  /\ SumFunction(share(s)) \in Nat
             /\ SumFunction(share(s)) > 0 => \E i \in DOMAIN recent : recent[i].taker = s
  <2> DEFINE f == share(s)
  <2>1. /\ DOMAIN f = DOMAIN recent /\ f = [i \in DOMAIN recent |-> f[i]]
        /\ \A i \in DOMAIN recent : f[i] \in Nat
        /\ \A i \in DOMAIN recent : f[i] # 0 => recent[i].taker = s
    BY <1>4
  <2> HIDE DEF f
  <2>2. SumFunction(f) \in Nat /\ (SumFunction(f) > 0 => \E i \in DOMAIN recent : f[i] # 0)
    BY <1>2, <2>1, SummandOf
  <2>3. SumFunction(f) > 0 => \E i \in DOMAIN recent : recent[i].taker = s
    BY <2>1, <2>2
  <2> QED BY <2>2, <2>3 DEF f
<1>6. yes \in Nat /\ no \in Nat
  BY <1>5
<1>7. (yes > 0 => \E i \in DOMAIN recent : recent[i].taker = "yes")
      /\ (no > 0 => \E i \in DOMAIN recent : recent[i].taker = "no")
  BY <1>5
<1> HIDE DEF yes, no
<1>8. Min({yes, no}) \in Int /\ Min({yes, no}) <= yes /\ Min({yes, no}) <= no
  <2>1. yes \in Int /\ no \in Int
    BY <1>6
  <2>2. Min({yes, no}) \in {yes, no} /\ Min({yes, no}) <= yes /\ Min({yes, no}) <= no
    BY <2>1, MinOfTwo
  <2> QED BY <2>1, <2>2
<1>9. ASSUME NEW m \in Int, NEW t \in Int, NEW w \in Int, m > 0, t > 0, 100 * w >= m * t
      PROVE  w > 0
  <2>1. m * t >= 1
    BY <1>9
  <2> QED BY <1>9, <2>1
<1>10. Min({yes, no}) > 0
  <2>1. yes + no \in Int
    BY <1>6
  <2> QED BY <1>3, <1>8, <1>9, <2>1, ConfigNumbers
<1>11. yes > 0 /\ no > 0
  BY <1>6, <1>8, <1>10
<1>12. PICK i \in DOMAIN recent : recent[i].taker = "yes"
  BY <1>7, <1>11
<1>13. PICK j \in DOMAIN recent : recent[j].taker = "no"
  BY <1>7, <1>11
<1>14. tape[i].taker # tape[j].taker
  BY <1>2, <1>12, <1>13
<1> QED BY <1>2, <1>14

(* A tape that passes is live, read as a whole.                            *)
LEMMA TapeIsLive ==
    ASSUME NEW tape \in Tapes, config \in Configs, PassesFlow(tape)
    PROVE  LiveTape(tape)
<1>1. /\ tape \in Seq(PublicTrade)
      /\ \A i, j \in DOMAIN tape : i < j => tape[i].age <= tape[j].age
  BY AnswersAssumption
<1>2. /\ DOMAIN tape = 1..Len(tape) /\ Len(tape) \in Nat
      /\ \A i \in DOMAIN tape : tape[i].age \in Int
  <2>1. \A i \in DOMAIN tape : tape[i] \in PublicTrade
    BY <1>1
  <2> QED BY <1>1, <2>1 DEF PublicTrade
<1>3. PICK n \in Nat : n = Min({Len(tape), ProbeLimit}) /\ n <= Len(tape)
  <2>1. Len(tape) \in Int /\ ProbeLimit \in Int
    BY <1>2, ConfigNumbers
  <2>2. /\ Min({Len(tape), ProbeLimit}) \in {Len(tape), ProbeLimit}
        /\ Min({Len(tape), ProbeLimit}) <= Len(tape)
    BY <2>1, MinOfTwo
  <2> QED BY <1>2, <2>2, ConfigNumbers
<1> DEFINE trades == SubSeq(tape, 1, n)
           within(minutes) == {i \in DOMAIN tape : tape[i].age <= minutes}
<1>4. /\ trades # <<>>
      /\ config.maxStale > 0 => Head(trades).age <= config.maxStale
      /\ config.minPerHour > 0 => EnoughPerHour(trades)
      /\ config.minRange > 0 => ShowsPriceDiscovery(trades)
      /\ config.minMinority > 0 => IsTwoSided(trades)
  BY <1>3 DEF PassesFlow
<1>5. /\ trades \in Seq(PublicTrade) /\ Len(trades) = n /\ DOMAIN trades = 1..n
      /\ \A i \in 1..n : trades[i] = tape[i] /\ i \in DOMAIN tape
  BY <1>1, <1>3, FirstPrints
<1> HIDE DEF trades
<1>6. 1 \in 1..n /\ Head(trades) = tape[1] /\ 1 \in DOMAIN tape
  <2>1. n >= 1
    BY <1>4, <1>5
  <2> QED BY <1>4, <1>5, <2>1
<1>7. tape # <<>>
  BY <1>2, <1>6
<1>8. config.maxStale > 0 => within(config.maxStale) # {}
  BY <1>4, <1>6
<1>9. IsFiniteSet(within(HourMinutes)) /\ Cardinality(within(HourMinutes)) \in Nat
  <2>1. 1 \in Int /\ Len(tape) \in Int
    BY <1>2
  <2>2. IsFiniteSet(DOMAIN tape)
    BY <1>2, <2>1, FS_Interval
  <2> QED BY <2>2, FS_Subset, FS_CardinalityType
<1>10. Cardinality(within(HourMinutes)) >= config.minPerHour
  <2>1. CASE config.minPerHour <= 0
    <3> HIDE DEF within
    <3> QED BY <1>9, <2>1, ConfigNumbers
  <2>2. CASE config.minPerHour > 0
    <3>1. PICK m \in Nat : m = config.minPerHour /\ m > 0
      BY <2>2, ConfigNumbers
    <3>2. m <= n /\ trades[m].age <= HourMinutes
      BY <1>4, <1>5, <2>2, <3>1 DEF EnoughPerHour
    <3>3. m \in 1..n /\ tape[m].age <= HourMinutes /\ m \in DOMAIN tape
      BY <1>5, <3>1, <3>2
    <3>4. 1..m \subseteq within(HourMinutes)
      <4> SUFFICES ASSUME NEW i \in 1..m
                   PROVE  i \in DOMAIN tape /\ tape[i].age <= HourMinutes
        OBVIOUS
      <4>1. i \in DOMAIN tape
        BY <1>2, <3>3
      <4>2. i < m \/ i = m
        OBVIOUS
      <4>3. HourMinutes \in Int
        BY DEF HourMinutes
      <4>4. CASE i < m
        <5>1. tape[i].age <= tape[m].age
          BY <1>1, <3>3, <4>1, <4>4
        <5> QED BY <1>2, <3>3, <4>1, <4>3, <5>1
      <4> QED BY <3>3, <4>1, <4>2, <4>4
    <3>5. Cardinality(1..m) = m
      <4>1. 1 \in Int /\ m \in Int
        OBVIOUS
      <4> QED BY <3>1, <4>1, FS_Interval
    <3>6. Cardinality(1..m) <= Cardinality(within(HourMinutes))
      <4> HIDE DEF within
      <4> QED BY <1>9, <3>4, FS_Subset
    <3> HIDE DEF within
    <3> QED BY <1>9, <3>1, <3>5, <3>6
  <2> QED BY <2>1, <2>2, ConfigNumbers
<1>11. config.minRange > 0 =>
          \E i, j \in within(config.lookback) : tape[i].px - tape[j].px >= config.minRange
  <2> SUFFICES ASSUME config.minRange > 0
               PROVE  \E i, j \in within(config.lookback) :
                         tape[i].px - tape[j].px >= config.minRange
    OBVIOUS
  <2>1. PICK i \in DOMAIN trades, j \in DOMAIN trades :
           /\ trades[i].age <= config.lookback /\ trades[j].age <= config.lookback
           /\ trades[i].px - trades[j].px >= config.minRange
    BY <1>4, <1>5, PricesMoved
  <2>2. /\ i \in DOMAIN tape /\ j \in DOMAIN tape
        /\ trades[i] = tape[i] /\ trades[j] = tape[j]
    BY <1>5
  <2> QED BY <2>1, <2>2
<1>12. config.minMinority > 0 =>
          \E i, j \in within(HourMinutes) : tape[i].taker # tape[j].taker
  <2> SUFFICES ASSUME config.minMinority > 0
               PROVE  \E i, j \in within(HourMinutes) : tape[i].taker # tape[j].taker
    OBVIOUS
  <2>1. PICK i \in DOMAIN trades, j \in DOMAIN trades :
           /\ trades[i].age <= HourMinutes /\ trades[j].age <= HourMinutes
           /\ trades[i].taker # trades[j].taker
    BY <1>4, <1>5, BothSidesTook
  <2>2. /\ i \in DOMAIN tape /\ j \in DOMAIN tape
        /\ trades[i] = tape[i] /\ trades[j] = tape[j]
    BY <1>5
  <2> QED BY <2>1, <2>2
<1> QED BY <1>7, <1>8, <1>10, <1>11, <1>12 DEF LiveTape

(* A pick's probe was made, was passed, and its answer is one the exchange *)
(* gives.                                                                  *)
LEMMA PickPassed ==
    ASSUME Probed, NEW i \in DOMAIN admitted, NEW g \in ToSet(Gates)
    PROVE  LET told == answers[<<admitted[i].ticker, g>>]
           IN  Passes(g, told) /\ told \subseteq Answers(g)
<1>1. i \in 1..Len(admitted)
  <2>1. admitted \in Seq(ToSet(ranked))
    BY DEF Probed, Reached
  <2> QED BY <2>1
<1>2. PICK j \in 1..Len(Gates) : g = Gates[j]
  <2>1. Gates \in Seq(GateNames)
    BY GatesFacts
  <2>2. DOMAIN Gates = 1..Len(Gates)
    BY <2>1
  <2> QED BY <2>2 DEF ToSet
<1>3. PICK k \in 1..Len(ranked) : admitted[i] = ranked[k] /\ Cleared(k, j)
  BY <1>1 DEF Probed, Admitting
<1>4. <<admitted[i].ticker, g>> = Key(k, j)
  BY <1>2, <1>3 DEF Key
<1>5. Key(k, j) \in DOMAIN answers /\ Passes(g, answers[Key(k, j)])
  BY <1>2, <1>3 DEF Cleared
<1>6. PICK m \in 1..Len(ranked), n \in 1..Len(Gates) :
         Key(k, j) = Key(m, n) /\ answers[Key(k, j)] \subseteq Answers(Gates[n])
  BY <1>5 DEF Probed, Asked
<1>7. Gates[n] = g
  BY <1>2, <1>6 DEF Key
<1> QED BY <1>4, <1>5, <1>6, <1>7

(* No pick is dead: the gates, which see the newest prints only and stop   *)
(* at the first old one, say of the whole tape what they are for, and the  *)
(* live book of a pick is as wide as it must be at every pair of levels.   *)
THEOREM PicksAreLiveHolds ==
    ASSUME TickersOnce
    PROVE  ScanSpec => []PicksAreLive
<1>1. ASSUME ScanInv PROVE PicksAreLive
  <2> DEFINE told(i, g) ==
               IF g \in ToSet(Gates) THEN answers[<<admitted[i].ticker, g>>] ELSE {}
  <2>1. config \in Configs
    BY <1>1 DEF ScanInv, ListingInv, ScanType
  <2>2. ASSUME phase = "done", NEW i \in DOMAIN admitted, NEW g, NEW data \in told(i, g)
        PROVE  \E answer : data \in answer /\ Passes(g, answer) /\ answer \subseteq Answers(g)
    <3>1. g \in ToSet(Gates) /\ data \in answers[<<admitted[i].ticker, g>>]
      BY <2>2
    <3>2. Gates # <<>>
      BY <3>1 DEF ToSet
    <3>3. Probed
      BY <1>1, <2>2, <3>2 DEF ScanInv, Probing
    <3> QED BY <3>1, <3>3, PickPassed
  <2>3. ASSUME phase = "done", NEW i \in DOMAIN admitted, NEW tape \in told(i, "flow")
        PROVE  LiveTape(tape)
    <3>1. PICK answer : /\ tape \in answer /\ Passes("flow", answer)
                        /\ answer \subseteq Answers("flow")
      BY <2>2, <2>3
    <3>2. PassesFlow(tape)
      BY <3>1 DEF Passes
    <3>3. tape \in Tapes
      BY <3>1 DEF Answers
    <3> QED BY <2>1, <3>2, <3>3, TapeIsLive
  <2>4. ASSUME phase = "done", NEW i \in DOMAIN admitted, NEW live \in told(i, "book"),
               NEW k \in DOMAIN live.yes, NEW l \in DOMAIN live.no
        PROVE  live.yes[k].price + live.no[l].price <= 100 - config.minSpread
    <3>1. PICK answer : /\ live \in answer /\ Passes("book", answer)
                        /\ answer \subseteq Answers("book")
      BY <2>2, <2>4
    <3>2. PassesBook(live)
      BY <3>1 DEF Passes
    <3>3. live \in Books
      BY <3>1 DEF Answers
    <3> QED BY <2>1, <3>2, <3>3, BookIsWide
  <2> QED BY <2>3, <2>4, Zenon DEF PicksAreLive
<1>2. ScanInv /\ [ScanNext]_scanVars => ScanInv'
  BY ScanStep
<1> QED BY <1>1, <1>2, ScanInitially, PTL DEF ScanSpec
=============================================================================
