--------------------------- MODULE LotLedgerProofs ---------------------------
(***************************************************************************)
(* The profit of OrderManager, for every set of markets, prices and fees   *)
(* and any number of fills of any size: record_fill neither makes nor      *)
(* loses a cent, and exposure_decomposition, which looks at one side only, *)
(* tells what both settlements pay.  And the lots are a faithful account:  *)
(* record_fill implements the ledger of unit contracts (OrderLedger), and  *)
(* has its invariants.                                                     *)
(*                                                                         *)
(* The core is the matching loop.  Balanced says what it has done after i  *)
(* lots: how much of the fill is left, what was gained and what is kept    *)
(* balance with the contracts and the cost of the lots it went through.    *)
(* UnitBalanced says the same contract by contract: the oldest are gone,   *)
(* the others are kept in order.                                           *)
(***************************************************************************)
EXTENDS LotLedger, SumTheorems, SequenceTheorems

Lot == [price : Prices, remaining : Nat \ {0}]

-----------------------------------------------------------------------------
(* Queues of lots.                                                         *)

QtyFn(q) == [i \in DOMAIN q |-> q[i].remaining]
CostFn(q) == [i \in DOMAIN q |-> q[i].price * q[i].remaining]
GainFn(q, mark) == [i \in DOMAIN q |-> (mark - q[i].price) * q[i].remaining]

\* A lot's contracts and cost are numbers.
LEMMA LotInts ==
  ASSUME NEW l \in Lot
  PROVE  /\ l.remaining \in Nat /\ l.remaining >= 1
         /\ l.price \in Nat /\ l.price * l.remaining \in Nat
  <1>1. l.remaining \in Nat /\ l.remaining >= 1 /\ l.price \in Prices
    BY DEF Lot
  <1>2. l.price \in 1..99
    BY <1>1, LedgerConstants
  <1> QED BY <1>1, <1>2

\* The three sums of a queue are sums over 1..Len(q).
LEMMA QueueSums ==
  ASSUME NEW q \in Seq(Lot)
  PROVE  /\ IsFiniteSet(1..Len(q)) /\ Len(q) \in Nat /\ DOMAIN q = 1..Len(q)
         /\ LotQty(q) = SumFunctionOnSet(QtyFn(q), 1..Len(q))
         /\ LotCost(q) = SumFunctionOnSet(CostFn(q), 1..Len(q))
         /\ \A m : LotGain(q, m) = SumFunctionOnSet(GainFn(q, m), 1..Len(q))
         /\ \A i \in 1..Len(q) : /\ q[i] \in Lot
                                 /\ QtyFn(q)[i] = q[i].remaining
                                 /\ QtyFn(q)[i] \in Nat
                                 /\ CostFn(q)[i] = q[i].price * q[i].remaining
                                 /\ CostFn(q)[i] \in Nat
  <1>1. Len(q) \in Nat /\ DOMAIN q = 1..Len(q)
    OBVIOUS
  <1>2. IsFiniteSet(1..Len(q))
    BY <1>1, FS_Interval
  <1>3. /\ DOMAIN QtyFn(q) = 1..Len(q)
        /\ DOMAIN CostFn(q) = 1..Len(q)
        /\ \A m : DOMAIN GainFn(q, m) = 1..Len(q)
    BY <1>1 DEF QtyFn, CostFn, GainFn
  <1>4. /\ LotQty(q) = SumFunctionOnSet(QtyFn(q), DOMAIN QtyFn(q))
        /\ LotCost(q) = SumFunctionOnSet(CostFn(q), DOMAIN CostFn(q))
        /\ \A m : LotGain(q, m)
                    = SumFunctionOnSet(GainFn(q, m), DOMAIN GainFn(q, m))
    BY Zenon DEF LotQty, LotCost, LotGain, SumFunction, QtyFn, CostFn, GainFn
  <1>5. ASSUME NEW i \in 1..Len(q)
        PROVE  /\ q[i] \in Lot
               /\ QtyFn(q)[i] = q[i].remaining
               /\ QtyFn(q)[i] \in Nat
               /\ CostFn(q)[i] = q[i].price * q[i].remaining
               /\ CostFn(q)[i] \in Nat
    <2>1. q[i] \in Lot /\ i \in DOMAIN q
      BY <1>1
    <2>2. /\ QtyFn(q)[i] = q[i].remaining
          /\ CostFn(q)[i] = q[i].price * q[i].remaining
      BY <2>1 DEF QtyFn, CostFn
    <2> QED BY <2>1, <2>2, LotInts
  <1> QED BY <1>1, <1>2, <1>3, <1>4, <1>5

\* A queue holds a natural number of contracts, at least one if it has a lot.
LEMMA QueueNats ==
  ASSUME NEW q \in Seq(Lot)
  PROVE  /\ LotQty(q) \in Nat /\ LotCost(q) \in Nat
         /\ q # << >> => LotQty(q) >= 1
  <1> DEFINE S == 1..Len(q)
  <1>1. IsFiniteSet(S) /\ Len(q) \in Nat
    BY QueueSums
  <1>2. \A i \in S : /\ QtyFn(q)[i] \in Nat /\ CostFn(q)[i] \in Nat
                     /\ q[i] \in Lot /\ QtyFn(q)[i] = q[i].remaining
    BY QueueSums
  <1>3. /\ SumFunctionOnSet(QtyFn(q), S) \in Nat
        /\ SumFunctionOnSet(CostFn(q), S) \in Nat
    <2> HIDE DEF S
    <2> QED BY <1>1, <1>2, SumNat
  <1>4. ASSUME q # << >>
        PROVE  SumFunctionOnSet(QtyFn(q), S) >= 1
    <2>1. 1 \in S
      BY <1>1, <1>4
    <2> HIDE DEF S
    <2>2. \A i \in S : QtyFn(q)[i] \in Int
      BY <1>2
    <2>3. SumFunctionOnSet(QtyFn(q), S)
            = QtyFn(q)[1] + SumFunctionOnSet(QtyFn(q), S \ {1})
      BY <1>1, <2>1, <2>2, SumTakeOut
    <2>4. SumFunctionOnSet(QtyFn(q), S \ {1}) \in Nat
      <3>1. IsFiniteSet(S \ {1})
        BY <1>1, FS_Subset
      <3> QED BY <1>2, <3>1, SumNat
    <2>5. QtyFn(q)[1] \in Nat /\ QtyFn(q)[1] >= 1
      BY <1>2, <2>1, LotInts
    <2> QED BY <2>3, <2>4, <2>5
  <1> QED BY <1>3, <1>4, QueueSums

\* No lots, no contracts, no cost.
LEMMA EmptyQueue ==
  /\ LotQty(<< >>) = 0
  /\ LotCost(<< >>) = 0
  <1>1. << >> \in Seq(Lot) /\ 1..Len(<< >>) = {}
    OBVIOUS
  <1>2. /\ LotQty(<< >>) = SumFunctionOnSet(QtyFn(<< >>), 1..Len(<< >>))
        /\ LotCost(<< >>) = SumFunctionOnSet(CostFn(<< >>), 1..Len(<< >>))
    BY <1>1, QueueSums
  <1> QED BY <1>1, <1>2, SumEmpty

\* A lot at the back adds its contracts and its cost.
LEMMA AppendLot ==
  ASSUME NEW q \in Seq(Lot), NEW l \in Lot
  PROVE  /\ Append(q, l) \in Seq(Lot)
         /\ LotQty(Append(q, l)) = LotQty(q) + l.remaining
         /\ LotCost(Append(q, l)) = LotCost(q) + l.price * l.remaining
  <1> DEFINE n == Len(q)
             a == Append(q, l)
             S == 1..n
  <1>1. /\ n \in Nat /\ a \in Seq(Lot) /\ Len(a) = n + 1
        /\ 1..Len(a) = S \cup {n + 1} /\ n + 1 \notin S
        /\ a[n + 1] = l /\ \A i \in S : a[i] = q[i]
    OBVIOUS
  <1> HIDE DEF a, S, n
  <1>2. /\ IsFiniteSet(S)
        /\ LotQty(q) = SumFunctionOnSet(QtyFn(q), S)
        /\ LotCost(q) = SumFunctionOnSet(CostFn(q), S)
        /\ \A i \in S : /\ QtyFn(q)[i] = q[i].remaining
                        /\ CostFn(q)[i] = q[i].price * q[i].remaining
    BY QueueSums DEF S, n
  <1>3. /\ LotQty(a) = SumFunctionOnSet(QtyFn(a), S \cup {n + 1})
        /\ LotCost(a) = SumFunctionOnSet(CostFn(a), S \cup {n + 1})
        /\ \A i \in S \cup {n + 1} :
             /\ QtyFn(a)[i] = a[i].remaining /\ QtyFn(a)[i] \in Int
             /\ CostFn(a)[i] = a[i].price * a[i].remaining
             /\ CostFn(a)[i] \in Int
    <2>1. /\ LotQty(a) = SumFunctionOnSet(QtyFn(a), 1..Len(a))
          /\ LotCost(a) = SumFunctionOnSet(CostFn(a), 1..Len(a))
          /\ \A i \in 1..Len(a) :
               /\ QtyFn(a)[i] = a[i].remaining /\ QtyFn(a)[i] \in Nat
               /\ CostFn(a)[i] = a[i].price * a[i].remaining
               /\ CostFn(a)[i] \in Nat
      BY <1>1, QueueSums
    <2>2. /\ LotQty(a) = SumFunctionOnSet(QtyFn(a), S \cup {n + 1})
          /\ LotCost(a) = SumFunctionOnSet(CostFn(a), S \cup {n + 1})
      BY <1>1, <2>1, Zenon
    <2>3. ASSUME NEW i \in S \cup {n + 1}
          PROVE  /\ QtyFn(a)[i] = a[i].remaining /\ QtyFn(a)[i] \in Int
                 /\ CostFn(a)[i] = a[i].price * a[i].remaining
                 /\ CostFn(a)[i] \in Int
      <3>1. i \in 1..Len(a)
        BY <1>1, <2>3
      <3> QED BY <2>1, <3>1
    <2> QED BY <2>2, <2>3
  <1>4. /\ SumFunctionOnSet(QtyFn(a), S) = SumFunctionOnSet(QtyFn(q), S)
        /\ SumFunctionOnSet(CostFn(a), S) = SumFunctionOnSet(CostFn(q), S)
    <2>1. \A i \in S : QtyFn(a)[i] = QtyFn(q)[i] /\ CostFn(a)[i] = CostFn(q)[i]
      BY <1>1, <1>2, <1>3
    <2> QED BY <1>2, <2>1, SumEqual
  <1>5. /\ SumFunctionOnSet(QtyFn(a), S \cup {n + 1})
             = SumFunctionOnSet(QtyFn(a), S) + QtyFn(a)[n + 1]
        /\ SumFunctionOnSet(CostFn(a), S \cup {n + 1})
             = SumFunctionOnSet(CostFn(a), S) + CostFn(a)[n + 1]
    BY <1>1, <1>2, <1>3, SumAdd
  <1>6. /\ QtyFn(a)[n + 1] = l.remaining
        /\ CostFn(a)[n + 1] = l.price * l.remaining
    BY <1>1, <1>3
  <1> QED BY <1>1, <1>2, <1>3, <1>4, <1>5, <1>6 DEF a

\* unrealized_pnl's loop is linear in the mark.
LEMMA GainIsLinear ==
  ASSUME NEW q \in Seq(Lot), NEW m \in Int
  PROVE  LotGain(q, m) = m * LotQty(q) - LotCost(q)
  <1> DEFINE S == 1..Len(q)
  <1>1. /\ IsFiniteSet(S) /\ DOMAIN q = S
        /\ LotQty(q) = SumFunctionOnSet(QtyFn(q), S)
        /\ LotCost(q) = SumFunctionOnSet(CostFn(q), S)
        /\ LotGain(q, m) = SumFunctionOnSet(GainFn(q, m), S)
    BY QueueSums
  <1>2. ASSUME NEW i \in S
        PROVE  /\ QtyFn(q)[i] \in Int /\ CostFn(q)[i] \in Int
               /\ GainFn(q, m)[i] = m * QtyFn(q)[i] - CostFn(q)[i]
    <2>1. /\ q[i] \in Lot
          /\ QtyFn(q)[i] = q[i].remaining /\ QtyFn(q)[i] \in Int
          /\ CostFn(q)[i] = q[i].price * q[i].remaining /\ CostFn(q)[i] \in Int
      BY QueueSums
    <2>2. GainFn(q, m)[i] = (m - q[i].price) * q[i].remaining
      BY <1>1, <1>2 DEF GainFn
    <2>3. q[i].price \in Int /\ q[i].remaining \in Int
      BY <2>1, LotInts
    <2>4. (m - q[i].price) * q[i].remaining
            = m * q[i].remaining - q[i].price * q[i].remaining
      BY <2>3
    <2> QED BY <2>1, <2>2, <2>4
  <1> HIDE DEF S
  <1>3. SumFunctionOnSet(GainFn(q, m), S)
          = m * SumFunctionOnSet(QtyFn(q), S) - SumFunctionOnSet(CostFn(q), S)
    BY <1>1, <1>2, SumLinear
  <1> QED BY <1>1, <1>3

-----------------------------------------------------------------------------
(* The matching loop.                                                      *)

MatchNext(opp, price, qty, h, i) ==
  IF i = 0 THEN [remaining |-> qty, gained |-> 0, kept |-> << >>]
  ELSE MatchLot(price, h[i - 1], opp[i])

MatchRun(opp, price, qty) ==
  CHOOSE h : h = [i \in 0..Len(opp) |-> MatchNext(opp, price, qty, h, i)]

\* The loop's result, with its recursive function named.
LEMMA MatchLotsIsRun ==
  ASSUME NEW opp, NEW price, NEW qty
  PROVE  MatchLots(opp, price, qty) = MatchRun(opp, price, qty)[Len(opp)]
  BY DEF MatchLots, MatchRun, MatchNext

\* A function that unfolds up to k.
MatchUpTo(opp, price, qty, k) ==
  \E h : /\ h = [i \in 0..Len(opp) |-> h[i]]
         /\ \A i \in 0..Len(opp) :
              i <= k => h[i] = MatchNext(opp, price, qty, h, i)

\* The loop's recursion has a solution.
LEMMA MatchRunAt ==
  ASSUME NEW opp \in Seq(Lot), NEW price, NEW qty
  PROVE  \A i \in 0..Len(opp) :
           MatchRun(opp, price, qty)[i]
             = MatchNext(opp, price, qty, MatchRun(opp, price, qty), i)
  <1> DEFINE n == Len(opp)
             I == {k \in Nat : MatchUpTo(opp, price, qty, k)}
             N(h, i) == MatchNext(opp, price, qty, h, i)
  <1>1. n \in Nat
    OBVIOUS
  <1>2. 0 \in I
    <2> DEFINE h == [i \in 0..n |->
                       [remaining |-> qty, gained |-> 0, kept |-> << >>]]
    <2>1. \A i \in 0..n : i <= 0 => h[i] = N(h, i)
      BY <1>1 DEF MatchNext
    <2>2. h = [i \in 0..n |-> h[i]]
      OBVIOUS
    <2> HIDE DEF h
    <2> QED BY <2>1, <2>2 DEF MatchUpTo
  <1>3. \A k \in Nat : k \in I => k + 1 \in I
    <2> SUFFICES ASSUME NEW k \in Nat, MatchUpTo(opp, price, qty, k)
                 PROVE  MatchUpTo(opp, price, qty, k + 1)
      OBVIOUS
    <2>1. PICK h : /\ h = [i \in 0..n |-> h[i]]
                   /\ \A i \in 0..n : i <= k => h[i] = N(h, i)
      BY DEF MatchUpTo
    <2> DEFINE g == [i \in 0..n |-> IF i <= k THEN h[i] ELSE N(h, i)]
    <2>2. ASSUME NEW i \in 0..n, i <= k + 1
          PROVE  g[i] = N(g, i)
      <3>1. g[i] = N(h, i)
        BY <2>1, <2>2
      <3>2. CASE i = 0
        BY <3>1, <3>2 DEF MatchNext
      <3>3. CASE i # 0
        <4>1. g[i - 1] = h[i - 1]
          BY <1>1, <2>2, <3>3
        <4> HIDE DEF g
        <4> QED BY <3>1, <3>3, <4>1 DEF MatchNext
      <3> QED BY <3>2, <3>3
    <2>3. g = [i \in 0..n |-> g[i]]
      OBVIOUS
    <2> HIDE DEF g
    <2> QED BY <2>2, <2>3 DEF MatchUpTo
  <1>4. n \in I
    <2> HIDE DEF I
    <2> QED BY <1>1, <1>2, <1>3, NatSetInduction
  <1>5. PICK h : /\ h = [i \in 0..n |-> h[i]]
                 /\ \A i \in 0..n : i <= n => h[i] = N(h, i)
    BY <1>4 DEF MatchUpTo
  <1>6. \A i \in 0..n : h[i] = N(h, i)
    BY <1>1, <1>5
  <1>7. h = [i \in 0..n |-> N(h, i)]
    BY <1>5, <1>6
  <1> DEFINE R == MatchRun(opp, price, qty)
  <1>8. R = [i \in 0..n |-> N(R, i)]
    BY <1>7 DEF MatchRun
  <1> HIDE DEF R
  <1>9. \A i \in 0..n : R[i] = N(R, i)
    BY <1>8
  <1> QED BY <1>9 DEF R

Progress == [remaining : Nat, gained : Int, kept : Seq(Lot)]

\* One turn of the loop.
LEMMA MatchLotStep ==
  ASSUME NEW price \in Prices, NEW acc \in Progress, NEW lot \in Lot
  PROVE  LET r == MatchLot(price, acc, lot)
             k == Smaller(acc.remaining, lot.remaining)
         IN /\ r \in Progress
            /\ k \in Nat /\ k <= acc.remaining /\ k <= lot.remaining
            /\ r.remaining = acc.remaining - k
            /\ r.gained = acc.gained + (ContractMaxCents - price - lot.price) * k
            /\ LotQty(r.kept) = LotQty(acc.kept) + (lot.remaining - k)
            /\ LotCost(r.kept)
                 = LotCost(acc.kept) + lot.price * (lot.remaining - k)
            /\ r.remaining > 0 => r.kept = acc.kept
  <1> DEFINE r == MatchLot(price, acc, lot)
             k == Smaller(acc.remaining, lot.remaining)
             rest == [lot EXCEPT !.remaining = lot.remaining - k]
             gain == acc.gained + (ContractMaxCents - price - lot.price) * k
  <1>1. /\ acc.remaining \in Nat /\ acc.gained \in Int /\ acc.kept \in Seq(Lot)
        /\ LotQty(acc.kept) \in Nat /\ LotCost(acc.kept) \in Nat
    BY QueueNats DEF Progress
  <1>2. lot.remaining \in Nat /\ lot.remaining >= 1 /\ lot.price \in Nat
    BY LotInts
  <1>3. /\ k \in Nat /\ k <= acc.remaining /\ k <= lot.remaining
        /\ k = acc.remaining \/ k = lot.remaining
    BY <1>1, <1>2 DEF Smaller
  <1>4. price \in Int
    BY LedgerConstants
  <1>5. gain \in Int
    <2> HIDE DEF k
    <2> QED BY <1>1, <1>2, <1>3, <1>4 DEF ContractMaxCents
  <1>6. r = [remaining |-> acc.remaining - k, gained |-> gain,
             kept |-> IF k = lot.remaining THEN acc.kept
                      ELSE Append(acc.kept, rest)]
    BY DEF MatchLot
  <1>7. r.remaining = acc.remaining - k /\ r.gained = gain
    <2> HIDE DEF k, gain, rest
    <2> QED BY <1>6
  <1>8. CASE k = lot.remaining
    <2>1. r.kept = acc.kept
      <3> HIDE DEF k, gain, rest
      <3> QED BY <1>6, <1>8
    <2>2. r \in Progress
      <3> HIDE DEF k, gain, rest
      <3> QED BY <1>1, <1>3, <1>5, <1>6, <1>8 DEF Progress
    <2>3. lot.remaining - k = 0 /\ lot.price * (lot.remaining - k) = 0
      <3> HIDE DEF k
      <3> QED BY <1>2, <1>3, <1>8
    <2> HIDE DEF k, gain, r
    <2>4. /\ LotQty(r.kept) = LotQty(acc.kept) + (lot.remaining - k)
          /\ LotCost(r.kept)
               = LotCost(acc.kept) + lot.price * (lot.remaining - k)
      BY <1>1, <2>1, <2>3
    <2> QED BY <1>3, <1>7, <2>1, <2>2, <2>4 DEF r, k, gain
  <1>9. CASE k # lot.remaining
    <2>1. rest \in Lot /\ rest.remaining = lot.remaining - k
          /\ rest.price = lot.price
      <3> HIDE DEF k
      <3>1. lot.remaining - k \in Nat \ {0}
        BY <1>2, <1>3, <1>9
      <3> QED BY <3>1 DEF Lot
    <2>2. r.kept = Append(acc.kept, rest)
      <3> HIDE DEF k, gain, rest
      <3> QED BY <1>6, <1>9
    <2> HIDE DEF rest
    <2>3. /\ Append(acc.kept, rest) \in Seq(Lot)
          /\ LotQty(Append(acc.kept, rest)) = LotQty(acc.kept) + rest.remaining
          /\ LotCost(Append(acc.kept, rest))
               = LotCost(acc.kept) + rest.price * rest.remaining
      BY <1>1, <2>1, AppendLot
    <2>4. r \in Progress
      <3> HIDE DEF k, gain
      <3> QED BY <1>1, <1>3, <1>5, <1>6, <1>9, <2>3 DEF Progress
    <2>5. ~(r.remaining > 0)
      <3> HIDE DEF k
      <3> QED BY <1>1, <1>3, <1>7, <1>9
    <2>6. /\ LotQty(r.kept) = LotQty(acc.kept) + (lot.remaining - k)
          /\ LotCost(r.kept)
               = LotCost(acc.kept) + lot.price * (lot.remaining - k)
      BY <2>1, <2>2, <2>3
    <2> HIDE DEF k, r
    <2> QED BY <1>3, <1>7, <2>4, <2>5, <2>6 DEF r, k
  <1> QED BY <1>8, <1>9

\* What the loop has done to a fill of qty contracts, in contracts and in
\* cents, when the lots it went through held Q contracts that cost C.
Balanced(price, qty, Q, C, r) ==
  /\ r \in Progress
  /\ r.remaining <= qty
  /\ Q - LotQty(r.kept) = qty - r.remaining
  /\ r.gained = (ContractMaxCents - price) * (qty - r.remaining)
                  - (C - LotCost(r.kept))
  /\ r.remaining > 0 => r.kept = << >>

\* A turn of the loop keeps the balance.
LEMMA BalancedTurn ==
  ASSUME NEW price \in Prices, NEW qty \in Nat, NEW Q \in Int, NEW C \in Int,
         NEW lot \in Lot, NEW acc, Balanced(price, qty, Q, C, acc)
  PROVE  Balanced(price, qty, Q + lot.remaining, C + lot.price * lot.remaining,
                  MatchLot(price, acc, lot))
  <1> DEFINE r == MatchLot(price, acc, lot)
             k == Smaller(acc.remaining, lot.remaining)
             K == ContractMaxCents - price
  <1>1. acc \in Progress
    BY DEF Balanced
  <1>2. /\ lot.remaining \in Nat /\ lot.price \in Nat
        /\ acc.remaining \in Nat /\ acc.gained \in Int /\ acc.kept \in Seq(Lot)
        /\ LotQty(acc.kept) \in Nat /\ LotCost(acc.kept) \in Nat
    BY <1>1, LotInts, QueueNats DEF Progress
  <1>3. K \in Int /\ price \in Int
    BY LedgerConstants DEF ContractMaxCents
  <1>4. /\ r \in Progress
        /\ k \in Nat /\ k <= acc.remaining /\ k <= lot.remaining
        /\ r.remaining = acc.remaining - k
        /\ r.gained = acc.gained + (ContractMaxCents - price - lot.price) * k
        /\ LotQty(r.kept) = LotQty(acc.kept) + (lot.remaining - k)
        /\ LotCost(r.kept)
             = LotCost(acc.kept) + lot.price * (lot.remaining - k)
        /\ r.remaining > 0 => r.kept = acc.kept
    BY <1>1, MatchLotStep
  <1>5. /\ acc.remaining <= qty
        /\ Q - LotQty(acc.kept) = qty - acc.remaining
        /\ acc.gained = K * (qty - acc.remaining) - (C - LotCost(acc.kept))
        /\ acc.remaining > 0 => acc.kept = << >>
    BY DEF Balanced
  <1> HIDE DEF r, k
  <1>6. r.gained
          = K * (qty - r.remaining)
              - ((C + lot.price * lot.remaining) - LotCost(r.kept))
    <2>1. (ContractMaxCents - price - lot.price) = K - lot.price
      OBVIOUS
    <2> HIDE DEF K
    <2>2. r.gained = (K * (qty - acc.remaining) - (C - LotCost(acc.kept)))
                       + (K - lot.price) * k
      BY <1>4, <1>5, <2>1
    <2>3. /\ lot.remaining \in Int /\ lot.price \in Int /\ acc.remaining \in Int
          /\ LotCost(acc.kept) \in Int /\ k \in Int /\ qty \in Int /\ K \in Int
      BY <1>2, <1>3, <1>4
    <2>4. (K * (qty - acc.remaining) - (C - LotCost(acc.kept)))
              + (K - lot.price) * k
            = K * (qty - (acc.remaining - k))
                - ((C + lot.price * lot.remaining)
                     - (LotCost(acc.kept) + lot.price * (lot.remaining - k)))
      BY <2>3
    <2> QED BY <1>4, <2>2, <2>4
  <1>7. /\ (Q + lot.remaining) - LotQty(r.kept) = qty - r.remaining
        /\ r.remaining <= qty
        /\ r.remaining > 0 => acc.remaining > 0
    <2>1. /\ LotQty(r.kept) = LotQty(acc.kept) + (lot.remaining - k)
          /\ r.remaining = acc.remaining - k /\ k \in Nat
      BY <1>4
    <2>2. /\ Q - LotQty(acc.kept) = qty - acc.remaining
          /\ acc.remaining <= qty
      BY <1>5
    <2>3. /\ lot.remaining \in Nat /\ acc.remaining \in Nat
          /\ LotQty(acc.kept) \in Nat
      BY <1>2
    <2> QED BY <2>1, <2>2, <2>3
  <1>8. r.remaining > 0 => r.kept = << >>
    BY <1>4, <1>5, <1>7, Zenon
  <1>9. Balanced(price, qty, Q + lot.remaining,
                 C + lot.price * lot.remaining, r)
    BY <1>4, <1>6, <1>7, <1>8 DEF Balanced
  <1> QED BY <1>9 DEF r

\* The sums over the first i lots of a queue.
QtyUpTo(q, i) == SumFunctionOnSet(QtyFn(q), 1..i)
CostUpTo(q, i) == SumFunctionOnSet(CostFn(q), 1..i)

\* One more lot gone through.
LEMMA UpToNext ==
  ASSUME NEW opp \in Seq(Lot), NEW i \in 1..Len(opp)
  PROVE  /\ QtyUpTo(opp, i) = QtyUpTo(opp, i - 1) + opp[i].remaining
         /\ CostUpTo(opp, i)
              = CostUpTo(opp, i - 1) + opp[i].price * opp[i].remaining
         /\ QtyUpTo(opp, i - 1) \in Int /\ CostUpTo(opp, i - 1) \in Int
  <1> DEFINE S == 1..(i - 1)
  <1>1. 1..i = S \cup {i} /\ i \notin S /\ S \subseteq 1..Len(opp)
    OBVIOUS
  <1>2. \A j \in S \cup {i} :
          QtyFn(opp)[j] \in Int /\ CostFn(opp)[j] \in Int
    <2>1. S \cup {i} \subseteq 1..Len(opp)
      BY <1>1
    <2> HIDE DEF S
    <2> QED BY <2>1, QueueSums
  <1>3. IsFiniteSet(S)
    BY FS_Interval
  <1> HIDE DEF S
  <1>4. /\ SumFunctionOnSet(QtyFn(opp), S \cup {i})
             = SumFunctionOnSet(QtyFn(opp), S) + QtyFn(opp)[i]
        /\ SumFunctionOnSet(CostFn(opp), S \cup {i})
             = SumFunctionOnSet(CostFn(opp), S) + CostFn(opp)[i]
    BY <1>1, <1>2, <1>3, SumAdd
  <1>5. /\ SumFunctionOnSet(QtyFn(opp), S) \in Int
        /\ SumFunctionOnSet(CostFn(opp), S) \in Int
    BY <1>2, <1>3, SumInt
  <1>6. /\ QtyFn(opp)[i] = opp[i].remaining
        /\ CostFn(opp)[i] = opp[i].price * opp[i].remaining
    BY QueueSums
  <1>7. /\ QtyUpTo(opp, i) = SumFunctionOnSet(QtyFn(opp), S \cup {i})
        /\ CostUpTo(opp, i) = SumFunctionOnSet(CostFn(opp), S \cup {i})
        /\ QtyUpTo(opp, i - 1) = SumFunctionOnSet(QtyFn(opp), S)
        /\ CostUpTo(opp, i - 1) = SumFunctionOnSet(CostFn(opp), S)
    BY <1>1, Zenon DEF QtyUpTo, CostUpTo, S
  <1> QED BY <1>4, <1>5, <1>6, <1>7

\* What record_fill's loop leaves of a fill and of the opposing lots.
LEMMA MatchResult ==
  ASSUME NEW opp \in Seq(Lot), NEW price \in Prices, NEW qty \in Nat
  PROVE  LET r == MatchLots(opp, price, qty)
         IN /\ r.remaining \in Nat /\ r.gained \in Int /\ r.kept \in Seq(Lot)
            /\ r.remaining <= qty
            /\ LotQty(opp) - LotQty(r.kept) = qty - r.remaining
            /\ r.gained = (ContractMaxCents - price) * (qty - r.remaining)
                            - (LotCost(opp) - LotCost(r.kept))
            /\ r.remaining > 0 => r.kept = << >>
  <1> DEFINE R == MatchRun(opp, price, qty)
             n == Len(opp)
             Done(i) == Balanced(price, qty, QtyUpTo(opp, i), CostUpTo(opp, i),
                                 R[i])
             Ok(i) == i <= n => Done(i)
             I == {i \in Nat : Ok(i)}
  <1>1. n \in Nat /\ \A i \in 0..n : R[i] = MatchNext(opp, price, qty, R, i)
    BY MatchRunAt
  <1>2. 0 \in I
    <2> DEFINE start == [remaining |-> qty, gained |-> 0, kept |-> << >>]
    <2>1. R[0] = start
      BY <1>1 DEF MatchNext
    <2>2. start \in Progress
      BY DEF Progress
    <2>3. /\ 1..0 = {}
          /\ start.remaining = qty /\ start.gained = 0 /\ start.kept = << >>
      OBVIOUS
    <2>4. QtyUpTo(opp, 0) = 0 /\ CostUpTo(opp, 0) = 0
      BY <2>3, SumEmpty DEF QtyUpTo, CostUpTo
    <2>5. ContractMaxCents - price \in Int
      BY LedgerConstants DEF ContractMaxCents
    <2>6. (ContractMaxCents - price) * (qty - qty) - (0 - 0) = 0
      BY <2>5
    <2> HIDE DEF start
    <2>7. Balanced(price, qty, 0, 0, start)
      BY <2>2, <2>3, <2>6, EmptyQueue DEF Balanced
    <2> QED BY <2>1, <2>4, <2>7
  <1>3. \A i \in Nat : i \in I => i + 1 \in I
    <2> SUFFICES ASSUME NEW i \in Nat, Ok(i), i + 1 <= n
                 PROVE  Done(i + 1)
      OBVIOUS
    <2> DEFINE lot == opp[i + 1]
    <2>1. Done(i) /\ i + 1 \in 1..n /\ lot \in Lot /\ (i + 1) - 1 = i
      BY <1>1
    <2>2. R[i + 1] = MatchLot(price, R[i], lot)
      BY <1>1, <2>1 DEF MatchNext
    <2>3. /\ QtyUpTo(opp, i + 1) = QtyUpTo(opp, i) + lot.remaining
          /\ CostUpTo(opp, i + 1)
               = CostUpTo(opp, i) + lot.price * lot.remaining
          /\ QtyUpTo(opp, i) \in Int /\ CostUpTo(opp, i) \in Int
      <3>1. /\ QtyUpTo(opp, i + 1)
                 = QtyUpTo(opp, (i + 1) - 1) + opp[i + 1].remaining
            /\ CostUpTo(opp, i + 1)
                 = CostUpTo(opp, (i + 1) - 1)
                     + opp[i + 1].price * opp[i + 1].remaining
            /\ QtyUpTo(opp, (i + 1) - 1) \in Int
            /\ CostUpTo(opp, (i + 1) - 1) \in Int
        BY <2>1, UpToNext, Zenon
      <3> QED BY <2>1, <3>1, Zenon
    <2> HIDE DEF R, lot
    <2>4. Balanced(price, qty, QtyUpTo(opp, i) + lot.remaining,
                   CostUpTo(opp, i) + lot.price * lot.remaining,
                   MatchLot(price, R[i], lot))
      BY <2>1, <2>3, BalancedTurn
    <2> QED BY <2>2, <2>3, <2>4, Zenon
  <1>4. n \in I
    <2> HIDE DEF I
    <2> QED BY <1>1, <1>2, <1>3, NatSetInduction
  <1>5. Balanced(price, qty, QtyUpTo(opp, n), CostUpTo(opp, n), R[n])
    BY <1>1, <1>4
  <1>6. MatchLots(opp, price, qty) = R[n]
    BY MatchLotsIsRun
  <1>7. LotQty(opp) = QtyUpTo(opp, n) /\ LotCost(opp) = CostUpTo(opp, n)
    BY QueueSums DEF QtyUpTo, CostUpTo
  <1> HIDE DEF R, n
  <1> QED BY <1>5, <1>6, <1>7 DEF Balanced, Progress

-----------------------------------------------------------------------------
(* One market and one fill.                                                *)

\* A fill's fields are of their kind.
LEMMA FillInts ==
  ASSUME NEW f \in Fill
  PROVE  /\ f.ticker \in Tickers /\ f.side \in Side /\ f.price \in Prices
         /\ f.price \in Int /\ f.qty \in Nat /\ f.qty >= 1 /\ f.fee \in Nat
  <1>1. /\ f.ticker \in Tickers /\ f.side \in Side /\ f.price \in Prices
        /\ f.qty \in 1..MaxQty /\ f.fee \in Fees
    BY DEF Fill
  <1>2. f.price \in 1..99 /\ f.fee \in Nat /\ MaxQty \in Nat
    BY <1>1, LedgerConstants, LotConstants
  <1> QED BY <1>1, <1>2

\* A market has two sides.
LEMMA OppositeSide ==
  ASSUME NEW s \in Side
  PROVE  Opposite(s) \in Side /\ Opposite(s) # s /\ Side = {s, Opposite(s)}
  BY DEF Side, Opposite

\* push_back of what is left of a fill, if anything is.
LEMMA PushedLot ==
  ASSUME NEW q \in Seq(Lot), NEW price \in Prices, NEW n \in Nat
  PROVE  /\ PushLot(q, price, n) \in Seq(Lot)
         /\ LotQty(PushLot(q, price, n)) = LotQty(q) + n
         /\ LotCost(PushLot(q, price, n)) = LotCost(q) + price * n
         /\ n = 0 => PushLot(q, price, n) = q
  <1>1. LotQty(q) \in Nat /\ LotCost(q) \in Nat
    BY QueueNats
  <1>2. price \in Int
    BY LedgerConstants
  <1>3. CASE n = 0
    <2>1. PushLot(q, price, n) = q
      BY <1>3 DEF PushLot
    <2>2. LotQty(q) + 0 = LotQty(q) /\ LotCost(q) + price * 0 = LotCost(q)
      BY <1>1, <1>2
    <2> QED BY <1>3, <2>1, <2>2
  <1>4. CASE n # 0
    <2> DEFINE l == [price |-> price, remaining |-> n]
    <2>1. l \in Lot /\ l.price = price /\ l.remaining = n
      BY <1>4 DEF Lot
    <2>2. PushLot(q, price, n) = Append(q, l)
      BY <1>4 DEF PushLot
    <2> HIDE DEF l
    <2>3. /\ Append(q, l) \in Seq(Lot)
          /\ LotQty(Append(q, l)) = LotQty(q) + l.remaining
          /\ LotCost(Append(q, l)) = LotCost(q) + l.price * l.remaining
      BY <2>1, AppendLot
    <2> QED BY <1>4, <2>1, <2>2, <2>3
  <1> QED BY <1>3, <1>4

\* Inventory stays on one side: the fill closes all of the opposing lots
\* before anything of it is left to hold.
LEMMA StaysOneSided ==
  ASSUME NEW own \in Seq(Lot), NEW opp \in Seq(Lot),
         own = << >> \/ opp = << >>,
         NEW price \in Prices, NEW qty \in Nat
  PROVE  LET r == MatchLots(opp, price, qty)
         IN PushLot(own, price, r.remaining) = << >> \/ r.kept = << >>
  <1> DEFINE r == MatchLots(opp, price, qty)
  <1>1. /\ r.remaining \in Nat /\ r.kept \in Seq(Lot)
        /\ r.remaining <= qty
        /\ LotQty(opp) - LotQty(r.kept) = qty - r.remaining
        /\ r.remaining > 0 => r.kept = << >>
    BY MatchResult
  <1> SUFFICES PushLot(own, price, r.remaining) = << >> \/ r.kept = << >>
    OBVIOUS
  <1> HIDE DEF r
  <1>2. r.remaining > 0 => r.kept = << >>
    BY <1>1
  <1>3. ASSUME ~(r.remaining > 0), own = << >>
        PROVE  PushLot(own, price, r.remaining) = << >>
    <2>1. r.remaining = 0
      BY <1>1, <1>3
    <2>2. PushLot(own, price, r.remaining) = own
      BY <1>1, <2>1, PushedLot
    <2> QED BY <1>3, <2>2
  <1>4. ASSUME opp = << >>
        PROVE  r.kept = << >>
    <2>1. LotQty(opp) = 0
      BY <1>4, EmptyQueue
    <2>2. LotQty(r.kept) \in Nat /\ (r.kept # << >> => LotQty(r.kept) >= 1)
      BY <1>1, QueueNats
    <2>3. /\ 0 - LotQty(r.kept) = qty - r.remaining
          /\ r.remaining <= qty /\ r.remaining \in Nat
      BY <1>1, <2>1
    <2>4. ~(LotQty(r.kept) >= 1)
      BY <2>2, <2>3
    <2> QED BY <2>2, <2>4
  <1> QED BY <1>2, <1>3, <1>4

\* The cents of one fill: S is the side of the fill, O the opposing one, K
\* what is kept of it.
LEMMA FillArithmetic ==
  ASSUME NEW spread0 \in Int, NEW fees0 \in Int, NEW paid \in Int,
         NEW bought \in Int, NEW qS \in Int, NEW cS \in Int, NEW qO \in Int,
         NEW cO \in Int, NEW qK \in Int, NEW cK \in Int, NEW left \in Int,
         NEW price \in Int, NEW qty \in Int, NEW fee \in Int,
         2 * ((spread0 - fees0) + paid - (cS + cO)) = 100 * (bought - qS - qO),
         qO - qK = qty - left
  PROVE  2 * (((spread0 + ((100 - price) * (qty - left) - (cO - cK)))
                 - (fees0 + fee))
              + (paid + (price * qty + fee)) - ((cS + price * left) + cK))
           = 100 * ((bought + qty) - (qS + left) - qK)
  <1>1. (100 - price) * (qty - left)
          = 100 * qty - 100 * left - price * qty + price * left
    OBVIOUS
  <1> DEFINE a == price * qty
             b == price * left
             g == (100 - price) * (qty - left)
  <1>2. a \in Int /\ b \in Int /\ g \in Int
    OBVIOUS
  <1>3. g = 100 * qty - 100 * left - a + b
    BY <1>1
  <1> HIDE DEF a, b, g
  <1>4. 2 * (((spread0 + (g - (cO - cK))) - (fees0 + fee))
              + (paid + (a + fee)) - ((cS + b) + cK))
           = 100 * ((bought + qty) - (qS + left) - qK)
    BY <1>2, <1>3
  <1> QED BY <1>4 DEF a, b, g

-----------------------------------------------------------------------------
(* The trades a market has booked.                                         *)

PaidFn(tp, S) == [i \in S |-> tp[i].price * tp[i].qty + tp[i].fee]
QtyBoughtFn(tp, S) == [i \in S |-> tp[i].qty]
IdsOf(tp, S, t) == {i \in S : tp[i].ticker = t}
PaidBy(tp, S, t) == SumFunctionOnSet(PaidFn(tp, S), IdsOf(tp, S, t))
BoughtBy(tp, S, t) == SumFunctionOnSet(QtyBoughtFn(tp, S), IdsOf(tp, S, t))

\* The sums over booked trades are numbers.
LEMMA BookedInts ==
  ASSUME NEW tp \in Seq(Fill), NEW S \in SUBSET DOMAIN tp, NEW t
  PROVE  /\ IsFiniteSet(S) /\ IsFiniteSet(IdsOf(tp, S, t))
         /\ IdsOf(tp, S, t) \subseteq S
         /\ \A i \in S : /\ PaidFn(tp, S)[i] \in Int
                         /\ QtyBoughtFn(tp, S)[i] \in Int
         /\ PaidBy(tp, S, t) \in Int /\ BoughtBy(tp, S, t) \in Int
  <1>1. IsFiniteSet(S)
    <2>1. DOMAIN tp = 1..Len(tp) /\ Len(tp) \in Nat
      OBVIOUS
    <2>2. IsFiniteSet(1..Len(tp))
      BY <2>1, FS_Interval
    <2> QED BY <2>1, <2>2, FS_Subset
  <1>2. IdsOf(tp, S, t) \subseteq S /\ IsFiniteSet(IdsOf(tp, S, t))
    BY <1>1, FS_Subset DEF IdsOf
  <1>3. ASSUME NEW i \in S
        PROVE  PaidFn(tp, S)[i] \in Int /\ QtyBoughtFn(tp, S)[i] \in Int
    <2>1. tp[i] \in Fill
      OBVIOUS
    <2>2. tp[i].price \in Int /\ tp[i].qty \in Int /\ tp[i].fee \in Int
      BY <2>1, FillInts
    <2>3. tp[i].price * tp[i].qty + tp[i].fee \in Int
      BY <2>2
    <2> QED BY <2>2, <2>3 DEF PaidFn, QtyBoughtFn
  <1>4. PaidBy(tp, S, t) \in Int /\ BoughtBy(tp, S, t) \in Int
    BY <1>2, <1>3, SumInt DEF PaidBy, BoughtBy
  <1> QED BY <1>1, <1>2, <1>3, <1>4

\* Booking one more trade.
LEMMA BookOne ==
  ASSUME NEW tp \in Seq(Fill), NEW S \in SUBSET DOMAIN tp, NEW t,
         NEW id \in DOMAIN tp, id \notin S
  PROVE  LET f == tp[id]
             all == S \cup {id}
         IN /\ f.ticker = t =>
                 /\ PaidBy(tp, all, t)
                      = PaidBy(tp, S, t) + (f.price * f.qty + f.fee)
                 /\ BoughtBy(tp, all, t) = BoughtBy(tp, S, t) + f.qty
            /\ f.ticker # t =>
                 /\ PaidBy(tp, all, t) = PaidBy(tp, S, t)
                 /\ BoughtBy(tp, all, t) = BoughtBy(tp, S, t)
  <1> DEFINE f == tp[id]
             all == S \cup {id}
             M == IdsOf(tp, S, t)
             p == PaidFn(tp, all)
             q == QtyBoughtFn(tp, all)
  <1>1. all \in SUBSET DOMAIN tp
    OBVIOUS
  <1>2. /\ IsFiniteSet(M) /\ M \subseteq S
        /\ \A i \in all : p[i] \in Int /\ q[i] \in Int
    <2> HIDE DEF all
    <2> QED BY <1>1, BookedInts
  <1>3. /\ \A i \in M : p[i] = PaidFn(tp, S)[i] /\ q[i] = QtyBoughtFn(tp, S)[i]
        /\ p[id] = f.price * f.qty + f.fee /\ q[id] = f.qty
    BY <1>2 DEF PaidFn, QtyBoughtFn
  <1>4. /\ f.ticker = t => IdsOf(tp, all, t) = M \cup {id}
        /\ f.ticker # t => IdsOf(tp, all, t) = M
        /\ id \notin M
    BY DEF IdsOf
  <1> HIDE DEF M, p, q, all
  <1>5. /\ SumFunctionOnSet(p, M) = PaidBy(tp, S, t)
        /\ SumFunctionOnSet(q, M) = BoughtBy(tp, S, t)
    <2>1. /\ SumFunctionOnSet(p, M) = SumFunctionOnSet(PaidFn(tp, S), M)
          /\ SumFunctionOnSet(q, M) = SumFunctionOnSet(QtyBoughtFn(tp, S), M)
      BY <1>2, <1>3, SumEqual
    <2> QED BY <2>1 DEF PaidBy, BoughtBy, M
  <1>6. CASE f.ticker = t
    <2>1. \A i \in M \cup {id} : p[i] \in Int /\ q[i] \in Int
      BY <1>2 DEF all
    <2>2. /\ SumFunctionOnSet(p, M \cup {id}) = SumFunctionOnSet(p, M) + p[id]
          /\ SumFunctionOnSet(q, M \cup {id}) = SumFunctionOnSet(q, M) + q[id]
      BY <1>2, <1>4, <2>1, SumAdd
    <2>3. /\ PaidBy(tp, all, t) = SumFunctionOnSet(p, M \cup {id})
          /\ BoughtBy(tp, all, t) = SumFunctionOnSet(q, M \cup {id})
      BY <1>4, <1>6, Zenon DEF PaidBy, BoughtBy, p, q
    <2> QED BY <1>3, <1>5, <1>6, <2>2, <2>3 DEF all
  <1>7. CASE f.ticker # t
    <2>1. /\ PaidBy(tp, all, t) = SumFunctionOnSet(p, M)
          /\ BoughtBy(tp, all, t) = SumFunctionOnSet(q, M)
      BY <1>4, <1>7, Zenon DEF PaidBy, BoughtBy, p, q
    <2> QED BY <1>5, <1>7, <2>1 DEF all
  <1> QED BY <1>6, <1>7

\* A trade that is not booked yet changes no sum.
LEMMA LongerTape ==
  ASSUME NEW tp \in Seq(Fill), NEW S \in SUBSET DOMAIN tp, NEW t, NEW f \in Fill
  PROVE  /\ PaidBy(Append(tp, f), S, t) = PaidBy(tp, S, t)
         /\ BoughtBy(Append(tp, f), S, t) = BoughtBy(tp, S, t)
  <1> DEFINE tq == Append(tp, f)
  <1>1. \A i \in S : tq[i] = tp[i]
    OBVIOUS
  <1> HIDE DEF tq
  <1>2. /\ PaidFn(tq, S) = PaidFn(tp, S)
        /\ QtyBoughtFn(tq, S) = QtyBoughtFn(tp, S)
        /\ IdsOf(tq, S, t) = IdsOf(tp, S, t)
    BY <1>1 DEF PaidFn, QtyBoughtFn, IdsOf
  <1>3. /\ PaidBy(tq, S, t) = PaidBy(tp, S, t)
        /\ BoughtBy(tq, S, t) = BoughtBy(tp, S, t)
    BY <1>2, Zenon DEF PaidBy, BoughtBy
  <1> QED BY <1>3 DEF tq

-----------------------------------------------------------------------------
(* The invariant.  Without the one-sidedness of the lots the exposure of   *)
(* one side would not tell both settlements; without NetIsLots its net     *)
(* position would be unrelated to net_position_.                           *)

LotType ==
  /\ tape \in Seq(Fill)
  /\ lots \in [Tickers -> [Side -> Seq(Lot)]]
  /\ net \in [Tickers -> Int]
  /\ spread \in [Tickers -> Int]
  /\ fees \in [Tickers -> Int]
  /\ seen \in SUBSET DOMAIN tape

\* Cents of a market that holds the queues a and b.
CashAgrees(a, b, gained, charged, paid, bought) ==
  2 * ((gained - charged) + paid - (LotCost(a) + LotCost(b)))
    = 100 * (bought - LotQty(a) - LotQty(b))

MarketSound(a, b, n, gained, charged, paid, bought) ==
  /\ a = << >> \/ b = << >>
  /\ n = LotQty(a) - LotQty(b)
  /\ CashAgrees(a, b, gained, charged, paid, bought)

LotsSound ==
  \A t \in Tickers :
    MarketSound(lots[t]["yes"], lots[t]["no"], net[t], spread[t], fees[t],
                PaidBy(tape, seen, t), BoughtBy(tape, seen, t))

LotInv == LotType /\ LotsSound

\* One fill on a market whose own side holds own and whose other side opp.
LEMMA FillKeepsQty ==
  ASSUME NEW own \in Seq(Lot), NEW opp \in Seq(Lot),
         NEW price \in Prices, NEW qty \in Nat
  PROVE  LET r == MatchLots(opp, price, qty)
             mine == PushLot(own, price, r.remaining)
         IN /\ LotQty(mine) - LotQty(r.kept)
                 = (LotQty(own) - LotQty(opp)) + qty
            /\ mine \in Seq(Lot) /\ r.kept \in Seq(Lot) /\ r.gained \in Int
  <1> DEFINE r == MatchLots(opp, price, qty)
             mine == PushLot(own, price, r.remaining)
  <1>1. /\ r.remaining \in Nat /\ r.gained \in Int /\ r.kept \in Seq(Lot)
        /\ LotQty(opp) - LotQty(r.kept) = qty - r.remaining
    BY MatchResult
  <1> HIDE DEF r
  <1>2. mine \in Seq(Lot) /\ LotQty(mine) = LotQty(own) + r.remaining
    BY <1>1, PushedLot
  <1> HIDE DEF mine
  <1>3. /\ LotQty(own) \in Nat /\ LotQty(opp) \in Nat /\ LotQty(r.kept) \in Nat
    BY <1>1, QueueNats
  <1>4. LotQty(mine) - LotQty(r.kept) = (LotQty(own) - LotQty(opp)) + qty
    <2> DEFINE qS == LotQty(own)   qO == LotQty(opp)
               qK == LotQty(r.kept)   left == r.remaining
    <2>1. /\ qS \in Int /\ qO \in Int /\ qK \in Int /\ left \in Int
          /\ qO - qK = qty - left /\ LotQty(mine) = qS + left
      BY <1>1, <1>2, <1>3
    <2> HIDE DEF qS, qO, qK, left
    <2>2. (qS + left) - qK = (qS - qO) + qty
      BY <2>1
    <2> QED BY <2>1, <2>2 DEF qS, qO, qK
  <1> QED BY <1>1, <1>2, <1>4 DEF r, mine

\* What it does to the cents, its cost written out.
LEMMA FillBooked ==
  ASSUME NEW own \in Seq(Lot), NEW opp \in Seq(Lot), NEW gained \in Int,
         NEW charged \in Int, NEW paid \in Int, NEW bought \in Int,
         CashAgrees(own, opp, gained, charged, paid, bought),
         NEW price \in Prices, NEW qty \in Nat, NEW fee \in Nat
  PROVE  LET r == MatchLots(opp, price, qty)
             mine == PushLot(own, price, r.remaining)
         IN CashAgrees(mine, r.kept, gained + r.gained, charged + fee,
                       paid + (price * qty + fee), bought + qty)
  <1> DEFINE r == MatchLots(opp, price, qty)
             mine == PushLot(own, price, r.remaining)
  <1>1. /\ r.remaining \in Nat /\ r.gained \in Int /\ r.kept \in Seq(Lot)
        /\ LotQty(opp) - LotQty(r.kept) = qty - r.remaining
        /\ r.gained = (ContractMaxCents - price) * (qty - r.remaining)
                        - (LotCost(opp) - LotCost(r.kept))
    BY MatchResult
  <1> HIDE DEF r
  <1>2. /\ mine \in Seq(Lot)
        /\ LotQty(mine) = LotQty(own) + r.remaining
        /\ LotCost(mine) = LotCost(own) + price * r.remaining
    BY <1>1, PushedLot
  <1> HIDE DEF mine
  <1> DEFINE qS == LotQty(own)   cS == LotCost(own)
             qO == LotQty(opp)   cO == LotCost(opp)
             qK == LotQty(r.kept)  cK == LotCost(r.kept)
             left == r.remaining
  <1>3. /\ qS \in Int /\ cS \in Int /\ qO \in Int /\ cO \in Int
        /\ qK \in Int /\ cK \in Int /\ left \in Int
    BY <1>1, QueueNats
  <1>4. price \in Int /\ qty \in Int /\ fee \in Int
    BY LedgerConstants
  <1>5. /\ 2 * ((gained - charged) + paid - (cS + cO)) = 100 * (bought - qS - qO)
        /\ qO - qK = qty - left
    BY <1>1 DEF CashAgrees
  <1>6. /\ r.gained = (100 - price) * (qty - left) - (cO - cK)
        /\ LotQty(mine) = qS + left /\ LotCost(mine) = cS + price * left
    BY <1>1, <1>2 DEF ContractMaxCents
  <1>7. CashAgrees(mine, r.kept, gained + r.gained, charged + fee,
                   paid + (price * qty + fee), bought + qty)
    <2> HIDE DEF qS, cS, qO, cO, qK, cK, left
    <2>1. 2 * (((gained + ((100 - price) * (qty - left) - (cO - cK)))
                  - (charged + fee))
               + (paid + (price * qty + fee)) - ((cS + price * left) + cK))
            = 100 * ((bought + qty) - (qS + left) - qK)
      BY <1>3, <1>4, <1>5, FillArithmetic
    <2>2. 2 * (((gained + r.gained) - (charged + fee))
               + (paid + (price * qty + fee)) - (LotCost(mine) + cK))
            = 100 * ((bought + qty) - LotQty(mine) - qK)
      BY <1>6, <2>1
    <2> QED BY <2>2 DEF CashAgrees, qK, cK
  <1> QED BY <1>7 DEF r, mine

\* The same with a name for its cost.
LEMMA FillKeepsCash ==
  ASSUME NEW own \in Seq(Lot), NEW opp \in Seq(Lot), NEW gained \in Int,
         NEW charged \in Int, NEW paid \in Int, NEW bought \in Int,
         CashAgrees(own, opp, gained, charged, paid, bought),
         NEW price \in Prices, NEW qty \in Nat, NEW fee \in Nat,
         NEW worth, worth = price * qty + fee
  PROVE  LET r == MatchLots(opp, price, qty)
         IN CashAgrees(PushLot(own, price, r.remaining), r.kept,
                       gained + r.gained, charged + fee, paid + worth,
                       bought + qty)
  BY FillBooked

\* The balance does not tell the two sides apart.
LEMMA CashIsSymmetric ==
  ASSUME NEW a \in Seq(Lot), NEW b \in Seq(Lot), NEW gained, NEW charged,
         NEW paid, NEW bought \in Int,
         CashAgrees(a, b, gained, charged, paid, bought)
  PROVE  CashAgrees(b, a, gained, charged, paid, bought)
  <1>1. /\ LotQty(a) \in Int /\ LotQty(b) \in Int
        /\ LotCost(a) \in Int /\ LotCost(b) \in Int
    BY QueueNats
  <1>2. /\ LotCost(a) + LotCost(b) = LotCost(b) + LotCost(a)
        /\ bought - LotQty(a) - LotQty(b) = bought - LotQty(b) - LotQty(a)
    BY <1>1
  <1> QED BY <1>2 DEF CashAgrees

-----------------------------------------------------------------------------
(* The steps.                                                              *)

\* Before the first fill.
LEMMA LotInit == Init => LotInv
  <1> SUFFICES ASSUME Init PROVE LotInv
    OBVIOUS
  <1>1. LotType
    BY DEF Init, LotType
  <1>2. ASSUME NEW t \in Tickers
        PROVE  MarketSound(lots[t]["yes"], lots[t]["no"], net[t], spread[t],
                           fees[t], PaidBy(tape, seen, t),
                           BoughtBy(tape, seen, t))
    <2>1. /\ lots[t]["yes"] = << >> /\ lots[t]["no"] = << >>
          /\ net[t] = 0 /\ spread[t] = 0 /\ fees[t] = 0
      BY DEF Init, Side
    <2>2. IdsOf(tape, seen, t) = {}
      BY DEF Init, IdsOf
    <2>3. PaidBy(tape, seen, t) = 0 /\ BoughtBy(tape, seen, t) = 0
      BY <2>2, SumEmpty DEF PaidBy, BoughtBy
    <2>4. /\ 0 = 0 - 0
          /\ 2 * ((0 - 0) + 0 - (0 + 0)) = 100 * (0 - 0 - 0)
      OBVIOUS
    <2> QED BY <2>1, <2>3, <2>4, EmptyQueue DEF MarketSound, CashAgrees
  <1> QED BY <1>1, <1>2 DEF LotInv, LotsSound

\* What record_fill does to its market, and that it does nothing to another.
LEMMA RecordFillEffect ==
  ASSUME LotType, NEW id \in DOMAIN tape, RecordFill(id)
  PROVE  LET f == tape[id]
             r == MatchLots(lots[f.ticker][Opposite(f.side)], f.price, f.qty)
         IN /\ lots'[f.ticker][Opposite(f.side)] = r.kept
            /\ lots'[f.ticker][f.side]
                 = PushLot(lots[f.ticker][f.side], f.price, r.remaining)
            /\ spread'[f.ticker] = spread[f.ticker] + r.gained
            /\ fees'[f.ticker] = fees[f.ticker] + f.fee
            /\ net'[f.ticker] = IF f.side = "yes" THEN net[f.ticker] + f.qty
                                ELSE net[f.ticker] - f.qty
            /\ \A t \in Tickers \ {f.ticker} :
                 /\ lots'[t] = lots[t] /\ spread'[t] = spread[t]
                 /\ fees'[t] = fees[t] /\ net'[t] = net[t]
            /\ LotType'
  <1> DEFINE f == tape[id]
             t == f.ticker
             s == f.side
             o == Opposite(s)
             r == MatchLots(lots[t][o], f.price, f.qty)
             mine == PushLot(lots[t][s], f.price, r.remaining)
  <1>1. f \in Fill
    BY DEF LotType
  <1>2. /\ t \in Tickers /\ s \in Side /\ f.price \in Prices
        /\ f.qty \in Nat /\ f.fee \in Nat
    BY <1>1, FillInts
  <1>3. o \in Side /\ o # s /\ Side = {s, o}
    BY <1>2, OppositeSide
  <1>4. lots[t][s] \in Seq(Lot) /\ lots[t][o] \in Seq(Lot)
    <2> HIDE DEF t, s, o
    <2> QED BY <1>2, <1>3 DEF LotType
  <1>5. r.remaining \in Nat /\ r.gained \in Int /\ r.kept \in Seq(Lot)
    BY <1>2, <1>4, MatchResult
  <1>6. /\ lots' = [lots EXCEPT
                      ![t][o] = r.kept,
                      ![t][s] = PushLot(@, f.price, r.remaining)]
        /\ spread' = [spread EXCEPT ![t] = @ + r.gained]
        /\ net' = [net EXCEPT ![t] = IF s = "yes" THEN @ + f.qty ELSE @ - f.qty]
        /\ fees' = [fees EXCEPT ![t] = @ + f.fee]
        /\ seen' = seen \cup {id} /\ tape' = tape
    BY DEF RecordFill
  <1> HIDE DEF r, t, s, o
  <1>7. mine \in Seq(Lot)
    BY <1>2, <1>4, <1>5, PushedLot
  <1>8. lots' = [lots EXCEPT ![t] = [lots[t] EXCEPT ![o] = r.kept, ![s] = mine]]
    BY <1>2, <1>3, <1>6 DEF LotType
  <1> HIDE DEF mine
  <1>9. /\ lots'[t] = [lots[t] EXCEPT ![o] = r.kept, ![s] = mine]
        /\ \A u \in Tickers \ {t} : lots'[u] = lots[u]
    BY <1>2, <1>8 DEF LotType
  <1>10. lots'[t][o] = r.kept /\ lots'[t][s] = mine
    BY <1>2, <1>3, <1>9 DEF LotType
  <1>11. lots' \in [Tickers -> [Side -> Seq(Lot)]]
    <2>1. [lots[t] EXCEPT ![o] = r.kept, ![s] = mine] \in [Side -> Seq(Lot)]
      BY <1>2, <1>5, <1>7 DEF LotType
    <2> QED BY <1>2, <1>8, <2>1 DEF LotType
  <1>12. /\ spread'[t] = spread[t] + r.gained
         /\ fees'[t] = fees[t] + f.fee
         /\ net'[t] = IF s = "yes" THEN net[t] + f.qty ELSE net[t] - f.qty
         /\ \A u \in Tickers \ {t} : /\ spread'[u] = spread[u]
                                     /\ fees'[u] = fees[u] /\ net'[u] = net[u]
    BY <1>2, <1>6 DEF LotType
  <1>13. /\ spread' \in [Tickers -> Int] /\ fees' \in [Tickers -> Int]
         /\ net' \in [Tickers -> Int]
    <2>1. /\ spread[t] + r.gained \in Int /\ fees[t] + f.fee \in Int
          /\ net[t] + f.qty \in Int /\ net[t] - f.qty \in Int
      BY <1>2, <1>5 DEF LotType
    <2> QED BY <1>2, <1>6, <2>1 DEF LotType
  <1>14. LotType'
    BY <1>6, <1>11, <1>13 DEF LotType
  <1> QED BY <1>9, <1>10, <1>12, <1>14 DEF t, s, o, r, mine

\* A fill keeps the invariant in its market and in all others.
LEMMA RecordFillKeeps ==
  ASSUME LotInv, NEW id \in DOMAIN tape, RecordFill(id)
  PROVE  LotInv'
  <1> DEFINE f == tape[id]
             t == f.ticker
             s == f.side
             o == Opposite(s)
             own == lots[t][s]
             opp == lots[t][o]
             r == MatchLots(opp, f.price, f.qty)
             mine == PushLot(own, f.price, r.remaining)
             paid == PaidBy(tape, seen, t)
             bought == BoughtBy(tape, seen, t)
             paid1 == PaidBy(tape', seen', t)
             bought1 == BoughtBy(tape', seen', t)
  <1>1. LotType /\ LotsSound
    BY DEF LotInv
  <1>2. /\ tape \in Seq(Fill) /\ seen \in SUBSET DOMAIN tape /\ f \in Fill
        /\ tape' = tape /\ seen' = seen \cup {id} /\ id \notin seen
    BY <1>1 DEF LotType, RecordFill
  <1>3. /\ t \in Tickers /\ s \in Side /\ f.price \in Prices
        /\ f.price \in Int /\ f.qty \in Nat /\ f.fee \in Nat
    BY <1>2, FillInts
  <1>4. o \in Side /\ o # s
    BY <1>3, OppositeSide
  <1>5. /\ own \in Seq(Lot) /\ opp \in Seq(Lot) /\ net[t] \in Int
        /\ spread[t] \in Int /\ fees[t] \in Int
    <2> HIDE DEF t, s, o
    <2> QED BY <1>1, <1>3, <1>4 DEF LotType
  <1>6. paid \in Int /\ bought \in Int
    BY <1>2, BookedInts
  <1>7. /\ lots'[t][o] = r.kept /\ lots'[t][s] = mine
        /\ spread'[t] = spread[t] + r.gained
        /\ fees'[t] = fees[t] + f.fee
        /\ net'[t] = IF s = "yes" THEN net[t] + f.qty ELSE net[t] - f.qty
        /\ \A u \in Tickers \ {t} :
             /\ lots'[u] = lots[u] /\ spread'[u] = spread[u]
             /\ fees'[u] = fees[u] /\ net'[u] = net[u]
        /\ LotType'
    BY <1>1, RecordFillEffect
  <1>8. /\ paid1 = paid + (f.price * f.qty + f.fee)
        /\ bought1 = bought + f.qty
    <2>1. /\ PaidBy(tape, seen \cup {id}, t)
               = paid + (f.price * f.qty + f.fee)
          /\ BoughtBy(tape, seen \cup {id}, t) = bought + f.qty
      BY <1>2, BookOne
    <2> QED BY <1>2, <2>1, Zenon
  <1>9. ASSUME NEW u \in Tickers, u # t
        PROVE  /\ PaidBy(tape', seen', u) = PaidBy(tape, seen, u)
               /\ BoughtBy(tape', seen', u) = BoughtBy(tape, seen, u)
    <2>1. /\ PaidBy(tape, seen \cup {id}, u) = PaidBy(tape, seen, u)
          /\ BoughtBy(tape, seen \cup {id}, u) = BoughtBy(tape, seen, u)
      BY <1>2, <1>9, BookOne
    <2> QED BY <1>2, <2>1, Zenon
  <1>10. /\ own = << >> \/ opp = << >>
         /\ CashAgrees(own, opp, spread[t], fees[t], paid, bought)
         /\ s = "yes" => net[t] = LotQty(own) - LotQty(opp)
         /\ s = "no" => net[t] = LotQty(opp) - LotQty(own)
    <2>1. MarketSound(lots[t]["yes"], lots[t]["no"], net[t], spread[t],
                      fees[t], paid, bought)
      BY <1>1, <1>3 DEF LotsSound
    <2> HIDE DEF paid, bought, t
    <2>2. CASE s = "yes"
      <3>1. own = lots[t]["yes"] /\ opp = lots[t]["no"] /\ s # "no"
        BY <2>2 DEF Opposite
      <3> QED BY <2>1, <2>2, <3>1 DEF MarketSound
    <2>3. CASE s = "no"
      <3>1. own = lots[t]["no"] /\ opp = lots[t]["yes"] /\ s # "yes"
        BY <2>3 DEF Opposite
      <3> HIDE DEF own, opp, s
      <3>2. CashAgrees(opp, own, spread[t], fees[t], paid, bought)
        BY <2>1, <3>1 DEF MarketSound
      <3>3. CashAgrees(own, opp, spread[t], fees[t], paid, bought)
        BY <1>5, <1>6, <3>2, CashIsSymmetric
      <3> QED BY <2>1, <3>1, <3>3 DEF MarketSound
    <2> QED BY <1>3, <2>2, <2>3 DEF Side
  <1> HIDE DEF own, opp, paid, bought, paid1, bought1
  <1>11. mine = << >> \/ r.kept = << >>
    BY <1>3, <1>5, <1>10, StaysOneSided
  <1>12. /\ CashAgrees(mine, r.kept, spread[t] + r.gained, fees[t] + f.fee,
                       paid + (f.price * f.qty + f.fee), bought + f.qty)
         /\ LotQty(mine) - LotQty(r.kept)
              = (LotQty(own) - LotQty(opp)) + f.qty
         /\ mine \in Seq(Lot) /\ r.kept \in Seq(Lot) /\ r.gained \in Int
    <2>1. /\ own \in Seq(Lot) /\ opp \in Seq(Lot)
          /\ spread[t] \in Int /\ fees[t] \in Int
          /\ paid \in Int /\ bought \in Int
          /\ CashAgrees(own, opp, spread[t], fees[t], paid, bought)
          /\ f.price \in Prices /\ f.qty \in Nat /\ f.fee \in Nat
      BY <1>3, <1>5, <1>6, <1>10
    <2> DEFINE p == f.price   q == f.qty   c == f.fee
               g0 == spread[t]   c0 == fees[t]
    <2> HIDE DEF p, q, c, g0, c0
    <2>2. /\ g0 \in Int /\ c0 \in Int
          /\ p \in Prices /\ q \in Nat /\ c \in Nat
          /\ CashAgrees(own, opp, g0, c0, paid, bought)
      BY <2>1 DEF p, q, c, g0, c0
    <2> DEFINE w == MatchLots(opp, p, q)
               v == p * q + c
               m == PushLot(own, p, w.remaining)
    <2>3. CashAgrees(m, w.kept, g0 + w.gained, c0 + c,
                     paid + v, bought + q)
      <3>1. v = p * q + c
        OBVIOUS
      <3> HIDE DEF v
      <3> QED BY <2>1, <2>2, <3>1, FillKeepsCash
    <2>4. LotQty(m) - LotQty(w.kept) = (LotQty(own) - LotQty(opp)) + q
      BY <2>1, <2>2, FillKeepsQty
    <2>5. m \in Seq(Lot) /\ w.kept \in Seq(Lot) /\ w.gained \in Int
      BY <2>1, <2>2, FillKeepsQty
    <2> QED BY <2>3, <2>4, <2>5 DEF p, q, c, g0, c0
  <1> HIDE DEF r, mine
  <1>13. CashAgrees(mine, r.kept, spread'[t], fees'[t], paid1, bought1)
    BY <1>7, <1>8, <1>12, Zenon
  <1>14. /\ LotQty(own) \in Int /\ LotQty(opp) \in Int
         /\ LotQty(mine) \in Int /\ LotQty(r.kept) \in Int
         /\ bought1 \in Int
    <2>1. bought1 = bought + f.qty
      BY <1>8
    <2>2. f.qty \in Int /\ bought \in Int
      BY <1>3, <1>6
    <2>3. /\ LotQty(own) \in Nat /\ LotQty(opp) \in Nat
          /\ LotQty(mine) \in Nat /\ LotQty(r.kept) \in Nat
      BY <1>5, <1>12, QueueNats
    <2> QED BY <2>1, <2>2, <2>3
  <1>15. MarketSound(lots'[t]["yes"], lots'[t]["no"], net'[t], spread'[t],
                     fees'[t], paid1, bought1)
    <2> HIDE DEF t
    <2>1. CASE s = "yes"
      <3>1. /\ lots'[t]["yes"] = mine /\ lots'[t]["no"] = r.kept
            /\ net'[t] = net[t] + f.qty
            /\ net[t] = LotQty(own) - LotQty(opp)
        BY <1>7, <1>10, <2>1 DEF Opposite
      <3>2. net'[t] = LotQty(mine) - LotQty(r.kept)
        BY <1>12, <3>1
      <3> QED BY <1>11, <1>13, <3>1, <3>2 DEF MarketSound
    <2>2. CASE s = "no"
      <3>1. /\ lots'[t]["no"] = mine /\ lots'[t]["yes"] = r.kept
            /\ net'[t] = net[t] - f.qty
            /\ net[t] = LotQty(opp) - LotQty(own)
        BY <1>7, <1>10, <2>2 DEF Opposite
      <3>2. net'[t] = LotQty(r.kept) - LotQty(mine)
        <4>1. LotQty(mine) - LotQty(r.kept)
                = (LotQty(own) - LotQty(opp)) + f.qty
          BY <1>12
        <4>2. (LotQty(opp) - LotQty(own)) - f.qty
                = LotQty(r.kept) - LotQty(mine)
          <5>1. /\ LotQty(own) \in Int /\ LotQty(opp) \in Int
                /\ LotQty(mine) \in Int /\ LotQty(r.kept) \in Int
                /\ f.qty \in Int
            BY <1>3, <1>14
          <5> QED BY <4>1, <5>1
        <4> QED BY <3>1, <4>2
      <3>3. CashAgrees(r.kept, mine, spread'[t], fees'[t], paid1, bought1)
        BY <1>12, <1>13, <1>14, CashIsSymmetric
      <3> QED BY <1>11, <3>1, <3>2, <3>3 DEF MarketSound
    <2> QED BY <1>3, <2>1, <2>2 DEF Side
  <1>16. ASSUME NEW u \in Tickers
         PROVE  MarketSound(lots'[u]["yes"], lots'[u]["no"], net'[u], spread'[u],
                            fees'[u], PaidBy(tape', seen', u),
                            BoughtBy(tape', seen', u))
    <2>1. CASE u = t
      BY <1>15, <2>1, Zenon DEF paid1, bought1
    <2>2. CASE u # t
      <3>1. MarketSound(lots[u]["yes"], lots[u]["no"], net[u], spread[u],
                        fees[u], PaidBy(tape, seen, u), BoughtBy(tape, seen, u))
        BY <1>1 DEF LotsSound
      <3>2. /\ lots'[u] = lots[u] /\ spread'[u] = spread[u]
            /\ fees'[u] = fees[u] /\ net'[u] = net[u]
        BY <1>7, <2>2
      <3>3. /\ PaidBy(tape', seen', u) = PaidBy(tape, seen, u)
            /\ BoughtBy(tape', seen', u) = BoughtBy(tape, seen, u)
        BY <1>9, <2>2
      <3> QED BY <3>1, <3>2, <3>3, Zenon
    <2> QED BY <2>1, <2>2
  <1> QED BY <1>7, <1>16 DEF LotInv, LotsSound

\* A trade of the exchange changes nothing that is booked.
LEMMA ExecuteKeeps ==
  ASSUME LotInv, NEW f \in Fill, Execute(f)
  PROVE  LotInv'
  <1>1. LotType /\ LotsSound
    BY DEF LotInv
  <1>2. /\ tape' = Append(tape, f) /\ seen' = seen /\ lots' = lots
        /\ net' = net /\ spread' = spread /\ fees' = fees
        /\ tape \in Seq(Fill) /\ seen \in SUBSET DOMAIN tape
    BY <1>1 DEF Execute, LotType
  <1>3. LotType'
    <2>1. tape' \in Seq(Fill) /\ DOMAIN tape \subseteq DOMAIN tape'
      BY <1>2
    <2> QED BY <1>1, <1>2, <2>1 DEF LotType
  <1>4. ASSUME NEW u \in Tickers
        PROVE  MarketSound(lots'[u]["yes"], lots'[u]["no"], net'[u], spread'[u],
                           fees'[u], PaidBy(tape', seen', u),
                           BoughtBy(tape', seen', u))
    <2>1. MarketSound(lots[u]["yes"], lots[u]["no"], net[u], spread[u],
                      fees[u], PaidBy(tape, seen, u), BoughtBy(tape, seen, u))
      BY <1>1 DEF LotsSound
    <2>2. /\ PaidBy(Append(tape, f), seen, u) = PaidBy(tape, seen, u)
          /\ BoughtBy(Append(tape, f), seen, u) = BoughtBy(tape, seen, u)
      BY <1>2, LongerTape
    <2> QED BY <1>2, <2>1, <2>2, Zenon
  <1> QED BY <1>3, <1>4 DEF LotInv, LotsSound

\* Every step keeps the invariant.
LEMMA LotStep == LotInv /\ [Next]_vars => LotInv'
  <1> SUFFICES ASSUME LotInv, [Next]_vars PROVE LotInv'
    OBVIOUS
  <1>1. ASSUME UNCHANGED vars PROVE LotInv'
    BY <1>1, Zenon DEF LotInv, LotType, LotsSound, vars
  <1>2. ASSUME NEW f \in Fill, Execute(f) PROVE LotInv'
    BY <1>2, ExecuteKeeps
  <1>3. ASSUME NEW id \in DOMAIN tape, RecordFill(id) PROVE LotInv'
    BY <1>3, RecordFillKeeps
  <1>4. ASSUME NEW id \in DOMAIN tape, RecordDuplicate(id) PROVE LotInv'
    BY <1>1, <1>4 DEF RecordDuplicate
  <1> QED BY <1>1, <1>2, <1>3, <1>4 DEF Next

\* LotInv is inductive: queues of real lots, on one side of each market, that
\* agree with net_position_ and with the cash of the booked trades.
THEOREM LotInvariance == Spec => []LotInv
  BY LotInit, LotStep, PTL DEF Spec

-----------------------------------------------------------------------------
(* What it means for the queries.                                          *)

\* Realized profit is cash: whatever fills of whatever size arrive, late, out
\* of order or twice, realized_pnl_cents is what the matched pairs returned
\* less what the booked trades paid for them, fees included.
THEOREM PnlConservedHolds == Spec => []PnlConserved
  <1>1. LotInv => PnlConserved
    <2> SUFFICES ASSUME LotInv, NEW t \in Tickers
                 PROVE  2 * (RealizedPnl(t) + Paid(t) - PositionCost(t))
                          = ContractMaxCents
                              * (Bought(t) - SideQty(t, "yes") - SideQty(t, "no"))
      BY DEF PnlConserved
    <2>1. CashAgrees(lots[t]["yes"], lots[t]["no"], spread[t], fees[t],
                     PaidBy(tape, seen, t), BoughtBy(tape, seen, t))
      BY DEF LotInv, LotsSound, MarketSound
    <2>2. Paid(t) = PaidBy(tape, seen, t) /\ Bought(t) = BoughtBy(tape, seen, t)
      BY Zenon DEF Paid, Bought, BookedIds, PaidBy, BoughtBy, PaidFn,
                   QtyBoughtFn, IdsOf
    <2> QED BY <2>1, <2>2 DEF CashAgrees, RealizedPnl, PositionCost, SideQty,
                              SideCost, ContractMaxCents
  <1> QED BY <1>1, LotInvariance, PTL

\* One side tells both settlements: exposure_decomposition's win, loss and net
\* are those of the whole inventory, and unrealized_pnl marked at 100 and at 0
\* agrees with them.
THEOREM ExposureExactHolds == Spec => []ExposureExact
  <1>1. LotInv => ExposureExact
    <2> SUFFICES ASSUME LotInv, NEW t \in Tickers
                 PROVE  LET d == ExposureDecomposition(t)
                        IN /\ <<d.win, d.loss>>
                                = IF net[t] >= 0
                                  THEN <<SettleYes(t), SettleNo(t)>>
                                  ELSE <<SettleNo(t), SettleYes(t)>>
                           /\ d.net = net[t]
                           /\ UnrealizedPnl(t, ContractMaxCents) = SettleYes(t)
                           /\ UnrealizedPnl(t, 0) = SettleNo(t)
      BY DEF ExposureExact
    <2> DEFINE a == lots[t]["yes"]   b == lots[t]["no"]
               qa == LotQty(a)       qb == LotQty(b)
               ca == LotCost(a)      cb == LotCost(b)
               d == ExposureDecomposition(t)
    <2>1. /\ a \in Seq(Lot) /\ b \in Seq(Lot)
          /\ a = << >> \/ b = << >>
          /\ net[t] = qa - qb
      BY DEF LotInv, LotType, LotsSound, MarketSound, Side
    <2>2. qa \in Nat /\ qb \in Nat /\ ca \in Nat /\ cb \in Nat
      <3> HIDE DEF a, b
      <3> QED BY <2>1, QueueNats
    <2>3. /\ qa = 0 \/ qb = 0
          /\ qa = 0 => ca = 0
          /\ qb = 0 => cb = 0
      <3> HIDE DEF a, b
      <3>1. (a # << >> => qa >= 1) /\ (b # << >> => qb >= 1)
        BY <2>1, QueueNats
      <3>2. (qa = 0 => a = << >>) /\ (qb = 0 => b = << >>)
        BY <2>2, <3>1
      <3> QED BY <2>1, <3>2, EmptyQueue, Zenon
    <2>4. /\ d.net = qa - qb
          /\ d.win = (IF qa >= qb THEN qa ELSE qb) * 100
                       - (IF qa >= qb THEN ca ELSE cb)
          /\ d.loss = -(IF qa >= qb THEN ca ELSE cb)
      BY DEF ExposureDecomposition, SideQty, SideCost, ContractMaxCents
    <2>5. /\ SettleYes(t) = 100 * qa - (ca + cb)
          /\ SettleNo(t) = 100 * qb - (ca + cb)
      BY DEF SettleYes, SettleNo, PositionCost, SideQty, SideCost,
             ContractMaxCents
    <2>6. /\ LotGain(a, 100) = 100 * qa - ca /\ LotGain(b, 0) = 0 * qb - cb
          /\ LotGain(a, 0) = 0 * qa - ca /\ LotGain(b, 100) = 100 * qb - cb
      <3> HIDE DEF a, b
      <3> QED BY <2>1, GainIsLinear
    <2>7. /\ UnrealizedPnl(t, ContractMaxCents) = LotGain(a, 100) + LotGain(b, 0)
          /\ UnrealizedPnl(t, 0) = LotGain(a, 0) + LotGain(b, 100)
      BY DEF UnrealizedPnl, ContractMaxCents
    <2> HIDE DEF qa, qb, ca, cb, d, a, b
    <2>8. /\ UnrealizedPnl(t, ContractMaxCents) = SettleYes(t)
          /\ UnrealizedPnl(t, 0) = SettleNo(t)
      BY <2>2, <2>5, <2>6, <2>7
    <2>9. IF net[t] >= 0 THEN d.win = SettleYes(t) /\ d.loss = SettleNo(t)
          ELSE d.win = SettleNo(t) /\ d.loss = SettleYes(t)
      BY <2>1, <2>2, <2>3, <2>4, <2>5
    <2> QED BY <2>1, <2>4, <2>8, <2>9 DEF d
  <1> QED BY <1>1, LotInvariance, PTL

-----------------------------------------------------------------------------
(* Sequences of unit contracts.                                            *)

Drop(s, n) == SubSeq(s, n + 1, Len(s))
Units(price, n) == [j \in 1..n |-> price]

\* Contracts at one price are a sequence of prices.
LEMMA UnitsProperties ==
  ASSUME NEW S, NEW p \in S, NEW n \in Nat
  PROVE  /\ Units(p, n) \in Seq(S) /\ Len(Units(p, n)) = n
         /\ \A i \in 1..n : Units(p, n)[i] = p
  BY DEF Units

\* What is left of a sequence without its first n elements.
LEMMA DropProperties ==
  ASSUME NEW S, NEW s \in Seq(S), NEW n \in 0..Len(s)
  PROVE  /\ Drop(s, n) \in Seq(S) /\ Len(Drop(s, n)) = Len(s) - n
         /\ \A i \in 1..(Len(s) - n) : Drop(s, n)[i] = s[n + i]
  <1>1. n + 1 \in Int /\ Len(s) \in Int /\ Len(s) \in Nat /\ n \in Int
    OBVIOUS
  <1>2. \A i \in (n + 1)..Len(s) : s[i] \in S
    OBVIOUS
  <1>3. /\ SubSeq(s, n + 1, Len(s)) \in Seq(S)
        /\ Len(SubSeq(s, n + 1, Len(s)))
             = IF n + 1 <= Len(s) THEN Len(s) - (n + 1) + 1 ELSE 0
        /\ \A i \in 1..(Len(s) - (n + 1) + 1) :
             SubSeq(s, n + 1, Len(s))[i] = s[(n + 1) + i - 1]
    BY <1>1, <1>2, SubSeqProperties
  <1>4. ASSUME NEW i \in 1..(Len(s) - n)
        PROVE  Drop(s, n)[i] = s[n + i]
    <2>1. i \in 1..(Len(s) - (n + 1) + 1) /\ (n + 1) + i - 1 = n + i
      BY <1>1
    <2> QED BY <1>3, <2>1 DEF Drop
  <1>5. Drop(s, n) \in Seq(S)
    BY <1>3 DEF Drop
  <1>6. Len(Drop(s, n)) = Len(s) - n
    BY <1>1, <1>3 DEF Drop
  <1> QED BY <1>4, <1>5, <1>6

\* Dropping from the first of two sequences.
LEMMA DropFirst ==
  ASSUME NEW S, NEW s \in Seq(S), NEW t \in Seq(S), NEW n \in 0..Len(s)
  PROVE  Drop(s \o t, n) = Drop(s, n) \o t
  <1> DEFINE a == Drop(s \o t, n)
             d == Drop(s, n)
             b == d \o t
             ls == Len(s)
             lt == Len(t)
  <1>1. ls \in Nat /\ lt \in Nat /\ n \in Nat /\ n <= ls
    OBVIOUS
  <1>2. /\ s \o t \in Seq(S) /\ Len(s \o t) = ls + lt
        /\ \A i \in 1..(ls + lt) :
             (s \o t)[i] = IF i <= ls THEN s[i] ELSE t[i - ls]
    BY ConcatProperties
  <1>3. n \in 0..Len(s \o t)
    BY <1>1, <1>2
  <1>4. /\ a \in Seq(S) /\ Len(a) = Len(s \o t) - n
        /\ \A i \in 1..(Len(s \o t) - n) : a[i] = (s \o t)[n + i]
    BY <1>2, <1>3, DropProperties
  <1>5. /\ d \in Seq(S) /\ Len(d) = ls - n
        /\ \A i \in 1..(ls - n) : d[i] = s[n + i]
    BY DropProperties
  <1> HIDE DEF a, d
  <1>6. /\ b \in Seq(S) /\ Len(b) = Len(d) + lt
        /\ \A i \in 1..(Len(d) + lt) :
             b[i] = IF i <= Len(d) THEN d[i] ELSE t[i - Len(d)]
    BY <1>5, ConcatProperties
  <1> HIDE DEF b, ls, lt
  <1>7. Len(a) = (ls + lt) - n /\ Len(b) = (ls - n) + lt
    BY <1>2, <1>4, <1>5, <1>6
  <1>8. Len(a) = Len(b)
    BY <1>1, <1>7
  <1>9. ASSUME NEW i \in 1..Len(a)
        PROVE  a[i] = b[i]
    <2>1. /\ i \in Int /\ 1 <= i /\ i <= (ls + lt) - n
          /\ i \in 1..(Len(s \o t) - n) /\ n + i \in 1..(ls + lt)
          /\ i \in 1..(Len(d) + lt)
      BY <1>1, <1>2, <1>4, <1>5, <1>7
    <2>2. a[i] = IF n + i <= ls THEN s[n + i] ELSE t[(n + i) - ls]
      BY <1>2, <1>4, <2>1
    <2>3. b[i] = IF i <= Len(d) THEN d[i] ELSE t[i - Len(d)]
      BY <1>6, <2>1
    <2>4. CASE n + i <= ls
      <3>1. i <= Len(d) /\ i \in 1..(ls - n)
        BY <1>1, <1>5, <2>1, <2>4
      <3> QED BY <1>5, <2>2, <2>3, <2>4, <3>1
    <2>5. CASE ~(n + i <= ls)
      <3>1. ~(i <= Len(d)) /\ i - Len(d) = (n + i) - ls
        BY <1>1, <1>5, <2>1, <2>5
      <3> QED BY <2>2, <2>3, <2>5, <3>1
    <2> QED BY <2>4, <2>5
  <1> QED BY <1>4, <1>6, <1>8, <1>9, SeqEqual DEF a, b, d

\* Dropping all of the first sequence and some of the second.
LEMMA DropSecond ==
  ASSUME NEW S, NEW s \in Seq(S), NEW t \in Seq(S), NEW k \in 0..Len(t)
  PROVE  Drop(s \o t, Len(s) + k) = Drop(t, k)
  <1> DEFINE ls == Len(s)
             lt == Len(t)
             a == Drop(s \o t, ls + k)
             b == Drop(t, k)
  <1>1. ls \in Nat /\ lt \in Nat /\ k \in Nat /\ k <= lt
    OBVIOUS
  <1>2. /\ s \o t \in Seq(S) /\ Len(s \o t) = ls + lt
        /\ \A i \in 1..(ls + lt) :
             (s \o t)[i] = IF i <= ls THEN s[i] ELSE t[i - ls]
    BY ConcatProperties
  <1>3. ls + k \in 0..Len(s \o t)
    BY <1>1, <1>2
  <1>4. /\ a \in Seq(S) /\ Len(a) = Len(s \o t) - (ls + k)
        /\ \A i \in 1..(Len(s \o t) - (ls + k)) : a[i] = (s \o t)[(ls + k) + i]
    BY <1>2, <1>3, DropProperties
  <1>5. /\ b \in Seq(S) /\ Len(b) = lt - k
        /\ \A i \in 1..(lt - k) : b[i] = t[k + i]
    BY DropProperties
  <1> HIDE DEF a, b, ls, lt
  <1>6. Len(a) = (ls + lt) - (ls + k)
    BY <1>2, <1>4
  <1>7. Len(a) = Len(b)
    BY <1>1, <1>5, <1>6
  <1>8. ASSUME NEW i \in 1..Len(a)
        PROVE  a[i] = b[i]
    <2>1. /\ i \in Int /\ i \in 1..(Len(s \o t) - (ls + k)) /\ i \in 1..(lt - k)
          /\ (ls + k) + i \in 1..(ls + lt) /\ ~((ls + k) + i <= ls)
          /\ ((ls + k) + i) - ls = k + i
      BY <1>1, <1>2, <1>4, <1>5, <1>7
    <2> QED BY <1>2, <1>4, <1>5, <2>1
  <1> QED BY <1>4, <1>5, <1>7, <1>8, SeqEqual DEF a, b, ls

\* Closing k of n contracts at one price leaves n - k.
LEMMA DropUnits ==
  ASSUME NEW S, NEW p \in S, NEW n \in Nat, NEW k \in 0..n
  PROVE  Drop(Units(p, n), k) = Units(p, n - k)
  <1> DEFINE u == Units(p, n)
             a == Drop(u, k)
             b == Units(p, n - k)
  <1>1. /\ u \in Seq(S) /\ Len(u) = n /\ \A i \in 1..n : u[i] = p
    BY UnitsProperties
  <1>2. n - k \in Nat /\ k \in 0..Len(u)
    BY <1>1
  <1>3. /\ b \in Seq(S) /\ Len(b) = n - k /\ \A i \in 1..(n - k) : b[i] = p
    BY <1>2, UnitsProperties
  <1> HIDE DEF u
  <1>4. /\ a \in Seq(S) /\ Len(a) = Len(u) - k
        /\ \A i \in 1..(Len(u) - k) : a[i] = u[k + i]
    BY <1>1, <1>2, DropProperties
  <1> HIDE DEF a, b
  <1>5. Len(a) = Len(b)
    BY <1>1, <1>3, <1>4
  <1>6. ASSUME NEW i \in 1..Len(a)
        PROVE  a[i] = b[i]
    <2>1. i \in 1..(Len(u) - k) /\ i \in 1..(n - k) /\ k + i \in 1..n
      BY <1>1, <1>3, <1>4, <1>5
    <2> QED BY <1>1, <1>3, <1>4, <2>1
  <1> QED BY <1>3, <1>4, <1>5, <1>6, SeqEqual DEF a, b, u

\* Nothing closed.
LEMMA DropNothing ==
  ASSUME NEW S, NEW s \in Seq(S)
  PROVE  Drop(s, 0) = s
  <1>1. 0 \in 0..Len(s) /\ Len(s) \in Nat
    OBVIOUS
  <1>2. /\ Drop(s, 0) \in Seq(S) /\ Len(Drop(s, 0)) = Len(s) - 0
        /\ \A i \in 1..(Len(s) - 0) : Drop(s, 0)[i] = s[0 + i]
    BY <1>1, DropProperties
  <1> DEFINE a == Drop(s, 0)
  <1> HIDE DEF a
  <1>3. Len(a) = Len(s) /\ \A i \in 1..Len(a) : a[i] = s[i]
    BY <1>1, <1>2 DEF a
  <1> QED BY <1>2, <1>3, SeqEqual DEF a

-----------------------------------------------------------------------------
(* The unit contracts of a queue of lots.                                  *)

UnitNext(q, h, i) ==
  IF i = 0 THEN << >> ELSE h[i - 1] \o Units(q[i].price, q[i].remaining)

UnitRun(q) == CHOOSE h : h = [i \in 0..Len(q) |-> UnitNext(q, h, i)]

\* The mapping, with its recursive function named.
LEMMA UnitPricesIsRun ==
  ASSUME NEW q
  PROVE  UnitPrices(q) = UnitRun(q)[Len(q)]
  BY DEF UnitPrices, UnitRun, UnitNext, Units

UnitsKnownTo(q, k) ==
  \E h : /\ h = [i \in 0..Len(q) |-> h[i]]
         /\ \A i \in 0..Len(q) : i <= k => h[i] = UnitNext(q, h, i)

\* The mapping's recursion has a solution.
LEMMA UnitRunAt ==
  ASSUME NEW q \in Seq(Lot)
  PROVE  \A i \in 0..Len(q) : UnitRun(q)[i] = UnitNext(q, UnitRun(q), i)
  <1> DEFINE n == Len(q)
             I == {k \in Nat : UnitsKnownTo(q, k)}
             N(h, i) == UnitNext(q, h, i)
  <1>1. n \in Nat
    OBVIOUS
  <1>2. 0 \in I
    <2> DEFINE h == [i \in 0..n |-> << >>]
    <2>1. ASSUME NEW i \in 0..n, i <= 0
          PROVE  h[i] = N(h, i)
      <3>1. i = 0
        BY <1>1, <2>1
      <3>2. h[i] = << >>
        BY <2>1
      <3> HIDE DEF h
      <3> QED BY <3>1, <3>2, Zenon DEF UnitNext
    <2>2. h = [i \in 0..n |-> h[i]]
      OBVIOUS
    <2> HIDE DEF h
    <2> QED BY <2>1, <2>2 DEF UnitsKnownTo
  <1>3. \A k \in Nat : k \in I => k + 1 \in I
    <2> SUFFICES ASSUME NEW k \in Nat, UnitsKnownTo(q, k)
                 PROVE  UnitsKnownTo(q, k + 1)
      OBVIOUS
    <2>1. PICK h : /\ h = [i \in 0..n |-> h[i]]
                   /\ \A i \in 0..n : i <= k => h[i] = N(h, i)
      BY DEF UnitsKnownTo
    <2> DEFINE g == [i \in 0..n |-> IF i <= k THEN h[i] ELSE N(h, i)]
    <2>2. ASSUME NEW i \in 0..n, i <= k + 1
          PROVE  g[i] = N(g, i)
      <3>1. g[i] = N(h, i)
        BY <2>1, <2>2
      <3>2. CASE i = 0
        BY <3>1, <3>2 DEF UnitNext
      <3>3. CASE i # 0
        <4>1. g[i - 1] = h[i - 1]
          BY <1>1, <2>2, <3>3
        <4> HIDE DEF g
        <4> QED BY <3>1, <3>3, <4>1 DEF UnitNext
      <3> QED BY <3>2, <3>3
    <2>3. g = [i \in 0..n |-> g[i]]
      OBVIOUS
    <2> HIDE DEF g
    <2> QED BY <2>2, <2>3 DEF UnitsKnownTo
  <1>4. n \in I
    <2> HIDE DEF I
    <2> QED BY <1>1, <1>2, <1>3, NatSetInduction
  <1>5. PICK h : /\ h = [i \in 0..n |-> h[i]]
                 /\ \A i \in 0..n : i <= n => h[i] = N(h, i)
    BY <1>4 DEF UnitsKnownTo
  <1>6. \A i \in 0..n : h[i] = N(h, i)
    BY <1>1, <1>5
  <1>7. h = [i \in 0..n |-> N(h, i)]
    BY <1>5, <1>6
  <1> DEFINE R == UnitRun(q)
  <1>8. R = [i \in 0..n |-> N(R, i)]
    BY <1>7 DEF UnitRun
  <1> HIDE DEF R
  <1>9. \A i \in 0..n : R[i] = N(R, i)
    BY <1>8
  <1> QED BY <1>9 DEF R

\* Unfolding one lot.
LEMMA UnitRunStep ==
  ASSUME NEW q \in Seq(Lot)
  PROVE  /\ UnitRun(q)[0] = << >>
         /\ \A i \in 0..Len(q) : i + 1 <= Len(q) =>
              /\ q[i + 1] \in Lot
              /\ UnitRun(q)[i + 1]
                   = UnitRun(q)[i] \o Units(q[i + 1].price, q[i + 1].remaining)
  <1>1. Len(q) \in Nat /\ \A i \in 0..Len(q) :
          UnitRun(q)[i] = UnitNext(q, UnitRun(q), i)
    BY UnitRunAt
  <1>2. UnitRun(q)[0] = << >>
    BY <1>1 DEF UnitNext
  <1>3. ASSUME NEW i \in 0..Len(q), i + 1 <= Len(q)
        PROVE  /\ q[i + 1] \in Lot
               /\ UnitRun(q)[i + 1]
                    = UnitRun(q)[i] \o Units(q[i + 1].price, q[i + 1].remaining)
    <2>1. i + 1 \in 0..Len(q) /\ i + 1 # 0 /\ (i + 1) - 1 = i /\ q[i + 1] \in Lot
      BY <1>1, <1>3
    <2>2. UnitRun(q)[i + 1] = UnitNext(q, UnitRun(q), i + 1)
      BY <1>1, <2>1
    <2> QED BY <2>1, <2>2 DEF UnitNext
  <1> QED BY <1>2, <1>3

\* A lot stands for as many contracts as it has left.
LEMMA LotUnits ==
  ASSUME NEW l \in Lot
  PROVE  /\ Units(l.price, l.remaining) \in Seq(Prices)
         /\ Len(Units(l.price, l.remaining)) = l.remaining
  <1>1. l.price \in Prices /\ l.remaining \in Nat
    BY DEF Lot
  <1> QED BY <1>1, UnitsProperties

\* The contracts of the first lots are prices.
LEMMA UnitRunType ==
  ASSUME NEW q \in Seq(Lot)
  PROVE  \A i \in 0..Len(q) : UnitRun(q)[i] \in Seq(Prices)
  <1> DEFINE n == Len(q)
             Ok(i) == i <= n => UnitRun(q)[i] \in Seq(Prices)
             I == {i \in Nat : Ok(i)}
  <1>1. n \in Nat
    OBVIOUS
  <1>2. 0 \in I
    <2>1. UnitRun(q)[0] = << >>
      BY UnitRunStep
    <2>2. << >> \in Seq(Prices)
      OBVIOUS
    <2>3. UnitRun(q)[0] \in Seq(Prices)
      BY <2>1, <2>2, Zenon
    <2> QED BY <2>3
  <1>3. \A i \in Nat : i \in I => i + 1 \in I
    <2> SUFFICES ASSUME NEW i \in Nat, Ok(i), i + 1 <= n
                 PROVE  UnitRun(q)[i + 1] \in Seq(Prices)
      OBVIOUS
    <2>1. i \in 0..n /\ UnitRun(q)[i] \in Seq(Prices)
      BY <1>1
    <2>2. /\ q[i + 1] \in Lot
          /\ UnitRun(q)[i + 1]
               = UnitRun(q)[i] \o Units(q[i + 1].price, q[i + 1].remaining)
      BY <2>1, UnitRunStep
    <2>3. Units(q[i + 1].price, q[i + 1].remaining) \in Seq(Prices)
      BY <2>2, LotUnits
    <2> QED BY <2>1, <2>2, <2>3, ConcatProperties
  <1>4. \A i \in Nat : i \in I
    <2> HIDE DEF I
    <2> QED BY <1>2, <1>3, NatSetInduction
  <1> QED BY <1>1, <1>4

\* A lot at the back leaves the contracts before it alone.
LEMMA UnitRunPrefix ==
  ASSUME NEW q \in Seq(Lot), NEW l \in Lot
  PROVE  \A i \in 0..Len(q) : UnitRun(Append(q, l))[i] = UnitRun(q)[i]
  <1> DEFINE n == Len(q)
             a == Append(q, l)
             Ok(i) == i <= n => UnitRun(a)[i] = UnitRun(q)[i]
             I == {i \in Nat : Ok(i)}
  <1>1. /\ n \in Nat /\ a \in Seq(Lot) /\ Len(a) = n + 1
        /\ \A i \in 1..n : a[i] = q[i]
    OBVIOUS
  <1> HIDE DEF a
  <1>2. 0 \in I
    <2>1. UnitRun(q)[0] = << >> /\ UnitRun(a)[0] = << >>
      BY <1>1, UnitRunStep
    <2> QED BY <2>1
  <1>3. \A i \in Nat : i \in I => i + 1 \in I
    <2> SUFFICES ASSUME NEW i \in Nat, Ok(i), i + 1 <= n
                 PROVE  UnitRun(a)[i + 1] = UnitRun(q)[i + 1]
      OBVIOUS
    <2>1. /\ i \in 0..n /\ i \in 0..Len(a) /\ i + 1 <= Len(a) /\ i + 1 \in 1..n
          /\ UnitRun(a)[i] = UnitRun(q)[i]
      BY <1>1
    <2>2. UnitRun(q)[i + 1]
            = UnitRun(q)[i] \o Units(q[i + 1].price, q[i + 1].remaining)
      BY <2>1, UnitRunStep
    <2>3. UnitRun(a)[i + 1]
            = UnitRun(a)[i] \o Units(a[i + 1].price, a[i + 1].remaining)
      BY <1>1, <2>1, UnitRunStep
    <2>4. a[i + 1] = q[i + 1]
      BY <1>1, <2>1
    <2> QED BY <2>1, <2>2, <2>3, <2>4
  <1>4. \A i \in Nat : i \in I
    <2> HIDE DEF I
    <2> QED BY <1>2, <1>3, NatSetInduction
  <1>5. \A i \in 0..n : UnitRun(a)[i] = UnitRun(q)[i]
    BY <1>1, <1>4
  <1> QED BY <1>5 DEF a

\* The mapping yields what the abstract ledger holds.
LEMMA UnitPricesType ==
  ASSUME NEW q \in Seq(Lot)
  PROVE  UnitPrices(q) \in Seq(Prices)
  <1>1. Len(q) \in 0..Len(q)
    OBVIOUS
  <1> QED BY <1>1, UnitPricesIsRun, UnitRunType

\* No lots, no contracts.
LEMMA UnitPricesEmpty == UnitPrices(<< >>) = << >>
  <1>1. << >> \in Seq(Lot) /\ Len(<< >>) = 0
    OBVIOUS
  <1>2. UnitRun(<< >>)[0] = << >>
    BY <1>1, UnitRunStep
  <1>3. UnitPrices(<< >>) = UnitRun(<< >>)[Len(<< >>)]
    BY UnitPricesIsRun
  <1> QED BY <1>1, <1>2, <1>3, Zenon

\* A lot pushed at the back adds its contracts at the back.
LEMMA UnitPricesAppend ==
  ASSUME NEW q \in Seq(Lot), NEW l \in Lot
  PROVE  UnitPrices(Append(q, l)) = UnitPrices(q) \o Units(l.price, l.remaining)
  <1> DEFINE n == Len(q)
             a == Append(q, l)
  <1>1. /\ n \in Nat /\ a \in Seq(Lot) /\ Len(a) = n + 1 /\ a[n + 1] = l
        /\ n \in 0..n /\ n \in 0..Len(a) /\ n + 1 <= Len(a)
    OBVIOUS
  <1>2. UnitRun(a)[n] = UnitRun(q)[n]
    BY <1>1, UnitRunPrefix
  <1> HIDE DEF a, n
  <1>3. UnitRun(a)[n + 1]
          = UnitRun(a)[n] \o Units(a[n + 1].price, a[n + 1].remaining)
    BY <1>1, UnitRunStep
  <1>4. UnitPrices(q) = UnitRun(q)[n]
    BY UnitPricesIsRun DEF n
  <1>5. UnitPrices(a) = UnitRun(a)[Len(a)]
    BY UnitPricesIsRun
  <1> QED BY <1>1, <1>2, <1>3, <1>4, <1>5, Zenon DEF a

-----------------------------------------------------------------------------
(* The matching loop, contract by contract.                                *)

\* What one turn keeps of a lot.
LEMMA MatchLotUnits ==
  ASSUME NEW price \in Prices, NEW acc \in Progress, NEW lot \in Lot
  PROVE  UnitPrices(MatchLot(price, acc, lot).kept)
           = UnitPrices(acc.kept)
               \o Units(lot.price, lot.remaining
                                     - Smaller(acc.remaining, lot.remaining))
  <1> DEFINE r == MatchLot(price, acc, lot)
             k == Smaller(acc.remaining, lot.remaining)
             rest == [lot EXCEPT !.remaining = lot.remaining - k]
  <1>1. /\ acc.remaining \in Nat /\ acc.kept \in Seq(Lot)
        /\ lot.remaining \in Nat /\ lot.remaining >= 1 /\ lot.price \in Prices
    BY LotInts DEF Progress, Lot
  <1>2. k \in Nat /\ k <= lot.remaining
    BY <1>1 DEF Smaller
  <1>3. r.kept = IF k = lot.remaining THEN acc.kept ELSE Append(acc.kept, rest)
    BY DEF MatchLot
  <1>4. CASE k = lot.remaining
    <2>1. lot.remaining - k = 0
      BY <1>1, <1>4
    <2>2. Units(lot.price, 0) = << >>
      BY DEF Units
    <2>3. UnitPrices(acc.kept) \o << >> = UnitPrices(acc.kept)
      BY <1>1, UnitPricesType, ConcatEmptySeq
    <2>4. r.kept = acc.kept
      BY <1>3, <1>4
    <2> HIDE DEF r, k
    <2>5. UnitPrices(r.kept)
            = UnitPrices(acc.kept) \o Units(lot.price, lot.remaining - k)
      BY <2>1, <2>2, <2>3, <2>4, Zenon
    <2> QED BY <2>5 DEF r, k
  <1>5. CASE k # lot.remaining
    <2>1. rest \in Lot /\ rest.remaining = lot.remaining - k
          /\ rest.price = lot.price
      <3> HIDE DEF k
      <3>1. lot.remaining - k \in Nat \ {0}
        BY <1>1, <1>2, <1>5
      <3> QED BY <3>1 DEF Lot
    <2>2. r.kept = Append(acc.kept, rest)
      BY <1>3, <1>5
    <2> HIDE DEF r, k, rest
    <2>3. UnitPrices(Append(acc.kept, rest))
            = UnitPrices(acc.kept) \o Units(rest.price, rest.remaining)
      BY <1>1, <2>1, UnitPricesAppend
    <2>4. UnitPrices(r.kept)
            = UnitPrices(acc.kept) \o Units(lot.price, lot.remaining - k)
      BY <2>1, <2>2, <2>3, Zenon
    <2> QED BY <2>4 DEF r, k
  <1> QED BY <1>4, <1>5

\* The loop has closed the oldest contracts of the lots it went through, which
\* were P, and kept the rest in order.
UnitBalanced(qty, P, r) ==
  /\ r \in Progress
  /\ r.remaining <= qty
  /\ qty - r.remaining <= Len(P)
  /\ r.remaining > 0 => qty - r.remaining = Len(P)
  /\ UnitPrices(r.kept) = Drop(P, qty - r.remaining)

\* Dropping from what was gone through before and from the lot of this turn.
LEMMA DropTurn ==
  ASSUME NEW P \in Seq(Prices), NEW p \in Prices, NEW n \in Nat,
         NEW c \in 0..Len(P), NEW k \in 0..n, c = Len(P) \/ k = 0
  PROVE  Drop(P \o Units(p, n), c + k) = Drop(P, c) \o Units(p, n - k)
  <1> DEFINE W == Units(p, n)
  <1>1. W \in Seq(Prices) /\ Len(W) = n
    BY UnitsProperties
  <1>2. CASE k = 0
    <2>1. n - k = n /\ c + k = c
      BY <1>2
    <2> HIDE DEF W
    <2>2. Drop(P \o W, c) = Drop(P, c) \o W
      BY <1>1, DropFirst
    <2>3. Drop(P \o W, c + k) = Drop(P, c) \o W
      BY <2>1, <2>2, Zenon
    <2> QED BY <2>1, <2>3, Zenon DEF W
  <1>3. CASE c = Len(P)
    <2>1. k \in 0..Len(W)
      BY <1>1
    <2>2. Drop(W, k) = Units(p, n - k)
      BY DropUnits
    <2> HIDE DEF W
    <2>3. Drop(P \o W, Len(P) + k) = Drop(W, k)
      BY <1>1, <2>1, DropSecond
    <2>4. /\ Drop(P, c) \in Seq(Prices) /\ Len(Drop(P, c)) = Len(P) - c
      BY DropProperties
    <2>5. Drop(P, c) = << >>
      <3> DEFINE d == Drop(P, c)
      <3>1. d \in Seq(Prices) /\ Len(d) = 0
        BY <1>3, <2>4
      <3> HIDE DEF d
      <3>2. d = << >>
        BY <3>1
      <3> QED BY <3>2 DEF d
    <2>6. Units(p, n - k) \in Seq(Prices)
      <3>1. n - k \in Nat
        OBVIOUS
      <3> QED BY <3>1, UnitsProperties
    <2>7. << >> \o Units(p, n - k) = Units(p, n - k)
      BY <2>6, ConcatEmptySeq
    <2>8. Drop(P \o W, c + k) = Drop(P, c) \o Units(p, n - k)
      BY <1>3, <2>2, <2>3, <2>5, <2>7, Zenon
    <2> QED BY <2>8 DEF W
  <1> QED BY <1>2, <1>3

\* A turn of the loop closes the oldest contracts left.
LEMMA UnitTurn ==
  ASSUME NEW price \in Prices, NEW qty \in Nat, NEW P \in Seq(Prices),
         NEW lot \in Lot, NEW acc, UnitBalanced(qty, P, acc)
  PROVE  UnitBalanced(qty, P \o Units(lot.price, lot.remaining),
                      MatchLot(price, acc, lot))
  <1> DEFINE r == MatchLot(price, acc, lot)
             k == Smaller(acc.remaining, lot.remaining)
             W == Units(lot.price, lot.remaining)
             c == qty - acc.remaining
  <1>1. /\ acc \in Progress /\ acc.remaining \in Nat /\ acc.remaining <= qty
        /\ c <= Len(P)
        /\ acc.remaining > 0 => c = Len(P)
        /\ UnitPrices(acc.kept) = Drop(P, c)
        /\ Len(P) \in Nat
    BY DEF UnitBalanced, Progress
  <1>2. lot.remaining \in Nat /\ lot.price \in Prices
    BY DEF Lot
  <1>3. r \in Progress /\ r.remaining = acc.remaining - k
    BY <1>1, MatchLotStep
  <1>4. UnitPrices(r.kept)
          = UnitPrices(acc.kept) \o Units(lot.price, lot.remaining - k)
    BY <1>1, MatchLotUnits
  <1>5. /\ W \in Seq(Prices) /\ Len(W) = lot.remaining
    BY LotUnits
  <1>6. Len(P \o W) = Len(P) + lot.remaining
    <2> HIDE DEF W
    <2> QED BY <1>5, ConcatProperties
  <1>7. /\ k \in 0..lot.remaining
        /\ acc.remaining - k <= qty
        /\ qty - (acc.remaining - k) = c + k
        /\ c + k <= Len(P) + lot.remaining
        /\ acc.remaining - k > 0 => c + k = Len(P) + lot.remaining
        /\ acc.remaining = 0 => k = 0
        /\ c \in 0..Len(P)
    <2> DEFINE left == acc.remaining
               n == lot.remaining
               len == Len(P)
    <2>1. /\ left \in Nat /\ n \in Nat /\ len \in Nat
          /\ left <= qty /\ qty - left <= len
          /\ left > 0 => qty - left = len
          /\ k = Smaller(left, n)
      BY <1>1, <1>2
    <2> HIDE DEF left, n, len, k
    <2>2. /\ k \in 0..n /\ left - k <= qty
          /\ qty - (left - k) = (qty - left) + k
          /\ (qty - left) + k <= len + n
          /\ left - k > 0 => (qty - left) + k = len + n
          /\ left = 0 => k = 0
          /\ qty - left \in 0..len
      BY <2>1 DEF Smaller
    <2> QED BY <2>2 DEF left, n, len
  <1>8. c = Len(P) \/ k = 0
    BY <1>1, <1>7
  <1> HIDE DEF k, c, r
  <1>9. Drop(P \o Units(lot.price, lot.remaining), c + k)
          = Drop(P, c) \o Units(lot.price, lot.remaining - k)
    BY <1>2, <1>7, <1>8, DropTurn
  <1>10. qty - r.remaining = c + k
    BY <1>3, <1>7
  <1>11. UnitPrices(r.kept) = Drop(P \o W, qty - r.remaining)
    BY <1>1, <1>4, <1>9, <1>10, Zenon
  <1> HIDE DEF W
  <1>12. UnitBalanced(qty, P \o W, r)
    <2>1. /\ r.remaining <= qty
          /\ qty - r.remaining <= Len(P \o W)
          /\ r.remaining > 0 => qty - r.remaining = Len(P \o W)
      BY <1>3, <1>6, <1>7, <1>10
    <2> QED BY <1>3, <1>11, <2>1 DEF UnitBalanced
  <1> QED BY <1>12 DEF W, r

\* record_fill's loop closes the oldest opposing contracts, as many as the
\* fill has or as there are, and keeps the others in order.
LEMMA MatchUnits ==
  ASSUME NEW opp \in Seq(Lot), NEW price \in Prices, NEW qty \in Nat
  PROVE  UnitBalanced(qty, UnitPrices(opp), MatchLots(opp, price, qty))
  <1> DEFINE R == MatchRun(opp, price, qty)
             P == UnitRun(opp)
             n == Len(opp)
             Ok(i) == i <= n => UnitBalanced(qty, P[i], R[i])
             I == {i \in Nat : Ok(i)}
  <1>1. n \in Nat /\ \A i \in 0..n : R[i] = MatchNext(opp, price, qty, R, i)
    BY MatchRunAt
  <1>2. 0 \in I
    <2> DEFINE start == [remaining |-> qty, gained |-> 0, kept |-> << >>]
    <2>1. R[0] = start
      BY <1>1 DEF MatchNext
    <2>2. start \in Progress
      BY DEF Progress
    <2>3. start.remaining = qty /\ start.kept = << >> /\ qty - qty = 0
      OBVIOUS
    <2>4. P[0] = << >>
      BY UnitRunStep
    <2>5. << >> \in Seq(Prices) /\ Len(<< >>) = 0
      OBVIOUS
    <2>6. Drop(<< >>, 0) = << >>
      BY <2>5, DropNothing
    <2> HIDE DEF start
    <2>7. UnitPrices(start.kept) = Drop(<< >>, qty - start.remaining)
      BY <2>3, <2>6, UnitPricesEmpty, Zenon
    <2>8. /\ start.remaining <= qty /\ qty - start.remaining <= Len(<< >>)
          /\ qty - start.remaining = Len(<< >>)
      BY <2>3, <2>5
    <2>9. UnitBalanced(qty, << >>, start)
      BY <2>2, <2>7, <2>8 DEF UnitBalanced
    <2> QED BY <2>1, <2>4, <2>9, Zenon
  <1>3. \A i \in Nat : i \in I => i + 1 \in I
    <2> SUFFICES ASSUME NEW i \in Nat, Ok(i), i + 1 <= n
                 PROVE  UnitBalanced(qty, P[i + 1], R[i + 1])
      OBVIOUS
    <2> DEFINE lot == opp[i + 1]
    <2>1. /\ UnitBalanced(qty, P[i], R[i]) /\ i \in 0..n /\ i + 1 \in 0..n
          /\ i + 1 # 0 /\ (i + 1) - 1 = i
      BY <1>1
    <2>2. R[i + 1] = MatchLot(price, R[i], lot)
      BY <1>1, <2>1 DEF MatchNext
    <2>3. /\ lot \in Lot
          /\ P[i + 1] = P[i] \o Units(lot.price, lot.remaining)
      BY <2>1, UnitRunStep
    <2>4. P[i] \in Seq(Prices)
      BY <2>1, UnitRunType
    <2> HIDE DEF R, P, lot
    <2>5. UnitBalanced(qty, P[i] \o Units(lot.price, lot.remaining),
                       MatchLot(price, R[i], lot))
      BY <2>1, <2>3, <2>4, UnitTurn
    <2> QED BY <2>2, <2>3, <2>5, Zenon
  <1>4. n \in I
    <2> HIDE DEF I
    <2> QED BY <1>1, <1>2, <1>3, NatSetInduction
  <1>5. UnitBalanced(qty, P[n], R[n])
    BY <1>1, <1>4
  <1>6. MatchLots(opp, price, qty) = R[n] /\ UnitPrices(opp) = P[n]
    BY MatchLotsIsRun, UnitPricesIsRun
  <1> HIDE DEF R, P, n
  <1> QED BY <1>5, <1>6, Zenon

\* What is left of a fill is held behind what was held.
LEMMA PushedUnits ==
  ASSUME NEW own \in Seq(Lot), NEW price \in Prices, NEW n \in Nat
  PROVE  UnitPrices(PushLot(own, price, n)) = UnitPrices(own) \o Units(price, n)
  <1>1. CASE n = 0
    <2>1. PushLot(own, price, n) = own
      BY <1>1 DEF PushLot
    <2>2. Units(price, n) = << >>
      BY <1>1 DEF Units
    <2>3. UnitPrices(own) \o << >> = UnitPrices(own)
      BY UnitPricesType, ConcatEmptySeq
    <2> QED BY <2>1, <2>2, <2>3, Zenon
  <1>2. CASE n # 0
    <2> DEFINE l == [price |-> price, remaining |-> n]
    <2>1. l \in Lot /\ l.price = price /\ l.remaining = n
      BY <1>2 DEF Lot
    <2>2. PushLot(own, price, n) = Append(own, l)
      BY <1>2 DEF PushLot
    <2> HIDE DEF l
    <2>3. UnitPrices(Append(own, l))
            = UnitPrices(own) \o Units(l.price, l.remaining)
      BY <2>1, UnitPricesAppend
    <2> QED BY <2>1, <2>2, <2>3, Zenon
  <1> QED BY <1>1, <1>2

-----------------------------------------------------------------------------
(* The refinement.                                                         *)

\* A fill of lots is a fill of unit contracts.
LEMMA BookedUnits ==
  ASSUME NEW own \in Seq(Lot), NEW opp \in Seq(Lot), NEW price \in Prices,
         NEW qty \in Nat
  PROVE  LET r == MatchLots(opp, price, qty)
             m == Ledger!Matched(UnitPrices(opp), qty)
         IN /\ UnitPrices(r.kept)
                 = SubSeq(UnitPrices(opp), m + 1, Len(UnitPrices(opp)))
            /\ UnitPrices(PushLot(own, price, r.remaining))
                 = UnitPrices(own) \o Ledger!Repeat(price, qty - m)
  <1> DEFINE r == MatchLots(opp, price, qty)
             u == UnitPrices(opp)
             m == Ledger!Matched(u, qty)
  <1>1. UnitBalanced(qty, u, r)
    BY MatchUnits
  <1>2. Len(u) \in Nat
    BY UnitPricesType
  <1> HIDE DEF r, u
  <1>3. /\ r.remaining \in Nat /\ r.remaining <= qty
        /\ qty - r.remaining <= Len(u)
        /\ r.remaining > 0 => qty - r.remaining = Len(u)
        /\ UnitPrices(r.kept) = Drop(u, qty - r.remaining)
    BY <1>1 DEF UnitBalanced, Progress
  <1>4. m = qty - r.remaining /\ qty - m = r.remaining
    BY <1>2, <1>3 DEF Ledger!Matched
  <1> HIDE DEF m
  <1>5. UnitPrices(r.kept) = SubSeq(u, m + 1, Len(u))
    BY <1>3, <1>4, Zenon DEF Drop
  <1>6. UnitPrices(PushLot(own, price, r.remaining))
          = UnitPrices(own) \o Ledger!Repeat(price, qty - m)
    <2>1. UnitPrices(PushLot(own, price, r.remaining))
            = UnitPrices(own) \o Units(price, r.remaining)
      BY <1>3, PushedUnits
    <2>2. Units(price, r.remaining) = Ledger!Repeat(price, r.remaining)
      BY DEF Units, Ledger!Repeat
    <2> QED BY <1>4, <2>1, <2>2, Zenon
  <1> QED BY <1>5, <1>6 DEF r, m, u

HeldUnits(lt) == [t \in Tickers |-> [s \in Side |-> UnitPrices(lt[t][s])]]

TapeBounded == Len(tape) <= MaxTrades

\* The trades stay within the bound the keys of the ledger have.
LEMMA TapeStep == LotInv /\ TapeBounded /\ [Next]_vars => TapeBounded'
  <1> SUFFICES ASSUME LotInv, TapeBounded, [Next]_vars PROVE TapeBounded'
    OBVIOUS
  <1>1. tape \in Seq(Fill) /\ MaxTrades \in Nat
    BY LotConstants DEF LotInv, LotType
  <1>2. CASE \E f \in Fill : Execute(f)
    <2>1. PICK f \in Fill : Execute(f)
      BY <1>2
    <2>2. Len(tape) < MaxTrades /\ Len(tape') = Len(tape) + 1 /\ Len(tape) \in Nat
      BY <1>1, <2>1 DEF Execute
    <2> QED BY <1>1, <2>2 DEF TapeBounded
  <1>3. CASE tape' = tape
    BY <1>3 DEF TapeBounded
  <1> QED BY <1>2, <1>3 DEF Next, RecordFill, RecordDuplicate, vars

\* Initial states map to initial states.
LEMMA RefinesInit == Init => Ledger!Init
  <1> SUFFICES ASSUME Init PROVE Ledger!Init
    OBVIOUS
  <1>1. /\ lots = [t \in Tickers |-> [s \in Side |-> << >>]]
        /\ net = [t \in Tickers |-> 0] /\ seen = {}
    BY DEF Init
  <1>2. HeldUnits(lots) = [t \in Tickers |-> [s \in Side |-> << >>]]
    <2>1. \A t \in Tickers : \A s \in Side : UnitPrices(lots[t][s]) = << >>
      BY <1>1, UnitPricesEmpty
    <2> QED BY <2>1 DEF HeldUnits
  <1> QED BY <1>1, <1>2 DEF Ledger!Init, Ledger!Side, Side, HeldUnits

\* record_fill maps to the ledger's RecordFill.
LEMMA RefinesFill ==
  ASSUME LotInv, TapeBounded, NEW id \in DOMAIN tape, RecordFill(id)
  PROVE  Ledger!Next
  <1> DEFINE f == tape[id]
             t == f.ticker
             s == f.side
             o == Opposite(s)
             own == lots[t][s]
             opp == lots[t][o]
             price == f.price
             qty == f.qty
             r == MatchLots(opp, price, qty)
             m == Ledger!Matched(UnitPrices(opp), qty)
             h == HeldUnits(lots)
             h1 == HeldUnits(lots')
  <1>1. LotType
    BY DEF LotInv
  <1>2. /\ tape \in Seq(Fill) /\ f \in Fill
        /\ seen' = seen \cup {id} /\ id \notin seen
    BY <1>1 DEF LotType, RecordFill
  <1>3. /\ t \in Tickers /\ s \in Side /\ price \in Prices
        /\ qty \in Nat /\ qty \in 1..MaxQty
    <2>1. f.qty \in 1..MaxQty
      BY <1>2 DEF Fill
    <2> QED BY <1>2, <2>1, FillInts
  <1>4. id \in 1..MaxTrades
    BY <1>2, LotConstants DEF TapeBounded
  <1>5. o \in Side /\ o # s /\ Side = {s, o}
    BY <1>3, OppositeSide
  <1>6. own \in Seq(Lot) /\ opp \in Seq(Lot)
    <2> HIDE DEF t, s, o
    <2> QED BY <1>1, <1>3, <1>5 DEF LotType
  <1>7. /\ lots'[t][o] = r.kept
        /\ lots'[t][s] = PushLot(own, price, r.remaining)
        /\ \A u \in Tickers \ {t} : lots'[u] = lots[u]
    BY <1>1, RecordFillEffect
  <1>8. net' = [net EXCEPT ![t] = IF s = "yes" THEN @ + qty ELSE @ - qty]
    BY DEF RecordFill
  <1>9. /\ UnitPrices(r.kept)
             = SubSeq(UnitPrices(opp), m + 1, Len(UnitPrices(opp)))
        /\ UnitPrices(PushLot(own, price, r.remaining))
             = UnitPrices(own) \o Ledger!Repeat(price, qty - m)
    <2> HIDE DEF own, opp, price, qty
    <2> QED BY <1>3, <1>6, BookedUnits
  <1> HIDE DEF f, t, s, o, own, opp, price, qty, r, m
  <1>10. h[t][s] = UnitPrices(own) /\ h[t][o] = UnitPrices(opp)
    BY <1>3, <1>5 DEF HeldUnits, own, opp
  <1>11. /\ h1[t][s] = UnitPrices(own) \o Ledger!Repeat(price, qty - m)
         /\ h1[t][o] = SubSeq(UnitPrices(opp), m + 1, Len(UnitPrices(opp)))
    <2>1. h1[t][s] = UnitPrices(lots'[t][s]) /\ h1[t][o] = UnitPrices(lots'[t][o])
      BY <1>3, <1>5 DEF HeldUnits
    <2> QED BY <1>7, <1>9, <2>1, Zenon
  <1>12. Ledger!Opposite(s) = o /\ Ledger!Side = Side
    BY DEF Ledger!Opposite, Opposite, Ledger!Side, Side, o
  <1>13. h1[t] = Ledger!Booked(h[t], s, price, qty)
    <2>1. Ledger!Booked(h[t], s, price, qty)
            = [x \in Side |->
                 IF x = s THEN h[t][s] \o Ledger!Repeat(price, qty - m)
                 ELSE SubSeq(h[t][o], m + 1, Len(h[t][o]))]
      BY <1>10, <1>12, Zenon DEF Ledger!Booked, m
    <2>2. h1[t] = [x \in Side |-> h1[t][x]]
      BY <1>3 DEF HeldUnits
    <2> HIDE DEF h, h1
    <2>3. ASSUME NEW x \in Side
          PROVE  h1[t][x] = IF x = s
                            THEN h[t][s] \o Ledger!Repeat(price, qty - m)
                            ELSE SubSeq(h[t][o], m + 1, Len(h[t][o]))
      <3>1. CASE x = s
        BY <1>10, <1>11, <3>1, Zenon
      <3>2. CASE x # s
        <4>1. x = o
          BY <1>5, <3>2
        <4> QED BY <1>10, <1>11, <3>2, <4>1, Zenon
      <3> QED BY <3>1, <3>2
    <2> QED BY <2>1, <2>2, <2>3, Zenon
  <1>14. h1 = [h EXCEPT ![t] = Ledger!Booked(h[t], s, price, qty)]
    <2>1. \A u \in Tickers \ {t} : h1[u] = h[u]
      BY <1>7 DEF HeldUnits
    <2>2. h = [u \in Tickers |-> h[u]] /\ h1 = [u \in Tickers |-> h1[u]]
      BY DEF HeldUnits
    <2> HIDE DEF h, h1
    <2> QED BY <1>3, <1>13, <2>1, <2>2
  <1>15. Ledger!RecordFill(id, t, s, price, qty)
    BY <1>2, <1>8, <1>14 DEF Ledger!RecordFill, HeldUnits
  <1> QED BY <1>3, <1>4, <1>12, <1>15 DEF Ledger!Next

\* Every step maps to a step or to none.
LEMMA RefinesStep ==
  LotInv /\ TapeBounded /\ [Next]_vars => [Ledger!Next]_(Ledger!ledgerVars)
  <1> SUFFICES ASSUME LotInv, TapeBounded, [Next]_vars
               PROVE  [Ledger!Next]_(Ledger!ledgerVars)
    OBVIOUS
  <1>1. CASE lots' = lots /\ net' = net /\ seen' = seen
    BY <1>1 DEF Ledger!ledgerVars
  <1>2. CASE \E id \in DOMAIN tape : RecordFill(id)
    BY <1>2, RefinesFill
  <1> QED BY <1>1, <1>2 DEF Next, Execute, RecordDuplicate, vars

\* The lots and the matching loop of record_fill implement the ledger of unit
\* contracts, first in, first out and each fill once, for any markets, prices,
\* fees, fill sizes and number of trades.
THEOREM LotsImplementLedger == Spec => ImplementsLedger
  <1>1. Init => TapeBounded
    BY LotConstants DEF Init, TapeBounded
  <1> QED BY <1>1, LotInvariance, TapeStep, RefinesInit, RefinesStep, PTL
          DEF Spec, ImplementsLedger, Ledger!Spec

-----------------------------------------------------------------------------
(* The unit ledger itself.  OneSided and NetMatchesHeld are not inductive  *)
(* alone: a fill is matched against one queue and pushed on the other, so  *)
(* what remains is one-sided only if the ledger was.                       *)

Queues == [Side -> Seq(Prices)]

\* The part of a fill that is matched is bounded by the fill and the queue.
LEMMA MatchedBounds ==
  ASSUME NEW queue \in Seq(Prices), NEW qty \in 1..MaxQty
  PROVE  /\ Ledger!Matched(queue, qty) \in Nat
         /\ Ledger!Matched(queue, qty) <= qty
         /\ Ledger!Matched(queue, qty) <= Len(queue)
         /\ \/ Ledger!Matched(queue, qty) = qty
            \/ Ledger!Matched(queue, qty) = Len(queue)
  BY LedgerConstants DEF Ledger!Matched

\* What Booked makes of a market's two queues: types and lengths.
LEMMA BookedQueues ==
  ASSUME NEW h \in Queues, NEW s \in Side, NEW price \in Prices,
         NEW qty \in 1..MaxQty
  PROVE  LET m == Ledger!Matched(h[Opposite(s)], qty)
             b == Ledger!Booked(h, s, price, qty)
         IN /\ b \in Queues
            /\ Len(b[s]) = Len(h[s]) + qty - m
            /\ Len(b[Opposite(s)]) = Len(h[Opposite(s)]) - m
  <1> DEFINE o == Opposite(s)
             opp == h[o]
             m == Ledger!Matched(opp, qty)
             b == Ledger!Booked(h, s, price, qty)
             rest == Drop(opp, m)
             rep == Units(price, qty - m)
  <1>1. o \in Side /\ o # s
    BY OppositeSide
  <1>2. opp \in Seq(Prices) /\ h[s] \in Seq(Prices)
    BY <1>1 DEF Queues
  <1>3. m \in Nat /\ m <= qty /\ m <= Len(opp)
    BY <1>2, MatchedBounds
  <1>4. qty - m \in Nat /\ qty \in Nat
    BY <1>3, LedgerConstants
  <1>5. rest \in Seq(Prices) /\ Len(rest) = Len(opp) - m
    <2> HIDE DEF m, opp
    <2> QED BY <1>2, <1>3 DEF Drop
  <1>6. rep \in Seq(Prices) /\ Len(rep) = qty - m
    <2> HIDE DEF m
    <2> QED BY <1>4 DEF Units
  <1>7. b = [x \in Side |-> IF x = s THEN h[s] \o rep ELSE rest]
    <2>1. Ledger!Opposite(s) = o /\ Ledger!Side = Side
      BY DEF Ledger!Opposite, Opposite, Ledger!Side, Side
    <2> QED BY <2>1, Zenon DEF Ledger!Booked, Ledger!Repeat, Units, Drop
  <1> HIDE DEF rest, rep, m, b
  <1>8. h[s] \o rep \in Seq(Prices) /\ Len(h[s] \o rep) = Len(h[s]) + (qty - m)
    BY <1>2, <1>6
  <1>9. b \in Queues /\ b[s] = h[s] \o rep /\ b[o] = rest
    BY <1>1, <1>5, <1>7, <1>8 DEF Queues
  <1>10. Len(h[s]) \in Nat
    BY <1>2
  <1>11. Len(b[s]) = Len(h[s]) + qty - m /\ Len(b[o]) = Len(opp) - m
    BY <1>3, <1>4, <1>5, <1>8, <1>9, <1>10
  <1> QED BY <1>9, <1>11 DEF m, b

\* One market of the unit ledger: its position, and at most one side.
UnitSound(h, n) ==
  /\ n = Len(h["yes"]) - Len(h["no"])
  /\ h["yes"] = << >> \/ h["no"] = << >>

\* A fill of any size keeps a market sound.
LEMMA BookedSound ==
  ASSUME NEW h \in Queues, NEW n \in Int, UnitSound(h, n), NEW s \in Side,
         NEW price \in Prices, NEW qty \in 1..MaxQty
  PROVE  UnitSound(Ledger!Booked(h, s, price, qty),
                   IF s = "yes" THEN n + qty ELSE n - qty)
  <1> DEFINE o == Opposite(s)
             m == Ledger!Matched(h[o], qty)
             b == Ledger!Booked(h, s, price, qty)
             n1 == IF s = "yes" THEN n + qty ELSE n - qty
  <1>1. o \in Side /\ o # s /\ Side = {s, o} /\ qty \in Nat
    BY OppositeSide, LedgerConstants
  <1>2. /\ b \in Queues
        /\ Len(b[s]) = Len(h[s]) + qty - m
        /\ Len(b[o]) = Len(h[o]) - m
    BY BookedQueues
  <1>3. /\ h[s] \in Seq(Prices) /\ h[o] \in Seq(Prices)
        /\ b[s] \in Seq(Prices) /\ b[o] \in Seq(Prices)
    <2> HIDE DEF b, o
    <2> QED BY <1>1, <1>2 DEF Queues
  <1>4. m \in Nat /\ (m = qty \/ m = Len(h[o])) /\ m <= qty
    BY <1>3, MatchedBounds
  <1> HIDE DEF b, m
  <1>5. /\ Len(h[s]) \in Nat /\ Len(h[o]) \in Nat
        /\ Len(b[s]) \in Nat /\ Len(b[o]) \in Nat
    BY <1>3
  <1>6. (s = "yes" /\ o = "no") \/ (s = "no" /\ o = "yes")
    BY DEF Side, Opposite
  <1> HIDE DEF o
  <1>7. Len(h[s]) = 0 \/ Len(h[o]) = 0
    BY <1>3, <1>6 DEF UnitSound
  <1>8. Len(b[s]) = 0 \/ Len(b[o]) = 0
    BY <1>1, <1>2, <1>4, <1>5, <1>7
  <1>9. b[s] = << >> \/ b[o] = << >>
    BY <1>3, <1>8
  <1>10. b["yes"] = << >> \/ b["no"] = << >>
    BY <1>6, <1>9
  <1>11. n = Len(h["yes"]) - Len(h["no"])
    BY DEF UnitSound
  <1>12. n1 = Len(b["yes"]) - Len(b["no"])
    <2>1. CASE s = "yes" /\ o = "no"
      BY <2>1, <1>1, <1>2, <1>4, <1>5, <1>11
    <2>2. CASE s = "no" /\ o = "yes"
      BY <2>2, <1>1, <1>2, <1>4, <1>5, <1>11
    <2> QED BY <1>6, <2>1, <2>2
  <1> QED BY <1>10, <1>12 DEF UnitSound, b

\* The inductive invariant of the unit ledger: types, and every market sound.
UnitInv(h, n, keys) ==
  /\ h \in [Tickers -> Queues] /\ n \in [Tickers -> Int]
  /\ keys \subseteq 1..MaxTrades
  /\ \A t \in Tickers : UnitSound(h[t], n[t])

\* What the ledger's own invariants say is what UnitInv says.
LEMMA UnitInvMeans ==
  /\ UnitInv(HeldUnits(lots), net, seen) => Ledger!TypeOK
  /\ UnitInv(HeldUnits(lots), net, seen) => Ledger!OneSided /\ Ledger!NetMatchesHeld
  <1> SUFFICES ASSUME UnitInv(HeldUnits(lots), net, seen)
               PROVE  Ledger!TypeOK /\ Ledger!OneSided /\ Ledger!NetMatchesHeld
    OBVIOUS
  <1> DEFINE h == HeldUnits(lots)
  <1>1. /\ h \in [Tickers -> [Side -> Seq(Prices)]] /\ Ledger!Side = Side
        /\ net \in [Tickers -> Int] /\ seen \subseteq 1..MaxTrades
    BY DEF UnitInv, Queues, Ledger!Side, Side
  <1>2. Ledger!TypeOK
    BY <1>1 DEF Ledger!TypeOK, HeldUnits
  <1>3. \A t \in Tickers : UnitSound(h[t], net[t])
    BY DEF UnitInv
  <1>4. \A t \in Tickers : h[t]["yes"] = << >> \/ h[t]["no"] = << >>
    BY <1>3 DEF UnitSound
  <1>5. \A t \in Tickers : net[t] = Len(h[t]["yes"]) - Len(h[t]["no"])
    BY <1>3 DEF UnitSound
  <1>6. Ledger!OneSided
    BY <1>4 DEF Ledger!OneSided, HeldUnits
  <1>7. Ledger!NetMatchesHeld
    BY <1>5 DEF Ledger!NetMatchesHeld, HeldUnits
  <1> QED BY <1>2, <1>6, <1>7

\* Init and every step of the ledger keep UnitInv.
LEMMA UnitInvInit == Ledger!Init => UnitInv(HeldUnits(lots), net, seen)
  <1> SUFFICES ASSUME Ledger!Init PROVE UnitInv(HeldUnits(lots), net, seen)
    OBVIOUS
  <1> DEFINE h == HeldUnits(lots)
  <1>1. /\ h = [t \in Tickers |-> [s \in Side |-> << >>]]
        /\ net = [t \in Tickers |-> 0] /\ seen = {}
    BY DEF Ledger!Init, Ledger!Side, Side, HeldUnits
  <1> HIDE DEF h
  <1> QED BY <1>1 DEF UnitInv, UnitSound, Queues, Side, h

LEMMA UnitInvStep ==
  UnitInv(HeldUnits(lots), net, seen) /\ [Ledger!Next]_(Ledger!ledgerVars)
    => UnitInv(HeldUnits(lots), net, seen)'
  <1> DEFINE h == HeldUnits(lots)
             h1 == HeldUnits(lots')
  <1> SUFFICES ASSUME UnitInv(h, net, seen), [Ledger!Next]_(Ledger!ledgerVars)
               PROVE  UnitInv(h1, net', seen')
    OBVIOUS
  <1>1. CASE h1 = h /\ net' = net /\ seen' = seen
    <2> HIDE DEF h, h1
    <2> QED BY <1>1, Zenon
  <1>2. ASSUME NEW k \in 1..MaxTrades, NEW t \in Tickers, NEW s \in Side,
               NEW price \in Prices, NEW qty \in 1..MaxQty,
               Ledger!RecordFill(k, t, s, price, qty)
        PROVE  UnitInv(h1, net', seen')
    <2> DEFINE b == Ledger!Booked(h[t], s, price, qty)
               n == IF s = "yes" THEN net[t] + qty ELSE net[t] - qty
    <2>1. /\ h1 = [h EXCEPT ![t] = b] /\ net' = [net EXCEPT ![t] = n]
          /\ seen' = seen \cup {k}
      BY <1>2 DEF Ledger!RecordFill, HeldUnits
    <2> HIDE DEF h, h1
    <2>2. /\ h \in [Tickers -> Queues] /\ net \in [Tickers -> Int]
          /\ seen \subseteq 1..MaxTrades
          /\ \A u \in Tickers : UnitSound(h[u], net[u])
      BY DEF UnitInv
    <2>3. h[t] \in Queues /\ net[t] \in Int /\ UnitSound(h[t], net[t])
          /\ qty \in Nat
      BY <2>2, LedgerConstants
    <2>4. b \in Queues
      BY <2>3, BookedQueues
    <2>5. UnitSound(b, n)
      BY <2>3, BookedSound
    <2>6. n \in Int
      BY <2>3
    <2> HIDE DEF b, n
    <2> QED BY <2>1, <2>2, <2>4, <2>5, <2>6 DEF UnitInv
  <1>3. Ledger!Side = Side
    BY DEF Ledger!Side, Side
  <1> QED BY <1>1, <1>2, <1>3 DEF Ledger!Next, Ledger!ledgerVars, HeldUnits

\* Type correctness of held, net and seen (yes_lots_, no_lots_, net_position_
\* and seen_fills_): of the unit ledger, and so of the lots.
THEOREM LedgerTypeCorrect ==
  /\ Ledger!Spec => []Ledger!TypeOK
  /\ Spec => []Ledger!TypeOK
  <1>1. Ledger!Spec => []Ledger!TypeOK
    BY UnitInvInit, UnitInvStep, UnitInvMeans, PTL DEF Ledger!Spec
  <1> QED BY <1>1, LotsImplementLedger, PTL DEF ImplementsLedger

\* exposure_decomposition may value the dominant side only, and the position
\* that quoting and risk use is the position profit is computed from: after
\* any sequence of fills, of any size and at any price, in the unit ledger
\* and, since the lots implement it, in record_fill.
THEOREM LedgerSafe ==
  /\ Ledger!Spec => [](Ledger!OneSided /\ Ledger!NetMatchesHeld)
  /\ Spec => [](Ledger!OneSided /\ Ledger!NetMatchesHeld)
  <1>1. Ledger!Spec => [](Ledger!OneSided /\ Ledger!NetMatchesHeld)
    BY UnitInvInit, UnitInvStep, UnitInvMeans, PTL DEF Ledger!Spec
  <1> QED BY <1>1, LotsImplementLedger, PTL DEF ImplementsLedger
=============================================================================
