-------------------------- MODULE SessionPnlProofs --------------------------
(***************************************************************************)
(* The money of a session, for every set of markets, fills, marks and      *)
(* limits, any number of fills and of processes: the P&L carried from      *)
(* process to process is exact, a realized loss halts the session, and the *)
(* drawdown kill-switch, which sees the realized and the marked P&L of the *)
(* tracked markets, measures the fall of the equity counted from cash.     *)
(*                                                                         *)
(* The core is one market's books (MarketSound): what it realized is the   *)
(* cash it took in, the cost of what it still holds and 100 cents for each *)
(* pair, and it holds one side only.  A fill keeps that (FillKeeps), and   *)
(* with every position marked it makes the two ways to count agree         *)
(* (TotalIsEquity).                                                        *)
(***************************************************************************)
EXTENDS SessionPnl, SumTheorems

-----------------------------------------------------------------------------
(* Sums over sequences.                                                    *)

SumTo(f, n) == SumFunctionOnSet(f, 1..n)

(* A sum over 1..n is a number, and grows by one element.                  *)
LEMMA SumToZero ==
    ASSUME NEW f
    PROVE  SumTo(f, 0) = 0
<1>1. 1..0 = {}
    OBVIOUS
<1> QED BY <1>1, SumEmpty, Zenon DEF SumTo

LEMMA SumToInt ==
    ASSUME NEW f, NEW n \in Nat, \A i \in 1..n : f[i] \in Int
    PROVE  SumTo(f, n) \in Int
<1>1. IsFiniteSet(1..n)
    BY FS_Interval
<1> QED BY <1>1, SumInt DEF SumTo

LEMMA SumToNext ==
    ASSUME NEW f, NEW n \in Nat, \A i \in 1..(n + 1) : f[i] \in Int
    PROVE  SumTo(f, n + 1) = SumTo(f, n) + f[n + 1]
<1> DEFINE S == 1..n
           y == n + 1
<1>1. IsFiniteSet(S) /\ y \notin S /\ 1..(n + 1) = S \cup {y}
    BY FS_Interval
<1>2. \A x \in S \cup {y} : f[x] \in Int
    BY <1>1
<1>3. SumFunctionOnSet(f, S \cup {y}) = SumFunctionOnSet(f, S) + f[y]
    <2> HIDE DEF S, y
    <2> QED BY <1>1, <1>2, SumAdd
<1> QED BY <1>1, <1>3, Zenon DEF SumTo

(* Sequences that agree have the same sum.                                 *)
LEMMA SumToEqual ==
    ASSUME NEW f, NEW g, NEW n \in Nat, \A i \in 1..n : f[i] = g[i]
    PROVE  SumTo(f, n) = SumTo(g, n)
<1>1. IsFiniteSet(1..n)
    BY FS_Interval
<1> QED BY <1>1, SumEqual DEF SumTo

(* The sum of a part: k elements after the first m.                        *)
LEMMA SumShift ==
    ASSUME NEW f, NEW g, NEW m \in Nat, NEW k \in Nat,
           \A i \in 1..(m + k) : f[i] \in Int,
           \A i \in 1..k : g[i] = f[m + i]
    PROVE  SumTo(g, k) = SumTo(f, m + k) - SumTo(f, m)
<1> DEFINE Shifted(j) == SumTo(g, j) = SumTo(f, m + j) - SumTo(f, m)
           I == {j \in Nat : j <= k => Shifted(j)}
<1>1. \A j \in Nat : j <= k => SumTo(f, m + j) \in Int /\ SumTo(g, j) \in Int
    <2> SUFFICES ASSUME NEW j \in Nat, j <= k
                 PROVE  SumTo(f, m + j) \in Int /\ SumTo(g, j) \in Int
        OBVIOUS
    <2>1. m + j \in Nat /\ \A i \in 1..(m + j) : f[i] \in Int
        OBVIOUS
    <2>2. \A i \in 1..j : g[i] \in Int
        <3>1. \A i \in 1..j : i \in 1..k /\ m + i \in 1..(m + k)
            OBVIOUS
        <3> QED BY <3>1
    <2> QED BY <2>1, <2>2, SumToInt
<1>2. 0 \in I
    <2>1. SumTo(g, 0) = 0 /\ m + 0 = m /\ SumTo(f, m) \in Int
        BY <1>1, SumToZero
    <2> QED BY <2>1
<1>3. \A j \in Nat : j \in I => j + 1 \in I
    <2> SUFFICES ASSUME NEW j \in Nat, Shifted(j), j + 1 <= k
                 PROVE  Shifted(j + 1)
        OBVIOUS
    <2>1. SumTo(g, j + 1) = SumTo(g, j) + g[j + 1]
        <3>1. \A i \in 1..(j + 1) : i \in 1..k /\ m + i \in 1..(m + k)
            OBVIOUS
        <3>2. \A i \in 1..(j + 1) : g[i] \in Int
            BY <3>1
        <3> QED BY <3>2, SumToNext
    <2>2. SumTo(f, (m + j) + 1) = SumTo(f, m + j) + f[(m + j) + 1]
        <3>1. m + j \in Nat /\ \A i \in 1..((m + j) + 1) : f[i] \in Int
            OBVIOUS
        <3> QED BY <3>1, SumToNext
    <2>3. g[j + 1] = f[(m + j) + 1] /\ f[(m + j) + 1] \in Int
        <3>1. j + 1 \in 1..k /\ m + (j + 1) = (m + j) + 1
              /\ (m + j) + 1 \in 1..(m + k)
            OBVIOUS
        <3> QED BY <3>1
    <2>4. SumTo(f, m + (j + 1)) = SumTo(f, (m + j) + 1)
        <3>1. m + (j + 1) = (m + j) + 1
            OBVIOUS
        <3> QED BY <3>1, Zenon
    <2>5. SumTo(f, m) \in Int /\ SumTo(f, m + j) \in Int /\ SumTo(g, j) \in Int
        <3>1. m + 0 = m /\ 0 <= k /\ j <= k
            OBVIOUS
        <3> QED BY <1>1, <3>1
    <2> QED BY <2>1, <2>2, <2>3, <2>4, <2>5
<1> HIDE DEF I
<1>4. k \in I
    BY <1>2, <1>3, NatSetInduction
<1> QED BY <1>4 DEF I

(* n times the same, and the difference from a constant.                   *)
LEMMA SumConst ==
    ASSUME NEW f, NEW n \in Nat, NEW c \in Int, \A i \in 1..n : f[i] = c
    PROVE  SumTo(f, n) = c * n
<1> DEFINE I == {j \in Nat : j <= n => SumTo(f, j) = c * j}
<1>1. 0 \in I
    BY SumToZero
<1>2. \A j \in Nat : j \in I => j + 1 \in I
    <2> SUFFICES ASSUME NEW j \in Nat, SumTo(f, j) = c * j, j + 1 <= n
                 PROVE  SumTo(f, j + 1) = c * (j + 1)
        OBVIOUS
    <2>1. \A i \in 1..(j + 1) : f[i] \in Int
        OBVIOUS
    <2>2. SumTo(f, j + 1) = SumTo(f, j) + f[j + 1]
        BY <2>1, SumToNext
    <2>3. f[j + 1] = c
        OBVIOUS
    <2>4. c * (j + 1) = c * j + c
        OBVIOUS
    <2> QED BY <2>2, <2>3, <2>4
<1> HIDE DEF I
<1>3. n \in I
    BY <1>1, <1>2, NatSetInduction
<1> QED BY <1>3 DEF I

LEMMA SumAffine ==
    ASSUME NEW f, NEW g, NEW n \in Nat, NEW c \in Int,
           \A i \in 1..n : g[i] \in Int /\ f[i] = c - g[i]
    PROVE  SumTo(f, n) = c * n - SumTo(g, n)
<1> DEFINE one == [i \in 1..n |-> 1]
<1>1. IsFiniteSet(1..n)
    BY FS_Interval
<1>2. \A i \in 1..n : one[i] \in Int /\ g[i] \in Int /\ f[i] = c * one[i] - g[i]
    OBVIOUS
<1>3. \A i \in 1..n : one[i] = 1
    OBVIOUS
<1> HIDE DEF one
<1>4. SumTo(f, n) = c * SumTo(one, n) - SumTo(g, n)
    BY <1>1, <1>2, SumLinear DEF SumTo
<1>5. SumTo(one, n) = 1 * n /\ 1 * n = n
    BY <1>3, SumConst
<1> QED BY <1>4, <1>5, Zenon

(* SumFunction of a sequence is the sum to its length.                     *)
LEMMA SumOfSeq ==
    ASSUME NEW q \in Seq(Int)
    PROVE  /\ Len(q) \in Nat /\ DOMAIN q = 1..Len(q)
           /\ \A i \in 1..Len(q) : q[i] \in Int
           /\ SumFunction(q) = SumTo(q, Len(q))
           /\ SumFunction(q) \in Int
<1>1. /\ Len(q) \in Nat /\ DOMAIN q = 1..Len(q)
      /\ \A i \in 1..Len(q) : q[i] \in Int
    OBVIOUS
<1>2. SumFunction(q) = SumTo(q, Len(q))
    BY <1>1, Zenon DEF SumFunction, SumTo
<1> QED BY <1>1, <1>2, SumToInt

(* What is left of a queue after its oldest m contracts.                   *)
LEMMA SumRest ==
    ASSUME NEW q \in Seq(Int), NEW m \in 0..Len(q)
    PROVE  /\ SubSeq(q, m + 1, Len(q)) \in Seq(Int)
           /\ Len(SubSeq(q, m + 1, Len(q))) = Len(q) - m
           /\ SumTo(q, m) \in Int
           /\ SumFunction(SubSeq(q, m + 1, Len(q))) = SumFunction(q) - SumTo(q, m)
<1> DEFINE r == SubSeq(q, m + 1, Len(q))
           k == Len(q) - m
<1>1. r \in Seq(Int) /\ Len(r) = k /\ k \in Nat /\ m \in Nat /\ m + k = Len(q)
    OBVIOUS
<1>2. \A i \in 1..k : r[i] = q[m + i]
    OBVIOUS
<1>3. \A i \in 1..(m + k) : q[i] \in Int
    <2> HIDE DEF k
    <2> QED BY <1>1, SumOfSeq
<1> HIDE DEF r, k
<1>4. SumTo(r, k) = SumTo(q, m + k) - SumTo(q, m)
    BY <1>1, <1>2, <1>3, SumShift
<1>5. SumFunction(r) = SumTo(r, k) /\ SumFunction(q) = SumTo(q, m + k)
    BY <1>1, SumOfSeq
<1>6. SumTo(q, m) \in Int
    <2>1. \A i \in 1..m : q[i] \in Int
        BY <1>1, <1>3
    <2> QED BY <1>1, <2>1, SumToInt
<1>7. SumFunction(r) = SumFunction(q) - SumTo(q, m)
    BY <1>4, <1>5, Zenon
<1> QED BY <1>1, <1>6, <1>7 DEF r, k

(* A queue with k more contracts at one price.                             *)
LEMMA SumPushed ==
    ASSUME NEW q \in Seq(Int), NEW p \in Int, NEW k \in Nat
    PROVE  /\ q \o [i \in 1..k |-> p] \in Seq(Int)
           /\ Len(q \o [i \in 1..k |-> p]) = Len(q) + k
           /\ SumFunction(q \o [i \in 1..k |-> p]) = SumFunction(q) + p * k
<1> DEFINE rep == [i \in 1..k |-> p]
           r == q \o rep
           m == Len(q)
<1>1. rep \in Seq(Int) /\ Len(rep) = k /\ \A i \in 1..k : rep[i] = p
    OBVIOUS
<1> HIDE DEF rep
<1>2. r \in Seq(Int) /\ Len(r) = m + k /\ m \in Nat
    BY <1>1
<1>3. \A i \in 1..k : rep[i] = r[m + i]
    BY <1>1
<1>4. \A i \in 1..m : r[i] = q[i]
    BY <1>1
<1> HIDE DEF r, m
<1>5. \A i \in 1..(m + k) : r[i] \in Int
    BY <1>2
<1>6. SumTo(rep, k) = SumTo(r, m + k) - SumTo(r, m)
    BY <1>2, <1>3, <1>5, SumShift
<1>7. SumTo(rep, k) = p * k
    BY <1>1, SumConst
<1>8. SumTo(r, m) = SumTo(q, m)
    BY <1>2, <1>4, SumToEqual
<1>9. /\ SumFunction(r) = SumTo(r, m + k) /\ SumFunction(q) = SumTo(q, m)
      /\ SumFunction(r) \in Int /\ SumFunction(q) \in Int
    BY <1>2, SumOfSeq DEF m
<1>10. SumFunction(r) = SumFunction(q) + p * k
    <2> DEFINE w == p * k
    <2>1. w = SumFunction(r) - SumFunction(q)
        BY <1>6, <1>7, <1>8, <1>9, Zenon
    <2>2. w \in Int
        OBVIOUS
    <2> HIDE DEF w
    <2>3. SumFunction(r) = SumFunction(q) + w
        BY <2>1, <2>2, <1>9
    <2> QED BY <2>3 DEF w
<1> QED BY <1>2, <1>10 DEF r, m, rep

-----------------------------------------------------------------------------
(* One market's books.                                                     *)

IsFill(f) == f.side \in Side /\ f.px \in Nat /\ f.qty \in Nat /\ f.fee \in Nat
Queues == [Side -> Seq(Int)]

(* Inventory on one side only, as many pairs on both sides, and the        *)
(* realized P&L as what was paid, the cost of what is held and 100 a pair. *)
MarketSound(q, b, c, p) ==
    /\ q["yes"] = <<>> \/ q["no"] = <<>>
    /\ b["yes"] - Len(q["yes"]) = b["no"] - Len(q["no"])
    /\ b["yes"] >= Len(q["yes"])
    /\ p = c + SumFunction(q["yes"]) + SumFunction(q["no"])
           + 100 * (b["yes"] - Len(q["yes"]))

(* What a fill matches is bounded by the fill and by the opposing queue.   *)
LEMMA MatchedBounds ==
    ASSUME NEW q \in Queues, NEW f, IsFill(f)
    PROVE  LET m == Matched(q, f)
               other == q[Opposite(f.side)]
           IN  /\ Opposite(f.side) \in Side /\ Opposite(f.side) # f.side
               /\ Side = {f.side, Opposite(f.side)}
               /\ other \in Seq(Int) /\ q[f.side] \in Seq(Int)
               /\ m \in 0..Len(other) /\ m \in Nat /\ m <= f.qty
               /\ m = f.qty \/ m = Len(other)
<1>1. Opposite(f.side) \in Side /\ Opposite(f.side) # f.side
      /\ Side = {f.side, Opposite(f.side)}
    BY DEF IsFill, Side, Opposite
<1> DEFINE other == q[Opposite(f.side)]
           n == Len(other)
           qty == f.qty
<1>2. other \in Seq(Int) /\ q[f.side] \in Seq(Int) /\ qty \in Nat
    BY <1>1 DEF Queues, IsFill
<1>3. n \in Nat
    BY <1>2
<1> HIDE DEF other, n, qty
<1>4. Matched(q, f) = Smaller(qty, n)
    BY DEF Matched, qty, n, other
<1>5. /\ Matched(q, f) \in 0..n /\ Matched(q, f) \in Nat /\ Matched(q, f) <= qty
      /\ Matched(q, f) = qty \/ Matched(q, f) = n
    BY <1>2, <1>3, <1>4 DEF Smaller
<1> QED BY <1>1, <1>2, <1>5 DEF other, n, qty

(* What record_fill makes of a market's queues: their types, lengths and   *)
(* cost.                                                                   *)
LEMMA FilledQueues ==
    ASSUME NEW q \in Queues, NEW f, IsFill(f)
    PROVE  LET m == Matched(q, f)
               o == Opposite(f.side)
               r == RecordFill(q, f)
           IN  /\ r \in Queues
               /\ Len(r[f.side]) = Len(q[f.side]) + (f.qty - m)
               /\ Len(r[o]) = Len(q[o]) - m
               /\ SumFunction(r[f.side]) = SumFunction(q[f.side]) + f.px * (f.qty - m)
               /\ SumTo(q[o], m) \in Int
               /\ SumFunction(r[o]) = SumFunction(q[o]) - SumTo(q[o], m)
<1> DEFINE m == Matched(q, f)
           s == f.side
           o == Opposite(s)
           r == RecordFill(q, f)
           qs == q[s]
           qo == q[o]
           px == f.px
           k == f.qty - m
           pushed == qs \o [i \in 1..k |-> px]
           rest == SubSeq(qo, m + 1, Len(qo))
<1>1. /\ s \in Side /\ o \in Side /\ o # s
      /\ qo \in Seq(Int) /\ qs \in Seq(Int) /\ m \in 0..Len(qo)
      /\ m \in Nat /\ m <= f.qty
    BY MatchedBounds DEF IsFill
<1>2. px \in Int /\ k \in Nat
    BY <1>1 DEF IsFill
<1>3. r = [x \in Side |-> IF x = s THEN pushed ELSE rest]
    BY Zenon DEF RecordFill
<1> HIDE DEF m, r, qs, qo, px, k
<1>4. pushed \in Seq(Int) /\ Len(pushed) = Len(qs) + k
      /\ SumFunction(pushed) = SumFunction(qs) + px * k
    BY <1>1, <1>2, SumPushed
<1>5. rest \in Seq(Int) /\ Len(rest) = Len(qo) - m /\ SumTo(qo, m) \in Int
      /\ SumFunction(rest) = SumFunction(qo) - SumTo(qo, m)
    BY <1>1, SumRest
<1> HIDE DEF pushed, rest
<1>6. r \in Queues /\ r[s] = pushed /\ r[o] = rest
    BY <1>1, <1>3, <1>4, <1>5 DEF Queues
<1> QED BY <1>4, <1>5, <1>6, Zenon DEF m, r, qs, qo, px, k

(* What it gains: 100 a pair, less what both contracts cost.               *)
LEMMA GainedIs ==
    ASSUME NEW q \in Queues, NEW f, IsFill(f)
    PROVE  Gained(q, f) = (100 - f.px) * Matched(q, f)
                          - SumTo(q[Opposite(f.side)], Matched(q, f)) - f.fee
<1> DEFINE m == Matched(q, f)
           qo == q[Opposite(f.side)]
           c == 100 - f.px
           g == [i \in 1..m |-> 100 - f.px - qo[i]]
<1>1. qo \in Seq(Int) /\ m \in 0..Len(qo) /\ m \in Nat
    BY MatchedBounds
<1>2. c \in Int
    BY DEF IsFill
<1> HIDE DEF m, qo, c
<1>3. \A i \in 1..m : qo[i] \in Int
    BY <1>1
<1>4. \A i \in 1..m : qo[i] \in Int /\ g[i] = c - qo[i]
    BY <1>3 DEF c
<1>5. DOMAIN g = 1..m
    OBVIOUS
<1> HIDE DEF g
<1>6. SumTo(g, m) = c * m - SumTo(qo, m)
    BY <1>1, <1>2, <1>4, SumAffine
<1>7. SumFunction(g) = SumTo(g, m)
    BY <1>5, Zenon DEF SumFunction, SumTo
<1>8. Gained(q, f) = SumFunction(g) - f.fee
    BY Zenon DEF Gained, g, m, qo
<1> QED BY <1>6, <1>7, <1>8, Zenon DEF m, qo, c

(* The money of a fill: 100 for each pair it makes is realized, the price  *)
(* of what it leaves is inventory.                                         *)
LEMMA FillMoney ==
    ASSUME NEW p \in Int, NEW c \in Int, NEW own \in Int, NEW other \in Int,
           NEW pairs \in Int, NEW px \in Nat, NEW qty \in Nat, NEW m \in Nat,
           NEW fee \in Nat, NEW matched \in Int,
           p = c + own + other + 100 * pairs
    PROVE  p + ((100 - px) * m - matched - fee)
             = (c - px * qty - fee) + (own + px * (qty - m)) + (other - matched)
               + 100 * (pairs + m)
<1> DEFINE a == px * m
           b == px * qty
<1>1. (100 - px) * m = 100 * m - a
    OBVIOUS
<1>2. px * (qty - m) = b - a
    OBVIOUS
<1>3. a \in Int /\ b \in Int
    OBVIOUS
<1> HIDE DEF a, b
<1>4. p + ((100 * m - a) - matched - fee)
        = (c - b - fee) + (own + (b - a)) + (other - matched) + 100 * (pairs + m)
    BY <1>3
<1> QED BY <1>1, <1>2, <1>4, Zenon DEF b

(* The gain of a fill is a number.                                         *)
LEMMA GainedInt ==
    ASSUME NEW q \in Queues, NEW f, IsFill(f)
    PROVE  Gained(q, f) \in Int
<1> DEFINE m == Matched(q, f)
           w == SumTo(q[Opposite(f.side)], m)
           px == f.px
           fee == f.fee
           a == (100 - px) * m
<1>1. m \in Nat
    BY MatchedBounds
<1>2. w \in Int
    BY FilledQueues
<1>3. px \in Nat /\ fee \in Nat
    BY DEF IsFill
<1>4. a \in Int
    <2> HIDE DEF m, px
    <2> QED BY <1>1, <1>3
<1>5. Gained(q, f) = a - w - fee
    BY GainedIs
<1> HIDE DEF a, w, fee
<1> QED BY <1>2, <1>3, <1>4, <1>5

(* The same books seen from a side s and the other side o.                 *)
SoundFrom(s, o, q, b, c, p) ==
    /\ Len(q[s]) = 0 \/ Len(q[o]) = 0
    /\ b[s] - Len(q[s]) = b[o] - Len(q[o])
    /\ b[s] >= Len(q[s])
    /\ p = c + SumFunction(q[s]) + SumFunction(q[o]) + 100 * (b[s] - Len(q[s]))

LEMMA SoundIsSymmetric ==
    ASSUME NEW q \in Queues, NEW b \in [Side -> Nat], NEW c \in Int, NEW p,
           NEW s \in Side
    PROVE  MarketSound(q, b, c, p) <=> SoundFrom(s, Opposite(s), q, b, c, p)
<1> DEFINE ly == Len(q["yes"])
           ln == Len(q["no"])
           sy == SumFunction(q["yes"])
           sn == SumFunction(q["no"])
           by == b["yes"]
           bn == b["no"]
<1>1. q["yes"] \in Seq(Int) /\ q["no"] \in Seq(Int) /\ by \in Nat /\ bn \in Nat
    BY DEF Queues, Side
<1>2. /\ ly \in Nat /\ ln \in Nat /\ sy \in Int /\ sn \in Int
      /\ (q["yes"] = <<>>) <=> (ly = 0)
      /\ (q["no"] = <<>>) <=> (ln = 0)
    <2>1. /\ (q["yes"] = <<>>) <=> (ly = 0)
          /\ (q["no"] = <<>>) <=> (ln = 0)
        BY <1>1
    <2> QED BY <1>1, <2>1, SumOfSeq
<1>3. MarketSound(q, b, c, p)
        <=> /\ ly = 0 \/ ln = 0
            /\ by - ly = bn - ln /\ by >= ly
            /\ p = c + sy + sn + 100 * (by - ly)
    BY <1>2, Zenon DEF MarketSound
<1>4. CASE s = "yes"
    <2>1. SoundFrom(s, Opposite(s), q, b, c, p)
            <=> /\ ly = 0 \/ ln = 0
                /\ by - ly = bn - ln /\ by >= ly
                /\ p = c + sy + sn + 100 * (by - ly)
        BY <1>4 DEF SoundFrom, Opposite
    <2> QED BY <1>3, <2>1
<1>5. CASE s = "no"
    <2>1. SoundFrom(s, Opposite(s), q, b, c, p)
            <=> /\ ln = 0 \/ ly = 0
                /\ bn - ln = by - ly /\ bn >= ln
                /\ p = c + sn + sy + 100 * (bn - ln)
        BY <1>5 DEF SoundFrom, Opposite
    <2> HIDE DEF ly, ln, sy, sn, by, bn
    <2>2. ASSUME by - ly = bn - ln
          PROVE  /\ by >= ly <=> bn >= ln
                 /\ c + sy + sn + 100 * (by - ly) = c + sn + sy + 100 * (bn - ln)
        BY <1>1, <1>2, <2>2
    <2> QED BY <1>3, <2>1, <2>2, Zenon
<1> QED BY <1>4, <1>5 DEF Side

(* A fill of either side, any price and any size keeps the books sound.    *)
LEMMA FillKeeps ==
    ASSUME NEW q \in Queues, NEW b \in [Side -> Nat], NEW c \in Int, NEW p \in Int,
           NEW f, IsFill(f), MarketSound(q, b, c, p)
    PROVE  MarketSound(RecordFill(q, f), [b EXCEPT ![f.side] = @ + f.qty],
                       c - f.px * f.qty - f.fee, p + Gained(q, f))
<1> DEFINE s == f.side
           o == Opposite(s)
           r == RecordFill(q, f)
           b1 == [b EXCEPT ![f.side] = @ + f.qty]
           m == Matched(q, f)
           qty == f.qty
           px == f.px
           fee == f.fee
           gone == SumTo(q[o], m)
           worth == px * qty
           c1 == c - f.px * f.qty - f.fee
           p1 == p + Gained(q, f)
<1>1. /\ s \in Side /\ o \in Side /\ o # s /\ qty \in Nat /\ px \in Nat /\ fee \in Nat
      /\ m \in Nat /\ m <= qty
      /\ m = qty \/ m = Len(q[o])
    BY MatchedBounds DEF IsFill
<1>2. /\ r \in Queues
      /\ Len(r[s]) = Len(q[s]) + (qty - m)
      /\ Len(r[o]) = Len(q[o]) - m
      /\ SumFunction(r[s]) = SumFunction(q[s]) + px * (qty - m)
      /\ gone \in Int
      /\ SumFunction(r[o]) = SumFunction(q[o]) - gone
    BY FilledQueues
<1>3. Gained(q, f) = (100 - px) * m - gone - fee
    BY GainedIs
<1>4. b1 \in [Side -> Nat] /\ b1[s] = b[s] + qty /\ b1[o] = b[o]
      /\ b[s] \in Nat /\ b[o] \in Nat
    BY <1>1
<1>5. SoundFrom(s, o, q, b, c, p)
    BY <1>1, SoundIsSymmetric
<1> DEFINE ls == Len(q[s])
           lo == Len(q[o])
           ss == SumFunction(q[s])
           so == SumFunction(q[o])
           pairs == b[s] - ls
<1>6. ls \in Nat /\ lo \in Nat /\ ss \in Int /\ so \in Int
    <2>1. q[s] \in Seq(Int) /\ q[o] \in Seq(Int)
        BY <1>1 DEF Queues
    <2> HIDE DEF s, o
    <2> QED BY <2>1, SumOfSeq
<1>7. /\ ls = 0 \/ lo = 0
      /\ b[s] - ls = b[o] - lo /\ b[s] >= ls
      /\ p = c + ss + so + 100 * pairs
    BY <1>5 DEF SoundFrom
<1>8. c1 \in Int
    <2>1. worth \in Int
        BY <1>1
    <2>2. c1 = c - worth - fee
        OBVIOUS
    <2> HIDE DEF worth, fee, c1
    <2> QED BY <1>1, <2>1, <2>2
<1> HIDE DEF s, o, r, b1, m, qty, px, fee, gone, ls, lo, ss, so
<1>9. pairs \in Int
    BY <1>4, <1>6
<1>10. p + ((100 - px) * m - gone - fee)
         = (c - px * qty - fee) + (ss + px * (qty - m)) + (so - gone)
           + 100 * (pairs + m)
    <2> HIDE DEF pairs
    <2> QED BY <1>1, <1>2, <1>6, <1>7, <1>9, FillMoney
<1>11. b1[s] - Len(r[s]) = pairs + m
    <2>1. Len(r[s]) = ls + (qty - m)
        BY <1>2 DEF ls
    <2>2. b1[s] = b[s] + qty
        BY <1>4
    <2> QED BY <1>1, <1>4, <1>6, <2>1, <2>2
<1>12. p1 = c1 + SumFunction(r[s]) + SumFunction(r[o]) + 100 * (b1[s] - Len(r[s]))
    <2>1. p1 = p + ((100 - px) * m - gone - fee) /\ c1 = c - px * qty - fee
        BY <1>3 DEF px, qty, fee
    <2>2. SumFunction(r[s]) = ss + px * (qty - m) /\ SumFunction(r[o]) = so - gone
        BY <1>2 DEF ss, so
    <2> HIDE DEF p1, c1, pairs
    <2> QED BY <1>10, <1>11, <2>1, <2>2, Zenon
<1>13. /\ Len(r[s]) = 0 \/ Len(r[o]) = 0
       /\ b1[s] - Len(r[s]) = b1[o] - Len(r[o])
       /\ b1[s] >= Len(r[s])
    <2>1. /\ Len(r[s]) = ls + (qty - m) /\ Len(r[o]) = lo - m
          /\ b1[s] = b[s] + qty /\ b1[o] = b[o] /\ (m = qty \/ m = lo)
        BY <1>1, <1>2, <1>4 DEF ls, lo
    <2> DEFINE x == Len(r[s])
               y == Len(r[o])
               bs == b[s]
               bo == b[o]
    <2>2. /\ x = ls + (qty - m) /\ y = lo - m
          /\ bs \in Nat /\ bo \in Nat /\ bs - ls = bo - lo /\ bs >= ls
        BY <1>4, <1>7, <2>1
    <2> HIDE DEF x, y, bs, bo
    <2>3. lo >= m
        <3>1. r[o] \in Seq(Int)
            BY <1>1, <1>2 DEF Queues
        <3>2. y \in Nat
            BY <3>1 DEF y
        <3> QED BY <1>1, <1>6, <2>2, <3>2
    <2>4. x = 0 \/ y = 0
        <3>1. m = qty \/ m = lo
            BY <2>1
        <3>2. ls = 0 \/ lo = 0
            BY <1>7
        <3> QED BY <1>1, <1>6, <2>2, <2>3, <3>1, <3>2
    <2>5. (bs + qty) - x = bo - y /\ bs + qty >= x
        BY <1>1, <1>6, <2>2, <2>3
    <2> QED BY <2>1, <2>4, <2>5 DEF x, y, bs, bo
<1>14. SoundFrom(s, o, r, b1, c1, p1)
    BY <1>12, <1>13, Zenon DEF SoundFrom
<1>15. MarketSound(r, b1, c1, p1)
    <2>1. o = Opposite(s)
        BY DEF o
    <2> HIDE DEF c1, p1
    <2> QED BY <1>1, <1>2, <1>4, <1>8, <1>14, <2>1, SoundIsSymmetric
<1> QED BY <1>15 DEF r, b1

-----------------------------------------------------------------------------
(* The two ways to count agree.                                            *)

(* A queue's gain at a mark.                                               *)
LEMMA GainAtIs ==
    ASSUME NEW q \in Seq(Int), NEW mk \in Int
    PROVE  GainAt(q, mk) = mk * Len(q) - SumFunction(q)
<1> DEFINE n == Len(q)
           g == [i \in DOMAIN q |-> mk - q[i]]
<1>1. /\ n \in Nat /\ DOMAIN q = 1..n /\ SumFunction(q) = SumTo(q, n)
      /\ \A i \in 1..n : q[i] \in Int
    BY SumOfSeq
<1>2. DOMAIN g = 1..n /\ \A i \in 1..n : q[i] \in Int /\ g[i] = mk - q[i]
    BY <1>1
<1> HIDE DEF n, g
<1>3. SumTo(g, n) = mk * n - SumTo(q, n)
    BY <1>1, <1>2, SumAffine
<1>4. GainAt(q, mk) = SumTo(g, n)
    BY <1>2, Zenon DEF GainAt, SumFunction, SumTo, g
<1>5. GainAt(q, mk) = mk * n - SumFunction(q)
    <2>1. SumFunction(q) = SumTo(q, n)
        BY <1>1
    <2> QED BY <1>3, <1>4, <2>1, Zenon
<1> QED BY <1>5 DEF n

WorthOf(b, c, mk) ==
    LET pairs == Smaller(b["yes"], b["no"])
    IN  c + 100 * pairs + (b["yes"] - pairs) * mk + (b["no"] - pairs) * (100 - mk)

MarkedOf(q, p, mk) ==
    p + (IF mk > 0 THEN GainAt(q["yes"], mk) + GainAt(q["no"], 100 - mk) ELSE 0)

(* A market with a mark, or with nothing to mark, is worth its P&L: the    *)
(* realized part and the marked one.                                       *)
LEMMA MarkedIsWorth ==
    ASSUME NEW q \in Queues, NEW b \in [Side -> Nat], NEW c \in Int, NEW p,
           MarketSound(q, b, c, p), NEW mk \in 0..99,
           mk > 0 \/ Len(q["yes"]) - Len(q["no"]) = 0
    PROVE  MarkedOf(q, p, mk) = WorthOf(b, c, mk) /\ WorthOf(b, c, mk) \in Int
<1> DEFINE ly == Len(q["yes"])
           ln == Len(q["no"])
           sy == SumFunction(q["yes"])
           sn == SumFunction(q["no"])
           by == b["yes"]
           bn == b["no"]
           pairs == Smaller(by, bn)
           vy == mk * ly
           vn == (100 - mk) * ln
<1>1. q["yes"] \in Seq(Int) /\ q["no"] \in Seq(Int) /\ by \in Nat /\ bn \in Nat
    BY DEF Queues, Side
<1>2. /\ ly \in Nat /\ ln \in Nat /\ sy \in Int /\ sn \in Int
      /\ q["yes"] = <<>> => ly = 0
      /\ q["no"] = <<>> => ln = 0
    <2>1. /\ q["yes"] = <<>> => ly = 0
          /\ q["no"] = <<>> => ln = 0
        BY <1>1
    <2> QED BY <1>1, <2>1, SumOfSeq
<1>3. /\ ly = 0 \/ ln = 0
      /\ by - ly = bn - ln /\ by >= ly
      /\ p = c + sy + sn + 100 * (by - ly)
    BY <1>2 DEF MarketSound
<1>4. GainAt(q["yes"], mk) = vy - sy /\ GainAt(q["no"], 100 - mk) = vn - sn
    <2>1. mk \in Int /\ 100 - mk \in Int
        OBVIOUS
    <2> QED BY <1>1, <2>1, GainAtIs
<1> HIDE DEF ly, ln, sy, sn, by, bn
<1>5. /\ pairs = by - ly /\ by - pairs = ly /\ bn - pairs = ln /\ pairs \in Int
    BY <1>1, <1>2, <1>3 DEF Smaller
<1>6. vy \in Int /\ vn \in Int /\ vy = ly * mk /\ vn = ln * (100 - mk)
    BY <1>2
<1>7. WorthOf(b, c, mk) = c + 100 * pairs + vy + vn
    <2>1. WorthOf(b, c, mk)
            = c + 100 * pairs + (by - pairs) * mk + (bn - pairs) * (100 - mk)
        BY Zenon DEF WorthOf, by, bn
    <2> HIDE DEF pairs, vy, vn
    <2> QED BY <1>5, <1>6, <2>1, Zenon
<1>8. MarkedOf(q, p, mk) = p + (IF mk > 0 THEN (vy - sy) + (vn - sn) ELSE 0)
    <2> HIDE DEF vy, vn
    <2> QED BY <1>4, Zenon DEF MarkedOf
<1>9. CASE mk > 0
    <2> HIDE DEF pairs, vy, vn
    <2>1. p = c + sy + sn + 100 * pairs
        BY <1>3, <1>5
    <2>2. MarkedOf(q, p, mk) = p + ((vy - sy) + (vn - sn))
        BY <1>8, <1>9, Zenon
    <2>3. c + 100 * pairs + vy + vn \in Int
          /\ p + ((vy - sy) + (vn - sn)) = c + 100 * pairs + vy + vn
        <3>1. vy \in Int /\ vn \in Int
            BY <1>6
        <3>2. pairs \in Int
            BY <1>5
        <3> QED BY <1>2, <2>1, <3>1, <3>2
    <2> QED BY <1>7, <2>2, <2>3, Zenon
<1>10. CASE ~(mk > 0)
    <2>1. ly = 0 /\ ln = 0
        <3>1. ly - ln = 0
            BY <1>10 DEF ly, ln
        <3> QED BY <1>2, <1>3, <3>1
    <2>2. sy = 0 /\ sn = 0
        <3>1. SumTo(q["yes"], 0) = 0 /\ SumTo(q["no"], 0) = 0
            BY SumToZero
        <3>2. sy = SumTo(q["yes"], ly) /\ sn = SumTo(q["no"], ln)
            BY <1>1, SumOfSeq DEF sy, sn, ly, ln
        <3> QED BY <2>1, <3>1, <3>2, Zenon
    <2>3. vy = 0 /\ vn = 0
        BY <2>1
    <2> HIDE DEF pairs, vy, vn
    <2>4. p = c + sy + sn + 100 * pairs
        BY <1>3, <1>5
    <2> QED BY <1>5, <1>7, <1>8, <1>10, <2>2, <2>3, <2>4
<1> QED BY <1>9, <1>10

(* A sum of zeros.                                                         *)
LEMMA SumZero ==
    ASSUME NEW f, NEW S, IsFiniteSet(S), \A x \in S : f[x] = 0
    PROVE  SumFunctionOnSet(f, S) = 0
<1>1. SumFunctionOnSet(f, S) \in Int
    BY SumInt
<1>2. SumFunctionOnSet(f, S) = 1 * SumFunctionOnSet(f, S) - SumFunctionOnSet(f, S)
    <2>1. \A x \in S : f[x] \in Int /\ f[x] = 1 * f[x] - f[x]
        OBVIOUS
    <2>2. 1 \in Int
        OBVIOUS
    <2> QED BY <2>1, <2>2, SumLinear
<1> QED BY <1>1, <1>2

(* A sum that only some elements contribute to.                            *)
LEMMA SumWithin ==
    ASSUME NEW f, NEW S, NEW T, IsFiniteSet(S), T \subseteq S,
           \A x \in S : f[x] \in Int, \A x \in S \ T : f[x] = 0
    PROVE  SumFunctionOnSet(f, T) = SumFunctionOnSet(f, S)
<1> DEFINE R == S \ T
<1>1. IsFiniteSet(T) /\ IsFiniteSet(R) /\ T \cap R = {} /\ T \cup R = S
    BY FS_Subset
<1>2. \A x \in T \cup R : f[x] \in Int
    BY <1>1
<1>3. SumFunctionOnSet(f, R) = 0
    BY <1>1, SumZero
<1> HIDE DEF R
<1>4. SumFunctionOnSet(f, T \cup R) = SumFunctionOnSet(f, T) + SumFunctionOnSet(f, R)
    BY <1>1, <1>2, SumUnion
<1>5. SumFunctionOnSet(f, T) \in Int
    BY <1>1, <1>2, SumInt
<1>6. SumFunctionOnSet(f, T \cup R) = SumFunctionOnSet(f, S)
    BY <1>1, Zenon
<1> QED BY <1>3, <1>4, <1>5, <1>6

-----------------------------------------------------------------------------
(* The inductive invariant.                                                *)

Bits == {"PnLLimit", "OverExposure", "PortfolioLoss", "Drawdown", "StaleBook"}
Carried == UNION {[S -> Int] : S \in SUBSET Tickers}

PnlType ==
    /\ phase \in {"run", "stopping", "down"}
    /\ tracked \subseteq Tickers
    /\ lots \in [Tickers -> Queues]
    /\ pnl \in [Tickers -> Int]
    /\ mark \in [Tickers -> 0..99]
    /\ risk \in [constraints : SUBSET Bits, peak : Int]
    /\ prior \in Carried
    /\ file \in [whole : BOOLEAN, pnl : Carried] /\ behind \in BOOLEAN
    /\ earned \in [Tickers -> Int]
    /\ bought \in [Tickers -> [Side -> Nat]]
    /\ cash \in [Tickers -> Int]
    /\ worst \in [high : Int, fall : Int, distorted : BOOLEAN]

Sound == \A t \in Tickers : MarketSound(lots[t], bought[t], cash[t], pnl[t])

(* A market that is not tracked holds nothing, unless the shutdown         *)
(* flattened it, and no P&L unless it was dropped or flattened with it.    *)
Bare ==
    phase # "stopping"
        => \A t \in Tickers \ tracked : lots[t]["yes"] = <<>> /\ lots[t]["no"] = <<>>
Away == \A t \in Tickers \ tracked : t \in forgotten \/ pnl[t] = 0

(* A process that has ended has left its memory.                           *)
Gone ==
    phase = "down"
        => /\ tracked = {} /\ lots = Flat /\ pnl = Nothing /\ mark = Nothing
           /\ risk = [constraints |-> {}, peak |-> 0] /\ prior = NoPnl
           /\ bought = None /\ cash = Nothing
           /\ worst = [high |-> 0, fall |-> 0, distorted |-> FALSE]

(* The risk manager's high-water mark is that of the equity, and its bit   *)
(* tells the deepest fall.                                                 *)
Watching ==
    ~worst.distorted => /\ risk.peak = worst.high
                        /\ "Drawdown" \in risk.constraints <=> worst.fall > MaxDrawdown

PnlInv ==
    PnlType /\ Sound /\ Bare /\ Away /\ Gone /\ Watching /\ CarriedExact /\ LossHalts

(* The constants as the proofs use them.                                   *)
LEMMA PnlConstants ==
    /\ IsFiniteSet(Tickers) /\ LossLimit \in Int /\ LossLimit <= 0
    /\ MaxLoss \in Int /\ MaxDrawdown \in Nat /\ MaxExposure \in Nat
    /\ FlattenPrice \in Nat /\ MaxFills \in Nat
    /\ \A mid \in Marks : mid \in 0..99
    /\ \A f \in Fills : IsFill(f)
    BY PnlAssumption DEF IsFill

(* With every position marked and no P&L away, the portfolio snapshot is   *)
(* the equity.                                                             *)
LEMMA TotalIsEquity ==
    ASSUME PnlType, Sound, Bare, phase = "run",
           \A t \in tracked : NetPosition(t) = 0 \/ mark[t] # 0,
           \A t \in Tickers \ tracked : pnl[t] = 0
    PROVE  TotalPnl = Equity
<1> DEFINE F == [t \in Tickers |-> pnl[t] + (IF mark[t] > 0 THEN UnrealizedPnl(t) ELSE 0)]
           W == [t \in Tickers |-> Worth(t)]
<1>1. IsFiniteSet(Tickers) /\ IsFiniteSet(tracked) /\ tracked \subseteq Tickers
    BY PnlConstants, FS_Subset DEF PnlType
<1>2. ASSUME NEW t \in Tickers
      PROVE  /\ lots[t] \in Queues /\ bought[t] \in [Side -> Nat] /\ cash[t] \in Int
             /\ mark[t] \in 0..99 /\ MarketSound(lots[t], bought[t], cash[t], pnl[t])
    BY <1>2 DEF PnlType, Sound
<1>3. ASSUME NEW t \in Tickers
      PROVE  /\ F[t] = MarkedOf(lots[t], pnl[t], mark[t])
             /\ W[t] = WorthOf(bought[t], cash[t], mark[t])
    BY <1>3, Zenon DEF MarkedOf, WorthOf, UnrealizedPnl, Worth
<1>4. ASSUME NEW t \in tracked
      PROVE  F[t] = W[t] /\ W[t] \in Int
    <2>1. t \in Tickers
        BY <1>1
    <2>2. mark[t] > 0 \/ Len(lots[t]["yes"]) - Len(lots[t]["no"]) = 0
        <3>1. mark[t] \in 0..99
            BY <2>1, <1>2
        <3>2. CASE mark[t] # 0
            <4>1. mark[t] > 0
                BY <3>1, <3>2
            <4> QED BY <4>1
        <3>3. CASE NetPosition(t) = 0
            BY <3>3, Zenon DEF NetPosition
        <3> QED BY <3>2, <3>3
    <2>3. MarkedOf(lots[t], pnl[t], mark[t]) = WorthOf(bought[t], cash[t], mark[t])
          /\ WorthOf(bought[t], cash[t], mark[t]) \in Int
        <3>1. /\ lots[t] \in Queues /\ bought[t] \in [Side -> Nat] /\ cash[t] \in Int
              /\ mark[t] \in 0..99
              /\ MarketSound(lots[t], bought[t], cash[t], pnl[t])
            BY <2>1, <1>2
        <3> QED BY <2>2, <3>1, MarkedIsWorth, Zenon
    <2> HIDE DEF F, W
    <2> QED BY <2>1, <2>3, <1>3
<1>5. ASSUME NEW t \in Tickers \ tracked
      PROVE  W[t] = 0
    <2>1. lots[t]["yes"] = <<>> /\ lots[t]["no"] = <<>> /\ pnl[t] = 0
        BY DEF Bare
    <2>2. mark[t] > 0 \/ Len(lots[t]["yes"]) - Len(lots[t]["no"]) = 0
        BY <2>1
    <2>3. MarkedOf(lots[t], pnl[t], mark[t]) = WorthOf(bought[t], cash[t], mark[t])
          /\ WorthOf(bought[t], cash[t], mark[t]) \in Int
        <3>1. /\ lots[t] \in Queues /\ bought[t] \in [Side -> Nat] /\ cash[t] \in Int
              /\ mark[t] \in 0..99
              /\ MarketSound(lots[t], bought[t], cash[t], pnl[t])
            BY <1>2
        <3> QED BY <2>2, <3>1, MarkedIsWorth, Zenon
    <2>4. GainAt(<<>>, mark[t]) = 0 /\ GainAt(<<>>, 100 - mark[t]) = 0
        <3>1. <<>> \in Seq(Int) /\ Len(<<>>) = 0
            OBVIOUS
        <3>2. SumFunction(<<>>) = 0
            BY <3>1, SumOfSeq, SumToZero
        <3>3. mark[t] \in Int /\ 100 - mark[t] \in Int
            BY <1>2
        <3>4. GainAt(<<>>, mark[t]) = mark[t] * 0 - 0
              /\ GainAt(<<>>, 100 - mark[t]) = (100 - mark[t]) * 0 - 0
            BY <3>1, <3>2, <3>3, GainAtIs
        <3> QED BY <3>3, <3>4
    <2>5. MarkedOf(lots[t], pnl[t], mark[t]) = 0
        <3>1. MarkedOf(lots[t], pnl[t], mark[t])
                = 0 + (IF mark[t] > 0 THEN 0 + 0 ELSE 0)
            BY <2>1, <2>4, Zenon DEF MarkedOf
        <3> QED BY <3>1
    <2> HIDE DEF W
    <2> QED BY <1>3, <2>3, <2>5
<1> HIDE DEF F, W
<1>6. SumFunctionOnSet(F, tracked) = SumFunctionOnSet(W, tracked)
    BY <1>1, <1>4, SumEqual
<1>7. SumFunctionOnSet(W, tracked) = SumFunctionOnSet(W, Tickers)
    <2>1. \A t \in Tickers : W[t] \in Int
        BY <1>4, <1>5
    <2> QED BY <1>1, <1>5, <2>1, SumWithin
<1> QED BY <1>6, <1>7, Zenon DEF TotalPnl, Equity, F, W

-----------------------------------------------------------------------------
(* The carried P&L.                                                        *)

(* A carried map gives every market a number, 0 without an entry.          *)
LEMMA AtCarried ==
    ASSUME NEW map \in Carried
    PROVE  DOMAIN map \subseteq Tickers /\ \A t : At(map, t) \in Int
<1>1. PICK S \in SUBSET Tickers : map \in [S -> Int]
    BY DEF Carried
<1> QED BY <1>1 DEF At

LEMMA NoPnlCarried == NoPnl \in Carried /\ \A t : At(NoPnl, t) = 0
<1>1. DOMAIN NoPnl = {} /\ NoPnl \in [{} -> Int]
    BY DEF NoPnl
<1>2. {} \in SUBSET Tickers
    OBVIOUS
<1> QED BY <1>1, <1>2 DEF Carried, At

(* carried_totals adds the session's P&L of the tracked markets to what    *)
(* came before; a market it leaves out has nothing to carry.               *)
LEMMA CarriedTotalsAt ==
    ASSUME prior \in Carried, tracked \subseteq Tickers, NEW p \in [Tickers -> Int]
    PROVE  /\ CarriedTotals(p) \in Carried
           /\ \A t \in tracked : At(CarriedTotals(p), t) = At(prior, t) + p[t]
           /\ \A t \in Tickers \ tracked : At(CarriedTotals(p), t) = At(prior, t)
<1> DEFINE kept == DOMAIN prior \cup {t \in tracked : p[t] # 0}
           T == CarriedTotals(p)
<1>1. T = [t \in kept |-> IF t \in tracked THEN At(prior, t) + p[t] ELSE prior[t]]
    BY Zenon DEF CarriedTotals
<1>2. DOMAIN prior \subseteq Tickers /\ \A t : At(prior, t) \in Int
    BY AtCarried
<1>3. kept \in SUBSET Tickers
    BY <1>2
<1>4. \A t \in DOMAIN prior : At(prior, t) = prior[t]
    BY DEF At
<1>5. \A t : t \notin DOMAIN prior => At(prior, t) = 0
    BY DEF At
<1>6. \A t \in kept : t \notin tracked => t \in DOMAIN prior
    OBVIOUS
<1>7. \A t \in tracked : p[t] \in Int
    OBVIOUS
<1>8. T \in [kept -> Int]
    <2>1. \A t \in kept : (IF t \in tracked THEN At(prior, t) + p[t] ELSE prior[t]) \in Int
        <3> HIDE DEF kept
        <3> QED BY <1>2, <1>4, <1>6, <1>7
    <2> HIDE DEF kept, T
    <2> QED BY <1>1, <2>1
<1>9. T \in Carried
    <2> HIDE DEF kept, T
    <2> QED BY <1>3, <1>8 DEF Carried
<1>10. ASSUME NEW t \in tracked
       PROVE  At(T, t) = At(prior, t) + p[t]
    <2>1. CASE t \in kept
        <3> HIDE DEF kept
        <3>1. T[t] = At(prior, t) + p[t] /\ t \in DOMAIN T
            BY <1>1, <2>1
        <3> QED BY <3>1 DEF At
    <2>2. CASE t \notin kept
        <3>1. At(prior, t) = 0 /\ p[t] = 0
            BY <1>5, <2>2
        <3>2. DOMAIN T = kept
            BY <1>1
        <3>3. At(T, t) = 0
            <4> HIDE DEF T, kept
            <4> QED BY <2>2, <3>2 DEF At
        <3> QED BY <3>1, <3>3
    <2> QED BY <2>1, <2>2
<1>11. ASSUME NEW t \in Tickers \ tracked
       PROVE  At(T, t) = At(prior, t)
    <2>1. (t \in kept) <=> (t \in DOMAIN prior)
        OBVIOUS
    <2> HIDE DEF kept
    <2>2. DOMAIN T = kept /\ (t \in kept => T[t] = prior[t])
        BY <1>1
    <2> HIDE DEF T
    <2> QED BY <2>1, <2>2 DEF At
<1> QED BY <1>9, <1>10, <1>11

-----------------------------------------------------------------------------
(* The steps.                                                              *)

(* Books of a market nothing has happened to.                              *)
LEMMA FlatSound ==
    /\ Flat \in [Tickers -> Queues] /\ None \in [Tickers -> [Side -> Nat]]
    /\ Nothing \in [Tickers -> Int]
    /\ \A t \in Tickers : /\ Flat[t]["yes"] = <<>> /\ Flat[t]["no"] = <<>>
                          /\ Nothing[t] = 0
                          /\ MarketSound(Flat[t], None[t], Nothing[t], Nothing[t])
<1>1. Flat \in [Tickers -> Queues] /\ None \in [Tickers -> [Side -> Nat]]
      /\ Nothing \in [Tickers -> Int]
    BY DEF Flat, None, Nothing, Queues
<1>2. ASSUME NEW t \in Tickers
      PROVE  /\ Flat[t]["yes"] = <<>> /\ Flat[t]["no"] = <<>> /\ Nothing[t] = 0
             /\ None[t]["yes"] = 0 /\ None[t]["no"] = 0
    BY DEF Flat, None, Nothing, Side
<1>3. Len(<<>>) = 0 /\ SumFunction(<<>>) = 0
    <2>1. <<>> \in Seq(Int) /\ Len(<<>>) = 0
        OBVIOUS
    <2> QED BY <2>1, SumOfSeq, SumToZero
<1>4. ASSUME NEW t \in Tickers
      PROVE  MarketSound(Flat[t], None[t], Nothing[t], Nothing[t])
    <2>1. 0 - 0 = 0 - 0 /\ 0 >= 0 /\ 0 = 0 + 0 + 0 + 100 * (0 - 0)
        OBVIOUS
    <2> QED BY <1>2, <1>3, <2>1, Zenon DEF MarketSound
<1> QED BY <1>1, <1>2, <1>4

LEMMA PnlInit == Init => PnlInv
<1> SUFFICES ASSUME Init PROVE PnlInv
    OBVIOUS
<1>1. /\ phase = "down" /\ tracked = {} /\ lots = Flat /\ pnl = Nothing
      /\ mark = Nothing /\ risk = [constraints |-> {}, peak |-> 0]
      /\ prior = NoPnl /\ file = [whole |-> TRUE, pnl |-> NoPnl]
      /\ behind = FALSE /\ earned = Nothing /\ bought = None /\ cash = Nothing
      /\ worst = [high |-> 0, fall |-> 0, distorted |-> FALSE]
    BY DEF Init
<1>2. Nothing \in [Tickers -> 0..99]
    BY DEF Nothing
<1>3. PnlType
    <2>1. /\ risk \in [constraints : SUBSET Bits, peak : Int]
          /\ worst \in [high : Int, fall : Int, distorted : BOOLEAN]
        BY <1>1
    <2>2. prior \in Carried /\ file \in [whole : BOOLEAN, pnl : Carried] /\ behind \in BOOLEAN
        BY <1>1, NoPnlCarried
    <2> QED BY <1>1, <1>2, <2>1, <2>2, FlatSound DEF PnlType
<1>4. Sound /\ Bare /\ Away /\ Gone
    BY <1>1, FlatSound DEF Sound, Bare, Away, Gone
<1>5. Watching
    BY <1>1, PnlConstants DEF Watching
<1>6. CarriedExact
    BY <1>1, FlatSound, NoPnlCarried DEF CarriedExact
<1>7. LossHalts
    BY <1>1 DEF LossHalts
<1> QED BY <1>3, <1>4, <1>5, <1>6, <1>7 DEF PnlInv

(* A fill in the books: types, sound books, and nothing for the others.    *)
LEMMA BookKeeps ==
    ASSUME PnlType, Sound, NEW t \in Tickers, NEW f, IsFill(f), Book(t, f)
    PROVE  /\ lots' \in [Tickers -> Queues] /\ pnl' \in [Tickers -> Int]
           /\ earned' \in [Tickers -> Int] /\ cash' \in [Tickers -> Int]
           /\ bought' \in [Tickers -> [Side -> Nat]]
           /\ Sound'
           /\ \A u \in Tickers : pnl'[u] - pnl[u] = earned'[u] - earned[u]
           /\ \A u \in Tickers \ {t} : lots'[u] = lots[u] /\ pnl'[u] = pnl[u]
<1> DEFINE g == Gained(lots[t], f)
           r == RecordFill(lots[t], f)
           b == [bought[t] EXCEPT ![f.side] = @ + f.qty]
           c == cash[t] - f.px * f.qty - f.fee
           p == pnl[t] + g
<1>1. /\ lots \in [Tickers -> Queues] /\ pnl \in [Tickers -> Int]
      /\ earned \in [Tickers -> Int] /\ cash \in [Tickers -> Int]
      /\ bought \in [Tickers -> [Side -> Nat]]
    BY DEF PnlType
<1>2. /\ lots[t] \in Queues /\ pnl[t] \in Int /\ cash[t] \in Int
      /\ bought[t] \in [Side -> Nat] /\ earned[t] \in Int
      /\ MarketSound(lots[t], bought[t], cash[t], pnl[t])
    BY <1>1 DEF Sound
<1>3. g \in Int
    BY <1>2, GainedInt
<1>4. r \in Queues
    BY <1>2, FilledQueues
<1>5. MarketSound(r, b, c, p)
    BY <1>2, FillKeeps
<1>6. f.side \in Side /\ f.qty \in Nat /\ f.px \in Nat /\ f.fee \in Nat
    BY DEF IsFill
<1>7. b \in [Side -> Nat] /\ c \in Int
    <2>1. b \in [Side -> Nat]
        BY <1>2, <1>6
    <2> DEFINE w == f.px * f.qty
               fee == f.fee
    <2>2. w \in Int /\ fee \in Int
        BY <1>6
    <2>3. c = cash[t] - w - fee
        OBVIOUS
    <2> HIDE DEF w, fee, c
    <2>4. c \in Int
        BY <1>2, <2>2, <2>3
    <2> QED BY <2>1, <2>4
<1>8. /\ lots' = [lots EXCEPT ![t] = r] /\ pnl' = [pnl EXCEPT ![t] = p]
      /\ earned' = [earned EXCEPT ![t] = earned[t] + g]
      /\ cash' = [cash EXCEPT ![t] = c]
      /\ bought' = [bought EXCEPT ![t] = b]
    <2>1. /\ lots' = [lots EXCEPT ![t] = RecordFill(@, f)]
          /\ pnl' = [pnl EXCEPT ![t] = @ + Gained(lots[t], f)]
          /\ earned' = [earned EXCEPT ![t] = @ + Gained(lots[t], f)]
          /\ cash' = [cash EXCEPT ![t] = @ - f.px * f.qty - f.fee]
          /\ bought' = [bought EXCEPT ![t][f.side] = @ + f.qty]
        BY DEF Book
    <2> QED BY <1>1, <2>1
<1> HIDE DEF g, r, b, c
<1>9. p \in Int /\ earned[t] + g \in Int
    BY <1>2, <1>3
<1>10. \A u \in Tickers : pnl'[u] - pnl[u] = earned'[u] - earned[u]
    <2> SUFFICES ASSUME NEW u \in Tickers
                 PROVE  pnl'[u] - pnl[u] = earned'[u] - earned[u]
        OBVIOUS
    <2>1. pnl[u] \in Int /\ earned[u] \in Int
        BY <1>1
    <2>2. CASE u = t
        <3>1. pnl'[u] = pnl[u] + g /\ earned'[u] = earned[u] + g
            BY <1>1, <1>8, <2>2
        <3> QED BY <1>3, <2>1, <3>1
    <2>3. CASE u # t
        <3>1. pnl'[u] = pnl[u] /\ earned'[u] = earned[u]
            BY <1>1, <1>8, <2>3
        <3> QED BY <2>1, <3>1
    <2> QED BY <2>2, <2>3
<1> HIDE DEF p
<1>11. Sound'
    BY <1>1, <1>5, <1>8 DEF Sound
<1>12. \A u \in Tickers \ {t} : lots'[u] = lots[u] /\ pnl'[u] = pnl[u]
    BY <1>1, <1>8
<1>13. /\ lots' \in [Tickers -> Queues] /\ pnl' \in [Tickers -> Int]
       /\ earned' \in [Tickers -> Int] /\ cash' \in [Tickers -> Int]
       /\ bought' \in [Tickers -> [Side -> Nat]]
    BY <1>1, <1>4, <1>7, <1>8, <1>9
<1> QED BY <1>10, <1>11, <1>12, <1>13

(* persist_pnl after a fill: written, not opened or left empty, the file   *)
(* says no wrong number once it is written again.                          *)
LEMMA PersistKeeps ==
    ASSUME PnlType, Sound, CarriedExact, phase # "down", NEW t \in Tickers,
           NEW f, IsFill(f), Book(t, f), Persist, Away',
           tracked' = tracked, forgotten \subseteq forgotten', prior' = prior
    PROVE  /\ file' \in [whole : BOOLEAN, pnl : Carried] /\ behind' \in BOOLEAN
           /\ CarriedExact'
<1>1. /\ prior \in Carried /\ tracked \subseteq Tickers
      /\ pnl \in [Tickers -> Int] /\ earned \in [Tickers -> Int]
      /\ file \in [whole : BOOLEAN, pnl : Carried]
    BY DEF PnlType
<1>2. /\ pnl' \in [Tickers -> Int] /\ earned' \in [Tickers -> Int]
      /\ \A u \in Tickers : pnl'[u] - pnl[u] = earned'[u] - earned[u]
    BY BookKeeps
<1>3. ASSUME NEW u \in Tickers \ forgotten
      PROVE  At(prior, u) + pnl'[u] = earned'[u] /\ At(prior, u) \in Int
    <2>1. /\ pnl[u] \in Int /\ earned[u] \in Int /\ pnl'[u] \in Int /\ earned'[u] \in Int
          /\ pnl'[u] - pnl[u] = earned'[u] - earned[u]
          /\ At(prior, u) + pnl[u] = earned[u]
        BY <1>1, <1>2 DEF CarriedExact
    <2>2. At(prior, u) \in Int
        BY <1>1, AtCarried
    <2> QED BY <2>1, <2>2
<1>4. ASSUME NEW u \in Tickers \ forgotten'
      PROVE  At(CarriedTotals(pnl'), u) = earned'[u]
    <2>1. CASE u \in tracked
        BY <1>1, <1>2, <1>3, <2>1, CarriedTotalsAt
    <2>2. CASE u \notin tracked
        <3>1. pnl'[u] = 0
            BY <2>2 DEF Away
        <3>2. At(CarriedTotals(pnl'), u) = At(prior, u)
            BY <1>1, <1>2, <2>2, CarriedTotalsAt
        <3> QED BY <1>3, <3>1, <3>2
    <2> QED BY <2>1, <2>2
<1>5. CASE file' = [whole |-> TRUE, pnl |-> CarriedTotals(pnl')] /\ behind' = FALSE
    <2>1. file' \in [whole : BOOLEAN, pnl : Carried]
        BY <1>1, <1>2, <1>5, CarriedTotalsAt
    <2>2. file'.pnl = CarriedTotals(pnl')
        BY <1>5
    <2>3. CarriedExact'
        BY <1>3, <1>4, <2>2 DEF CarriedExact
    <2> QED BY <1>5, <2>1, <2>3
<1>6. CASE UNCHANGED file /\ behind' = TRUE
    BY <1>1, <1>3, <1>6 DEF CarriedExact
<1>7. CASE file' = [whole |-> FALSE, pnl |-> NoPnl] /\ behind' = FALSE
    <2>1. file' \in [whole : BOOLEAN, pnl : Carried] /\ ~file'.whole
        BY <1>7, NoPnlCarried
    <2>2. CarriedExact'
        BY <1>3, <2>1 DEF CarriedExact
    <2> QED BY <1>7, <2>1, <2>2
<1> QED BY <1>5, <1>6, <1>7 DEF Persist

(* Snapshot and equity are numbers.                                        *)
LEMMA TotalsInt ==
    ASSUME PnlType
    PROVE  TotalPnl \in Int /\ Equity \in Int
<1> DEFINE F == [t \in Tickers |-> pnl[t] + (IF mark[t] > 0 THEN UnrealizedPnl(t) ELSE 0)]
           W == [t \in Tickers |-> Worth(t)]
<1>1. IsFiniteSet(Tickers) /\ IsFiniteSet(tracked) /\ tracked \subseteq Tickers
    BY PnlConstants, FS_Subset DEF PnlType
<1>2. ASSUME NEW t \in Tickers
      PROVE  F[t] \in Int
    <2> DEFINE y == lots[t]["yes"]
               n == lots[t]["no"]
               mk == mark[t]
               uy == mk * Len(y)
               un == (100 - mk) * Len(n)
    <2>1. pnl[t] \in Int /\ mk \in Int /\ 100 - mk \in Int
          /\ y \in Seq(Int) /\ n \in Seq(Int)
        <3>1. pnl[t] \in Int /\ mark[t] \in 0..99 /\ lots[t] \in Queues
            BY DEF PnlType
        <3>2. y \in Seq(Int) /\ n \in Seq(Int)
            BY <3>1 DEF Queues, Side
        <3>3. mk \in Int /\ 100 - mk \in Int
            BY <3>1
        <3> QED BY <3>1, <3>2, <3>3, Zenon
    <2>2. Len(y) \in Nat /\ Len(n) \in Nat /\ SumFunction(y) \in Int /\ SumFunction(n) \in Int
        BY <2>1, SumOfSeq
    <2>3. GainAt(y, mk) = uy - SumFunction(y) /\ GainAt(n, 100 - mk) = un - SumFunction(n)
        BY <2>1, GainAtIs
    <2>4. uy \in Int /\ un \in Int
        <3> HIDE DEF y, n, mk
        <3> QED BY <2>1, <2>2
    <2> HIDE DEF uy, un
    <2>5. UnrealizedPnl(t) \in Int
        <3>1. UnrealizedPnl(t) = (uy - SumFunction(y)) + (un - SumFunction(n))
            BY <2>3, Zenon DEF UnrealizedPnl
        <3> HIDE DEF y, n
        <3> QED BY <2>2, <2>4, <3>1
    <2> QED BY <2>1, <2>5
<1>3. ASSUME NEW t \in Tickers
      PROVE  W[t] \in Int
    <2> DEFINE y == bought[t]["yes"]
               n == bought[t]["no"]
               mk == mark[t]
               pairs == Smaller(y, n)
               a == (y - pairs) * mk
               b == (n - pairs) * (100 - mk)
    <2>1. cash[t] \in Int /\ mk \in Int /\ y \in Nat /\ n \in Nat
        <3>1. cash[t] \in Int /\ mark[t] \in 0..99 /\ bought[t] \in [Side -> Nat]
            BY DEF PnlType
        <3>2. y \in Nat /\ n \in Nat
            BY <3>1 DEF Side
        <3> QED BY <3>1, <3>2
    <2>2. pairs \in Int
        BY <2>1 DEF Smaller
    <2>3. a \in Int /\ b \in Int
        <3> HIDE DEF y, n, mk, pairs
        <3> QED BY <2>1, <2>2
    <2>4. W[t] = cash[t] + 100 * pairs + a + b
        BY Zenon DEF Worth
    <2> HIDE DEF a, b, pairs, W
    <2> QED BY <2>1, <2>2, <2>3, <2>4
<1> HIDE DEF F, W
<1>4. SumFunctionOnSet(F, tracked) \in Int /\ SumFunctionOnSet(W, Tickers) \in Int
    BY <1>1, <1>2, <1>3, SumInt
<1> QED BY <1>4 DEF TotalPnl, Equity, F, W

(* update_portfolio against the history of the equity.                     *)
LEMMA WatchKeeps ==
    ASSUME PnlInv, RunPortfolioRisk
    PROVE  PnlInv'
<1> DEFINE T == TotalPnl
           E == Equity
           high == Larger(worst.high, E)
           peak == Larger(risk.peak, T)
           blind == \E t \in tracked : NetPosition(t) # 0 /\ mark[t] = 0
           absent == \E t \in Tickers \ tracked : pnl[t] # 0
           dropped == IF peak - T > MaxDrawdown THEN {"Drawdown"} ELSE {}
           others == (IF TotalNotional > MaxExposure THEN {"OverExposure"} ELSE {})
                     \cup (IF T < MaxLoss THEN {"PortfolioLoss"} ELSE {})
<1>1. PnlType /\ Sound /\ Bare /\ Away /\ Gone /\ Watching /\ CarriedExact /\ LossHalts
    BY DEF PnlInv
<1>2. T \in Int /\ E \in Int
    BY <1>1, TotalsInt
<1>3. /\ risk \in [constraints : SUBSET Bits, peak : Int]
      /\ worst \in [high : Int, fall : Int, distorted : BOOLEAN]
    BY <1>1 DEF PnlType
<1>4. /\ risk' = [constraints |-> risk.constraints \cup others \cup dropped, peak |-> peak]
      /\ worst' = [high |-> high, fall |-> Larger(worst.fall, high - E),
                   distorted |-> worst.distorted \/ blind \/ absent]
    <2>1. risk' = [constraints |-> risk.constraints
            \cup (IF TotalNotional > MaxExposure THEN {"OverExposure"} ELSE {})
            \cup (IF TotalPnl < MaxLoss THEN {"PortfolioLoss"} ELSE {})
            \cup (IF peak - TotalPnl > MaxDrawdown THEN {"Drawdown"} ELSE {}),
                   peak |-> peak]
        BY Zenon DEF RunPortfolioRisk, Watched
    <2>2. risk.constraints
            \cup (IF TotalNotional > MaxExposure THEN {"OverExposure"} ELSE {})
            \cup (IF TotalPnl < MaxLoss THEN {"PortfolioLoss"} ELSE {})
            \cup (IF peak - TotalPnl > MaxDrawdown THEN {"Drawdown"} ELSE {})
          = risk.constraints \cup others \cup dropped
        <3> DEFINE x == IF TotalNotional > MaxExposure THEN {"OverExposure"} ELSE {}
                   y == IF TotalPnl < MaxLoss THEN {"PortfolioLoss"} ELSE {}
                   z == dropped
        <3>1. others = x \cup y
            OBVIOUS
        <3> HIDE DEF x, y, z, others
        <3>2. risk.constraints \cup x \cup y \cup z = risk.constraints \cup others \cup z
            BY <3>1
        <3> QED BY <3>2 DEF x, y, z
    <2>3. worst' = [high |-> high, fall |-> Larger(worst.fall, high - E),
                    distorted |-> worst.distorted \/ blind \/ absent]
        BY Zenon DEF RunPortfolioRisk
    <2> HIDE DEF others, dropped
    <2> QED BY <2>1, <2>2, <2>3, Zenon
<1>5. /\ others \subseteq Bits \ {"Drawdown"} /\ dropped \subseteq Bits
      /\ "Drawdown" \in dropped <=> peak - T > MaxDrawdown
    <2> HIDE DEF T, peak
    <2> QED BY DEF Bits
<1>6. /\ UNCHANGED <<phase, tracked, lots, pnl, mark, prior, file, behind, earned,
                     bought, cash, forgotten>>
      /\ phase = "run"
    BY DEF RunPortfolioRisk
<1> DEFINE h0 == worst.high
           f0 == worst.fall
           p0 == risk.peak
           f1 == Larger(f0, high - E)
<1>7. h0 \in Int /\ f0 \in Int /\ p0 \in Int /\ risk.constraints \subseteq Bits
      /\ worst.distorted \in BOOLEAN
    BY <1>3
<1> HIDE DEF T, E, h0, f0, p0
<1>8. /\ high = Larger(h0, E) /\ peak = Larger(p0, T) /\ high \in Int /\ peak \in Int
      /\ f1 \in Int
    BY <1>2, <1>7 DEF Larger, h0, p0
<1>9. /\ risk'.constraints = risk.constraints \cup others \cup dropped
      /\ risk'.peak = peak /\ worst'.high = high /\ worst'.fall = f1
    BY <1>4 DEF f0
<1>10. worst'.distorted = (worst.distorted \/ blind \/ absent)
    BY <1>4
<1>11. /\ risk' \in [constraints : SUBSET Bits, peak : Int]
       /\ worst' \in [high : Int, fall : Int, distorted : BOOLEAN]
    <2>1. risk.constraints \cup others \cup dropped \in SUBSET Bits
        <3> HIDE DEF others, dropped
        <3> QED BY <1>5, <1>7
    <2>2. (worst.distorted \/ blind \/ absent) \in BOOLEAN
        <3> HIDE DEF blind, absent
        <3> QED BY <1>7, Zenon
    <2> HIDE DEF others, dropped, high, peak, blind, absent, f1
    <2>3. risk' \in [constraints : SUBSET Bits, peak : Int]
        BY <1>4, <1>8, <2>1
    <2>4. worst' = [high |-> high, fall |-> f1,
                    distorted |-> worst.distorted \/ blind \/ absent]
        BY <1>4 DEF f1, f0
    <2>5. worst' \in [high : Int, fall : Int, distorted : BOOLEAN]
        BY <1>8, <2>2, <2>4
    <2> QED BY <2>3, <2>5
<1>12. PnlType'
    BY <1>1, <1>6, <1>11 DEF PnlType
<1>13. Sound' /\ Bare' /\ Away' /\ Gone' /\ CarriedExact'
    BY <1>1, <1>6 DEF Sound, Bare, Away, Gone, CarriedExact
<1>14. LossHalts'
    <2> HIDE DEF others, dropped
    <2> QED BY <1>1, <1>6, <1>9 DEF LossHalts
<1>15. Watching'
    <2> SUFFICES ASSUME ~worst'.distorted
                 PROVE  /\ risk'.peak = worst'.high
                        /\ "Drawdown" \in risk'.constraints
                             <=> worst'.fall > MaxDrawdown
        BY DEF Watching
    <2>1. ~worst.distorted /\ ~blind /\ ~absent
        <3> HIDE DEF blind, absent
        <3> QED BY <1>7, <1>10, Zenon
    <2>2. T = E
        <3>1. \A t \in tracked : NetPosition(t) = 0 \/ mark[t] # 0
            BY <2>1
        <3>2. \A t \in Tickers \ tracked : pnl[t] = 0
            BY <2>1
        <3> QED BY <1>1, <1>6, <3>1, <3>2, TotalIsEquity DEF T, E
    <2>3. p0 = h0 /\ ("Drawdown" \in risk.constraints <=> f0 > MaxDrawdown)
        BY <1>1, <2>1 DEF Watching, p0, h0, f0
    <2>4. peak = high
        <3> HIDE DEF peak, high
        <3> QED BY <1>8, <2>2, <2>3, Zenon
    <2>5. f1 > MaxDrawdown <=> (f0 > MaxDrawdown \/ peak - T > MaxDrawdown)
        <3> HIDE DEF peak, high
        <3> QED BY <1>2, <1>7, <1>8, <2>2, <2>4, PnlConstants DEF Larger, f1
    <2>6. "Drawdown" \in risk'.constraints
            <=> ("Drawdown" \in risk.constraints \/ "Drawdown" \in dropped)
        <3> HIDE DEF others, dropped
        <3> QED BY <1>5, <1>9
    <2> HIDE DEF others, dropped, peak, high, f1
    <2> QED BY <1>5, <1>9, <2>3, <2>4, <2>5, <2>6, Zenon
<1> QED BY <1>12, <1>13, <1>14, <1>15 DEF PnlInv

(* on_fill: the realized loss is watched over the tracked markets.         *)
LEMMA OnFillKeeps ==
    ASSUME PnlInv, NEW t \in Tickers, NEW f \in Fills, OnFill(t, f)
    PROVE  PnlInv'
<1> DEFINE bit == IF SumFunctionOnSet(pnl', tracked) < LossLimit THEN {"PnLLimit"} ELSE {}
<1>1. PnlType /\ Sound /\ Bare /\ Away /\ Gone /\ Watching /\ CarriedExact /\ LossHalts
    BY DEF PnlInv
<1>2. /\ t \in tracked /\ IsFill(f) /\ Book(t, f) /\ Persist /\ phase = "run"
      /\ UNCHANGED <<phase, tracked, mark, prior, started, forgotten, worst>>
    BY PnlConstants DEF OnFill
<1>3. /\ lots' \in [Tickers -> Queues] /\ pnl' \in [Tickers -> Int]
      /\ earned' \in [Tickers -> Int] /\ cash' \in [Tickers -> Int]
      /\ bought' \in [Tickers -> [Side -> Nat]]
      /\ Sound' /\ \A u \in Tickers \ {t} : lots'[u] = lots[u] /\ pnl'[u] = pnl[u]
    BY <1>1, <1>2, BookKeeps
<1>4. Bare' /\ Away' /\ Gone'
    BY <1>1, <1>2, <1>3 DEF Bare, Away, Gone
<1>5. /\ file' \in [whole : BOOLEAN, pnl : Carried] /\ behind' \in BOOLEAN
      /\ CarriedExact'
    BY <1>1, <1>2, <1>4, PersistKeeps
<1>6. risk' = [risk EXCEPT !.constraints = @ \cup bit]
    BY DEF OnFill, Updated
<1>7. bit \subseteq Bits \ {"Drawdown"}
    BY DEF Bits
<1>8. risk \in [constraints : SUBSET Bits, peak : Int]
    BY <1>1 DEF PnlType
<1> HIDE DEF bit
<1>9. /\ risk' \in [constraints : SUBSET Bits, peak : Int]
      /\ risk'.peak = risk.peak /\ risk'.constraints = risk.constraints \cup bit
    BY <1>6, <1>7, <1>8
<1>10. PnlType'
    BY <1>1, <1>2, <1>3, <1>5, <1>9 DEF PnlType
<1>11. Watching'
    BY <1>1, <1>2, <1>7, <1>9 DEF Watching
<1>12. LossHalts'
    <2> SUFFICES ASSUME forgotten' = {}, SumFunctionOnSet(pnl', Tickers) < LossLimit
                 PROVE  "PnLLimit" \in risk'.constraints
        BY DEF LossHalts
    <2>1. \A u \in Tickers \ tracked : pnl'[u] = 0
        BY <1>2, <1>4 DEF Away
    <2>2. IsFiniteSet(Tickers) /\ tracked \subseteq Tickers /\ \A u \in Tickers : pnl'[u] \in Int
        BY <1>1, <1>3, PnlConstants DEF PnlType
    <2>3. SumFunctionOnSet(pnl', tracked) = SumFunctionOnSet(pnl', Tickers)
        BY <2>1, <2>2, SumWithin
    <2>4. "PnLLimit" \in bit
        BY <2>3, Zenon DEF bit
    <2> QED BY <1>9, <2>4
<1> QED BY <1>3, <1>4, <1>5, <1>10, <1>11, <1>12 DEF PnlInv

(* The taker flatten of shutdown: booked and persisted, no risk check.     *)
LEMMA RecordFlattenKeeps ==
    ASSUME PnlInv, NEW t \in Tickers, NEW side \in Side, NEW qty \in Nat,
           RecordFlatten(t, side, qty)
    PROVE  PnlInv'
<1> DEFINE f == [side |-> side, px |-> FlattenPrice, qty |-> qty, fee |-> 0]
<1>1. PnlType /\ Sound /\ Bare /\ Away /\ Gone /\ Watching /\ CarriedExact /\ LossHalts
    BY DEF PnlInv
<1>2. IsFill(f)
    BY PnlConstants DEF IsFill
<1>3. /\ Book(t, f) /\ Persist /\ phase = "stopping"
      /\ forgotten' = forgotten \cup (IF t \notin tracked /\ pnl'[t] # 0 THEN {t} ELSE {})
      /\ UNCHANGED <<phase, tracked, mark, risk, prior, started, worst>>
    BY DEF RecordFlatten
<1> HIDE DEF f
<1>4. /\ lots' \in [Tickers -> Queues] /\ pnl' \in [Tickers -> Int]
      /\ earned' \in [Tickers -> Int] /\ cash' \in [Tickers -> Int]
      /\ bought' \in [Tickers -> [Side -> Nat]]
      /\ Sound' /\ \A u \in Tickers \ {t} : lots'[u] = lots[u] /\ pnl'[u] = pnl[u]
    BY <1>1, <1>2, <1>3, BookKeeps
<1>5. Bare' /\ Away' /\ Gone'
    BY <1>1, <1>3, <1>4 DEF Bare, Away, Gone
<1>6. /\ file' \in [whole : BOOLEAN, pnl : Carried] /\ behind' \in BOOLEAN
      /\ CarriedExact'
    BY <1>1, <1>2, <1>3, <1>5, PersistKeeps
<1>7. PnlType'
    BY <1>1, <1>3, <1>4, <1>6 DEF PnlType
<1>8. Watching' /\ LossHalts'
    BY <1>1, <1>3 DEF Watching, LossHalts
<1> QED BY <1>4, <1>5, <1>6, <1>7, <1>8 DEF PnlInv

(* A new process: flat books, and what the file said.                      *)
LEMMA StartKeeps ==
    ASSUME PnlInv, Start
    PROVE  PnlInv'
<1>1. PnlType /\ Sound /\ Gone /\ CarriedExact
    BY DEF PnlInv
<1>2. /\ phase' = "run" /\ tracked' \subseteq Tickers /\ mark' \in [Tickers -> Marks]
      /\ prior' = LoadPnl
      /\ earned' = [t \in Tickers |-> IF file.whole /\ ~behind /\ t \notin forgotten
                                         THEN earned[t] ELSE At(LoadPnl, t)]
      /\ behind' = FALSE /\ file' = file /\ forgotten' = {}
    BY DEF Start
<1>3. /\ lots' = Flat /\ pnl' = Nothing /\ risk' = [constraints |-> {}, peak |-> 0]
      /\ bought' = None /\ cash' = Nothing
      /\ worst' = [high |-> 0, fall |-> 0, distorted |-> FALSE]
    BY <1>1 DEF Start, Gone
<1>4. file \in [whole : BOOLEAN, pnl : Carried] /\ earned \in [Tickers -> Int]
    BY <1>1 DEF PnlType
<1>5. mark' \in [Tickers -> 0..99]
    BY <1>2, PnlConstants
<1>6. LoadPnl \in Carried /\ \A t : At(LoadPnl, t) \in Int
    <2>1. LoadPnl \in Carried
        BY <1>4, NoPnlCarried DEF LoadPnl
    <2> QED BY <2>1, AtCarried
<1>7. prior' \in Carried /\ earned' \in [Tickers -> Int]
    BY <1>2, <1>4, <1>6
<1>8. PnlType'
    <2>1. /\ risk' \in [constraints : SUBSET Bits, peak : Int]
          /\ worst' \in [high : Int, fall : Int, distorted : BOOLEAN]
        BY <1>3
    <2> QED BY <1>2, <1>3, <1>4, <1>5, <1>7, <2>1, FlatSound DEF PnlType
<1>9. Sound' /\ Bare' /\ Away' /\ Gone'
    BY <1>2, <1>3, FlatSound DEF Sound, Bare, Away, Gone
<1>10. Watching'
    BY <1>3, PnlConstants DEF Watching
<1>11. CarriedExact'
    <2> SUFFICES ASSUME NEW u \in Tickers
                 PROVE  /\ file.whole => At(file.pnl, u) = earned'[u]
                        /\ At(LoadPnl, u) + Nothing[u] = earned'[u]
        BY <1>2, <1>3 DEF CarriedExact
    <2>1. Nothing[u] = 0 /\ At(LoadPnl, u) \in Int
        BY <1>6, FlatSound
    <2>2. file.whole => LoadPnl = file.pnl
        BY DEF LoadPnl
    <2>3. earned'[u] = At(LoadPnl, u)
        <3>1. CASE file.whole /\ ~behind /\ u \notin forgotten
            <4>1. earned'[u] = earned[u]
                BY <1>2, <3>1
            <4>2. At(file.pnl, u) = earned[u]
                BY <1>1, <3>1 DEF CarriedExact
            <4> QED BY <2>2, <3>1, <4>1, <4>2
        <3>2. CASE ~(file.whole /\ ~behind /\ u \notin forgotten)
            BY <1>2, <3>2
        <3> QED BY <3>1, <3>2
    <2> QED BY <2>1, <2>2, <2>3
<1>12. LossHalts'
    <2>1. SumFunctionOnSet(Nothing, Tickers) = 0
        BY FlatSound, PnlConstants, SumZero
    <2> QED BY <1>3, <2>1, PnlConstants DEF LossHalts
<1> QED BY <1>8, <1>9, <1>10, <1>11, <1>12 DEF PnlInv

(* The end of a process: its memory is gone, the file stays.               *)
LEMMA ExitKeeps ==
    ASSUME PnlInv, Exit
    PROVE  PnlInv'
<1>1. PnlType /\ CarriedExact
    BY DEF PnlInv
<1>2. /\ phase' = "down" /\ tracked' = {} /\ lots' = Flat /\ pnl' = Nothing
      /\ mark' = Nothing /\ risk' = [constraints |-> {}, peak |-> 0]
      /\ prior' = NoPnl /\ bought' = None /\ cash' = Nothing
      /\ worst' = [high |-> 0, fall |-> 0, distorted |-> FALSE]
      /\ UNCHANGED <<file, behind, earned, forgotten>>
    BY DEF Exit
<1>3. Nothing \in [Tickers -> 0..99]
    BY DEF Nothing
<1>4. PnlType'
    BY <1>1, <1>2, <1>3, FlatSound, NoPnlCarried DEF PnlType, Bits
<1>5. Sound' /\ Bare' /\ Away' /\ Gone'
    BY <1>2, FlatSound DEF Sound, Bare, Away, Gone
<1>6. Watching'
    BY <1>2, PnlConstants DEF Watching
<1>7. CarriedExact' /\ LossHalts'
    BY <1>1, <1>2 DEF CarriedExact, LossHalts
<1> QED BY <1>4, <1>5, <1>6, <1>7 DEF PnlInv

(* Rotation: only an idle market is dropped.                               *)
LEMMA DropKeeps ==
    ASSUME PnlInv, NEW t \in Tickers, DropMarket(t)
    PROVE  PnlInv'
<1>1. PnlType /\ Sound /\ Bare /\ Away /\ Gone /\ Watching /\ CarriedExact /\ LossHalts
    BY DEF PnlInv
<1>2. /\ phase = "run" /\ t \in tracked /\ NetPosition(t) = 0
      /\ tracked' = tracked \ {t} /\ mark' = [mark EXCEPT ![t] = 0]
      /\ forgotten' = (IF pnl[t] # 0 THEN forgotten \cup {t} ELSE forgotten)
      /\ UNCHANGED <<phase, lots, pnl, risk, prior, file, behind, earned, bought, cash,
                     worst>>
    BY DEF DropMarket
<1>3. mark' \in [Tickers -> 0..99]
    <2>1. mark \in [Tickers -> 0..99] /\ 0 \in 0..99
        BY <1>1 DEF PnlType
    <2> QED BY <1>2, <2>1
<1>4. PnlType'
    BY <1>1, <1>2, <1>3 DEF PnlType
<1>5. Sound' /\ Watching'
    BY <1>1, <1>2 DEF Sound, Watching
<1>6. lots[t]["yes"] = <<>> /\ lots[t]["no"] = <<>>
    <2>1. /\ lots[t] \in Queues
          /\ lots[t]["yes"] = <<>> \/ lots[t]["no"] = <<>>
        BY <1>1 DEF PnlType, Sound, MarketSound
    <2>2. lots[t]["yes"] \in Seq(Int) /\ lots[t]["no"] \in Seq(Int)
        BY <2>1 DEF Queues, Side
    <2>3. Len(lots[t]["yes"]) - Len(lots[t]["no"]) = 0
        BY <1>2 DEF NetPosition
    <2> DEFINE y == lots[t]["yes"]
               n == lots[t]["no"]
    <2> HIDE DEF y, n
    <2>4. Len(y) \in Nat /\ Len(n) \in Nat /\ Len(y) - Len(n) = 0
          /\ (y = <<>> => Len(y) = 0) /\ (n = <<>> => Len(n) = 0)
        BY <2>2, <2>3 DEF y, n
    <2>5. (y = <<>> \/ n = <<>>) /\ y \in Seq(Int) /\ n \in Seq(Int)
        BY <2>1, <2>2 DEF y, n
    <2>6. Len(y) = 0 /\ Len(n) = 0
        BY <2>4, <2>5
    <2>7. y = <<>> /\ n = <<>>
        BY <2>5, <2>6
    <2> QED BY <2>7 DEF y, n
<1>7. Bare' /\ Away' /\ Gone'
    <2>1. Bare'
        BY <1>1, <1>2, <1>6 DEF Bare
    <2>2. Away'
        BY <1>1, <1>2 DEF Away
    <2>3. Gone'
        BY <1>2 DEF Gone
    <2> QED BY <2>1, <2>2, <2>3
<1>8. CarriedExact' /\ LossHalts'
    BY <1>1, <1>2 DEF CarriedExact, LossHalts
<1> QED BY <1>4, <1>5, <1>7, <1>8 DEF PnlInv

(* The other steps of the feed, the main loop and the shutdown.            *)
LEMMA OtherStepsKeep ==
    ASSUME PnlInv,
           \/ Stop \/ UNCHANGED vars
           \/ \E silent \in BOOLEAN : CheckWsStaleness(silent)
           \/ \E t \in Tickers, mid \in Marks : OnBook(t, mid) \/ AddMarket(t, mid)
    PROVE  PnlInv'
<1>1. PnlType /\ Sound /\ Bare /\ Away /\ Gone /\ Watching /\ CarriedExact /\ LossHalts
    BY DEF PnlInv
<1>2. CASE UNCHANGED vars
    BY <1>1, <1>2 DEF vars, PnlInv, PnlType, Sound, Bare, Away, Gone, Watching, CarriedExact, LossHalts
<1>3. CASE Stop
    <2>1. /\ phase = "run" /\ phase' = "stopping"
          /\ UNCHANGED <<tracked, lots, pnl, mark, risk, prior, file, behind, earned,
                         bought, cash, forgotten, worst>>
        BY <1>3 DEF Stop
    <2>2. PnlType' /\ Sound' /\ Bare' /\ Away' /\ Gone'
        BY <1>1, <2>1 DEF PnlType, Sound, Bare, Away, Gone
    <2>3. Watching' /\ CarriedExact' /\ LossHalts'
        BY <1>1, <2>1 DEF Watching, CarriedExact, LossHalts
    <2> QED BY <2>2, <2>3 DEF PnlInv
<1>4. CASE \E silent \in BOOLEAN : CheckWsStaleness(silent)
    <2>1. /\ UNCHANGED <<phase, tracked, lots, pnl, mark, prior, file, behind, earned,
                         bought, cash, forgotten, worst>>
          /\ phase = "run"
        BY <1>4 DEF CheckWsStaleness
    <2>2. risk \in [constraints : SUBSET Bits, peak : Int]
        BY <1>1 DEF PnlType
    <2>3. \/ risk' = [risk EXCEPT !.constraints = @ \cup {"StaleBook"}]
          \/ risk' = [risk EXCEPT !.constraints = @ \ {"StaleBook"}]
        BY <1>4 DEF CheckWsStaleness, Cleared
    <2>4. /\ risk' \in [constraints : SUBSET Bits, peak : Int]
          /\ risk'.peak = risk.peak
          /\ risk'.constraints \ {"StaleBook"} = risk.constraints \ {"StaleBook"}
        BY <2>2, <2>3 DEF Bits
    <2>5. PnlType' /\ Sound' /\ Bare' /\ Away' /\ Gone' /\ CarriedExact'
        BY <1>1, <2>1, <2>4 DEF PnlType, Sound, Bare, Away, Gone, CarriedExact
    <2>6. \A bit : bit # "StaleBook" => (bit \in risk'.constraints <=> bit \in risk.constraints)
        BY <2>4
    <2>7. /\ "Drawdown" \in risk'.constraints <=> "Drawdown" \in risk.constraints
          /\ "PnLLimit" \in risk'.constraints <=> "PnLLimit" \in risk.constraints
        BY <2>6
    <2>8. Watching' /\ LossHalts'
        BY <1>1, <2>1, <2>4, <2>7 DEF Watching, LossHalts
    <2> QED BY <2>5, <2>8 DEF PnlInv
<1>5. ASSUME NEW t \in Tickers, NEW mid \in Marks, OnBook(t, mid) \/ AddMarket(t, mid)
      PROVE  PnlInv'
    <2>1. /\ mark' = [mark EXCEPT ![t] = mid]
          /\ tracked \subseteq tracked' /\ tracked' \subseteq tracked \cup {t}
          /\ UNCHANGED <<phase, lots, pnl, risk, prior, file, behind, earned, bought,
                         cash, forgotten, worst>>
          /\ phase = "run"
        BY <1>5 DEF OnBook, AddMarket
    <2>2. mark' \in [Tickers -> 0..99] /\ tracked' \subseteq Tickers
        <3>1. mark \in [Tickers -> 0..99] /\ mid \in 0..99 /\ tracked \subseteq Tickers
            BY <1>1, PnlConstants DEF PnlType
        <3> QED BY <2>1, <3>1
    <2>3. PnlType'
        BY <1>1, <2>1, <2>2 DEF PnlType
    <2>4. Sound' /\ Bare' /\ Away' /\ Gone' /\ Watching' /\ CarriedExact' /\ LossHalts'
        BY <1>1, <2>1 DEF Sound, Bare, Away, Gone, Watching, CarriedExact, LossHalts
    <2> QED BY <2>3, <2>4 DEF PnlInv
<1> QED BY <1>2, <1>3, <1>4, <1>5

LEMMA PnlStep == PnlInv /\ [Next]_vars => PnlInv'
<1> SUFFICES ASSUME PnlInv, [Next]_vars PROVE PnlInv'
    OBVIOUS
<1>1. CASE Start
    BY <1>1, StartKeeps
<1>2. CASE RunPortfolioRisk
    BY <1>2, WatchKeeps
<1>3. ASSUME NEW t \in Tickers, NEW f \in Fills, OnFill(t, f) PROVE PnlInv'
    BY <1>3, OnFillKeeps
<1>4. ASSUME NEW t \in Tickers, DropMarket(t) PROVE PnlInv'
    BY <1>4, DropKeeps
<1>5. ASSUME NEW t \in Tickers, NEW side \in Side, NEW qty \in 1..(MaxFills - fills),
             RecordFlatten(t, side, qty)
      PROVE  PnlInv'
    <2>1. qty \in Nat
        BY PnlConstants, <1>5
    <2> QED BY <1>5, <2>1, RecordFlattenKeeps
<1>6. CASE Exit
    BY <1>6, ExitKeeps
<1>7. CASE \/ Stop \/ UNCHANGED vars
           \/ \E silent \in BOOLEAN : CheckWsStaleness(silent)
           \/ \E t \in Tickers, mid \in Marks : OnBook(t, mid) \/ AddMarket(t, mid)
    BY <1>7, OtherStepsKeep
<1> QED BY <1>1, <1>2, <1>3, <1>4, <1>5, <1>6, <1>7 DEF Next

-----------------------------------------------------------------------------
(* The theorems.                                                           *)

THEOREM PnlInvariance == Spec => []PnlInv
<1> QED BY PnlInit, PnlStep, PTL DEF Spec

(* No P&L is lost or counted twice between processes: persist_pnl at every *)
(* fill and load_pnl at the start keep the total of every market, however  *)
(* often the process is killed; when a write fails the next one of the     *)
(* process makes the file right again.                                     *)
THEOREM CarriedExactHolds == Spec => []CarriedExact
<1>1. PnlInv => CarriedExact
    BY DEF PnlInv
<1> QED BY <1>1, PnlInvariance, PTL

(* kPnLLimit: RiskManager::update, which sees the tracked markets only,    *)
(* misses no realized loss as long as no market was dropped with P&L.      *)
THEOREM LossHaltsHolds == Spec => []LossHalts
<1>1. PnlInv => LossHalts
    BY DEF PnlInv
<1> QED BY <1>1, PnlInvariance, PTL

(* kDrawdown: while positions are marked and no P&L is away, the P&L that  *)
(* update_portfolio measures is the equity, and its bit tells exactly      *)
(* whether the equity fell too far from its high at a check.               *)
THEOREM DrawdownExactHolds == Spec => []DrawdownExact
<1>1. PnlInv => DrawdownExact
    BY DEF PnlInv, Watching, DrawdownExact
<1> QED BY <1>1, PnlInvariance, PTL
=============================================================================
