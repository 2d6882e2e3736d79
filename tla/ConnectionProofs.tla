-------------------------- MODULE ConnectionProofs --------------------------
(***************************************************************************)
(* Proofs about what comes over a connection, and what a reconnect must    *)
(* restore.  FillReconcile, for any markets, any overlap of the backfill   *)
(* any number of trades, disconnections and failed reads and any rotation: *)
(* each trade is booked once, and one that was missed has its reason.      *)
(* FeedConnection, for any tickers, delays and reconnects: the             *)
(* subscriptions are sent again, each once. And about a capture of such a  *)
(* connection replayed: PaperSession, for any frames, books and pricing:   *)
(* the ledger has what the paper exchange filled, and a print fills no     *)
(* more than its size.  The specifications share no variable.              *)
(***************************************************************************)
EXTENDS FillReconcile, FeedConnection, PaperSession, SumTheorems, SequenceTheorems

Trade == [mkt : Markets, d : {-1, 1}]

(* The state is one the program's types allow.                             *)
FillType ==
    /\ tracked \subseteq Markets
    /\ net \in [Markets -> Int]
    /\ lastFill \in Nat
    /\ diverge \in BOOLEAN
    /\ pc \in {"idle", "backfill", "recheck"}
    /\ conn \in {"first", "down", "resumed", "up"}
    /\ trades \in Seq(Trade)
    /\ wire \in Seq(Nat)
    /\ drops \in Nat
    /\ faults \in Nat

(* Ids and times are those of trades.                                      *)
Known ==
    /\ booked \subseteq Ids
    /\ excused \subseteq Ids
    /\ lastFill <= Len(trades)
    /\ \A k \in 1..Len(wire) : wire[k] \in Ids

(* Fills are pushed in the order of the trades.  A trade that is not       *)
(* recorded is excused if its market is not tracked, or if the floor of    *)
(* the backfill is past it: that is why a backfill from the floor is       *)
(* enough.  On the first connection there is nothing to backfill.          *)
Excusing ==
    /\ \A j, k \in 1..Len(wire) : j < k => wire[j] < wire[k]
    /\ \A i \in Ids \ booked : trades[i].mkt \notin tracked => i \in excused
    /\ \A i \in Ids \ booked : i <= lastFill => i \in excused
    /\ conn \in {"first", "up"} => Missed \subseteq excused

(* The inductive invariant.                                                *)
Inv == FillType /\ Known /\ NetIsTrades /\ Excusing

-----------------------------------------------------------------------------
(* Sums and maxima.                                                        *)

(* A nonempty bounded set of naturals has a greatest element.              *)
LEMMA MaxOfBounded ==
    ASSUME NEW S \in SUBSET Nat, S # {}, NEW n \in Nat, \A x \in S : x <= n
    PROVE  Max(S) \in S
<1> DEFINE I == {k \in Nat : \/ \E x \in S : x > k
                             \/ \E x \in S : \A y \in S : x >= y}
<1>1. 0 \in I
    <2>1. PICK x \in S : TRUE
        OBVIOUS
    <2>2. CASE \A y \in S : y = 0
        BY <2>1, <2>2
    <2>3. CASE \E y \in S : y # 0
        BY <2>3
    <2> QED
        BY <2>2, <2>3
<1>2. \A k \in Nat : k \in I => k + 1 \in I
    OBVIOUS
<1>3. n \in I
    <2> HIDE DEF I
    <2> QED
        BY <1>1, <1>2, NatSetInduction
<1>4. \E x \in S : \A y \in S : x >= y
    BY <1>3
<1> QED
    BY <1>4 DEF Max

(* What the trades ts with the numbers ids moved market m.                 *)
MovedBy(ts, m, ids) ==
    SumFunctionOnSet([i \in ids |-> IF ts[i].mkt = m THEN ts[i].d ELSE 0], ids)

(* Every summand is an integer, and there are finitely many.               *)
LEMMA Summands ==
    ASSUME NEW ts \in Seq(Trade), NEW ids \in SUBSET (1..Len(ts)), NEW m
    PROVE  /\ IsFiniteSet(ids)
           /\ \A i \in ids : (IF ts[i].mkt = m THEN ts[i].d ELSE 0) \in Int
<1>1. IsFiniteSet(ids)
    <2>1. Len(ts) \in Nat
        OBVIOUS
    <2>2. IsFiniteSet(1..Len(ts))
        BY <2>1, FS_Interval
    <2> QED
        BY <2>2, FS_Subset
<1>2. \A i \in ids : ts[i] \in Trade
    OBVIOUS
<1> QED
    BY <1>1, <1>2 DEF Trade

(* What trades moved is an integer.                                        *)
LEMMA MovedInt ==
    ASSUME NEW ts \in Seq(Trade), NEW ids \in SUBSET (1..Len(ts)), NEW m
    PROVE  MovedBy(ts, m, ids) \in Int
<1> DEFINE f == [i \in ids |-> IF ts[i].mkt = m THEN ts[i].d ELSE 0]
<1>1. IsFiniteSet(ids) /\ \A i \in ids : f[i] \in Int
    BY Summands
<1> HIDE DEF f
<1>2. SumFunctionOnSet(f, ids) \in Int
    BY <1>1, SumInt
<1> QED
    BY <1>2 DEF MovedBy, f

(* Disjoint sets of trades move the sum of what each moves.                *)
LEMMA MovedUnion ==
    ASSUME NEW ts \in Seq(Trade), NEW A \in SUBSET (1..Len(ts)),
           NEW B \in SUBSET (1..Len(ts)), A \cap B = {}, NEW m
    PROVE  MovedBy(ts, m, A \cup B) = MovedBy(ts, m, A) + MovedBy(ts, m, B)
<1> DEFINE v(i) == IF ts[i].mkt = m THEN ts[i].d ELSE 0
           f == [i \in A \cup B |-> v(i)]
           g == [i \in A |-> v(i)]
           h == [i \in B |-> v(i)]
<1>1. /\ IsFiniteSet(A) /\ IsFiniteSet(B)
      /\ \A i \in A \cup B : v(i) \in Int
    BY Summands
<1> HIDE DEF v
<1>2. /\ \A i \in A \cup B : f[i] \in Int
      /\ \A i \in A : f[i] = g[i]
      /\ \A i \in B : f[i] = h[i]
    BY <1>1
<1>3. /\ MovedBy(ts, m, A \cup B) = SumFunctionOnSet(f, A \cup B)
      /\ MovedBy(ts, m, A) = SumFunctionOnSet(g, A)
      /\ MovedBy(ts, m, B) = SumFunctionOnSet(h, B)
    BY DEF MovedBy, v
<1> HIDE DEF f, g, h
<1>4. SumFunctionOnSet(f, A \cup B) = SumFunctionOnSet(f, A) + SumFunctionOnSet(f, B)
    BY <1>1, <1>2, SumUnion
<1>5. /\ SumFunctionOnSet(f, A) = SumFunctionOnSet(g, A)
      /\ SumFunctionOnSet(f, B) = SumFunctionOnSet(h, B)
    BY <1>1, <1>2, SumEqual
<1> QED
    BY <1>3, <1>4, <1>5

(* A new trade does not change what the earlier ones moved.                *)
LEMMA MovedEarlier ==
    ASSUME NEW ts \in Seq(Trade), NEW t \in Trade,
           NEW ids \in SUBSET (1..Len(ts)), NEW m
    PROVE  MovedBy(Append(ts, t), m, ids) = MovedBy(ts, m, ids)
<1> DEFINE us == Append(ts, t)
           f == [i \in ids |-> IF us[i].mkt = m THEN us[i].d ELSE 0]
           g == [i \in ids |-> IF ts[i].mkt = m THEN ts[i].d ELSE 0]
<1>1. \A i \in ids : us[i] = ts[i]
    OBVIOUS
<1>2. f = g
    <2> HIDE DEF us
    <2> QED
        BY <1>1
<1> QED
    BY <1>2 DEF MovedBy

-----------------------------------------------------------------------------
(* Recording fills.                                                        *)

(* Recording a set of trades, received or fetched, keeps the position the  *)
(* sum of the booked trades: the ones booked before are not counted again. *)
LEMMA RecordExact ==
    ASSUME Inv, NEW ids \in SUBSET Ids, Record(ids), trades' = trades
    PROVE  /\ net' \in [Markets -> Int]
           /\ booked' \subseteq Ids
           /\ NetIsTrades'
<1> DEFINE F == Fresh(ids)
<1>1. /\ F \subseteq 1..Len(trades) /\ booked \subseteq 1..Len(trades)
      /\ booked \cap F = {} /\ trades \in Seq(Trade)
    BY DEF Fresh, Inv, Known, FillType, Ids
<1>2. /\ net' = [m \in Markets |-> net[m] + MovedBy(trades, m, F)]
      /\ booked' = booked \cup F
    BY DEF Record, Moved, MovedBy
<1> HIDE DEF F
<1>3. \A m \in Markets : MovedBy(trades, m, F) \in Int
    BY <1>1, MovedInt
<1>4. \A m \in Markets : net[m] = MovedBy(trades, m, booked)
    BY DEF Inv, NetIsTrades, Moved, MovedBy
<1>5. \A m \in Markets : MovedBy(trades, m, booked \cup F)
                            = MovedBy(trades, m, booked) + MovedBy(trades, m, F)
    BY <1>1, MovedUnion
<1>6. \A m \in Markets : net'[m] = MovedBy(trades', m, booked')
    BY <1>2, <1>4, <1>5
<1>7. NetIsTrades'
    BY <1>6 DEF NetIsTrades, Moved, MovedBy
<1>8. net' \in [Markets -> Int]
    BY <1>2, <1>3 DEF Inv, FillType
<1> QED
    BY <1>1, <1>2, <1>7, <1>8 DEF Ids

(* A backfill keeps the invariant's part about the ledger.                 *)
LEMMA BackfillExact ==
    ASSUME Inv, NEW floor, Backfill(floor), trades' = trades
    PROVE  /\ net' \in [Markets -> Int]
           /\ booked' \subseteq Ids
           /\ NetIsTrades'
           /\ lastFill' \in Nat /\ lastFill' <= Len(trades)
           /\ tracked' = tracked
<1> DEFINE fetched == {i \in Ids : i >= floor /\ trades[i].mkt \in tracked}
<1>1. /\ Record(fetched) /\ fetched \in SUBSET Ids
      /\ lastFill' = Max(fetched \cup {lastFill}) /\ tracked' = tracked
    BY DEF Backfill
<1>2. /\ Len(trades) \in Nat /\ Ids = 1..Len(trades)
      /\ lastFill \in Nat /\ lastFill <= Len(trades)
    BY DEF Inv, FillType, Known, Ids
<1> HIDE DEF fetched
<1>3. /\ fetched \cup {lastFill} \in SUBSET Nat
      /\ \A x \in fetched \cup {lastFill} : x <= Len(trades)
    BY <1>1, <1>2
<1>4. lastFill' \in fetched \cup {lastFill}
    BY <1>1, <1>2, <1>3, MaxOfBounded
<1> QED
    BY <1>1, <1>3, <1>4, RecordExact

-----------------------------------------------------------------------------
(* The invariant.                                                          *)

(* The invariant holds at the start.                                       *)
LEMMA InitInv ==
    ASSUME Init
    PROVE  Inv
<1>1. FillType
    <2>1. diverge \in BOOLEAN
        BY Zenon DEF Init
    <2>2. trades \in Seq(Trade) /\ wire \in Seq(Nat)
        BY DEF Init
    <2> QED
        BY <2>1, <2>2, MarketsAssumption DEF Init, FillType
<1>2. Known
    BY DEF Init, Known, Ids
<1>3. NetIsTrades
    BY SumEmpty DEF Init, NetIsTrades, Moved
<1>4. Excusing
    BY DEF Init, Excusing, Missed, OnWire, Ids
<1> QED
    BY <1>1, <1>2, <1>3, <1>4 DEF Inv

(* Steps that leave the ledger and the trades alone keep NetIsTrades.      *)
LEMMA NetKept ==
    ASSUME Inv, UNCHANGED <<net, booked, trades>>
    PROVE  NetIsTrades'
    BY DEF Inv, NetIsTrades, Moved

(* The types and the ledger's position, whichever step is taken.           *)
LEMMA LedgerStep ==
    ASSUME Inv, [Next]_vars
    PROVE  (FillType /\ Known /\ NetIsTrades)'
<1> USE DEF ledger
<1>1. CASE OnFill
    <2>1. /\ Head(wire) \in Ids /\ Tail(wire) \in Seq(Nat)
          /\ \A k \in 1..Len(Tail(wire)) : Tail(wire)[k] \in Ids
        BY <1>1 DEF OnFill, Inv, FillType, Known
    <2>2. /\ net' \in [Markets -> Int] /\ booked' \subseteq Ids /\ NetIsTrades'
        BY <1>1, <2>1, RecordExact DEF OnFill
    <2>3. lastFill' \in Nat /\ lastFill' <= Len(trades)
        BY <1>1, <2>1 DEF OnFill, Later, Inv, FillType, Known, Ids
    <2>4. FillType'
        BY <1>1, <2>1, <2>2, <2>3 DEF OnFill, Inv, FillType
    <2>5. Known'
        BY <1>1, <2>1, <2>2, <2>3 DEF OnFill, Inv, Known, Ids
    <2> QED
        BY <2>2, <2>4, <2>5 DEF Inv
<1>2. CASE Disconnect
    <2>1. FillType' /\ Known'
        BY <1>2 DEF Disconnect, Inv, FillType, Known, Ids
    <2> QED
        BY <1>2, <2>1, NetKept DEF Disconnect, Inv
<1>3. CASE Connect
    <2>1. FillType' /\ Known'
        BY <1>3 DEF Connect, Inv, FillType, Known, Ids
    <2> QED
        BY <1>3, <2>1, NetKept DEF Connect, Inv
<1>4. CASE OnReconnect
    <2>1. CASE Backfill(ReconnectFloor) /\ UNCHANGED <<faults, excused>>
        <3>1. /\ net' \in [Markets -> Int] /\ booked' \subseteq Ids /\ NetIsTrades'
              /\ lastFill' \in Nat /\ lastFill' <= Len(trades) /\ tracked' = tracked
            BY <1>4, <2>1, BackfillExact DEF OnReconnect
        <3>2. FillType' /\ Known'
            BY <1>4, <2>1, <3>1 DEF OnReconnect, Inv, FillType, Known, Ids
        <3> QED
            BY <3>1, <3>2 DEF Inv
    <2>2. CASE RestFails /\ excused' = excused \cup Missed /\ UNCHANGED ledger
        <3>1. excused' \subseteq Ids'
            <4>1. Missed \subseteq Ids /\ Ids' = Ids
                BY <1>4 DEF OnReconnect, Missed, Ids
            <4> QED
                BY <2>2, <4>1 DEF Inv, Known
        <3>2. Known'
            BY <1>4, <2>2, <3>1 DEF OnReconnect, Inv, Known, Ids
        <3>3. FillType'
            BY <1>4, <2>2 DEF OnReconnect, RestFails, Inv, FillType
        <3> QED
            BY <1>4, <2>2, <3>2, <3>3, NetKept DEF OnReconnect, Inv
    <2> QED
        BY <1>4, <2>1, <2>2 DEF OnReconnect
<1>5. CASE Compare
    <2>1. diverge' \in BOOLEAN
        BY <1>5, Zenon DEF Compare, Inv, FillType
    <2>2. FillType' /\ Known'
        BY <1>5, <2>1 DEF Compare, RestFails, Inv, FillType, Known, Ids
    <2> QED
        BY <1>5, <2>2, NetKept DEF Compare, Inv
<1>6. CASE SessionBackfill
    <2>1. CASE /\ Backfill(SessionFloor) /\ pc' = "recheck"
               /\ excused' = {i \in excused : trades[i].mkt \notin tracked}
               /\ UNCHANGED <<diverge, faults>>
        <3>1. /\ net' \in [Markets -> Int] /\ booked' \subseteq Ids /\ NetIsTrades'
              /\ lastFill' \in Nat /\ lastFill' <= Len(trades) /\ tracked' = tracked
            BY <1>6, <2>1, BackfillExact DEF SessionBackfill
        <3>2. FillType' /\ Known'
            BY <1>6, <2>1, <3>1 DEF SessionBackfill, Inv, FillType, Known, Ids
        <3> QED
            BY <3>1, <3>2 DEF Inv
    <2>2. CASE /\ RestFails /\ pc' = "idle" /\ diverge' = TRUE
               /\ UNCHANGED <<ledger, excused>>
        <3>1. diverge' \in BOOLEAN
            BY <2>2, Zenon
        <3>2. FillType' /\ Known'
            BY <1>6, <2>2, <3>1 DEF SessionBackfill, RestFails, Inv, FillType, Known, Ids
        <3> QED
            BY <1>6, <2>2, <3>2, NetKept DEF SessionBackfill, Inv
    <2> QED
        BY <1>6, <2>1, <2>2 DEF SessionBackfill
<1>7. CASE Recompare
    <2>1. diverge' \in BOOLEAN
        BY <1>7, Zenon DEF Recompare, InSync
    <2>2. FillType' /\ Known'
        BY <1>7, <2>1 DEF Recompare, RestFails, Inv, FillType, Known, Ids
    <2> QED
        BY <1>7, <2>2, NetKept DEF Recompare, Inv
<1>8. ASSUME NEW m \in Markets, Adopt(m) \/ Drop(m)
      PROVE  (FillType /\ Known /\ NetIsTrades)'
    <2>1. FillType' /\ Known'
        BY <1>8 DEF Adopt, Drop, Inv, FillType, Known, Ids
    <2> QED
        BY <1>8, <2>1, NetKept DEF Adopt, Drop, Inv
<1>9. ASSUME NEW m \in Markets, NEW d \in {-1, 1}, ExchangeTrade(m, d)
      PROVE  (FillType /\ Known /\ NetIsTrades)'
    <2> DEFINE t == [mkt |-> m, d |-> d]
    <2>1. /\ t \in Trade /\ trades' = Append(trades, t) /\ trades \in Seq(Trade)
          /\ UNCHANGED ledger /\ t.mkt = m
        BY <1>9 DEF ExchangeTrade, Trade, Inv, FillType
    <2> HIDE DEF t
    <2>2. /\ trades' \in Seq(Trade) /\ Len(trades') = Len(trades) + 1
          /\ \A i \in Ids : trades'[i] = trades[i]
          /\ trades'[Len(trades) + 1] = t
        BY <2>1 DEF Ids
    <2>3. /\ wire' \in Seq(Nat)
          /\ \A k \in 1..Len(wire') : wire'[k] \in 1..(Len(trades) + 1)
        <3>1. CASE wire' = wire
            BY <2>1, <3>1 DEF Inv, FillType, Known, Ids
        <3>2. CASE wire' = Append(wire, Len(trades'))
            BY <2>1, <2>2, <3>2 DEF Inv, FillType, Known, Ids
        <3> QED
            BY <1>9, <3>1, <3>2 DEF ExchangeTrade
    <2>4. FillType'
        BY <1>9, <2>2, <2>3 DEF ExchangeTrade, Inv, FillType
    <2>5. Known'
        <3>1. excused' \subseteq Ids'
            <4>1. Ids' = Ids \cup {Len(trades')}
                BY <2>1, <2>2 DEF Ids
            <4>2. excused' \subseteq excused \cup {Len(trades')}
                BY <1>9 DEF ExchangeTrade
            <4>3. excused \subseteq Ids
                BY DEF Inv, Known
            <4> QED
                BY <4>1, <4>2, <4>3, Zenon
        <3>2. booked' \subseteq Ids' /\ lastFill' <= Len(trades')
            BY <2>1, <2>2 DEF Inv, Known, FillType, Ids
        <3> QED
            BY <2>2, <2>3, <3>1, <3>2 DEF Known, Ids
    <2>6. NetIsTrades'
        <3>1. booked \in SUBSET (1..Len(trades))
            BY DEF Inv, Known, Ids
        <3>2. \A n \in Markets : MovedBy(trades', n, booked) = MovedBy(trades, n, booked)
            BY <2>1, <3>1, MovedEarlier
        <3>3. \A n \in Markets : net[n] = MovedBy(trades, n, booked)
            BY DEF Inv, NetIsTrades, Moved, MovedBy
        <3>4. \A n \in Markets : net'[n] = MovedBy(trades', n, booked')
            BY <2>1, <3>2, <3>3
        <3> QED
            BY <3>4 DEF NetIsTrades, Moved, MovedBy
    <2> QED
        BY <2>4, <2>5, <2>6 DEF Inv
<1>10. CASE UNCHANGED vars
    <2>1. FillType' /\ Known'
        BY <1>10 DEF vars, Inv, FillType, Known, Ids
    <2> QED
        BY <1>10, <2>1, NetKept DEF vars, Inv
<1> QED
    BY <1>1, <1>2, <1>3, <1>4, <1>5, <1>6, <1>7, <1>8, <1>9, <1>10 DEF Next, Reconcile

(* A backfill leaves no trade of a tracked market unrecorded from its      *)
(* floor on, and forgets none; it moves the floor no further than that.    *)
LEMMA BackfillCovers ==
    ASSUME Inv, NEW floor \in Nat, floor <= lastFill + 1, Backfill(floor),
           UNCHANGED <<trades, wire>>
    PROVE  /\ tracked' = tracked
           /\ \A i \in Ids' \ booked' :
                /\ i \in Ids \ booked
                /\ i >= floor => trades'[i].mkt \notin tracked'
                /\ i <= lastFill' => i <= lastFill \/ trades'[i].mkt \notin tracked'
<1> DEFINE fetched == {i \in Ids : i >= floor /\ trades[i].mkt \in tracked}
<1>1. /\ booked' = booked \cup Fresh(fetched)
      /\ tracked' = tracked
    BY DEF Backfill, Record
<1>2. \A i \in Ids \ booked' : i >= floor => trades[i].mkt \notin tracked
    BY <1>1 DEF Fresh
<1>3. lastFill \in Nat /\ \A i \in Ids : i \in Nat
    BY DEF Inv, FillType, Ids
<1>4. \A i \in Ids \ booked' : i <= lastFill \/ trades[i].mkt \notin tracked
    BY <1>2, <1>3
<1> QED
    BY <1>1, <1>2, <1>4 DEF Ids

(* Steps that take no trade out of the record or off the wire and excuse   *)
(* none less keep what is excused.                                         *)
LEMMA ExcusingKept ==
    ASSUME Inv, UNCHANGED <<trades, wire, booked, lastFill>>, tracked \subseteq tracked',
           excused \subseteq excused', conn' \in {"first", "up"} => conn' = conn
    PROVE  Excusing'
<1>1. Ids' = Ids /\ Missed' = Missed
    BY DEF Missed, OnWire, Ids
<1> QED
    BY <1>1 DEF Inv, Excusing, Ids

(* What is excused, whichever step is taken.                               *)
LEMMA ExcusingStep ==
    ASSUME Inv, [Next]_vars
    PROVE  Excusing'
<1> USE DEF ledger
<1>1. CASE OnFill
    <2> DEFINE j == Head(wire)
    <2>1. /\ wire' = Tail(wire) /\ wire \in Seq(Nat) /\ wire # <<>>
          /\ lastFill' = Later(lastFill, j) /\ lastFill \in Nat /\ j \in Nat
          /\ booked' = booked \cup Fresh({j})
          /\ conn = "up" /\ UNCHANGED <<tracked, conn, trades, excused>>
        BY <1>1 DEF OnFill, Record, Inv, FillType
    <2>2. /\ \A k \in 1..Len(wire') : wire'[k] = wire[k + 1] /\ k + 1 \in 1..Len(wire)
          /\ j = wire[1] /\ Len(wire) >= 1
        BY <2>1
    <2>3. \A k, n \in 1..Len(wire') : k < n => wire'[k] < wire'[n]
        BY <2>1, <2>2 DEF Inv, Excusing
    <2>4. \A i \in OnWire : i = j \/ (i > j /\ i \in OnWire')
        <3> SUFFICES ASSUME NEW k \in 1..Len(wire), wire[k] # j
                     PROVE  wire[k] > j /\ wire[k] \in OnWire'
            BY DEF OnWire
        <3>1. k > 1 /\ 1 \in 1..Len(wire)
            BY <2>1, <2>2
        <3>2. wire[k] > j
            BY <2>1, <2>2, <3>1 DEF Inv, Excusing
        <3>3. k - 1 \in 1..Len(wire') /\ wire'[k - 1] = wire[k]
            BY <2>1, <3>1
        <3> QED
            BY <3>2, <3>3 DEF OnWire
    <2>5. \A i \in Ids \ booked' : i = j => i \in excused
        BY <2>1 DEF Fresh, Inv, Excusing
    <2>6. \A i \in Ids \ booked' : i \notin OnWire => i \in excused
        BY <2>1 DEF Missed, Inv, Excusing
    <2>7. \A i \in Ids \ booked' : i <= lastFill' => i \in excused
        <3> SUFFICES ASSUME NEW i \in Ids, i \notin booked', i <= lastFill'
                     PROVE  i \in excused
            OBVIOUS
        <3>1. i \in Nat
            BY DEF Ids
        <3>2. i <= lastFill \/ i <= j
            BY <2>1, <3>1 DEF Later
        <3>3. CASE i <= lastFill
            BY <2>1, <3>3 DEF Inv, Excusing
        <3>4. CASE i <= j
            <4>1. i \in OnWire => i = j
                BY <2>1, <2>4, <3>1, <3>4
            <4> QED
                BY <2>5, <2>6, <4>1
        <3> QED
            BY <3>2, <3>3, <3>4
    <2>8. Missed' \subseteq excused
        BY <2>1, <2>4, <2>5, <2>6 DEF Missed, Ids
    <2>9. \A i \in Ids \ booked' : trades[i].mkt \notin tracked => i \in excused
        BY <2>1 DEF Inv, Excusing
    <2> QED
        BY <2>1, <2>3, <2>7, <2>8, <2>9 DEF Excusing, Ids
<1>2. CASE Disconnect
    <2>1. /\ wire' = <<>> /\ conn' = "down"
          /\ UNCHANGED <<tracked, trades, booked, lastFill, excused>>
        BY <1>2 DEF Disconnect
    <2> QED
        BY <2>1 DEF Inv, Excusing, Ids
<1>3. CASE Connect
    <2>1. /\ UNCHANGED <<tracked, trades, wire, booked, lastFill, excused>>
          /\ conn' = "up" => conn = "first"
          /\ conn' \in {"up", "resumed"}
        BY <1>3 DEF Connect
    <2>2. Missed' = Missed /\ Ids' = Ids
        BY <2>1 DEF Missed, OnWire, Ids
    <2> QED
        BY <2>1, <2>2 DEF Inv, Excusing, Ids
<1>4. CASE OnReconnect
    <2>1. UNCHANGED <<trades, wire>> /\ conn' = "up"
        BY <1>4 DEF OnReconnect
    <2>2. CASE Backfill(ReconnectFloor) /\ UNCHANGED <<faults, excused>>
        <3>1. /\ lastFill \in Nat /\ Overlap \in Nat
              /\ ReconnectFloor \in Nat /\ ReconnectFloor <= lastFill + 1
            BY BoundsAssumption DEF ReconnectFloor, Later, Inv, FillType
        <3>2. /\ tracked' = tracked
              /\ \A i \in Ids' \ booked' :
                    /\ i \in Ids \ booked
                    /\ i >= ReconnectFloor => trades'[i].mkt \notin tracked'
                    /\ i <= lastFill' => i <= lastFill \/ trades'[i].mkt \notin tracked'
            BY <2>1, <2>2, <3>1, BackfillCovers
        <3>3. \A i \in Ids' \ booked' :
                i <= lastFill \/ trades'[i].mkt \notin tracked'
            BY <3>1, <3>2 DEF Ids
        <3>4. \A i \in Ids' \ booked' : i \in excused
            BY <2>1, <3>2, <3>3 DEF Inv, Excusing
        <3> QED
            BY <2>1, <2>2, <3>4 DEF Inv, Excusing, Missed
    <2>3. CASE RestFails /\ excused' = excused \cup Missed /\ UNCHANGED ledger
        <3>1. Missed' = Missed /\ Ids' = Ids
            BY <2>1, <2>3 DEF Missed, OnWire, Ids
        <3> QED
            BY <2>1, <2>3, <3>1 DEF Inv, Excusing, Ids
    <2> QED
        BY <1>4, <2>2, <2>3 DEF OnReconnect
<1>5. CASE Compare
    BY <1>5, ExcusingKept DEF Compare
<1>6. CASE SessionBackfill
    <2>1. UNCHANGED <<trades, wire, conn>>
        BY <1>6 DEF SessionBackfill
    <2>2. CASE /\ Backfill(SessionFloor)
               /\ excused' = {i \in excused : trades[i].mkt \notin tracked}
        <3>1. /\ tracked' = tracked
              /\ \A i \in Ids' \ booked' :
                    /\ i \in Ids \ booked
                    /\ i >= SessionFloor => trades'[i].mkt \notin tracked'
            BY <2>1, <2>2, BackfillCovers DEF SessionFloor, Inv, FillType
        <3>2. \A i \in Ids' \ booked' : trades[i].mkt \notin tracked /\ i \in Ids \ booked
            BY <2>1, <3>1 DEF SessionFloor, Ids
        <3>3. \A i \in Ids' \ booked' : i \in excused'
            BY <2>2, <3>2 DEF Inv, Excusing
        <3> QED
            BY <2>1, <3>3 DEF Inv, Excusing, Missed
    <2>3. CASE RestFails /\ UNCHANGED <<ledger, excused>>
        BY <2>1, <2>3, ExcusingKept
    <2> QED
        BY <1>6, <2>2, <2>3 DEF SessionBackfill
<1>7. CASE Recompare
    BY <1>7, ExcusingKept DEF Recompare
<1>8. ASSUME NEW m \in Markets, Adopt(m)
      PROVE  Excusing'
    BY <1>8, ExcusingKept DEF Adopt
<1>9. ASSUME NEW m \in Markets, Drop(m)
      PROVE  Excusing'
    <2>1. /\ UNCHANGED <<trades, wire, booked, lastFill, conn>>
          /\ tracked' = tracked \ {m}
          /\ excused' = excused \cup {i \in Ids \ booked : trades[i].mkt = m}
        BY <1>9 DEF Drop
    <2>2. Missed' = Missed /\ Ids' = Ids
        BY <2>1 DEF Missed, OnWire, Ids
    <2> QED
        BY <2>1, <2>2 DEF Inv, Excusing, Ids
<1>10. ASSUME NEW m \in Markets, NEW d \in {-1, 1}, ExchangeTrade(m, d)
       PROVE  Excusing'
    <2> DEFINE n == Len(trades) + 1
               t == [mkt |-> m, d |-> d]
    <2>1. /\ trades' = Append(trades, t) /\ trades \in Seq(Trade) /\ t.mkt = m
          /\ UNCHANGED <<tracked, booked, lastFill, conn>>
          /\ wire \in Seq(Nat) /\ lastFill \in Nat
        BY <1>10 DEF ExchangeTrade, Inv, FillType
    <2> HIDE DEF t
    <2>2. /\ Len(trades') = n /\ n \in Nat
          /\ \A i \in Ids : trades'[i] = trades[i] /\ i < n
          /\ trades'[n] = t
          /\ \A i \in Ids' : i \in Ids \/ i = n
          /\ lastFill < n
        BY <2>1 DEF Ids, Inv, Known
    <2>3. /\ excused \subseteq excused'
          /\ (m \notin tracked \/ conn = "first") => n \in excused'
          /\ wire' = IF conn \in {"up", "resumed"} THEN Append(wire, n) ELSE wire
        BY <1>10, <2>2 DEF ExchangeTrade
    <2>4. \A j, k \in 1..Len(wire') : j < k => wire'[j] < wire'[k]
        <3>1. \A j \in 1..Len(wire) : wire[j] < n
            BY <2>2 DEF Inv, Known
        <3>2. CASE wire' = wire
            BY <3>2 DEF Inv, Excusing
        <3>3. CASE wire' = Append(wire, n)
            <4>1. /\ Len(wire') = Len(wire) + 1 /\ wire'[Len(wire) + 1] = n
                  /\ \A j \in 1..Len(wire) : wire'[j] = wire[j]
                BY <2>1, <3>3
            <4>2. Len(wire) \in Nat
                BY <2>1
            <4> QED
                BY <3>1, <4>1, <4>2 DEF Inv, Excusing
        <3> QED
            BY <2>3, <3>2, <3>3
    <2>5. \A i \in Ids' \ booked' : trades'[i].mkt \notin tracked' => i \in excused'
        BY <2>1, <2>2, <2>3 DEF Inv, Excusing
    <2>6. \A i \in Ids' \ booked' : i <= lastFill' => i \in excused'
        BY <2>1, <2>2, <2>3 DEF Inv, Excusing
    <2>7. OnWire \subseteq OnWire' /\ (conn = "up" => n \in OnWire')
        <3>1. CASE wire' = wire /\ conn # "up"
            BY <3>1 DEF OnWire
        <3>2. CASE wire' = Append(wire, n)
            <4>1. /\ Len(wire') = Len(wire) + 1 /\ wire'[Len(wire) + 1] = n
                  /\ \A j \in 1..Len(wire) : wire'[j] = wire[j]
                BY <2>1, <3>2
            <4>2. Len(wire) \in Nat
                BY <2>1
            <4> QED
                BY <4>1, <4>2 DEF OnWire
        <3> QED
            BY <2>3, <3>1, <3>2
    <2>8. conn \in {"first", "up"} => Missed' \subseteq excused'
        BY <2>1, <2>2, <2>3, <2>7 DEF Inv, Excusing, Missed
    <2> QED
        BY <2>1, <2>4, <2>5, <2>6, <2>8 DEF Excusing
<1>11. CASE UNCHANGED vars
    BY <1>11, ExcusingKept DEF vars
<1> QED
    BY <1>1, <1>2, <1>3, <1>4, <1>5, <1>6, <1>7, <1>8, <1>9, <1>10, <1>11 DEF Next, Reconcile

(* The invariant is inductive.                                             *)
LEMMA NextInv ==
    ASSUME Inv, [Next]_vars
    PROVE  Inv'
    BY LedgerStep, ExcusingStep DEF Inv

(* The inductive invariant holds in every reachable state.                 *)
THEOREM Invariance == Spec => []Inv
<1>1. Init => Inv
    BY InitInv
<1>2. Inv /\ [Next]_vars => Inv'
    BY NextInv
<1> QED
    BY <1>1, <1>2, PTL DEF Spec

(* on_fill, backfill_fills and the session replay: the position is the sum *)
(* of the recorded trades, each counted once, whichever way and however    *)
(* often it arrived.                                                       *)
THEOREM NetIsTradesHolds == Spec => []NetIsTrades
<1>1. Inv => NetIsTrades
    BY DEF Inv
<1> QED
    BY <1>1, Invariance, PTL

(* Pushes, reconnect backfills and their floor, reconciliations and        *)
(* rotation, in any order and failing at any point: while connected, a     *)
(* trade that is neither recorded nor on its way is one of those a         *)
(* reconnect need not bring back.                                          *)
THEOREM GapBackfilledHolds == Spec => []GapBackfilled
<1>1. Inv => GapBackfilled
    BY DEF Inv, Excusing, GapBackfilled
<1> QED
    BY <1>1, Invariance, PTL

-----------------------------------------------------------------------------
(* The connection, for any set of tickers, any delays and any moment at    *)
(* which stop() comes (StopRaces may be TRUE).                             *)

(* What the three threads know of the socket: a flag connected_ outlives   *)
(* its connection only until the close callback runs, an open connection   *)
(* that is not connected_ has its open callback and all its subscriptions  *)
(* still to come, and run() arms and starts only a socket it has closed.   *)
SocketKnown ==
    /\ sock \in {"off", "opening"} => cb = "none" /\ ~connected
    /\ sock = "lost" => cb # "open" /\ (connected => cb = "close")
    /\ sock = "open" => IF connected THEN cb = "none" ELSE cb = "open"
    /\ (sock = "open" /\ ~connected) => \A t \in Tickers : sent[t] = 0
    /\ rpc \in {"arm", "start"} => sock = "off"

(* The inductive invariant.                                                *)
FeedInv == TypeOK /\ SocketKnown /\ SubscribedOnce

(* The initial states satisfy the invariant.                               *)
LEMMA FeedInitially == ConnInit => FeedInv
<1> SUFFICES ASSUME ConnInit PROVE FeedInv
  OBVIOUS
<1>1. TypeOK
  <2>1. attempts \in 0..MaxReconnects /\ failures \in 0..attempts
    BY DelaysAssumption DEF ConnInit
  <2>2. sent \in [Tickers -> Nat]
    BY DEF ConnInit
  <2>3. running \in BOOLEAN /\ done \in BOOLEAN /\ connected \in BOOLEAN
    BY Zenon DEF ConnInit
  <2> QED BY <2>1, <2>2, <2>3 DEF ConnInit, TypeOK, RunSteps
<1>2. SocketKnown /\ SubscribedOnce
  BY DEF ConnInit, SocketKnown, SubscribedOnce
<1> QED BY <1>1, <1>2 DEF FeedInv

(* Every step of the three threads keeps the types.                        *)
LEMMA TypeStep == TypeOK /\ [ConnNext]_connVars => TypeOK'
<1> SUFFICES ASSUME TypeOK, [ConnNext]_connVars PROVE TypeOK'
  OBVIOUS
<1> USE DelaysAssumption DEF TypeOK, RunSteps, run, sub
<1>1. CASE WsThread
  <2>1. CASE RunBegin BY <2>1 DEF RunBegin
  <2>2. CASE RunLoop BY <2>2 DEF RunLoop
  <2>3. CASE RunConnect BY <2>3 DEF RunConnect
  <2>4. CASE RunArm BY <2>4 DEF RunArm
  <2>5. CASE RunStart BY <2>5 DEF RunStart
  <2>6. CASE RunWait BY <2>6 DEF RunWait
  <2>7. CASE RunCheck
    <3>1. CASE ~running \/ attempts >= MaxReconnects
      BY <2>7, <3>1 DEF RunCheck
    <3>2. CASE ~(~running \/ attempts >= MaxReconnects)
      <4>1. attempts' = attempts + 1 /\ failures' = failures + 1
        BY <2>7, <3>2 DEF RunCheck
      <4>2. attempts' \in 0..MaxReconnects /\ failures' \in 0..attempts'
        BY <3>2, <4>1
      <4> QED BY <2>7, <3>2, <4>2 DEF RunCheck
    <3> QED BY <3>1, <3>2
  <2>8. CASE RunSleep BY <2>8 DEF RunSleep
  <2> QED BY <1>1, <2>1, <2>2, <2>3, <2>4, <2>5, <2>6, <2>7, <2>8 DEF WsThread
<1>2. CASE IxThread
  <2>1. CASE SockOpens BY <2>1 DEF SockOpens
  <2>2. CASE SockFails BY <2>2 DEF SockFails
  <2>3. CASE HandleConnect BY <2>3 DEF HandleConnect
  <2>4. CASE HandleClose BY <2>4 DEF HandleClose
  <2> QED BY <1>2, <2>1, <2>2, <2>3, <2>4 DEF IxThread
<1>3. CASE MainThread
  <2>1. CASE Stop BY <2>1 DEF Stop
  <2>2. CASE StopSocket BY <2>2 DEF StopSocket
  <2>3. CASE StopDone BY <2>3 DEF StopDone
  <2>4. ASSUME NEW t \in Tickers, Subscribe(t) PROVE TypeOK'
    BY <2>4 DEF Subscribe, Send
  <2> QED BY <1>3, <2>1, <2>2, <2>3, <2>4 DEF MainThread
<1>4. CASE UNCHANGED connVars BY <1>4 DEF connVars
<1> QED BY <1>1, <1>2, <1>3, <1>4 DEF ConnNext

(* Every step keeps what is known of the socket and the count of the       *)
(* subscriptions sent on it.                                               *)
LEMMA FeedStep == FeedInv /\ [ConnNext]_connVars => FeedInv'
<1> SUFFICES ASSUME FeedInv, [ConnNext]_connVars
             PROVE  SocketKnown' /\ SubscribedOnce'
  BY TypeStep DEF FeedInv
<1> USE DEF FeedInv, TypeOK, SocketKnown, SubscribedOnce, RunSteps, run, sub
<1>1. CASE WsThread
  <2>1. CASE RunBegin BY <2>1 DEF RunBegin
  <2>2. CASE RunLoop BY <2>2 DEF RunLoop
  <2>3. CASE RunConnect BY <2>3 DEF RunConnect
  <2>4. CASE RunArm BY <2>4 DEF RunArm
  <2>5. CASE RunStart BY <2>5 DEF RunStart
  <2>6. CASE RunWait BY <2>6 DEF RunWait
  <2>7. CASE RunCheck BY <2>7 DEF RunCheck
  <2>8. CASE RunSleep BY <2>8 DEF RunSleep
  <2> QED BY <1>1, <2>1, <2>2, <2>3, <2>4, <2>5, <2>6, <2>7, <2>8 DEF WsThread
<1>2. CASE IxThread
  <2>1. CASE SockOpens BY <2>1 DEF SockOpens
  <2>2. CASE SockFails BY <2>2 DEF SockFails
  <2>3. CASE HandleConnect BY <2>3 DEF HandleConnect
  <2>4. CASE HandleClose BY <2>4 DEF HandleClose
  <2> QED BY <1>2, <2>1, <2>2, <2>3, <2>4 DEF IxThread
<1>3. CASE MainThread
  <2>1. CASE Stop BY <2>1 DEF Stop
  <2>2. CASE StopSocket BY <2>2 DEF StopSocket
  <2>3. CASE StopDone BY <2>3 DEF StopDone
  <2>4. ASSUME NEW t \in Tickers, Subscribe(t)
        PROVE SocketKnown' /\ SubscribedOnce'
    BY <2>4 DEF Subscribe, Send
  <2> QED BY <1>3, <2>1, <2>2, <2>3, <2>4 DEF MainThread
<1>4. CASE UNCHANGED connVars BY <1>4 DEF connVars
<1> QED BY <1>1, <1>2, <1>3, <1>4 DEF ConnNext

(* The state of run(), of ixwebsocket's callbacks and of subscribe()       *)
(* keeps its type: attempts stay within max_reconnects_.                   *)
THEOREM FeedTypeCorrect == ConnSpec => []TypeOK
<1>1. FeedInv => TypeOK BY DEF FeedInv
<1> QED BY FeedInitially, FeedStep, <1>1, PTL DEF ConnSpec

(* subscribe() and handle_connect never send a ticker twice on one         *)
(* connection and never leave one out, even when stop() races run().       *)
THEOREM FeedSubscribedOnce == ConnSpec => []SubscribedOnce
<1>1. FeedInv => SubscribedOnce BY DEF FeedInv
<1> QED BY FeedInitially, FeedStep, <1>1, PTL DEF ConnSpec
-----------------------------------------------------------------------------
(* PaperSession.                                                           *)

(* An order of the paper exchange rests with something left to fill.       *)
RestingOrder(x, id) ==
    /\ DOMAIN x = {"id", "side", "price", "qty", "filled"}
    /\ x.id = id /\ x.side \in Sides /\ x.price \in Int
    /\ x.qty \in Nat /\ x.filled \in Nat /\ x.filled < x.qty

(* The paper exchange: ids below the next one, all orders resting.         *)
Exchange(o) ==
    /\ DOMAIN o = {"own", "open", "paper", "nextId", "fills", "filled"}
    /\ o.fills \in Nat
    /\ o.filled \in [Sides -> Int]
    /\ o.nextId \in Nat \ {0}
    /\ DOMAIN o.paper \subseteq 1..o.nextId - 1
    /\ \A id \in DOMAIN o.paper : RestingOrder(o.paper[id], id)

(* The ledger has recorded what the exchange filled.  A fill is refused by *)
(* neither guard of on_fill: its id is past those recorded.                *)
Ledger(a, o) ==
    /\ DOMAIN a = {"net", "seen", "lots", "realized", "cachedPos", "cachedOpen",
                   "halted", "flow"}
    /\ a.net = o.filled["yes"] - o.filled["no"]
    /\ a.seen \subseteq 1..o.fills

(* The inductive invariant.  No order rests before the market is adopted.  *)
PaperInv ==
    /\ Exchange(orders) /\ Ledger(account, orders)
    /\ adopted \/ DOMAIN orders.paper = {}

(* What the exchange has filled does not change.                           *)
SameFills(o, q) == q.fills = o.fills /\ q.filled = o.filled

-----------------------------------------------------------------------------
(* The quoter keeps the exchange.                                          *)

(* A new order rests under the next id.                                    *)
LEMMA PostKept ==
    ASSUME NEW o, Exchange(o), NEW s \in Sides, NEW px, OrderPrice(s, px) \in Int
    PROVE  Exchange(Post(o, s, px)) /\ SameFills(o, Post(o, s, px))
<1> DEFINE id == o.nextId
           x == [id |-> id, side |-> s, price |-> OrderPrice(s, px), qty |-> QuoteSize,
                 filled |-> 0]
           p == Post(o, s, px)
<1>1. RestingOrder(x, id)
  BY PricingAssumption DEF RestingOrder, Exchange
<1>2. /\ DOMAIN p = DOMAIN o
      /\ p.nextId = id + 1
      /\ p.paper = With(o.paper, id, x)
      /\ SameFills(o, p)
  BY DEF Post, Exchange, SameFills
<1> HIDE DEF x, p
<1>3. /\ id \in Nat \ {0} /\ DOMAIN o.paper \subseteq 1..id - 1
      /\ \A i \in DOMAIN o.paper : RestingOrder(o.paper[i], i)
  BY DEF Exchange
<1>4. /\ DOMAIN With(o.paper, id, x) = DOMAIN o.paper \cup {id}
      /\ \A i \in DOMAIN o.paper \cup {id} :
            With(o.paper, id, x)[i] = IF i = id THEN x ELSE o.paper[i]
  BY DEF With
<1>5. \A i \in DOMAIN p.paper : RestingOrder(p.paper[i], i)
  BY <1>1, <1>2, <1>3, <1>4
<1>6. DOMAIN p.paper \subseteq 1..p.nextId - 1 /\ p.nextId \in Nat \ {0}
  BY <1>2, <1>3, <1>4
<1>7. Exchange(p)
  BY <1>2, <1>5, <1>6 DEF Exchange, SameFills
<1> QED BY <1>2, <1>7 DEF p

(* Neither the quotes nor open_orders_ are the exchange's.                 *)
LEMMA SameExchange ==
    ASSUME NEW o, Exchange(o), NEW q, DOMAIN q = DOMAIN o, q.paper = o.paper,
           q.nextId = o.nextId, SameFills(o, q)
    PROVE  Exchange(q)
BY DEF Exchange, SameFills

(* A deleted order is gone, the others rest.                               *)
LEMMA ReleaseKept ==
    ASSUME NEW o, Exchange(o), NEW s \in Sides
    PROVE  Exchange(Release(o, s)) /\ SameFills(o, Release(o, s))
<1> DEFINE id == o.own[s].id
           r == Release(o, s)
<1>1. /\ DOMAIN r = DOMAIN o /\ r.nextId = o.nextId /\ r.paper = Without(o.paper, id)
      /\ SameFills(o, r)
  BY DEF Release, Delete, Exchange, SameFills
<1>2. /\ DOMAIN Without(o.paper, id) = DOMAIN o.paper \ {id}
      /\ \A i \in DOMAIN o.paper \ {id} : Without(o.paper, id)[i] = o.paper[i]
  BY DEF Without
<1> HIDE DEF r, id
<1>3. Exchange(r)
  BY <1>1, <1>2 DEF Exchange, SameFills
<1> QED BY <1>1, <1>3 DEF r

(* A placement, and an amend, which the paper exchange takes for one.      *)
LEMMA PlaceKept ==
    ASSUME NEW o, Exchange(o), NEW s \in Sides, NEW px, OrderPrice(s, px) \in Int
    PROVE  /\ Exchange(Place(o, s, px)) /\ SameFills(o, Place(o, s, px))
           /\ Exchange(Amend(o, s, px)) /\ SameFills(o, Amend(o, s, px))
<1> DEFINE p == Post(o, s, px)
<1>1. Exchange(p) /\ SameFills(o, p)
  BY PostKept
<1>2. DOMAIN p = {"own", "open", "paper", "nextId", "fills", "filled"}
  BY <1>1 DEF Exchange
<1>3. /\ DOMAIN Place(o, s, px) = DOMAIN p /\ SameFills(p, Place(o, s, px))
      /\ Place(o, s, px).paper = p.paper /\ Place(o, s, px).nextId = p.nextId
  BY <1>2 DEF Place, SameFills
<1>4. /\ DOMAIN Amend(o, s, px) = DOMAIN p /\ SameFills(p, Amend(o, s, px))
      /\ Amend(o, s, px).paper = p.paper /\ Amend(o, s, px).nextId = p.nextId
  BY <1>2 DEF Amend, SameFills
<1> HIDE DEF p
<1> QED BY <1>1, <1>3, <1>4, SameExchange DEF SameFills

(* A fade flag is the quoter's own.                                        *)
LEMMA FadeKept ==
    ASSUME NEW o, Exchange(o), NEW s \in Sides, NEW f
    PROVE  LET q == [o EXCEPT !.own[s].fade = f] IN Exchange(q) /\ SameFills(o, q)
BY SameExchange DEF Exchange, SameFills

(* Whatever a refresh decides, the exchange is one of these.               *)
LEMMA RefreshKept ==
    ASSUME NEW o, Exchange(o), NEW s \in Sides, NEW px, NEW age
    PROVE  Exchange(Refresh(o, s, px, age)) /\ SameFills(o, Refresh(o, s, px, age))
<1> DEFINE away == IF s = "yes" THEN o.own[s].px - px ELSE px - o.own[s].px
           adverse == away >= TheoJump
           young == IF adverse THEN age = 0 ELSE age < 2
           clean == [o EXCEPT !.own[s].fade = FALSE]
           R == Refresh(o, s, px, age)
           Kept(q) == Exchange(q) /\ SameFills(o, q)
<1>1. CheckOrder(s, px) => OrderPrice(s, px) \in Int
  BY DEF CheckOrder
<1>2. \/ R \in {o, [o EXCEPT !.own[s].fade = TRUE], [o EXCEPT !.own[s].fade = adverse],
                Release(clean, s)}
      \/ CheckOrder(s, px) /\ R \in {Place(o, s, px), Amend(clean, s, px)}
  BY Zenon DEF Refresh, Reprice
<1>3. Kept([o EXCEPT !.own[s].fade = TRUE]) /\ Kept([o EXCEPT !.own[s].fade = adverse])
      /\ Kept(clean) /\ Kept(o)
  <2>1. ASSUME NEW f PROVE Kept([o EXCEPT !.own[s].fade = f])
    BY FadeKept, Zenon
  <2>2. Kept(o)
    BY DEF SameFills
  <2>3. Kept([o EXCEPT !.own[s].fade = TRUE])
    BY <2>1, Zenon
  <2>4. Kept([o EXCEPT !.own[s].fade = adverse])
    <3> HIDE DEF adverse
    <3> QED BY <2>1, Zenon
  <2>5. Kept(clean)
    BY <2>1, Zenon
  <2> HIDE DEF Kept, clean, adverse
  <2> QED BY <2>2, <2>3, <2>4, <2>5, Zenon
<1> HIDE DEF clean, adverse, R
<1>4. Kept(Release(clean, s))
  BY <1>3, ReleaseKept DEF SameFills
<1>5. ASSUME CheckOrder(s, px)
      PROVE  Kept(Place(o, s, px)) /\ Kept(Amend(clean, s, px))
  BY <1>1, <1>3, <1>5, PlaceKept DEF SameFills
<1> HIDE DEF Kept
<1>6. Kept(R)
  BY <1>2, <1>3, <1>4, <1>5
<1> QED BY <1>6 DEF Kept, R

(* Both sides pulled where suppressed, then both refreshed.                *)
LEMMA UpdateKept ==
    ASSUME NEW b, Exchange(orders), Update(b)
    PROVE  Exchange(orders') /\ SameFills(orders, orders')
<1> DEFINE visible == Visible(b)
           suppressed == Suppressed(account.net, FALSE)
           desired == Desired(visible, FairValue(model, Smoothed(visible, ema), Vwap),
                              DominantTakerSide, account.net)
           pull(o, s) == IF s \in suppressed /\ o.own[s].id # NoId THEN Release(o, s) ELSE o
           quote(o, s, age) == IF desired[s] = None \/ s \in suppressed THEN o
                               ELSE Refresh(o, s, desired[s], age)
           Kept(q) == Exchange(q) /\ SameFills(orders, q)
<1>1. \/ orders' = orders
      \/ \E bidAge, askAge \in Ages :
            orders' = quote(quote(pull(pull(orders, "yes"), "no"), "yes", bidAge),
                            "no", askAge)
  BY DEF Update
<1>2. ASSUME NEW o, Kept(o), NEW s \in Sides
      PROVE  Kept(pull(o, s))
  BY <1>2, ReleaseKept DEF SameFills
<1>3. ASSUME NEW o, Kept(o), NEW s \in Sides, NEW age
      PROVE  Kept(quote(o, s, age))
  <2>1. /\ Exchange(Refresh(o, s, desired[s], age))
        /\ SameFills(o, Refresh(o, s, desired[s], age))
    BY <1>3, RefreshKept, Zenon
  <2> HIDE DEF desired, suppressed
  <2> QED BY <1>3, <2>1 DEF SameFills
<1>4. "yes" \in Sides /\ "no" \in Sides /\ Kept(orders)
  BY DEF Sides, SameFills
<1> HIDE DEF pull, quote, Kept
<1>5. Kept(pull(pull(orders, "yes"), "no"))
  BY <1>2, <1>4
<1>6. CASE orders' = orders
  BY <1>4, <1>6 DEF Kept
<1>7. ASSUME NEW bidAge, NEW askAge,
             orders' = quote(quote(pull(pull(orders, "yes"), "no"), "yes", bidAge),
                             "no", askAge)
      PROVE  Kept(orders')
  <2>1. Kept(quote(pull(pull(orders, "yes"), "no"), "yes", bidAge))
    BY <1>3, <1>4, <1>5
  <2> QED BY <1>3, <1>4, <1>7, <2>1
<1> QED BY <1>1, <1>6, <1>7 DEF Kept

-----------------------------------------------------------------------------
(* One fill.                                                               *)

(* The exchange has one fill more, of a side's order.                      *)
OneMore(o, r, s, qty) ==
    r.fills = o.fills + 1 /\ r.filled = [o.filled EXCEPT ![s] = @ + qty]

(* The exchange takes a fill of an order that rests, for good if it fills  *)
(* what is left of it.                                                     *)
LEMMA SimulateFillKept ==
    ASSUME NEW o, Exchange(o), NEW id \in DOMAIN o.paper, NEW qty \in Nat
    PROVE  LET r == SimulateFill(o, id, qty)
           IN  /\ Exchange(r) /\ r.nextId = o.nextId /\ r.fills = o.fills + 1
               /\ r.filled = [o.filled EXCEPT ![o.paper[id].side] = @ + qty]
               /\ DOMAIN r.paper \subseteq DOMAIN o.paper
               /\ \A i \in DOMAIN o.paper \ {id} :
                     i \in DOMAIN r.paper /\ r.paper[i] = o.paper[i]
               /\ qty = o.paper[id].qty - o.paper[id].filled => id \notin DOMAIN r.paper
<1> DEFINE old == o.paper[id]
           x == [old EXCEPT !.filled = @ + qty]
           r == SimulateFill(o, id, qty)
<1>1. RestingOrder(old, id)
  BY DEF Exchange
<1>2. /\ DOMAIN x = {"id", "side", "price", "qty", "filled"}
      /\ x.id = id /\ x.side \in Sides /\ x.qty \in Nat /\ x.filled \in Nat
      /\ x.price \in Int
      /\ x.side = old.side /\ x.qty = old.qty /\ x.filled = old.filled + qty
      /\ old.filled \in Nat
  BY <1>1 DEF RestingOrder
<1>3. /\ DOMAIN r = DOMAIN o /\ r.nextId = o.nextId /\ r.fills = o.fills + 1
      /\ r.filled = [o.filled EXCEPT ![x.side] = @ + qty]
      /\ r.paper = IF x.filled < x.qty THEN With(o.paper, id, x) ELSE Without(o.paper, id)
  BY DEF SimulateFill, Exchange
<1> HIDE DEF x, r, old
<1>4. r.fills \in Nat /\ r.filled \in [Sides -> Int]
  BY <1>2, <1>3 DEF Exchange
<1>5. CASE x.filled < x.qty
  <2>1. RestingOrder(x, id)
    BY <1>2, <1>5 DEF RestingOrder
  <2>2. /\ DOMAIN r.paper = DOMAIN o.paper
        /\ \A i \in DOMAIN o.paper : r.paper[i] = IF i = id THEN x ELSE o.paper[i]
    BY <1>3, <1>5 DEF With
  <2>3. Exchange(r)
    BY <1>3, <1>4, <2>1, <2>2 DEF Exchange
  <2>4. qty # old.qty - old.filled
    BY <1>2, <1>5
  <2> QED BY <1>2, <1>3, <2>2, <2>3, <2>4 DEF r, old
<1>6. CASE ~(x.filled < x.qty)
  <2>1. /\ DOMAIN r.paper = DOMAIN o.paper \ {id}
        /\ \A i \in DOMAIN o.paper \ {id} : r.paper[i] = o.paper[i]
    BY <1>3, <1>6 DEF Without
  <2>2. Exchange(r)
    BY <1>3, <1>4, <2>1 DEF Exchange
  <2> QED BY <1>2, <1>3, <2>1, <2>2 DEF r, old
<1> QED BY <1>5, <1>6

(* The ledger books what the exchange filled last.                         *)
LEMMA BookedKept ==
    ASSUME NEW o, Exchange(o), NEW a, Ledger(a, o), NEW open,
           NEW x, x.side \in Sides, NEW qty \in Nat, NEW r, OneMore(o, r, x.side, qty)
    PROVE  /\ Ledger(Booked(a, open, x, qty, r.fills), r)
           /\ r.fills \notin a.seen
           /\ r.filled["yes"] + r.filled["no"] = o.filled["yes"] + o.filled["no"] + qty
<1> DEFINE B == Booked(a, open, x, qty, r.fills)
           s == x.side
           y == o.filled["yes"]
           n == o.filled["no"]
<1>1. /\ DOMAIN B = DOMAIN a /\ B.seen = a.seen \cup {r.fills}
      /\ B.net = a.net + (IF s = "yes" THEN qty ELSE -qty)
  BY DEF Booked, Ledger
<1> HIDE DEF B
<1>2. /\ y \in Int /\ n \in Int /\ a.net = y - n /\ o.fills \in Nat
      /\ o.filled \in [Sides -> Int] /\ r.fills = o.fills + 1
      /\ r.filled = [o.filled EXCEPT ![s] = @ + qty]
  BY DEF Exchange, Ledger, Sides, OneMore
<1>3. \/ s = "yes" /\ r.filled["yes"] = y + qty /\ r.filled["no"] = n
      \/ s = "no" /\ r.filled["yes"] = y /\ r.filled["no"] = n + qty
  BY <1>2 DEF Sides
<1>4. B.net = r.filled["yes"] - r.filled["no"]
  <2>1. CASE s = "yes"
    BY <1>1, <1>2, <1>3, <2>1
  <2>2. CASE s = "no"
    BY <1>1, <1>2, <1>3, <2>2
  <2> QED BY <2>1, <2>2 DEF Sides
<1>5. r.fills \notin a.seen /\ B.seen \subseteq 1..r.fills
  BY <1>1, <1>2 DEF Ledger
<1>6. Ledger(B, r)
  BY <1>1, <1>4, <1>5 DEF Ledger
<1>7. r.filled["yes"] + r.filled["no"] = y + n + qty
  BY <1>2, <1>3
<1> QED BY <1>5, <1>6, <1>7 DEF B

(* How far a print has come: `left` of its size is unused and the rest is  *)
(* filled, and the orders from `from` on, and those it does not cross, are *)
(* as they were.  While some of it is unused, those it crossed are filled. *)
FilledSoFar(print, acc, from) ==
    /\ DOMAIN acc = {"left", "orders", "account"}
    /\ acc.left \in Nat
    /\ Exchange(acc.orders) /\ acc.orders.nextId = orders.nextId
    /\ Ledger(acc.account, acc.orders)
    /\ acc.left + acc.orders.filled["yes"] + acc.orders.filled["no"]
         = print.qty + orders.filled["yes"] + orders.filled["no"]
    /\ DOMAIN acc.orders.paper \subseteq DOMAIN orders.paper
    /\ \A i \in DOMAIN orders.paper :
          (i >= from \/ ~Crossed(orders.paper[i], print))
             => i \in DOMAIN acc.orders.paper /\ acc.orders.paper[i] = orders.paper[i]
    /\ acc.left # 0 =>
          \A i \in DOMAIN acc.orders.paper : i < from => ~Crossed(orders.paper[i], print)

(* One turn of the loop takes a crossed order's fill out of the print.     *)
LEMMA FillOneKept ==
    ASSUME PaperInv, NEW print \in Prints, NEW acc, NEW id \in DOMAIN orders.paper,
           FilledSoFar(print, acc, id), Crossed(orders.paper[id], print)
    PROVE  FilledSoFar(print, FillOne(print, acc, orders.paper[id]), id + 1)
<1> DEFINE x == orders.paper[id]
           qty == Smaller(acc.left, x.qty - x.filled)
           o == SimulateFill(acc.orders, x.id, qty)
           open == FilledOpen(o.open, x.id, qty)
           O == [o EXCEPT !.open = open, !.own = Forgotten(@, open, x.id)]
           A == Booked(acc.account, open, x, qty, o.fills)
           r == FillOne(print, acc, x)
<1>1. RestingOrder(x, id) /\ id \in Nat
  BY DEF PaperInv, Exchange
<1>2. x.id = id /\ x.side \in Sides /\ x.qty - x.filled \in Nat \ {0}
  BY <1>1 DEF RestingOrder
<1>3. /\ acc.left \in Nat /\ Exchange(acc.orders) /\ acc.orders.nextId = orders.nextId
      /\ Ledger(acc.account, acc.orders)
      /\ id \in DOMAIN acc.orders.paper /\ acc.orders.paper[id] = x
  BY <1>1 DEF FilledSoFar
<1>4. /\ qty \in Nat /\ acc.left - qty \in Nat
      /\ qty = 0 => acc.left = 0
      /\ acc.left - qty # 0 => qty = x.qty - x.filled
  BY <1>2, <1>3 DEF Smaller
<1>5. r = IF qty = 0 THEN acc
          ELSE HearFill([left |-> acc.left - qty, orders |-> o, account |-> acc.account],
                        x, qty, o.fills)
  BY DEF FillOne, TradeId
<1> HIDE DEF x, qty, open
<1>6. /\ Exchange(o) /\ o.nextId = orders.nextId /\ o.fills = acc.orders.fills + 1
      /\ o.filled = [acc.orders.filled EXCEPT ![x.side] = @ + qty]
      /\ DOMAIN o.paper \subseteq DOMAIN acc.orders.paper
      /\ \A i \in DOMAIN acc.orders.paper \ {id} :
            i \in DOMAIN o.paper /\ o.paper[i] = acc.orders.paper[i]
      /\ qty = x.qty - x.filled => id \notin DOMAIN o.paper
  BY <1>2, <1>3, <1>4, SimulateFillKept
<1> HIDE DEF o
<1>7. /\ Ledger(Booked(acc.account, open, x, qty, o.fills), o)
      /\ o.fills \notin acc.account.seen
      /\ o.filled["yes"] + o.filled["no"]
           = acc.orders.filled["yes"] + acc.orders.filled["no"] + qty
  <2> DEFINE T == acc.orders
             a == acc.account
  <2>1. Exchange(T) /\ Ledger(a, T) /\ x.side \in Sides /\ qty \in Nat
    BY <1>2, <1>3, <1>4
  <2>2. OneMore(T, o, x.side, qty)
    BY <1>6 DEF OneMore
  <2> HIDE DEF T, a
  <2>3. /\ Ledger(Booked(a, open, x, qty, o.fills), o)
        /\ o.fills \notin a.seen
        /\ o.filled["yes"] + o.filled["no"] = T.filled["yes"] + T.filled["no"] + qty
    <3>1. o.fills \notin a.seen
      BY <2>1, <2>2, BookedKept
    <3>2. o.filled["yes"] + o.filled["no"] = T.filled["yes"] + T.filled["no"] + qty
      BY <2>1, <2>2, BookedKept
    <3>3. Ledger(Booked(a, open, x, qty, o.fills), o)
      BY <2>1, <2>2, BookedKept
    <3> QED BY <3>1, <3>2, <3>3
  <2> QED BY <2>3 DEF T, a
<1> HIDE DEF A
<1>8. DOMAIN O = DOMAIN o /\ O.paper = o.paper /\ O.nextId = o.nextId /\ SameFills(o, O)
  BY <1>6 DEF Exchange, SameFills
<1> HIDE DEF O
<1>9. Exchange(O) /\ Ledger(A, O)
  BY <1>6, <1>7, <1>8, SameExchange DEF Ledger, SameFills, A
<1>10. adopted
  BY DEF PaperInv
<1>11. qty # 0 => r = [left |-> acc.left - qty, orders |-> O, account |-> A]
  <2> DEFINE b == [left |-> acc.left - qty, orders |-> o, account |-> acc.account]
  <2>1. b.left = acc.left - qty /\ b.orders = o /\ b.account = acc.account
    OBVIOUS
  <2>2. open = FilledOpen(b.orders.open, x.id, qty)
    BY <2>1 DEF open
  <2> HIDE DEF b, open
  <2>3. ~Refused(b.account, o.fills)
    BY <1>7, <1>10, <2>1 DEF Refused
  <2>4. HearFill(b, x, qty, o.fills)
           = [left |-> b.left,
              orders |-> [b.orders EXCEPT !.open = open, !.own = Forgotten(@, open, x.id)],
              account |-> Booked(b.account, open, x, qty, o.fills)]
    BY <2>2, <2>3, Zenon DEF HearFill
  <2> QED BY <1>5, <2>1, <2>4 DEF O, A, b
<1> HIDE DEF r
<1>12. \A i \in DOMAIN orders.paper : i \in Nat
  BY DEF PaperInv, Exchange
<1>13. CASE qty = 0
  BY <1>1, <1>4, <1>5, <1>12, <1>13 DEF FilledSoFar, r, x
<1>14. CASE qty # 0
  <2>1. /\ r.left = acc.left - qty /\ r.orders = O /\ r.account = A
        /\ DOMAIN r = {"left", "orders", "account"}
    BY <1>11, <1>14
  <2>2. ASSUME NEW i \in DOMAIN orders.paper,
               i >= id + 1 \/ ~Crossed(orders.paper[i], print)
        PROVE  i \in DOMAIN O.paper /\ O.paper[i] = orders.paper[i]
    <3>1. i \in Nat /\ i # id /\ (i >= id \/ ~Crossed(orders.paper[i], print))
      BY <1>1, <1>12, <2>2
    <3>2. i \in DOMAIN acc.orders.paper /\ acc.orders.paper[i] = orders.paper[i]
      BY <3>1 DEF FilledSoFar
    <3> QED BY <1>6, <1>8, <3>1, <3>2
  <2>3. ASSUME acc.left - qty # 0, NEW i \in DOMAIN O.paper, i < id + 1
        PROVE  ~Crossed(orders.paper[i], print)
    <3>1. i \in DOMAIN acc.orders.paper /\ i # id
      BY <1>4, <1>6, <1>8, <2>3
    <3>2. i \in Nat /\ acc.left # 0
      BY <1>3, <1>4, <1>12, <2>3, <3>1 DEF FilledSoFar
    <3>3. i < id
      BY <1>1, <2>3, <3>1, <3>2
    <3> QED BY <3>1, <3>2, <3>3 DEF FilledSoFar
  <2> DEFINE y == acc.orders.filled["yes"]
             n == acc.orders.filled["no"]
             Y == o.filled["yes"]
             N == o.filled["no"]
             all == print.qty + orders.filled["yes"] + orders.filled["no"]
  <2>4. y \in Int /\ n \in Int /\ Y \in Int /\ N \in Int /\ acc.left + y + n = all
    BY <1>3, <1>6 DEF Exchange, Sides, FilledSoFar
  <2>5. (acc.left - qty) + Y + N = all
    <3>1. Y + N = y + n + qty
      BY <1>7
    <3> HIDE DEF y, n, Y, N, all
    <3> QED BY <1>3, <1>4, <2>4, <3>1
  <2>6. O.filled["yes"] = Y /\ O.filled["no"] = N
    BY <1>8 DEF SameFills
  <2>7. DOMAIN O.paper \subseteq DOMAIN orders.paper
    BY <1>6, <1>8 DEF FilledSoFar
  <2> HIDE DEF Y, N
  <2>8. FilledSoFar(print, r, id + 1)
    BY <1>4, <1>6, <1>8, <1>9, <2>1, <2>2, <2>3, <2>5, <2>6, <2>7 DEF FilledSoFar
  <2> QED BY <2>8 DEF r, x
<1> QED BY <1>13, <1>14

-----------------------------------------------------------------------------
(* The loop over the orders.                                               *)
FillNext(print, h, id) ==
    IF id = 0 THEN [left |-> print.qty, orders |-> orders, account |-> account]
    ELSE IF id \in {i \in DOMAIN orders.paper : Crossed(orders.paper[i], print)}
           THEN FillOne(print, h[id - 1], orders.paper[id])
    ELSE h[id - 1]

FillRun(print) == CHOOSE h : h = [id \in 0..orders.nextId - 1 |-> FillNext(print, h, id)]

(* A function that unfolds up to k.                                        *)
FillUpTo(print, k) ==
    \E h : /\ h = [id \in 0..orders.nextId - 1 |-> h[id]]
           /\ \A id \in 0..orders.nextId - 1 : id <= k => h[id] = FillNext(print, h, id)

(* The loop's result, with its recursive function named.                   *)
LEMMA FillsAreRun ==
    ASSUME NEW print, SimulateMakerFills(print)
    PROVE  /\ orders' = FillRun(print)[orders.nextId - 1].orders
           /\ account' = FillRun(print)[orders.nextId - 1].account
BY DEF SimulateMakerFills, FillRun, FillNext

(* The loop's recursion has a solution.                                    *)
LEMMA FillRunAt ==
    ASSUME NEW print, orders.nextId \in Nat \ {0}
    PROVE  \A id \in 0..orders.nextId - 1 :
              FillRun(print)[id] = FillNext(print, FillRun(print), id)
<1> DEFINE n == orders.nextId - 1
           I == {k \in Nat : FillUpTo(print, k)}
           N(h, id) == FillNext(print, h, id)
<1>1. n \in Nat
  OBVIOUS
<1>2. 0 \in I
  <2> DEFINE h == [id \in 0..n |->
                     [left |-> print.qty, orders |-> orders, account |-> account]]
  <2>1. \A id \in 0..n : id <= 0 => h[id] = N(h, id)
    BY <1>1 DEF FillNext
  <2>2. h = [id \in 0..n |-> h[id]]
    OBVIOUS
  <2> HIDE DEF h
  <2> QED BY <2>1, <2>2 DEF FillUpTo
<1>3. \A k \in Nat : k \in I => k + 1 \in I
  <2> SUFFICES ASSUME NEW k \in Nat, FillUpTo(print, k)
               PROVE  FillUpTo(print, k + 1)
    OBVIOUS
  <2>1. PICK h : /\ h = [id \in 0..n |-> h[id]]
                 /\ \A id \in 0..n : id <= k => h[id] = N(h, id)
    BY DEF FillUpTo
  <2> DEFINE g == [id \in 0..n |-> IF id <= k THEN h[id] ELSE N(h, id)]
  <2>2. ASSUME NEW id \in 0..n, id <= k + 1
        PROVE  g[id] = N(g, id)
    <3>1. g[id] = N(h, id)
      BY <2>1, <2>2
    <3>2. CASE id = 0
      BY <3>1, <3>2 DEF FillNext
    <3>3. CASE id # 0
      <4>1. g[id - 1] = h[id - 1]
        BY <1>1, <2>2, <3>3
      <4> HIDE DEF g
      <4> QED BY <3>1, <3>3, <4>1 DEF FillNext
    <3> QED BY <3>2, <3>3
  <2>3. g = [id \in 0..n |-> g[id]]
    OBVIOUS
  <2> HIDE DEF g
  <2> QED BY <2>2, <2>3 DEF FillUpTo
<1>4. n \in I
  <2> HIDE DEF I
  <2> QED BY <1>1, <1>2, <1>3, NatSetInduction
<1>5. PICK h : /\ h = [id \in 0..n |-> h[id]]
               /\ \A id \in 0..n : id <= n => h[id] = N(h, id)
  BY <1>4 DEF FillUpTo
<1>6. \A id \in 0..n : h[id] = N(h, id)
  BY <1>1, <1>5
<1>7. h = [id \in 0..n |-> N(h, id)]
  BY <1>5, <1>6
<1> DEFINE R == FillRun(print)
<1>8. R = [id \in 0..n |-> N(R, id)]
  BY <1>7 DEF FillRun
<1> HIDE DEF R
<1>9. \A id \in 0..n : R[id] = N(R, id)
  BY <1>8
<1> QED BY <1>9 DEF R

(* A print's fills: the whole loop.                                        *)
LEMMA PrintFills ==
    ASSUME PaperInv, NEW print \in Prints, SimulateMakerFills(print)
    PROVE  \E left : FilledSoFar(print, [left |-> left, orders |-> orders',
                                         account |-> account'], orders.nextId)
<1> DEFINE n == orders.nextId - 1
           R == FillRun(print)
           Done(id) == FilledSoFar(print, R[id], id + 1)
           I == {id \in Nat : id <= n => Done(id)}
<1>1. /\ n \in Nat /\ n + 1 = orders.nextId
      /\ DOMAIN orders.paper \subseteq 1..n
      /\ \A id \in 0..n : R[id] = FillNext(print, R, id)
  BY FillRunAt DEF PaperInv, Exchange
<1>2. 0 \in I
  <2> DEFINE start == [left |-> print.qty, orders |-> orders, account |-> account]
  <2>1. R[0] = start
    BY <1>1 DEF FillNext
  <2>2. print.qty \in Nat
    BY PaperAssumption
  <2>3. /\ start.left = print.qty /\ start.orders = orders /\ start.account = account
        /\ DOMAIN start = {"left", "orders", "account"}
    OBVIOUS
  <2> HIDE DEF start
  <2>4. FilledSoFar(print, start, 1)
    BY <1>1, <2>2, <2>3 DEF FilledSoFar, PaperInv
  <2> HIDE DEF R
  <2> QED BY <2>1, <2>4
<1>3. \A id \in Nat : id \in I => id + 1 \in I
  <2> SUFFICES ASSUME NEW id \in Nat, Done(id), id + 1 <= n
               PROVE  Done(id + 1)
    BY <1>1
  <2> DEFINE k == id + 1
  <2>1. k \in 0..n /\ k # 0 /\ k - 1 = id
    BY <1>1
  <2>2. R[k] = FillNext(print, R, k)
    BY <1>1, <2>1
  <2> HIDE DEF R
  <2>3. CASE k \in DOMAIN orders.paper /\ Crossed(orders.paper[k], print)
    <3>1. R[k] = FillOne(print, R[id], orders.paper[k])
      BY <2>1, <2>2, <2>3 DEF FillNext
    <3>2. FilledSoFar(print, FillOne(print, R[id], orders.paper[k]), k + 1)
      BY <2>3, FillOneKept
    <3> QED BY <3>1, <3>2
  <2>4. CASE ~(k \in DOMAIN orders.paper /\ Crossed(orders.paper[k], print))
    <3>1. R[k] = R[id]
      BY <2>1, <2>2, <2>4 DEF FillNext
    <3>2. \A i \in DOMAIN orders.paper :
             (i >= k + 1 \/ ~Crossed(orders.paper[i], print))
                => (i >= k \/ ~Crossed(orders.paper[i], print))
      BY <1>1, <2>1
    <3>3. \A i \in DOMAIN R[id].orders.paper :
             i < k + 1 => i < k \/ ~Crossed(orders.paper[i], print)
      BY <1>1, <2>1, <2>4 DEF FilledSoFar
    <3>4. FilledSoFar(print, R[id], k + 1)
      BY <3>2, <3>3 DEF FilledSoFar
    <3> QED BY <3>1, <3>4
  <2> QED BY <2>3, <2>4
<1>4. n \in I
  <2> HIDE DEF I
  <2> QED BY <1>1, <1>2, <1>3, NatSetInduction
<1>5. Done(n)
  BY <1>1, <1>4
<1>6. orders' = R[n].orders /\ account' = R[n].account
  BY FillsAreRun
<1> DEFINE end == [left |-> R[n].left, orders |-> orders', account |-> account']
<1> HIDE DEF R
<1>7. /\ end.left = R[n].left /\ end.orders = R[n].orders /\ end.account = R[n].account
      /\ DOMAIN end = {"left", "orders", "account"}
  BY <1>6
<1> HIDE DEF end
<1>8. FilledSoFar(print, end, orders.nextId)
  BY <1>1, <1>5, <1>7 DEF FilledSoFar
<1> QED BY <1>8 DEF end

-----------------------------------------------------------------------------
(* The theorems.                                                           *)
(* No order, no fill.                                                      *)
LEMMA PaperInitially == PaperInit => PaperInv
<1> SUFFICES ASSUME PaperInit PROVE PaperInv
  OBVIOUS
<1>1. /\ DOMAIN orders = {"own", "open", "paper", "nextId", "fills", "filled"}
      /\ orders.nextId = 1 /\ DOMAIN orders.paper = {}
      /\ orders.fills = 0 /\ orders.filled = [s \in Sides |-> 0]
  BY DEF PaperInit
<1>2. Exchange(orders)
  BY <1>1 DEF Exchange
<1>3. /\ DOMAIN account = {"net", "seen", "lots", "realized", "cachedPos", "cachedOpen",
                           "halted", "flow"}
      /\ account.net = 0 /\ account.seen = {}
  BY DEF PaperInit
<1>4. Ledger(account, orders)
  BY <1>1, <1>3 DEF Ledger, Sides
<1> QED BY <1>1, <1>2, <1>4 DEF PaperInv

(* Snapshots and deltas move the quotes, prints the ledger.                *)
LEMMA PaperStep == PaperInv /\ [PaperNext]_paperVars => PaperInv'
<1> SUFFICES ASSUME PaperInv, [PaperNext]_paperVars PROVE PaperInv'
  OBVIOUS
<1>1. ASSUME Exchange(orders'), Ledger(account', orders'),
             adopted' \/ DOMAIN orders'.paper = {}
      PROVE  PaperInv'
  BY <1>1 DEF PaperInv, Exchange, RestingOrder, Ledger
<1>2. /\ Exchange(orders) /\ Ledger(account, orders)
      /\ adopted \/ DOMAIN orders.paper = {}
  BY DEF PaperInv
<1>3. ASSUME Exchange(orders'), SameFills(orders, orders'), account' = account,
             adopted' \/ DOMAIN orders'.paper = {}
      PROVE  PaperInv'
  BY <1>1, <1>2, <1>3 DEF Ledger, SameFills
<1>4. ASSUME NEW snap \in Snapshots, OnSnapshot(snap) PROVE PaperInv'
  <2>1. Exchange(orders') /\ SameFills(orders, orders')
    BY <1>2, <1>4, UpdateKept DEF OnSnapshot, SameFills
  <2> QED BY <1>3, <1>4, <2>1 DEF OnSnapshot
<1>5. ASSUME NEW d \in Deltas, OnDelta(d) PROVE PaperInv'
  <2>1. /\ Exchange(orders') /\ SameFills(orders, orders')
        /\ adopted \/ orders' = orders
    BY <1>2, <1>5, UpdateKept DEF OnDelta, SameFills
  <2> QED BY <1>2, <1>3, <1>5, <2>1 DEF OnDelta
<1>6. ASSUME NEW print \in Prints, OnTrade(print) PROVE PaperInv'
  <2>1. PICK left : FilledSoFar(print, [left |-> left, orders |-> orders',
                                        account |-> account'], orders.nextId)
    BY <1>6, PrintFills DEF OnTrade
  <2> QED BY <1>1, <1>2, <1>6, <2>1 DEF FilledSoFar, OnTrade
<1>7. CASE UNCHANGED paperVars
  BY <1>2, <1>3, <1>7 DEF paperVars, SameFills
<1> QED BY <1>4, <1>5, <1>6, <1>7 DEF PaperNext

(* The invariant holds in every replay: of run_backtest_mode over any      *)
(* capture.                                                                *)
THEOREM PaperInvariance == PaperSpec => []PaperInv
<1> QED BY PaperInitially, PaperStep, PTL DEF PaperSpec

(* Every fill simulate_maker_fills makes is in the ledger's net position,  *)
(* once: also of an order an amend left behind on the paper exchange, and  *)
(* on_fill never takes it for a duplicate or for another market's.         *)
THEOREM FillsAreBookedHolds == PaperSpec => []FillsAreBooked
<1>1. PaperInv => FillsAreBooked
  BY DEF PaperInv, Ledger, FillsAreBooked
<1> QED BY <1>1, PaperInvariance, PTL

(* To cross an order is to trade strictly through it.                      *)
LEMMA CrossedIsThrough ==
    ASSUME NEW x, x.side \in Sides, x.price \in Int, NEW print \in Prints
    PROVE  Crossed(x, print) <=> Through(x, print)
<1>1. print.px \in Int /\ print.taker \in Sides
  BY PaperAssumption
<1> QED BY <1>1 DEF Crossed, Through, OrderPrice, Complement, Sides

(* A print in an invariant state stays within its bounds.                  *)
LEMMA PrintBounded ==
    ASSUME PaperInv, NEW print \in Prints PROVE PrintBound(print)
<1> SUFFICES ASSUME OnTrade(print) PROVE PrintBound(print)
  BY DEF PrintBound
<1>1. PICK left : FilledSoFar(print, [left |-> left, orders |-> orders',
                                      account |-> account'], orders.nextId)
  BY PrintFills DEF OnTrade
<1> DEFINE y == orders.filled["yes"]
           n == orders.filled["no"]
           Y == orders'.filled["yes"]
           N == orders'.filled["no"]
<1>2. print.qty \in Nat
  BY PaperAssumption
<1>3. y \in Int /\ n \in Int
  BY DEF PaperInv, Exchange, Sides
<1>4. left \in Nat /\ left + Y + N = print.qty + y + n /\ Exchange(orders')
  BY <1>1 DEF FilledSoFar
<1>5. Y \in Int /\ N \in Int
  BY <1>4 DEF Exchange, Sides
<1>6. /\ (Y - y) + (N - n) <= print.qty
      /\ (Y - y) + (N - n) < print.qty => left # 0
  <2> HIDE DEF y, n, Y, N
  <2> QED BY <1>2, <1>3, <1>4, <1>5
<1>7. \A id \in DOMAIN orders.paper :
         Crossed(orders.paper[id], print) <=> Through(orders.paper[id], print)
  BY CrossedIsThrough DEF PaperInv, Exchange, RestingOrder
<1>8. ASSUME NEW id \in DOMAIN orders.paper, ~Through(orders.paper[id], print)
      PROVE  id \in DOMAIN orders'.paper /\ orders'.paper[id] = orders.paper[id]
  BY <1>1, <1>7, <1>8 DEF FilledSoFar
<1>9. ASSUME left # 0, NEW id \in DOMAIN orders.paper, Through(orders.paper[id], print)
      PROVE  id \notin DOMAIN orders'.paper
  <2>1. id < orders.nextId
    BY DEF PaperInv, Exchange
  <2> QED BY <1>1, <1>7, <1>9, <2>1 DEF FilledSoFar
<1> QED BY <1>6, <1>8, <1>9, Zenon DEF PrintBound

(* simulate_maker_fills uses up no more than the print over all orders it  *)
(* trades strictly through, touches no other order, and leaves part of the *)
(* print only when all of them are filled.                                 *)
THEOREM PrintsBoundFillsHolds == PaperSpec => PrintsBoundFills
<1>1. ASSUME PaperInv, [PaperNext]_paperVars
      PROVE  [\A print \in Prints : PrintBound(print)]_paperVars
  BY <1>1, PrintBounded
<1>2. PaperInv /\ [PaperNext]_paperVars => [\A print \in Prints : PrintBound(print)]_paperVars
  BY <1>1
<1> QED BY <1>2, PaperInvariance, PTL DEF PaperSpec, PrintsBoundFills
=============================================================================
