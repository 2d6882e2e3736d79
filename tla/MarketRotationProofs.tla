----------------------- MODULE MarketRotationProofs -----------------------
(***************************************************************************)
(* Proofs about MarketRotation, for any finite set of markets and any      *)
(* number of orders, trades, rotations and failed cancels.                 *)
(*                                                                         *)
(* What a switch of the environment must be for a theorem to hold is a     *)
(* hypothesis of that theorem, and of no other.                            *)
(***************************************************************************)
EXTENDS MarketRotation, SumTheorems

Order == [id : Nat, mkt : Markets, left : Nat \ {0}]
Trade == [id : Nat, order : Nat, mkt : Markets, d : {-1, 1}, gain : Int]

(* The session, the feed and the rotation have their types.                *)
SessionType ==
    /\ tracked \subseteq Markets
    /\ books \subseteq Markets
    /\ ticked \subseteq Markets
    /\ dead \subseteq Markets
    /\ seeded \in [Markets -> {"never", "grace", "expired"}]
    /\ rot \in [pc : {"idle", "drop", "fetch", "add", "sub"},
                picks : SUBSET Markets, add : SUBSET Markets, mkt : SUBSET Markets]
    /\ subs \subseteq Markets
    /\ served \subseteq Markets
    /\ snapDue \subseteq Markets

(* The orders and trades have theirs.                                      *)
OrdersType ==
    /\ open \subseteq Order
    /\ resting \subseteq Order
    /\ trades \subseteq Trade
    /\ booked \subseteq Nat
    /\ net \in [Markets -> Int]
    /\ placed \in Nat
    /\ faults \in Nat

(* Orders and trades are told apart by their ids, which are given out in   *)
(* order.                                                                  *)
Identity ==
    /\ IsFiniteSet(open)
    /\ IsFiniteSet(trades)
    /\ \A o \in open \cup resting : o.id <= placed
    /\ \A r, s \in resting : r.id = s.id => r = s
    /\ \A t \in trades : t.id <= Cardinality(trades) /\ t.order <= placed
    /\ \A t, u \in trades : t.id = u.id => t = u
    /\ \A i \in booked : i <= Cardinality(trades)

(* The trades of an order that record_fill has not counted.                *)
Uncounted(id) == {t \in trades : t.order = id /\ t.id \notin booked}

(* open_orders_ knows every live order, and gives it at least as many      *)
(* contracts as the exchange does and fills are outstanding: a fill never  *)
(* makes the session forget an order that is still live.                   *)
Live ==
    \A r \in resting : \E o \in open :
        /\ o.id = r.id /\ o.mkt = r.mkt
        /\ o.left >= r.left + Cardinality(Uncounted(r.id))

(* The trades of S in market m add up to this position.                    *)
Total(S, m) == SumFunctionOnSet([t \in S |-> t.d], {t \in S : t.mkt = m})

Booked == {t \in trades : t.id \in booked}

(* The position of a market is that of the trades recorded.                *)
NetBooked == \A m \in Markets : net[m] = Total(Booked, m)

(* A market is dead only while nothing confirms its feed.                  *)
DeadUnconfirmed == \A m \in dead : ~FeedConfirmed(m)

(* The inductive invariant that needs no hypothesis.                       *)
Inv ==
    /\ SessionType
    /\ OrdersType
    /\ Identity
    /\ Live
    /\ NetBooked
    /\ DeadUnconfirmed
    /\ DeadMarketsBare

(* Without late messages the books are those of tracked markets.           *)
Tracking == books \subseteq tracked /\ QuotesOnlyTracked

(* Without lag a fill is recorded before its market can be dropped.        *)
Settling ==
    /\ \A t \in trades : t.id \in booked \/ (t.id \in wire /\ t.mkt \in tracked)
    /\ ExposureTracked

-----------------------------------------------------------------------------
(* Sums of trades.                                                         *)

(* A total of finitely many trades is an integer.                          *)
LEMMA TotalInt ==
    ASSUME NEW S \in SUBSET Trade, IsFiniteSet(S), NEW m
    PROVE  Total(S, m) \in Int
<1> DEFINE f == [t \in S |-> t.d]
           T == {t \in S : t.mkt = m}
<1>1. IsFiniteSet(T) /\ \A x \in T : f[x] \in Int
    BY FS_Subset DEF Trade
<1> HIDE DEF f, T
<1>2. SumFunctionOnSet(f, T) \in Int
    BY <1>1, SumInt
<1> QED
    BY <1>2 DEF Total, f, T

(* One trade more moves its own market.                                    *)
LEMMA TotalAdd ==
    ASSUME NEW S \in SUBSET Trade, IsFiniteSet(S), NEW t \in Trade, t \notin S, NEW m
    PROVE  Total(S \cup {t}, m) = Total(S, m) + (IF t.mkt = m THEN t.d ELSE 0)
<1> DEFINE f == [x \in S |-> x.d]
           g == [x \in S \cup {t} |-> x.d]
           T == {x \in S : x.mkt = m}
           U == {x \in S \cup {t} : x.mkt = m}
<1>1. /\ IsFiniteSet(T) /\ t \notin T
      /\ \A x \in T \cup {t} : g[x] \in Int
      /\ \A x \in T : f[x] = g[x]
      /\ g[t] = t.d
    BY FS_Subset DEF Trade
<1>2. U = IF t.mkt = m THEN T \cup {t} ELSE T
    OBVIOUS
<1>3. Total(S, m) = SumFunctionOnSet(f, T) /\ Total(S \cup {t}, m) = SumFunctionOnSet(g, U)
    BY DEF Total
<1>4. Total(S, m) \in Int
    BY TotalInt
<1> HIDE DEF f, g, T, U
<1>5. SumFunctionOnSet(f, T) = SumFunctionOnSet(g, T)
    BY <1>1, SumEqual
<1>6. SumFunctionOnSet(g, T \cup {t}) = SumFunctionOnSet(g, T) + g[t]
    BY <1>1, SumAdd
<1>7. CASE t.mkt = m
    BY <1>1, <1>2, <1>3, <1>5, <1>6, <1>7
<1>8. CASE t.mkt # m
    BY <1>2, <1>3, <1>4, <1>5, <1>8
<1> QED
    BY <1>7, <1>8

-----------------------------------------------------------------------------
(* What a step does to the orders.                                         *)

(* A step that runs quoters: it places in P, where the feed is confirmed,  *)
(* and cancels in S, which has the markets it declares dead.               *)
Quoting(P, S) ==
    /\ Reorder(P, S)
    /\ \A m \in P : FeedConfirmed(m)'
    /\ dead' \subseteq dead \cup S
    /\ tracked \subseteq tracked'
    /\ books \subseteq tracked => P \subseteq tracked'

(* A step that leaves orders and trades alone: only a quiet moment and a   *)
(* removable market let the session stop tracking.                         *)
Elsewhere ==
    /\ UNCHANGED <<ledger, exchange>>
    /\ dead' \subseteq dead
    /\ \A m \in tracked \ tracked' : Removable(m) /\ Quiet

(* The kinds of step there are.                                            *)
StepKind ==
    \/ Elsewhere
    \/ \E P, S \in SUBSET Markets : Quoting(P, S)
    \/ \E t \in trades : OnFill(t)
    \/ Quiet /\ \E o \in resting, d \in {-1, 1}, g \in Gains : ExchangeTrade(o, d, g)

(* A quoter update in a market whose feed the step confirms is one kind.   *)
LEMMA QuoterKind ==
    ASSUME NEW m \in Markets, RunQuoter(m), FeedConfirmed(m)',
           dead' \subseteq dead, tracked \subseteq tracked', m \in tracked'
    PROVE  \E P, S \in SUBSET Markets : Quoting(P, S)
<1>1. CASE Reorder({m}, {})
    <2>1. Quoting({m}, {})
        BY <1>1 DEF Quoting
    <2> QED
        BY <2>1
<1>2. CASE Reorder({}, {m})
    <2>1. Quoting({}, {m})
        BY <1>2 DEF Quoting
    <2> QED
        BY <2>1
<1> QED
    BY <1>1, <1>2 DEF RunQuoter

(* A poll is one kind, whatever confirmed markets the recovery net quotes. *)
LEMMA PollKind ==
    ASSUME SessionType, NEW R \in SUBSET RequoteIdleMarkets, Poll(R)
    PROVE  \E P, S \in SUBSET Markets : Quoting(P, S)
<1>1. /\ RequoteIdleMarkets \subseteq books
      /\ \A m \in RequoteIdleMarkets : FeedConfirmed(m)
      /\ books \subseteq Markets /\ NeverTicked \subseteq Markets /\ tracked \subseteq Markets
    BY DEF RequoteIdleMarkets, NeverTicked, SessionType
<1>2. /\ tracked' = tracked /\ ticked' = ticked /\ seeded' = seeded
      /\ EnforceQuoteSafety(R)
    BY DEF Poll
<1>3. CASE CancelAllQuotes /\ UNCHANGED dead
    <2>1. Quoting({}, tracked)
        BY <1>2, <1>3 DEF Quoting, CancelAllQuotes
    <2> QED
        BY <1>1, <2>1
<1>4. CASE /\ \E P \in SUBSET R : Reorder(P, NeverTicked)
           /\ dead' = dead \cup NeverTicked
    <2>1. PICK P \in SUBSET R : Reorder(P, NeverTicked)
        BY <1>4
    <2>2. \A m \in P : FeedConfirmed(m)'
        BY <1>1, <1>2 DEF FeedConfirmed
    <2>3. Quoting(P, NeverTicked)
        BY <1>1, <1>2, <1>4, <2>1, <2>2 DEF Quoting
    <2>4. P \in SUBSET Markets
        BY <1>1
    <2> QED
        BY <1>1, <2>3, <2>4
<1> QED
    BY <1>2, <1>3, <1>4 DEF EnforceQuoteSafety

(* Every step is of one of the kinds.                                      *)
LEMMA Kinds ==
    ASSUME SessionType, [Next]_vars
    PROVE  StepKind
<1> USE DEF session, risk, rotation, feed
<1>1. ASSUME NEW t \in trades, OnFill(t)
      PROVE  StepKind
    BY <1>1 DEF StepKind
<1>2. ASSUME NEW m \in Markets, OnSnapshot(m)
      PROVE  StepKind
    BY <1>2 DEF OnSnapshot, BookUpdated, StepKind, Elsewhere
<1>3. ASSUME NEW m \in Markets, OnDelta(m)
      PROVE  StepKind
    <2>1. /\ FeedConfirmed(m)' /\ dead' \subseteq dead /\ tracked' = tracked
        BY <1>3 DEF OnDelta, BookUpdated, FeedConfirmed
    <2>2. CASE m \in tracked
        BY <1>3, <2>1, <2>2, QuoterKind DEF OnDelta, StepKind
    <2>3. CASE m \notin tracked
        BY <1>3, <2>1, <2>3 DEF OnDelta, StepKind, Elsewhere
    <2> QED
        BY <2>2, <2>3
<1>4. CASE OnDisconnect
    <2>1. Quoting({}, tracked)
        BY <1>4 DEF OnDisconnect, CancelAllQuotes, Quoting
    <2>2. {} \in SUBSET Markets /\ tracked \in SUBSET Markets
        BY DEF SessionType
    <2> QED
        BY <2>1, <2>2 DEF StepKind
<1>5. CASE HandleConnect
    BY <1>5 DEF HandleConnect, StepKind, Elsewhere
<1>6. CASE PollTick
    BY <1>6, PollKind DEF PollTick, StepKind
<1>7. CASE StalenessTick
    BY <1>7, PollKind DEF StalenessTick, StepKind
<1>8. CASE Scan
    BY <1>8 DEF Scan, StepKind, Elsewhere
<1>9. CASE Quiet /\ DropIdle
    BY <1>9 DEF DropIdle, StepKind, Elsewhere
<1>10. CASE FetchBook
    BY <1>10 DEF FetchBook, StepKind, Elsewhere
<1>11. CASE AddMarket
    <2>1. PICK m \in rot.mkt : tracked' = tracked \cup {m} /\ Seeded(m)
        BY <1>11 DEF AddMarket
    <2>2. m \in Markets
        BY DEF SessionType
    <2>3. FeedConfirmed(m)'
        BY <2>1, <2>2 DEF Seeded, FeedConfirmed, SessionType
    <2> QED
        BY <2>1, <2>2, <2>3, QuoterKind DEF Seeded, StepKind
<1>12. CASE Subscribe
    BY <1>12 DEF Subscribe, StepKind, Elsewhere
<1>13. ASSUME NEW m \in Markets, GraceExpires(m)
       PROVE  StepKind
    BY <1>13 DEF GraceExpires, StepKind, Elsewhere
<1>14. ASSUME Quiet, NEW o \in resting, NEW d \in {-1, 1}, NEW g \in Gains,
              ExchangeTrade(o, d, g)
       PROVE  StepKind
    BY <1>14 DEF StepKind
<1>15. CASE UNCHANGED vars
    BY <1>15 DEF vars, StepKind, Elsewhere
<1> QED
    BY <1>1, <1>2, <1>3, <1>4, <1>5, <1>6, <1>7, <1>8, <1>9, <1>10, <1>11,
       <1>12, <1>13, <1>14, <1>15
    DEF Next, WebSocketThread, MainLoop, Environment

-----------------------------------------------------------------------------
(* Types of the session.                                                   *)

(* A poll changes, of the session, the dead markets only.                  *)
LEMMA PollType ==
    ASSUME SessionType, NEW R, Poll(R)
    PROVE  SessionType'
<1>1. dead' \subseteq dead \cup tracked
    BY DEF Poll, EnforceQuoteSafety, NeverTicked
<1> QED
    BY <1>1 DEF Poll, SessionType, rotation, feed

(* A step keeps the types of the session and what a dead market is.        *)
LEMMA SessionStep ==
    ASSUME SessionType, DeadUnconfirmed, [Next]_vars
    PROVE  SessionType' /\ DeadUnconfirmed'
<1> USE DEF session, risk, rotation, feed
<1>1. ASSUME NEW t \in trades, OnFill(t)
      PROVE  SessionType' /\ DeadUnconfirmed'
    BY <1>1 DEF OnFill, SessionType, DeadUnconfirmed, FeedConfirmed
<1>2. ASSUME NEW m \in Markets, OnSnapshot(m)
      PROVE  SessionType' /\ DeadUnconfirmed'
    BY <1>2 DEF OnSnapshot, BookUpdated, SessionType, DeadUnconfirmed, FeedConfirmed
<1>3. ASSUME NEW m \in Markets, OnDelta(m)
      PROVE  SessionType' /\ DeadUnconfirmed'
    BY <1>3 DEF OnDelta, BookUpdated, SessionType, DeadUnconfirmed, FeedConfirmed
<1>4. CASE OnDisconnect
    BY <1>4 DEF OnDisconnect, SessionType, DeadUnconfirmed, FeedConfirmed
<1>5. CASE HandleConnect
    BY <1>5 DEF HandleConnect, SessionType, DeadUnconfirmed, FeedConfirmed
<1>6. ASSUME NEW R, Poll(R)
      PROVE  SessionType' /\ DeadUnconfirmed'
    <2>1. \A m \in dead' : m \in dead \/ ~FeedConfirmed(m)
        BY <1>6 DEF Poll, EnforceQuoteSafety, NeverTicked
    <2> QED
        BY <1>6, <2>1, PollType DEF Poll, DeadUnconfirmed, FeedConfirmed
<1>7. CASE Scan
    BY <1>7 DEF Scan, Idle, SessionType, DeadUnconfirmed, FeedConfirmed
<1>8. CASE DropIdle
    BY <1>8 DEF DropIdle, SessionType, DeadUnconfirmed, FeedConfirmed
<1>9. CASE FetchBook
    <2>1. CASE rot' = Idle
        BY <1>9, <2>1 DEF FetchBook, Idle, SessionType, DeadUnconfirmed, FeedConfirmed
    <2>2. CASE \E m \in rot.add : \E pc \in {"add", "fetch"} :
                    rot' = [rot EXCEPT !.pc = pc, !.add = @ \ {m}, !.mkt = {m}]
        <3>1. PICK m \in rot.add, pc \in {"add", "fetch"} :
                    rot' = [rot EXCEPT !.pc = pc, !.add = @ \ {m}, !.mkt = {m}]
            BY <2>2
        <3>2. /\ rot.picks \in SUBSET Markets /\ rot.add \ {m} \in SUBSET Markets
              /\ {m} \in SUBSET Markets
            BY DEF SessionType
        <3>3. rot' = [pc |-> pc, picks |-> rot.picks, add |-> rot.add \ {m}, mkt |-> {m}]
            BY <3>1 DEF SessionType
        <3> QED
            BY <1>9, <3>2, <3>3 DEF FetchBook, SessionType, DeadUnconfirmed, FeedConfirmed
    <2> QED
        BY <1>9, <2>1, <2>2 DEF FetchBook
<1>10. CASE AddMarket
    <2>1. PICK m \in rot.mkt : tracked' = tracked \cup {m} /\ Seeded(m)
        BY <1>10 DEF AddMarket
    <2>2. m \in Markets
        BY DEF SessionType
    <2> QED
        BY <1>10, <2>1, <2>2 DEF AddMarket, Seeded, SessionType, DeadUnconfirmed, FeedConfirmed
<1>11. CASE Subscribe
    <2>1. PICK m \in rot.mkt : Subscribed(m)
        BY <1>11 DEF Subscribe
    <2>2. m \in Markets
        BY DEF SessionType
    <2> QED
        BY <1>11, <2>1, <2>2 DEF Subscribe, Subscribed, SessionType, DeadUnconfirmed, FeedConfirmed
<1>12. ASSUME NEW m \in Markets, GraceExpires(m)
       PROVE  SessionType' /\ DeadUnconfirmed'
    BY <1>12 DEF GraceExpires, SessionType, DeadUnconfirmed, FeedConfirmed
<1>13. ASSUME NEW o \in resting, NEW d, NEW g, ExchangeTrade(o, d, g)
       PROVE  SessionType' /\ DeadUnconfirmed'
    BY <1>13 DEF ExchangeTrade, SessionType, DeadUnconfirmed, FeedConfirmed
<1>14. CASE UNCHANGED vars
    BY <1>14 DEF vars, SessionType, DeadUnconfirmed, FeedConfirmed
<1> QED
    BY <1>1, <1>2, <1>3, <1>4, <1>5, <1>6, <1>7, <1>8, <1>9, <1>10, <1>11,
       <1>12, <1>13, <1>14
    DEF Next, WebSocketThread, MainLoop, Environment, PollTick, StalenessTick

-----------------------------------------------------------------------------
(* Orders.                                                                 *)

Orders == OrdersType /\ Identity /\ Live

(* What Reorder does: new orders are in P with new ids, the others were    *)
(* there, and without a failed cancel none of S is left.                   *)
LEMMA ReorderEffect ==
    ASSUME Orders, NEW P \in SUBSET Markets, NEW S, Reorder(P, S)
    PROVE  /\ Orders'
           /\ UNCHANGED <<net, booked, trades>>
           /\ \A o \in open' : o \in open \/ (o.mkt \in P /\ o.id > placed)
           /\ \A r \in resting' : r \in resting \/ r.mkt \in P
           /\ faults <= faults'
           /\ faults' = 0 => \A r \in resting' : r.mkt \in S => r.mkt \in P
<1> DEFINE live == {o \in OrdersOf(S, open) : \E r \in resting : r.id = o.id}
           New(f) == {[id |-> f[m], mkt |-> m, left |-> OrderSize] : m \in P}
<1>1. PICK C \in SUBSET live, f \in Bijection(P, (placed + 1)..placed') :
            /\ open' = (open \ C) \cup New(f)
            /\ resting' = {r \in resting : \A o \in C : o.id # r.id} \cup New(f)
            /\ faults' = faults + Cardinality(live \ C)
    BY DEF Reorder
<1>2. /\ placed' = placed + Cardinality(P)
      /\ UNCHANGED <<net, realized, booked, trades, wire>>
    BY DEF Reorder
<1>3. IsFiniteSet(P) /\ Cardinality(P) \in Nat
    BY MarketsAssumption, FS_Subset, FS_CardinalityType
<1>4. placed \in Nat /\ placed' \in Nat /\ placed <= placed'
    BY <1>2, <1>3 DEF Orders, OrdersType
<1>5. \A m \in P : f[m] \in Nat /\ placed < f[m] /\ f[m] <= placed'
    BY <1>4 DEF Bijection, Injection
<1>6. \A m, n \in P : f[m] = f[n] => m = n
    BY DEF Bijection, Injection, IsInjective
<1>7. \A o \in New(f) : /\ o \in Order /\ o.mkt \in P
                        /\ placed < o.id /\ o.id <= placed'
    BY <1>5, BoundsAssumption DEF Order
<1>8. \A o, q \in New(f) : o.id = q.id => o = q
    BY <1>6
<1>9. IsFiniteSet(New(f))
    <2> DEFINE g == [m \in P |-> [id |-> f[m], mkt |-> m, left |-> OrderSize]]
    <2>1. g \in Surjection(P, New(f))
        BY DEF Surjection
    <2> HIDE DEF g
    <2> QED
        BY <1>3, <2>1, FS_Surjection
<1>10. IsFiniteSet(live) /\ live \subseteq open /\ \A o \in live : o.mkt \in S
    BY FS_Subset DEF Orders, Identity, OrdersOf
<1>11. IsFiniteSet(live \ C) /\ Cardinality(live \ C) \in Nat
    BY <1>10, FS_Subset, FS_CardinalityType
<1>12. \A r \in resting : \E o \in open :
            /\ o.id = r.id /\ o.mkt = r.mkt
            /\ o.left >= r.left + Cardinality(Uncounted(r.id))
    BY DEF Orders, Live
<1>13. \A r \in resting : r.mkt \in S => \E o \in live : o.id = r.id
    BY <1>12 DEF OrdersOf
<1> DEFINE fresh == New(f)
<1> HIDE DEF live, New, fresh
<1>14. /\ open' = (open \ C) \cup fresh
       /\ resting' = {r \in resting : \A o \in C : o.id # r.id} \cup fresh
       /\ IsFiniteSet(fresh)
       /\ \A o \in fresh : /\ o \in Order /\ o.mkt \in P
                           /\ placed < o.id /\ o.id <= placed'
       /\ \A o, q \in fresh : o.id = q.id => o = q
    BY <1>1, <1>7, <1>8, <1>9 DEF fresh
<1>15. OrdersType'
    BY <1>1, <1>2, <1>4, <1>11, <1>14 DEF Orders, OrdersType
<1>16. Identity'
    <2>1. IsFiniteSet(open') /\ IsFiniteSet(trades')
        BY <1>2, <1>14, FS_Subset, FS_Union DEF Orders, Identity
    <2>2. \A o \in open' \cup resting' : o.id <= placed'
        <3>1. \A o \in open \cup resting : o.id \in Nat /\ o.id <= placed
            BY DEF Orders, Identity, OrdersType, Order
        <3> QED
            BY <1>4, <1>14, <3>1
    <2>3. \A r, s \in resting' : r.id = s.id => r = s
        <3>1. \A r \in resting : r.id \in Nat /\ r.id <= placed
            BY DEF Orders, Identity, OrdersType, Order
        <3>2. \A o \in fresh : o.id \in Nat /\ placed < o.id
            BY <1>14 DEF Order
        <3>3. \A r \in resting, o \in fresh : r.id # o.id
            BY <1>4, <3>1, <3>2
        <3> QED
            BY <1>14, <3>3 DEF Orders, Identity
    <2>4. /\ \A t \in trades' : t.id <= Cardinality(trades') /\ t.order <= placed'
          /\ \A t, u \in trades' : t.id = u.id => t = u
          /\ \A i \in booked' : i <= Cardinality(trades')
        <3>1. \A t \in trades : t.order \in Nat
            BY DEF Orders, OrdersType, Trade
        <3> QED
            BY <1>2, <1>4, <3>1 DEF Orders, Identity
    <2> QED
        BY <2>1, <2>2, <2>3, <2>4 DEF Identity
<1>17. Live'
    <2> SUFFICES ASSUME NEW r \in resting'
                 PROVE  \E o \in open' : /\ o.id = r.id /\ o.mkt = r.mkt
                                         /\ o.left >= r.left + Cardinality(Uncounted(r.id)')
        BY DEF Live, Uncounted
    <2>1. Uncounted(r.id)' = Uncounted(r.id)
        BY <1>2 DEF Uncounted
    <2>2. CASE r \in resting /\ \A o \in C : o.id # r.id
        <3>1. PICK o \in open : /\ o.id = r.id /\ o.mkt = r.mkt
                                /\ o.left >= r.left + Cardinality(Uncounted(r.id))
            BY <1>12, <2>2
        <3> QED
            BY <1>14, <2>1, <2>2, <3>1
    <2>3. CASE r \in fresh
        <3>1. Uncounted(r.id) = {}
            <4>1. r.id \in Nat /\ placed < r.id
                BY <1>14, <2>3 DEF Order
            <4>2. \A t \in trades : t.order \in Nat /\ t.order <= placed
                BY DEF Orders, Identity, OrdersType, Trade
            <4> QED
                BY <1>4, <4>1, <4>2 DEF Uncounted
        <3>2. Cardinality(Uncounted(r.id)') = 0 /\ r.left \in Nat /\ r \in open'
            BY <1>14, <2>1, <2>3, <3>1, FS_EmptySet DEF Order
        <3> QED
            BY <3>2
    <2> QED
        BY <1>14, <2>2, <2>3
<1>18. ASSUME faults' = 0
       PROVE  \A r \in resting' : r.mkt \in S => r.mkt \in P
    <2>1. Cardinality(live \ C) = 0
        BY <1>1, <1>11, <1>18 DEF Orders, OrdersType
    <2>2. live \ C = {}
        BY <1>11, <2>1, FS_EmptySet
    <2> QED
        BY <1>13, <1>14, <2>2
<1>19. faults <= faults'
    BY <1>1, <1>11 DEF Orders, OrdersType
<1>20. \A o \in open' : o \in open \/ (o.mkt \in P /\ o.id > placed)
    BY <1>4, <1>14 DEF Order
<1> QED
    BY <1>2, <1>14, <1>15, <1>16, <1>17, <1>18, <1>19, <1>20 DEF Orders

(* Recording a fill counts it on its order, keeps every live order and     *)
(* moves the position by the trade.                                        *)
LEMMA FillEffect ==
    ASSUME Orders, NetBooked, NEW t \in trades, OnFill(t)
    PROVE  /\ Orders' /\ NetBooked'
           /\ UNCHANGED <<resting, trades, placed, faults, tracked>>
           /\ \A o \in open' : \E q \in open : o.id = q.id /\ o.mkt = q.mkt
           /\ \A i \in booked : i \in booked'
           /\ t.mkt \in tracked => t.id \in booked'
           /\ wire' = wire \ {t.id}
<1>1. /\ UNCHANGED <<resting, trades, placed, faults, tracked>> /\ wire' = wire \ {t.id}
    BY DEF OnFill, session
<1>2. CASE t.mkt \in tracked /\ t.id \notin booked
    <2> DEFINE Count(o) == IF o.id = t.order THEN [o EXCEPT !.left = @ - 1] ELSE o
    <2>1. /\ booked' = booked \cup {t.id}
          /\ net' = [net EXCEPT ![t.mkt] = @ + t.d]
          /\ open' = {o \in {Count(q) : q \in open} : o.left > 0}
        BY <1>2 DEF OnFill, FilledOpen, Counted
    <2>2. t \in Trade /\ t.mkt \in Markets /\ t.d \in Int /\ t.id \in Nat
        BY DEF Orders, OrdersType, Trade
    <2>3. \A o \in open : /\ Count(o).id = o.id /\ Count(o).mkt = o.mkt
                          /\ Count(o).left \in Int
                          /\ Count(o).left = IF o.id = t.order THEN o.left - 1 ELSE o.left
                          /\ Count(o).left > 0 => Count(o) \in Order
        BY DEF Orders, OrdersType, Order
    <2> HIDE DEF Count
    <2>4. OrdersType'
        <3>1. open' \subseteq Order /\ booked' \subseteq Nat
            BY <2>1, <2>2, <2>3 DEF Orders, OrdersType
        <3>2. net' \in [Markets -> Int]
            BY <2>1, <2>2 DEF Orders, OrdersType
        <3> QED
            BY <1>1, <3>1, <3>2 DEF Orders, OrdersType
    <2>5. Identity'
        <3>1. IsFiniteSet(open')
            <4> DEFINE g == [o \in open |-> Count(o)]
                       all == {Count(q) : q \in open}
            <4>1. g \in Surjection(open, all)
                BY DEF Surjection
            <4>2. IsFiniteSet(open) /\ open' \subseteq all
                BY <2>1 DEF Orders, Identity
            <4> HIDE DEF g, all
            <4>3. IsFiniteSet(all)
                BY <4>1, <4>2, FS_Surjection
            <4> QED
                BY <4>2, <4>3, FS_Subset
        <3>2. \A o \in open' \cup resting' : o.id <= placed'
            BY <1>1, <2>1, <2>3 DEF Orders, Identity
        <3>3. \A i \in booked' : i <= Cardinality(trades')
            BY <1>1, <2>1 DEF Orders, Identity
        <3> QED
            BY <1>1, <3>1, <3>2, <3>3 DEF Orders, Identity
    <2>6. Live'
        <3> SUFFICES ASSUME NEW r \in resting
                     PROVE  \E o \in open' : /\ o.id = r.id /\ o.mkt = r.mkt
                                /\ o.left >= r.left + Cardinality(Uncounted(r.id)')
            BY <1>1 DEF Live, Uncounted
        <3>1. PICK o \in open : /\ o.id = r.id /\ o.mkt = r.mkt
                                /\ o.left >= r.left + Cardinality(Uncounted(r.id))
            BY DEF Orders, Live
        <3>2. r.left \in Nat /\ r.left > 0 /\ o.left \in Nat
            BY DEF Orders, OrdersType, Order
        <3>3. IsFiniteSet(Uncounted(r.id)) /\ Cardinality(Uncounted(r.id)) \in Nat
            BY FS_Subset, FS_CardinalityType DEF Orders, Identity, Uncounted
        <3>4. CASE r.id = t.order
            <4>1. Uncounted(r.id)' = Uncounted(r.id) \ {t} /\ t \in Uncounted(r.id)
                BY <1>1, <1>2, <2>1, <3>4 DEF Uncounted, Orders, Identity
            <4>2. /\ Cardinality(Uncounted(r.id)') = Cardinality(Uncounted(r.id)) - 1
                  /\ Cardinality(Uncounted(r.id)') \in Nat
                BY <3>3, <4>1, FS_RemoveElement, FS_CardinalityType
            <4>3. Count(o).left >= r.left + Cardinality(Uncounted(r.id)')
                BY <2>3, <3>1, <3>2, <3>3, <3>4, <4>2
            <4>4. Count(o) \in open'
                BY <2>1, <2>3, <3>2, <4>2, <4>3
            <4> QED
                BY <2>3, <3>1, <4>3, <4>4
        <3>5. CASE r.id # t.order
            <4>1. Uncounted(r.id)' = Uncounted(r.id)
                BY <1>1, <2>1, <3>5 DEF Uncounted, Orders, Identity
            <4>2. Count(o).left = o.left
                BY <2>3, <3>1, <3>5
            <4>3. Count(o) \in open'
                BY <2>1, <3>1, <3>2, <3>3, <4>2
            <4> QED
                BY <2>3, <3>1, <4>1, <4>2, <4>3
        <3> QED
            BY <3>4, <3>5
    <2>7. NetBooked'
        <3>1. Booked' = Booked \cup {t} /\ t \notin Booked
            BY <1>1, <1>2, <2>1 DEF Booked, Orders, Identity
        <3>2. Booked \in SUBSET Trade /\ IsFiniteSet(Booked)
            BY FS_Subset DEF Booked, Orders, OrdersType, Identity
        <3> SUFFICES ASSUME NEW m \in Markets
                     PROVE  net'[m] = Total(Booked', m)
            BY DEF NetBooked
        <3>3. Total(Booked', m) = Total(Booked, m) + (IF t.mkt = m THEN t.d ELSE 0)
            BY <2>2, <3>1, <3>2, TotalAdd
        <3>4. net[m] = Total(Booked, m) /\ net[m] \in Int
            BY DEF NetBooked, Orders, OrdersType
        <3>5. net'[m] = net[m] + (IF t.mkt = m THEN t.d ELSE 0)
            BY <2>1, <2>2 DEF Orders, OrdersType
        <3> QED
            BY <3>3, <3>4, <3>5
    <2>8. \A o \in open' : \E q \in open : o.id = q.id /\ o.mkt = q.mkt
        BY <2>1, <2>3
    <2> QED
        BY <1>1, <2>1, <2>4, <2>5, <2>6, <2>7, <2>8 DEF Orders
<1>3. CASE ~(t.mkt \in tracked /\ t.id \notin booked)
    <2>1. UNCHANGED <<open, net, booked>>
        BY <1>3 DEF OnFill, ledger
    <2>2. OrdersType' /\ Identity'
        BY <1>1, <2>1 DEF Orders, OrdersType, Identity
    <2>3. Live' /\ NetBooked'
        BY <1>1, <2>1 DEF Orders, Live, Uncounted, NetBooked, Booked
    <2> QED
        BY <1>1, <1>3, <2>1, <2>2, <2>3 DEF Orders
<1> QED
    BY <1>2, <1>3

(* A trade at the exchange takes a contract from its order there and adds  *)
(* one to the fills outstanding.                                           *)
LEMMA TradeEffect ==
    ASSUME Orders, NetBooked, NEW o \in resting, NEW d \in {-1, 1}, NEW g \in Gains,
           ExchangeTrade(o, d, g)
    PROVE  /\ Orders' /\ NetBooked'
           /\ UNCHANGED <<open, booked, placed, faults, session>>
           /\ \A r \in resting' : \E q \in resting : r.mkt = q.mkt
           /\ \A t \in trades' : t \in trades \/ (t.id \in wire' /\ t.mkt = o.mkt)
           /\ \A m \in Markets : m # o.mkt => Position(m)' = Position(m)
           /\ wire \subseteq wire'
<1> DEFINE n == Cardinality(trades)
           t == [id |-> n + 1, order |-> o.id, mkt |-> o.mkt, d |-> d, gain |-> g]
           less == [o EXCEPT !.left = @ - 1]
<1>1. /\ trades' = trades \cup {t} /\ wire' = wire \cup {t.id}
      /\ resting' = (resting \ {o}) \cup {r \in {less} : r.left > 0}
      /\ UNCHANGED <<open, net, booked, placed, faults, session>>
    BY DEF ExchangeTrade, ledger
<1>2. IsFiniteSet(trades) /\ n \in Nat
    BY FS_CardinalityType DEF Orders, Identity
<1>3. /\ t \in Trade /\ t.id = n + 1 /\ t.order = o.id /\ t.mkt = o.mkt
      /\ o \in Order /\ o.id \in Nat /\ o.left \in Nat /\ o.mkt \in Markets
      /\ less.id = o.id /\ less.mkt = o.mkt /\ less.left = o.left - 1
      /\ less.left > 0 => less \in Order
    BY <1>2, GainsAssumption DEF Orders, OrdersType, Order, Trade
<1>4. t.id \notin booked /\ t \notin trades /\ \A u \in trades : u.id # t.id
    <2>1. \A u \in trades : u.id \in Nat /\ u.id <= n
        BY DEF Orders, OrdersType, Identity, Trade
    <2>2. \A i \in booked : i \in Nat /\ i <= n
        BY DEF Orders, OrdersType, Identity
    <2>3. ~(n + 1 <= n)
        BY <1>2
    <2> QED
        BY <1>3, <2>1, <2>2, <2>3
<1> HIDE DEF t, less
<1>5. Cardinality(trades') = n + 1 /\ IsFiniteSet(trades')
    BY <1>1, <1>2, <1>4, FS_AddElement
<1>6. \A r \in resting' : (r \in resting /\ r # o) \/ (r = less /\ less.left > 0)
    BY <1>1
<1> HIDE DEF n
<1>7. OrdersType'
    BY <1>1, <1>3 DEF Orders, OrdersType
<1>8. Identity'
    <2>1. \A x \in open' \cup resting' : x.id <= placed'
        BY <1>1, <1>3, <1>6 DEF Orders, Identity
    <2>2. \A r, s \in resting' : r.id = s.id => r = s
        BY <1>3, <1>6 DEF Orders, Identity
    <2>3. \A u \in trades' : u.id <= n + 1 /\ u.order <= placed
        <3>1. \A u \in trades : u.id \in Nat /\ u.id <= n /\ u.order <= placed
            BY DEF Orders, OrdersType, Identity, Trade, n
        <3>2. o.id <= placed
            BY DEF Orders, Identity
        <3> QED
            BY <1>1, <1>2, <1>3, <3>1, <3>2
    <2>4. \A u, v \in trades' : u.id = v.id => u = v
        BY <1>1, <1>4 DEF Orders, Identity
    <2>5. \A i \in booked' : i <= n + 1
        <3>1. \A i \in booked : i \in Nat /\ i <= n
            BY DEF Orders, OrdersType, Identity, n
        <3> QED
            BY <1>1, <1>2, <3>1
    <2>6. placed' = placed /\ IsFiniteSet(open')
        <3>1. open' = open /\ placed' = placed /\ IsFiniteSet(open)
            BY <1>1 DEF Orders, Identity
        <3> QED
            BY <3>1, Zenon
    <2> QED
        BY <1>5, <2>1, <2>2, <2>3, <2>4, <2>5, <2>6, Zenon DEF Identity
<1>9. Live'
    <2> SUFFICES ASSUME NEW r \in resting'
                 PROVE  \E x \in open : /\ x.id = r.id /\ x.mkt = r.mkt
                            /\ x.left >= r.left + Cardinality(Uncounted(r.id)')
        BY <1>1 DEF Live, Uncounted
    <2>1. CASE r \in resting /\ r # o
        <3>1. r.id # o.id
            BY <2>1 DEF Orders, Identity
        <3>2. Uncounted(r.id)' = Uncounted(r.id)
            BY <1>1, <1>3, <3>1 DEF Uncounted
        <3> QED
            BY <2>1, <3>2 DEF Orders, Live
    <2>2. CASE r = less /\ less.left > 0
        <3>1. PICK x \in open : /\ x.id = o.id /\ x.mkt = o.mkt
                                /\ x.left >= o.left + Cardinality(Uncounted(o.id))
            BY DEF Orders, Live
        <3>2. Uncounted(r.id)' = Uncounted(o.id) \cup {t} /\ t \notin Uncounted(o.id)
            BY <1>1, <1>3, <1>4, <2>2 DEF Uncounted
        <3>3. IsFiniteSet(Uncounted(o.id)) /\ Cardinality(Uncounted(o.id)) \in Nat
            BY <1>2, FS_Subset, FS_CardinalityType DEF Uncounted
        <3>4. Cardinality(Uncounted(r.id)') = Cardinality(Uncounted(o.id)) + 1
            BY <3>2, <3>3, FS_AddElement
        <3>5. r.left + Cardinality(Uncounted(r.id)') = o.left + Cardinality(Uncounted(o.id))
            BY <1>3, <2>2, <3>3, <3>4
        <3> QED
            BY <1>3, <2>2, <3>1, <3>5
    <2> QED
        BY <1>6, <2>1, <2>2
<1>10. NetBooked'
    <2>1. Booked' = Booked
        BY <1>1, <1>4 DEF Booked
    <2> QED
        BY <1>1, <2>1 DEF NetBooked
<1>11. \A m \in Markets : m # o.mkt => Position(m)' = Position(m)
    <2>1. \A m : Position(m) = Total(trades, m) /\ Position(m)' = Total(trades', m)
        BY DEF Position, Total
    <2>2. trades \in SUBSET Trade
        BY DEF Orders, OrdersType
    <2> SUFFICES ASSUME NEW m \in Markets, m # o.mkt
                 PROVE  Total(trades', m) = Total(trades, m)
        BY <2>1
    <2>3. Total(trades', m) = Total(trades, m) + (IF t.mkt = m THEN t.d ELSE 0)
        BY <1>1, <1>2, <1>3, <1>4, <2>2, TotalAdd
    <2>4. Total(trades, m) \in Int
        BY <1>2, <2>2, TotalInt
    <2> QED
        BY <1>3, <2>3, <2>4
<1>12. \A u \in trades' : u \in trades \/ (u.id \in wire' /\ u.mkt = o.mkt)
    BY <1>1, <1>3
<1>13. \A r \in resting' : \E q \in resting : r.mkt = q.mkt
    BY <1>3, <1>6
<1> QED
    BY <1>1, <1>7, <1>8, <1>9, <1>10, <1>11, <1>12, <1>13 DEF Orders

-----------------------------------------------------------------------------
(* The invariant, and what follows without any hypothesis.                 *)

(* The invariant holds at the start.                                       *)
LEMMA InitInv ==
    ASSUME Init
    PROVE  Inv
<1>1. SessionType
    BY MarketsAssumption DEF Init, SessionType, Idle
<1>2. OrdersType
    BY DEF Init, OrdersType
<1>3. Identity /\ Live
    BY FS_EmptySet DEF Init, Identity, Live
<1>4. NetBooked
    <2>1. Booked = {} /\ \A m \in Markets : {t \in {} : t.mkt = m} = {} /\ net[m] = 0
        BY DEF Init, Booked
    <2>2. \A m \in Markets : Total(Booked, m) = 0
        BY <2>1, SumEmpty DEF Total
    <2> QED
        BY <2>1, <2>2 DEF NetBooked
<1>5. DeadUnconfirmed /\ DeadMarketsBare
    BY DEF Init, DeadUnconfirmed, DeadMarketsBare, OrdersOf
<1> QED
    BY <1>1, <1>2, <1>3, <1>4, <1>5 DEF Inv

(* The invariant is inductive.                                             *)
LEMMA NextInv ==
    ASSUME Inv, [Next]_vars
    PROVE  Inv'
<1>1. SessionType' /\ DeadUnconfirmed' /\ StepKind
    BY SessionStep, Kinds DEF Inv
<1>2. CASE Elsewhere
    <2>1. UNCHANGED <<open, net, booked, resting, trades, placed, faults>> /\ dead' \subseteq dead
        BY <1>2 DEF Elsewhere, ledger, exchange
    <2>2. OrdersType' /\ Identity'
        BY <2>1 DEF Inv, OrdersType, Identity
    <2>3. Live' /\ NetBooked'
        BY <2>1 DEF Inv, Live, Uncounted, NetBooked, Booked
    <2>4. DeadMarketsBare'
        BY <2>1 DEF Inv, DeadMarketsBare, OrdersOf
    <2> QED
        BY <1>1, <2>2, <2>3, <2>4 DEF Inv
<1>3. CASE \E P, S \in SUBSET Markets : Quoting(P, S)
    <2>1. PICK P \in SUBSET Markets, S \in SUBSET Markets : Quoting(P, S)
        BY <1>3
    <2>2. Reorder(P, S) /\ dead' \subseteq dead \cup S /\ \A m \in P : FeedConfirmed(m)'
        BY <2>1 DEF Quoting
    <2>3. /\ Orders' /\ UNCHANGED <<net, booked, trades>>
          /\ \A r \in resting' : r \in resting \/ r.mkt \in P
          /\ faults <= faults'
          /\ faults' = 0 => \A r \in resting' : r.mkt \in S => r.mkt \in P
        BY <2>2, ReorderEffect DEF Inv, Orders
    <2>4. NetBooked'
        BY <2>3 DEF Inv, NetBooked, Booked
    <2>5. DeadMarketsBare'
        <3> SUFFICES ASSUME faults' = 0, NEW r \in resting', r.mkt \in dead'
                     PROVE  FALSE
            BY DEF DeadMarketsBare, OrdersOf
        <3>1. r.mkt \notin P
            BY <1>1, <2>2 DEF DeadUnconfirmed
        <3>2. r \in resting /\ r.mkt \in dead
            BY <2>2, <2>3, <3>1
        <3>3. faults = 0
            BY <2>3 DEF Inv, OrdersType
        <3> QED
            BY <3>2, <3>3 DEF Inv, DeadMarketsBare, OrdersOf
    <2> QED
        BY <1>1, <2>3, <2>4, <2>5 DEF Inv, Orders
<1>4. CASE \E t \in trades : OnFill(t)
    <2>1. PICK t \in trades : OnFill(t)
        BY <1>4
    <2>2. Orders' /\ NetBooked' /\ UNCHANGED <<resting, faults>>
        BY <2>1, FillEffect DEF Inv, Orders
    <2>3. dead' = dead
        BY <2>1 DEF OnFill, session
    <2>4. DeadMarketsBare'
        BY <2>2, <2>3 DEF Inv, DeadMarketsBare, OrdersOf
    <2> QED
        BY <1>1, <2>2, <2>4 DEF Inv, Orders
<1>5. CASE \E o \in resting, d \in {-1, 1}, g \in Gains : ExchangeTrade(o, d, g)
    <2>1. PICK o \in resting, d \in {-1, 1}, g \in Gains : ExchangeTrade(o, d, g)
        BY <1>5
    <2>2. /\ Orders' /\ NetBooked' /\ UNCHANGED <<faults, session>>
          /\ \A r \in resting' : \E q \in resting : r.mkt = q.mkt
        BY <2>1, TradeEffect DEF Inv, Orders
    <2>3. DeadMarketsBare'
        BY <2>2 DEF Inv, DeadMarketsBare, OrdersOf, session
    <2> QED
        BY <1>1, <2>2, <2>3 DEF Inv, Orders
<1> QED
    BY <1>1, <1>2, <1>3, <1>4, <1>5 DEF StepKind

(* The invariant holds in every reachable state, with any of the faults.   *)
THEOREM Invariance == Spec => []Inv
<1>1. Init => Inv
    BY InitInv
<1>2. Inv /\ [Next]_vars => Inv'
    BY NextInv
<1> QED
    BY <1>1, <1>2, PTL DEF Spec

(* enforce_quote_safety: the one sweep over the markets it declares dead   *)
(* is enough, whatever the feed does late, whatever fills lag behind and   *)
(* however often the scanner picks a market again.                         *)
THEOREM DeadMarketsBareHolds == Spec => []DeadMarketsBare
<1>1. Inv => DeadMarketsBare
    BY DEF Inv
<1> QED
    BY <1>1, Invariance, PTL

(* The recovery net, rotation and the deltas: no step places an order in a *)
(* market whose feed is not confirmed after it.                            *)
THEOREM NewOrdersOnLiveFeedHolds == Spec => NewOrdersOnLiveFeed
<1> DEFINE Fed == \A o \in open' : o.id > placed => FeedConfirmed(o.mkt)'
<1>1. ASSUME Inv, [Next]_vars
      PROVE  Fed
    <2> SUFFICES ASSUME NEW o \in open', o.id > placed
                 PROVE  FeedConfirmed(o.mkt)'
        OBVIOUS
    <2>1. \A q \in open : ~(q.id > placed)
        BY <1>1 DEF Inv, OrdersType, Identity, Order
    <2>2. StepKind
        BY <1>1, Kinds DEF Inv
    <2>3. CASE Elsewhere
        BY <2>1, <2>3 DEF Elsewhere, ledger
    <2>4. CASE \E P, S \in SUBSET Markets : Quoting(P, S)
        <3>1. PICK P \in SUBSET Markets, S \in SUBSET Markets : Quoting(P, S)
            BY <2>4
        <3>2. Reorder(P, S) /\ \A m \in P : FeedConfirmed(m)'
            BY <3>1 DEF Quoting
        <3>3. o \in open \/ o.mkt \in P
            BY <1>1, <3>2, ReorderEffect DEF Inv, Orders
        <3> QED
            BY <2>1, <3>2, <3>3
    <2>5. CASE \E t \in trades : OnFill(t)
        <3>1. \E q \in open : o.id = q.id
            BY <1>1, <2>5, FillEffect DEF Inv, Orders
        <3> QED
            BY <2>1, <3>1
    <2>6. CASE \E p \in resting, d \in {-1, 1}, g \in Gains : ExchangeTrade(p, d, g)
        <3>1. o \in open
            BY <2>6 DEF ExchangeTrade, ledger
        <3> QED
            BY <2>1, <3>1
    <2> QED
        BY <2>2, <2>3, <2>4, <2>5, <2>6 DEF StepKind
<1>2. Inv /\ [Next]_vars => [Fed]_vars
    BY <1>1
<1> QED
    BY <1>2, Invariance, PTL DEF Spec, NewOrdersOnLiveFeed

-----------------------------------------------------------------------------
(* Without late messages.                                                  *)

(* The books stay those of tracked markets.                                *)
LEMMA BooksStep ==
    ASSUME LateFeed = FALSE, books \subseteq tracked, [Next]_vars
    PROVE  books' \subseteq tracked'
<1> USE DEF session
<1>1. ASSUME NEW t \in trades, OnFill(t)
      PROVE  books' \subseteq tracked'
    BY <1>1 DEF OnFill
<1>2. ASSUME NEW m \in Markets, OnSnapshot(m)
      PROVE  books' \subseteq tracked'
    BY <1>2 DEF OnSnapshot, BookUpdated
<1>3. ASSUME NEW m \in Markets, OnDelta(m)
      PROVE  books' \subseteq tracked'
    BY <1>3 DEF OnDelta, BookUpdated
<1>4. CASE OnDisconnect
    BY <1>4 DEF OnDisconnect
<1>5. CASE HandleConnect
    BY <1>5 DEF HandleConnect
<1>6. ASSUME NEW R, Poll(R)
      PROVE  books' \subseteq tracked'
    BY <1>6 DEF Poll
<1>7. CASE Scan
    BY <1>7 DEF Scan
<1>8. CASE DropIdle
    BY <1>8 DEF DropIdle
<1>9. CASE FetchBook
    BY <1>9 DEF FetchBook
<1>10. CASE AddMarket
    BY <1>10 DEF AddMarket, Seeded
<1>11. CASE Subscribe
    BY <1>11 DEF Subscribe
<1>12. ASSUME NEW m \in Markets, GraceExpires(m)
       PROVE  books' \subseteq tracked'
    BY <1>12 DEF GraceExpires
<1>13. ASSUME NEW o \in resting, NEW d, NEW g, ExchangeTrade(o, d, g)
       PROVE  books' \subseteq tracked'
    BY <1>13 DEF ExchangeTrade
<1>14. CASE UNCHANGED vars
    BY <1>14 DEF vars
<1> QED
    BY <1>1, <1>2, <1>3, <1>4, <1>5, <1>6, <1>7, <1>8, <1>9, <1>10, <1>11,
       <1>12, <1>13, <1>14
    DEF Next, WebSocketThread, MainLoop, Environment, PollTick, StalenessTick

(* A step keeps the orders in tracked markets.                             *)
LEMMA TrackingStep ==
    ASSUME LateFeed = FALSE, Inv, Tracking, [Next]_vars
    PROVE  Tracking'
<1>1. books' \subseteq tracked' /\ StepKind
    BY BooksStep, Kinds DEF Inv, Tracking
<1> SUFFICES ASSUME NEW o \in open'
             PROVE  o.mkt \in tracked'
    BY <1>1 DEF Tracking, QuotesOnlyTracked
<1>2. \A q \in open : q.mkt \in tracked /\ q.mkt \in Markets
    BY DEF Tracking, QuotesOnlyTracked, Inv, OrdersType, Order
<1>3. CASE Elsewhere
    <2>1. open' = open /\ \A m \in tracked \ tracked' : NoOrder(m)
        BY <1>3 DEF Elsewhere, ledger, Removable
    <2> QED
        BY <1>2, <2>1 DEF NoOrder, OrdersOf
<1>4. CASE \E P, S \in SUBSET Markets : Quoting(P, S)
    <2>1. PICK P \in SUBSET Markets, S \in SUBSET Markets : Quoting(P, S)
        BY <1>4
    <2>2. Reorder(P, S) /\ tracked \subseteq tracked' /\ P \subseteq tracked'
        BY <2>1 DEF Quoting, Tracking
    <2>3. o \in open \/ o.mkt \in P
        BY <2>2, ReorderEffect DEF Inv, Orders
    <2> QED
        BY <1>2, <2>2, <2>3
<1>5. CASE \E t \in trades : OnFill(t)
    <2>1. tracked' = tracked /\ \E q \in open : o.mkt = q.mkt
        BY <1>5, FillEffect DEF Inv, Orders
    <2> QED
        BY <1>2, <2>1
<1>6. CASE \E p \in resting, d \in {-1, 1}, g \in Gains : ExchangeTrade(p, d, g)
    <2>1. open' = open /\ tracked' = tracked
        BY <1>6 DEF ExchangeTrade, ledger, session
    <2> QED
        BY <1>2, <2>1
<1> QED
    BY <1>1, <1>3, <1>4, <1>5, <1>6 DEF StepKind

(* tickers_ covers the session's orders: if the server sends nothing for a *)
(* market it was not asked for any more, no order is ever open in a market *)
(* that the halts and the shutdown would not cancel.  The run              *)
(* rotation_late_feed shows that the hypothesis is needed.                 *)
THEOREM QuotesOnlyTrackedHolds ==
    ASSUME LateFeed = FALSE
    PROVE  Spec => []QuotesOnlyTracked
<1>1. Init => Tracking
    BY DEF Init, Tracking, QuotesOnlyTracked
<1>2. Inv /\ Tracking /\ [Next]_vars => Tracking'
    BY TrackingStep
<1>3. Tracking => QuotesOnlyTracked
    BY DEF Tracking
<1> QED
    BY <1>1, <1>2, <1>3, Invariance, PTL DEF Spec

-----------------------------------------------------------------------------
(* Without late messages and without lag.                                  *)

(* What is dropped in a quiet moment has no exposure.                      *)
LEMMA DroppedFlat ==
    ASSUME Inv, FillsLag = FALSE, Quiet, Settling, NEW m \in Markets, Removable(m)
    PROVE  Position(m) = 0 /\ OrdersOf({m}, resting) = {}
<1>1. Booked = trades
    BY DEF Booked, Quiet, Settling
<1>2. Position(m) = Total(trades, m)
    BY DEF Position, Total
<1>3. net[m] = 0 /\ \A o \in open : o.mkt # m
    BY DEF Removable, NoOrder, OrdersOf
<1>4. Position(m) = 0
    BY <1>1, <1>2, <1>3 DEF Inv, NetBooked
<1> QED
    BY <1>3, <1>4 DEF Inv, Live, OrdersOf

(* A step keeps the exposure in tracked markets.                           *)
LEMMA SettlingStep ==
    ASSUME LateFeed = FALSE, FillsLag = FALSE, Inv, Tracking, Settling, [Next]_vars
    PROVE  Settling'
<1> DEFINE Bare(m) == Position(m) = 0 /\ OrdersOf({m}, resting) = {}
<1>1. StepKind
    BY Kinds DEF Inv
<1>2. \A m \in Markets : m \notin tracked => Bare(m)
    BY DEF Settling, ExposureTracked
<1>3. \A t \in trades : t.id \in booked \/ (t.id \in wire /\ t.mkt \in tracked)
    BY DEF Settling
<1>4. CASE Elsewhere
    <2>1. /\ UNCHANGED <<booked, trades, wire, resting>>
          /\ \A m \in tracked \ tracked' : Removable(m) /\ Quiet
        BY <1>4 DEF Elsewhere, ledger, exchange
    <2>2. \A t \in trades' : t.id \in booked' \/ (t.id \in wire' /\ t.mkt \in tracked')
        BY <1>3, <2>1 DEF Quiet
    <2>3. \A m \in Markets : Bare(m)' <=> Bare(m)
        BY <2>1 DEF Position, OrdersOf
    <2>4. \A m \in Markets : m \notin tracked' => Bare(m)
        BY <1>2, <2>1, DroppedFlat
    <2>5. ExposureTracked'
        BY <2>3, <2>4 DEF ExposureTracked
    <2> QED
        BY <2>2, <2>5 DEF Settling
<1>5. CASE \E P, S \in SUBSET Markets : Quoting(P, S)
    <2>1. PICK P \in SUBSET Markets, S \in SUBSET Markets : Quoting(P, S)
        BY <1>5
    <2>2. Reorder(P, S) /\ tracked \subseteq tracked' /\ P \subseteq tracked'
        BY <2>1 DEF Quoting, Tracking
    <2>3. /\ UNCHANGED <<booked, trades, wire>>
          /\ \A r \in resting' : r \in resting \/ r.mkt \in P
        BY <2>2, ReorderEffect DEF Inv, Orders, Reorder
    <2>4. \A t \in trades' : t.id \in booked' \/ (t.id \in wire' /\ t.mkt \in tracked')
        BY <1>3, <2>2, <2>3
    <2>5. \A m \in Markets : Position(m)' = Position(m)
        BY <2>3 DEF Position
    <2>6. \A m \in Markets : m \notin tracked' => Bare(m)'
        BY <1>2, <2>2, <2>3, <2>5 DEF OrdersOf
    <2>7. ExposureTracked'
        BY <2>6 DEF ExposureTracked
    <2> QED
        BY <2>4, <2>7 DEF Settling
<1>6. CASE \E t \in trades : OnFill(t)
    <2>1. PICK t \in trades : OnFill(t)
        BY <1>6
    <2>2. /\ UNCHANGED <<resting, trades, tracked>>
          /\ \A i \in booked : i \in booked'
          /\ t.mkt \in tracked => t.id \in booked'
          /\ wire' = wire \ {t.id}
        BY <2>1, FillEffect DEF Inv, Orders
    <2>3. \A u \in trades' : u.id \in booked' \/ (u.id \in wire' /\ u.mkt \in tracked')
        BY <1>3, <2>2 DEF Inv, Identity
    <2>4. \A m \in Markets : Bare(m)' <=> Bare(m)
        BY <2>2 DEF Position, OrdersOf
    <2>5. ExposureTracked'
        BY <1>2, <2>2, <2>4 DEF ExposureTracked
    <2> QED
        BY <2>3, <2>5 DEF Settling
<1>7. CASE \E o \in resting, d \in {-1, 1}, g \in Gains : ExchangeTrade(o, d, g)
    <2>1. PICK o \in resting, d \in {-1, 1}, g \in Gains : ExchangeTrade(o, d, g)
        BY <1>7
    <2>2. /\ UNCHANGED <<booked, session>> /\ wire \subseteq wire'
          /\ \A r \in resting' : \E q \in resting : r.mkt = q.mkt
          /\ \A t \in trades' : t \in trades \/ (t.id \in wire' /\ t.mkt = o.mkt)
          /\ \A m \in Markets : m # o.mkt => Position(m)' = Position(m)
        BY <2>1, TradeEffect DEF Inv, Orders
    <2>3. tracked' = tracked /\ o.mkt \in tracked
        BY <1>2, <2>2 DEF OrdersOf, Inv, OrdersType, Order, session
    <2>4. \A t \in trades' : t.id \in booked' \/ (t.id \in wire' /\ t.mkt \in tracked')
        BY <1>3, <2>2, <2>3
    <2>5. \A m \in Markets : m \notin tracked' => Bare(m)'
        BY <1>2, <2>2, <2>3 DEF OrdersOf
    <2>6. ExposureTracked'
        BY <2>5 DEF ExposureTracked
    <2> QED
        BY <2>4, <2>6 DEF Settling
<1> QED
    BY <1>1, <1>4, <1>5, <1>6, <1>7 DEF StepKind

(* remove_market_if_idle: when fills reach the session before a rotation   *)
(* can drop their market, and no late message comes for a dropped market,  *)
(* a market leaves tickers_ only with no position and no live order at the *)
(* exchange, and gets none while it is out.                                *)
THEOREM ExposureTrackedHolds ==
    ASSUME LateFeed = FALSE, FillsLag = FALSE
    PROVE  Spec => []ExposureTracked
<1>1. Init => Tracking /\ Settling
    <2> SUFFICES ASSUME Init
                 PROVE  Tracking /\ Settling
        OBVIOUS
    <2>1. Tracking
        BY DEF Init, Tracking, QuotesOnlyTracked
    <2>2. \A m \in Markets : Position(m) = 0
        <3>1. \A m \in Markets : {t \in trades : t.mkt = m} = {}
            BY DEF Init
        <3> QED
            BY <3>1, SumEmpty DEF Position
    <2>3. Settling
        BY <2>2 DEF Init, Settling, ExposureTracked, OrdersOf
    <2> QED
        BY <2>1, <2>3
<1>2. Inv /\ Tracking /\ Settling /\ [Next]_vars => Tracking' /\ Settling'
    BY TrackingStep, SettlingStep
<1>3. Settling => ExposureTracked
    BY DEF Settling
<1> QED
    BY <1>1, <1>2, <1>3, Invariance, PTL DEF Spec
=============================================================================
