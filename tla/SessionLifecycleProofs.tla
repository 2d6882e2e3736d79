---------------------- MODULE SessionLifecycleProofs ----------------------
(***************************************************************************)
(* Proofs about SessionLifecycle, for any markets, any number of sweeps,   *)
(* orders and restarts: what the startup, the shutdown guard and the       *)
(* session's ledger promise.                                               *)
(***************************************************************************)
EXTENDS SessionLifecycle, SumTheorems

Order == [id : Nat, mkt : Markets, d : {-1, 1}]
Steps == GuardSteps \cup {"startup", "trading", "winddown", "ended", "crashed"}

(* The state is one the program's types allow.                             *)
TypeOK ==
    /\ wide \in BOOLEAN
    /\ pc \in Steps
    /\ attempt \in Nat
    /\ found \in [orders : SUBSET Order, whole : BOOLEAN]
    /\ todo \subseteq [mkt : Markets, size : Int]
    /\ tracked \subseteq Markets
    /\ open \subseteq Nat
    /\ net \in [Markets -> Int]
    /\ wire \subseteq Order
    /\ missed \in [Markets -> Int]
    /\ swept \in BOOLEAN
    /\ unfilled \in BOOLEAN
    /\ lost \subseteq Nat
    /\ resting \subseteq Order
    /\ position \in [Markets -> Int]
    /\ start \in [Markets -> Int]
    /\ placed \in Nat
    /\ restarts \in Nat

(* Orders keep their identity: ids of this session are 1 to placed, an     *)
(* order that traded is no longer live, and only leftovers share an id.    *)
Identity ==
    /\ IsFiniteSet(wire)
    /\ wire \cap resting = {}
    /\ \A o \in wire \cup resting : o.id <= placed
    /\ \A o \in wire \cup resting, p \in resting : o.id = p.id /\ o.id # 0 => o = p
    /\ \A i \in open \cup lost : i # 0 /\ i <= placed

(* What the guard has swept stays empty, because nothing places an order   *)
(* any more, and what it found covers all that is left to cancel if its    *)
(* page was whole.                                                         *)
Sweeping ==
    /\ pc \in GuardSteps \cup {"ended"} /\ pc # "stop" /\ swept
            => Of(ExitScope) = {}
    /\ pc = "sweepCancel" /\ found.whole => Of(ExitScope) \subseteq found.orders

(* After a good sweep the positions only move by the guard's own orders.   *)
Flattening ==
    /\ \A p, q \in todo : p.mkt = q.mkt => p = q
    /\ pc = "flatten" /\ swept
            => \A p \in todo : p.mkt \in ExitScope /\ position[p.mkt] = p.size
    /\ pc = "flatten" /\ swept /\ ~unfilled
            => \A m \in ExitScope : position[m] # 0 => \E p \in todo : p.mkt = m
    /\ pc \in {"close", "ended"} /\ swept /\ ~unfilled
            => \A m \in ExitScope : position[m] = 0

(* The inductive invariant.                                                *)
Inv ==
    /\ TypeOK
    /\ Identity
    /\ NoZombies
    /\ Sweeping
    /\ Flattening
    /\ LedgerExplained

-----------------------------------------------------------------------------
(* Sums of what orders moved.                                              *)

(* What a finite set of orders moved in a market is an integer.            *)
LEMMA MovedInt ==
    ASSUME NEW S \in SUBSET Order, IsFiniteSet(S), NEW m
    PROVE  Moved(S, m) \in Int
<1> DEFINE f == [o \in S |-> o.d]
           T == {o \in S : o.mkt = m}
<1>1. IsFiniteSet(T) /\ \A x \in T : f[x] \in Int
    BY FS_Subset DEF Order
<1> HIDE DEF f, T
<1>2. SumFunctionOnSet(f, T) \in Int
    BY <1>1, SumInt
<1> QED
    BY <1>2 DEF Moved, f, T

(* No orders move nothing.                                                 *)
LEMMA MovedNone ==
    ASSUME NEW m
    PROVE  Moved({}, m) = 0
<1>1. {o \in {} : o.mkt = m} = {}
    OBVIOUS
<1> QED
    BY <1>1, SumEmpty DEF Moved

(* One order more moves its own market by its direction.                   *)
LEMMA MovedAdd ==
    ASSUME NEW S \in SUBSET Order, IsFiniteSet(S), NEW o \in Order, o \notin S,
           NEW m
    PROVE  Moved(S \cup {o}, m) = Moved(S, m) + (IF o.mkt = m THEN o.d ELSE 0)
<1> DEFINE f == [x \in S |-> x.d]
           g == [x \in S \cup {o} |-> x.d]
           T == {x \in S : x.mkt = m}
           U == {x \in S \cup {o} : x.mkt = m}
<1>1. /\ IsFiniteSet(T) /\ o \notin T
      /\ \A x \in T \cup {o} : g[x] \in Int
      /\ \A x \in T : f[x] = g[x]
      /\ g[o] = o.d
    BY FS_Subset DEF Order
<1>2. U = IF o.mkt = m THEN T \cup {o} ELSE T
    OBVIOUS
<1>3. Moved(S, m) = SumFunctionOnSet(f, T) /\ Moved(S \cup {o}, m) = SumFunctionOnSet(g, U)
    BY DEF Moved
<1>4. Moved(S, m) \in Int
    BY MovedInt
<1> HIDE DEF f, g, T, U
<1>5. SumFunctionOnSet(f, T) = SumFunctionOnSet(g, T)
    BY <1>1, SumEqual
<1>6. SumFunctionOnSet(g, T \cup {o}) = SumFunctionOnSet(g, T) + g[o]
    BY <1>1, SumAdd
<1>7. CASE o.mkt = m
    BY <1>1, <1>2, <1>3, <1>5, <1>6, <1>7
<1>8. CASE o.mkt # m
    BY <1>2, <1>3, <1>4, <1>5, <1>8
<1> QED
    BY <1>7, <1>8

(* One order less takes its direction back.                                *)
LEMMA MovedRemove ==
    ASSUME NEW S \in SUBSET Order, IsFiniteSet(S), NEW o \in S, NEW m
    PROVE  Moved(S \ {o}, m) = Moved(S, m) - (IF o.mkt = m THEN o.d ELSE 0)
<1>1. /\ IsFiniteSet(S \ {o}) /\ S \ {o} \in SUBSET Order
      /\ (S \ {o}) \cup {o} = S /\ o \in Order
    BY FS_RemoveElement
<1>2. Moved((S \ {o}) \cup {o}, m)
        = Moved(S \ {o}, m) + (IF o.mkt = m THEN o.d ELSE 0)
    BY <1>1, MovedAdd
<1>3. Moved(S \ {o}, m) \in Int /\ o.d \in Int
    BY <1>1, MovedInt DEF Order
<1>4. Moved(S, m) = Moved(S \ {o}, m) + (IF o.mkt = m THEN o.d ELSE 0)
    BY <1>1, <1>2, Zenon
<1> QED
    BY <1>3, <1>4

-----------------------------------------------------------------------------
(* Types.                                                                  *)

(* The shutdown's sums keep the type of missed.                            *)
LEMMA LoseWireType ==
    ASSUME TypeOK, Identity, LoseWire
    PROVE  wire' = {} /\ missed' \in [Markets -> Int]
<1>1. \A m \in Markets : Moved(wire, m) \in Int
    BY MovedInt DEF TypeOK, Identity
<1> HIDE DEF Moved
<1> QED
    BY <1>1 DEF LoseWire, TypeOK

(* Before and after a sweep there is no answer.                            *)
LEMMA NothingType == Nothing \in [orders : SUBSET Order, whole : BOOLEAN]
    BY DEF Nothing

(* The types hold at the start.                                            *)
LEMMA InitType ==
    ASSUME Init
    PROVE  TypeOK
<1>1. resting \subseteq Order /\ position \in [Markets -> Int]
    BY MarketsAssumption DEF Init, Order
<1>2. Flat \in [Markets -> Int]
    BY DEF Flat
<1>3. wide \in BOOLEAN /\ swept \in BOOLEAN /\ unfilled \in BOOLEAN
    BY Zenon DEF Init
<1> QED
    BY <1>1, <1>2, <1>3, NothingType, MarketsAssumption DEF Init, TypeOK, Steps

(* A new process begins with well-typed state.                             *)
LEMMA ForgottenType ==
    ASSUME TypeOK, Forgotten
    PROVE  /\ attempt' \in Nat /\ found' = Nothing /\ todo' = {}
           /\ tracked' \subseteq Markets /\ open' = {} /\ wire' = {} /\ lost' = {}
           /\ net' \in [Markets -> Int] /\ missed' \in [Markets -> Int]
           /\ start' \in [Markets -> Int]
           /\ swept' \in BOOLEAN /\ unfilled' \in BOOLEAN
<1>1. Flat \in [Markets -> Int]
    BY DEF Flat
<1>2. swept' \in BOOLEAN /\ unfilled' \in BOOLEAN
    BY Zenon DEF Forgotten
<1> QED
    BY <1>1, <1>2, MarketsAssumption DEF Forgotten, TypeOK

(* A step keeps the types.                                                 *)
LEMMA TypeStep ==
    ASSUME TypeOK, Identity, [Next]_vars
    PROVE  TypeOK'
<1> USE DEF main, session, feed, history, exchange
<1>1. CASE CancelPreexisting
    BY <1>1 DEF CancelPreexisting, CancelEach, TypeOK, Steps
<1>2. ASSUME NEW m \in Markets, NEW d \in {-1, 1}, Place(m, d)
      PROVE  TypeOK'
    <2>1. [id |-> placed', mkt |-> m, d |-> d] \in Order /\ placed' \in Nat
        BY <1>2 DEF Place, TypeOK, Order
    <2>2. resting' \subseteq Order /\ open' \subseteq Nat /\ lost' \subseteq Nat
        BY <1>2, <2>1 DEF Place, TypeOK
    <2> QED
        BY <1>2, <2>1, <2>2 DEF Place, TypeOK
<1>3. ASSUME NEW o \in wire, OnFill(o)
      PROVE  TypeOK'
    <2>1. o.mkt \in Markets /\ o.d \in Int
        BY <1>3 DEF OnFill, TypeOK, Order
    <2>2. net' \in [Markets -> Int] /\ missed' \in [Markets -> Int] /\ open' \subseteq Nat
        <3>1. /\ [net EXCEPT ![o.mkt] = @ + o.d] \in [Markets -> Int]
              /\ [missed EXCEPT ![o.mkt] = @ + o.d] \in [Markets -> Int]
            BY <2>1 DEF TypeOK
        <3>2. /\ net' \in {net, [net EXCEPT ![o.mkt] = @ + o.d]}
              /\ missed' \in {missed, [missed EXCEPT ![o.mkt] = @ + o.d]}
              /\ open' \subseteq open
            BY <1>3 DEF OnFill
        <3> QED
            BY <3>1, <3>2 DEF TypeOK
    <2> QED
        BY <1>3, <2>2 DEF OnFill, TypeOK
<1>4. ASSUME NEW m \in Markets, Adopt(m) \/ Drop(m)
      PROVE  TypeOK'
    BY <1>4 DEF Adopt, Drop, TypeOK
<1>5. CASE LeaveLoop
    BY <1>5 DEF LeaveLoop, TypeOK, Steps, GuardSteps
<1>6. CASE WindDownEnds
    BY <1>6 DEF WindDownEnds, TypeOK, Steps, GuardSteps
<1>7. CASE StopFeed
    BY <1>7, LoseWireType DEF StopFeed, TypeOK, Steps, GuardSteps
<1>8. CASE CancelQuotes
    BY <1>8 DEF CancelQuotes, CancelAllQuotes, CancelEach, TypeOK, Steps, GuardSteps
<1>9. CASE SweepFetch
    <2>1. pc' \in Steps /\ attempt' \in Nat
        BY <1>9 DEF SweepFetch, Answered, AfterSweeps, TypeOK, Steps, GuardSteps
    <2>2. found' \in [orders : SUBSET Order, whole : BOOLEAN] /\ swept' \in BOOLEAN
        <3>1. CASE Answered(attempt + 1)
            <4>1. PICK page \in Pages :
                        IF page \cap Of(ExitScope) = {}
                          THEN swept' = (swept \/ page = resting) /\ UNCHANGED found
                          ELSE /\ found' = [orders |-> page \cap Of(ExitScope),
                                            whole |-> page = resting]
                               /\ UNCHANGED swept
                BY <3>1 DEF Answered
            <4>2. page \cap Of(ExitScope) \subseteq Order
                BY DEF Of, TypeOK
            <4>3. swept' \in BOOLEAN
                BY <4>1, Zenon DEF TypeOK
            <4>4. \/ found' = found
                  \/ found' = [orders |-> page \cap Of(ExitScope), whole |-> page = resting]
                BY <4>1
            <4>5. (page = resting) \in BOOLEAN
                OBVIOUS
            <4> DEFINE rested == page = resting
                       orders == page \cap Of(ExitScope)
            <4>6. [orders |-> orders, whole |-> rested]
                        \in [orders : SUBSET Order, whole : BOOLEAN]
                <5> HIDE DEF rested, orders
                <5> QED
                    BY <4>2, <4>5, Zenon DEF rested, orders
            <4> QED
                BY <4>3, <4>4, <4>6, Zenon DEF TypeOK
        <3>2. CASE UNCHANGED <<found, swept>>
            BY <3>2 DEF TypeOK
        <3> QED
            BY <1>9, <3>1, <3>2 DEF SweepFetch
    <2> QED
        BY <1>9, <2>1, <2>2 DEF SweepFetch, TypeOK
<1>10. CASE SweepCancel
    <2>1. pc' \in Steps /\ attempt' \in Nat
        BY <1>10 DEF SweepCancel, AfterSweeps, TypeOK, Steps, GuardSteps
    <2>2. found' \in [orders : SUBSET Order, whole : BOOLEAN]
        BY <1>10 DEF SweepCancel, Nothing
    <2>3. swept' \in BOOLEAN
        BY <1>10, Zenon DEF SweepCancel, TypeOK
    <2>4. resting' \subseteq Order /\ open' \subseteq Nat
        BY <1>10 DEF SweepCancel, CancelEach, TypeOK
    <2> QED
        BY <1>10, <2>1, <2>2, <2>3, <2>4 DEF SweepCancel, CancelEach, TypeOK
<1>11. CASE FetchPositions
    <2>1. OpenPositions \subseteq Markets
        BY DEF OpenPositions, ExitScope, TypeOK
    <2>2. {[mkt |-> m, size |-> position[m]] : m \in OpenPositions}
            \subseteq [mkt : Markets, size : Int]
        BY <2>1 DEF TypeOK
    <2>3. todo' \subseteq [mkt : Markets, size : Int] /\ pc' \in Steps
        BY <1>11, <2>2 DEF FetchPositions, TypeOK, Steps, GuardSteps
    <2>4. unfilled' \in BOOLEAN
        BY <1>11, Zenon DEF FetchPositions, TypeOK
    <2> QED
        BY <1>11, <2>3, <2>4 DEF FetchPositions, TypeOK
<1>12. ASSUME NEW p \in todo, FlattenOne(p)
      PROVE  TypeOK'
    BY <1>12 DEF FlattenOne, Fillable, RecordFlatten, TypeOK
<1>13. CASE FlattenDone
    BY <1>13 DEF FlattenDone, TypeOK, Steps, GuardSteps
<1>14. CASE Close
    BY <1>14 DEF Close, TypeOK, Steps, GuardSteps
<1>15. CASE Die
    BY <1>15, ForgottenType, NothingType DEF Die, TypeOK, Steps
<1>16. CASE Restart
    BY <1>16, ForgottenType, NothingType DEF Restart, TypeOK, Steps
<1>17. ASSUME NEW o \in resting, ExchangeTrade(o)
      PROVE  TypeOK'
    BY <1>17 DEF ExchangeTrade, TypeOK, Order
<1>18. CASE UNCHANGED vars
    BY <1>18 DEF vars, TypeOK
<1> QED
    BY <1>1, <1>2, <1>3, <1>4, <1>5, <1>6, <1>7, <1>8, <1>9, <1>10, <1>11, <1>12, <1>13, <1>14, <1>15, <1>16, <1>17, <1>18 DEF Next, Running, Guard

-----------------------------------------------------------------------------
(* Identity.                                                               *)

(* Orders may go without disturbing the identity of the others.            *)
LEMMA FewerOrders ==
    ASSUME Identity, resting' \subseteq resting, wire' = wire \/ wire' = {},
           open' \subseteq open, lost' \subseteq lost, placed' = placed
    PROVE  Identity'
<1>1. IsFiniteSet(wire') /\ wire' \subseteq wire
    BY FS_EmptySet DEF Identity
<1> QED
    BY <1>1 DEF Identity

(* A step keeps the identity of the orders.                                *)
LEMMA IdentityStep ==
    ASSUME TypeOK, Identity, [Next]_vars
    PROVE  Identity'
<1> USE DEF main, session, feed, history, exchange
<1>1. CASE CancelPreexisting
    BY <1>1, FewerOrders DEF CancelPreexisting, CancelEach
<1>2. ASSUME NEW m \in Markets, NEW d \in {-1, 1}, Place(m, d)
      PROVE  Identity'
    <2> DEFINE new == [id |-> placed + 1, mkt |-> m, d |-> d]
    <2>1. /\ resting' = resting \cup {new} /\ wire' = wire /\ placed' = placed + 1
          /\ open' \cup lost' = open \cup lost \cup {placed + 1}
        BY <1>2 DEF Place
    <2>2. new.id = placed + 1 /\ placed + 1 # 0 /\ \A o \in Order : o.id \in Nat
        BY DEF TypeOK, Order
    <2>3. \A o \in wire \cup resting : o.id # new.id /\ o.id <= placed + 1
        BY <2>2 DEF TypeOK, Identity, Order
    <2>4. \A i \in open \cup lost : i # 0 /\ i <= placed + 1
        BY DEF TypeOK, Identity
    <2> HIDE DEF new
    <2>5. wire' \cap resting' = {} /\ IsFiniteSet(wire')
        BY <2>1, <2>3 DEF Identity
    <2>6. \A o \in wire' \cup resting' : o.id <= placed'
        BY <2>1, <2>2, <2>3 DEF TypeOK
    <2>7. \A o \in wire' \cup resting', p \in resting' : o.id = p.id /\ o.id # 0 => o = p
        BY <2>1, <2>3 DEF Identity
    <2>8. \A i \in open' \cup lost' : i # 0 /\ i <= placed'
        <3>1. \A i \in open \cup lost \cup {placed + 1} : i # 0 /\ i <= placed + 1
            BY <2>2, <2>4 DEF TypeOK
        <3> QED
            BY <2>1, <3>1
    <2> QED
        BY <2>5, <2>6, <2>7, <2>8 DEF Identity
<1>3. ASSUME NEW o \in wire, OnFill(o)
      PROVE  Identity'
    <2>1. IsFiniteSet(wire') /\ wire' \subseteq wire
        BY <1>3, FS_RemoveElement DEF OnFill, Identity
    <2>2. open' \subseteq open /\ lost' = lost /\ resting' = resting /\ placed' = placed
        BY <1>3 DEF OnFill
    <2> QED
        BY <2>1, <2>2 DEF Identity
<1>4. ASSUME NEW m \in Markets, Adopt(m) \/ Drop(m)
      PROVE  Identity'
    BY <1>4, FewerOrders DEF Adopt, Drop
<1>5. CASE LeaveLoop
    BY <1>5, FewerOrders DEF LeaveLoop
<1>6. CASE WindDownEnds
    BY <1>6, FewerOrders DEF WindDownEnds
<1>7. CASE StopFeed
    BY <1>7, FewerOrders DEF StopFeed, LoseWire
<1>8. CASE CancelQuotes
    BY <1>8, FewerOrders DEF CancelQuotes, CancelAllQuotes, CancelEach
<1>9. CASE SweepFetch
    BY <1>9, FewerOrders DEF SweepFetch
<1>10. CASE SweepCancel
    BY <1>10, FewerOrders DEF SweepCancel, CancelEach
<1>11. CASE FetchPositions
    BY <1>11, FewerOrders DEF FetchPositions
<1>12. ASSUME NEW p \in todo, FlattenOne(p)
      PROVE  Identity'
    BY <1>12, FewerOrders DEF FlattenOne
<1>13. CASE FlattenDone
    BY <1>13, FewerOrders DEF FlattenDone
<1>14. CASE Close
    BY <1>14, FewerOrders DEF Close
<1>15. CASE Die
    BY <1>15, FewerOrders DEF Die, Forgotten
<1>16. CASE Restart
    BY <1>16, FewerOrders DEF Restart, Forgotten
<1>17. ASSUME NEW o \in resting, ExchangeTrade(o)
      PROVE  Identity'
    <2>1. /\ resting' = resting \ {o} /\ wire' \subseteq wire \cup {o}
          /\ open' = open /\ lost' = lost /\ placed' = placed
        BY <1>17 DEF ExchangeTrade
    <2>2. IsFiniteSet(wire')
        BY <2>1, FS_AddElement, FS_Subset DEF Identity
    <2> QED
        BY <2>1, <2>2 DEF Identity
<1>18. CASE UNCHANGED vars
    BY <1>18, FewerOrders DEF vars
<1> QED
    BY <1>1, <1>2, <1>3, <1>4, <1>5, <1>6, <1>7, <1>8, <1>9, <1>10, <1>11, <1>12, <1>13, <1>14, <1>15, <1>16, <1>17, <1>18 DEF Next, Running, Guard

-----------------------------------------------------------------------------
(* Startup.                                                                *)

(* A step keeps the session's markets free of zombies.                     *)
LEMMA NoZombiesStep ==
    ASSUME TypeOK, Identity, NoZombies, [Next]_vars
    PROVE  NoZombies'
<1> USE DEF main, session, feed, history, exchange
<1>1. CASE CancelPreexisting
    BY <1>1 DEF CancelPreexisting, CancelEach, NoZombies, StartScope, Of
<1>2. ASSUME NEW m \in Markets, NEW d \in {-1, 1}, Place(m, d)
      PROVE  NoZombies'
    BY <1>2 DEF Place, NoZombies, StartScope, Of
<1>3. ASSUME NEW o \in wire, OnFill(o)
      PROVE  NoZombies'
    <2> SUFFICES ASSUME pc = "trading", swept, NEW p \in Of(StartScope)
                 PROVE  p.id \in open' \cup lost'
        BY <1>3 DEF OnFill, NoZombies, StartScope, Of
    <2>1. p.id \in open \cup lost /\ p.id # 0 /\ p \in resting
        BY DEF NoZombies, Identity, Of
    <2>2. o.id # p.id
        BY <2>1, <1>3 DEF OnFill, Identity
    <2> QED
        BY <1>3, <2>1, <2>2 DEF OnFill
<1>4. ASSUME NEW m \in Markets, Adopt(m) \/ Drop(m)
      PROVE  NoZombies'
    <2>1. UNCHANGED <<pc, swept, resting, open, lost, wide>>
        BY <1>4 DEF Adopt, Drop
    <2> QED
        BY <2>1 DEF NoZombies, StartScope, Of
<1>5. CASE LeaveLoop
    BY <1>5 DEF LeaveLoop, NoZombies
<1>6. CASE WindDownEnds
    BY <1>6 DEF WindDownEnds, NoZombies
<1>7. CASE StopFeed
    BY <1>7 DEF StopFeed, NoZombies
<1>8. CASE CancelQuotes
    BY <1>8 DEF CancelQuotes, NoZombies
<1>9. CASE SweepFetch
    BY <1>9 DEF SweepFetch, NoZombies, Answered, AfterSweeps
<1>10. CASE SweepCancel
    BY <1>10 DEF SweepCancel, NoZombies, Answered, AfterSweeps
<1>11. CASE FetchPositions
    BY <1>11 DEF FetchPositions, NoZombies
<1>12. ASSUME NEW p \in todo, FlattenOne(p)
      PROVE  NoZombies'
    BY <1>12 DEF FlattenOne, NoZombies
<1>13. CASE FlattenDone
    BY <1>13 DEF FlattenDone, NoZombies
<1>14. CASE Close
    BY <1>14 DEF Close, NoZombies
<1>15. CASE Die
    BY <1>15 DEF Die, NoZombies
<1>16. CASE Restart
    BY <1>16 DEF Restart, NoZombies
<1>17. ASSUME NEW o \in resting, ExchangeTrade(o)
      PROVE  NoZombies'
    BY <1>17 DEF ExchangeTrade, NoZombies, StartScope, Of
<1>18. CASE UNCHANGED vars
    BY <1>18 DEF vars, NoZombies, StartScope, Of
<1> QED
    BY <1>1, <1>2, <1>3, <1>4, <1>5, <1>6, <1>7, <1>8, <1>9, <1>10, <1>11, <1>12, <1>13, <1>14, <1>15, <1>16, <1>17, <1>18 DEF Next, Running, Guard

-----------------------------------------------------------------------------
(* Sweeping.                                                               *)

(* Cancels and trades leave fewer orders in the markets of the shutdown.   *)
LEMMA FewerInScope ==
    ASSUME resting' \subseteq resting, tracked' = tracked, wide' = wide
    PROVE  Of(ExitScope)' \subseteq Of(ExitScope)
    BY DEF Of, ExitScope

(* A step keeps what the guard has swept empty.                            *)
LEMMA SweepingStep ==
    ASSUME TypeOK, Sweeping, [Next]_vars
    PROVE  Sweeping'
<1> USE DEF main, session, feed, history, exchange
<1>1. CASE CancelPreexisting
    BY <1>1 DEF CancelPreexisting, Sweeping, GuardSteps
<1>2. ASSUME NEW m \in Markets, NEW d \in {-1, 1}, Place(m, d)
      PROVE  Sweeping'
    BY <1>2 DEF Place, Sweeping, GuardSteps
<1>3. ASSUME NEW o \in wire, OnFill(o)
      PROVE  Sweeping'
    BY <1>3 DEF OnFill, Sweeping, GuardSteps
<1>4. ASSUME NEW m \in Markets, Adopt(m) \/ Drop(m)
      PROVE  Sweeping'
    BY <1>4 DEF Adopt, Drop, Sweeping, GuardSteps
<1>5. CASE LeaveLoop
    BY <1>5 DEF LeaveLoop, Sweeping, GuardSteps
<1>6. CASE WindDownEnds
    BY <1>6 DEF WindDownEnds, Sweeping, GuardSteps
<1>7. CASE StopFeed
    BY <1>7 DEF StopFeed, Sweeping, GuardSteps
<1>8. CASE CancelQuotes
    BY <1>8, FewerInScope DEF CancelQuotes, Sweeping, GuardSteps, CancelAllQuotes, CancelEach
<1>9. CASE SweepFetch
    <2>1. Of(ExitScope)' = Of(ExitScope)
        BY <1>9 DEF SweepFetch, Of, ExitScope
    <2>2. CASE Answered(attempt + 1)
        <3>1. PICK page \in Pages :
                    IF page \cap Of(ExitScope) = {}
                      THEN /\ pc' = "positions"
                           /\ swept' = (swept \/ page = resting)
                      ELSE /\ pc' = "sweepCancel"
                           /\ found' = [orders |-> page \cap Of(ExitScope),
                                        whole |-> page = resting]
                           /\ UNCHANGED swept
            BY <2>2 DEF Answered
        <3>2. page = resting => page \cap Of(ExitScope) = Of(ExitScope)
            BY DEF Of
        <3>3. swept => Of(ExitScope) = {}
            BY <1>9 DEF SweepFetch, Sweeping, GuardSteps
        <3>4. CASE page \cap Of(ExitScope) = {}
            BY <2>1, <3>1, <3>2, <3>3, <3>4 DEF Sweeping
        <3>5. CASE page \cap Of(ExitScope) # {}
            <4>1. found'.orders = page \cap Of(ExitScope) /\ found'.whole = (page = resting)
                BY <3>1, <3>5
            <4> QED
                BY <2>1, <3>1, <3>2, <3>3, <3>5, <4>1 DEF Sweeping
        <3> QED
            BY <3>4, <3>5
    <2>3. CASE AfterSweeps(attempt + 1) /\ UNCHANGED <<found, swept>>
        BY <1>9, <2>1, <2>3 DEF SweepFetch, AfterSweeps, Sweeping, GuardSteps
    <2> QED
        BY <1>9, <2>2, <2>3 DEF SweepFetch
<1>10. CASE SweepCancel
    <2>1. PICK C \in SUBSET (found.orders \cap resting) :
                    /\ resting' = resting \ C
                    /\ swept' = (swept \/ (found.whole /\ C = found.orders \cap resting))
        BY <1>10 DEF SweepCancel, CancelEach
    <2>2. Of(ExitScope)' = Of(ExitScope) \ C
        BY <1>10, <2>1 DEF SweepCancel, CancelEach, Of, ExitScope
    <2>3. found.whole => Of(ExitScope) \subseteq found.orders \cap resting
        BY <1>10 DEF SweepCancel, Sweeping, Of
    <2>4. swept' => Of(ExitScope)' = {}
        BY <1>10, <2>1, <2>2, <2>3 DEF SweepCancel, Sweeping, GuardSteps
    <2>5. pc' # "sweepCancel"
        BY <1>10 DEF SweepCancel, AfterSweeps
    <2> QED
        BY <2>4, <2>5 DEF Sweeping
<1>11. CASE FetchPositions
    BY <1>11, FewerInScope DEF FetchPositions, Sweeping, GuardSteps
<1>12. ASSUME NEW p \in todo, FlattenOne(p)
      PROVE  Sweeping'
    BY <1>12, FewerInScope DEF FlattenOne, Sweeping, GuardSteps
<1>13. CASE FlattenDone
    BY <1>13, FewerInScope DEF FlattenDone, Sweeping, GuardSteps
<1>14. CASE Close
    BY <1>14, FewerInScope DEF Close, Sweeping, GuardSteps
<1>15. CASE Die
    BY <1>15 DEF Die, Sweeping, GuardSteps
<1>16. CASE Restart
    BY <1>16 DEF Restart, Sweeping, GuardSteps
<1>17. ASSUME NEW o \in resting, ExchangeTrade(o)
      PROVE  Sweeping'
    BY <1>17, FewerInScope DEF ExchangeTrade, Sweeping, GuardSteps
<1>18. CASE UNCHANGED vars
    BY <1>18, FewerInScope DEF vars, Sweeping
<1> QED
    BY <1>1, <1>2, <1>3, <1>4, <1>5, <1>6, <1>7, <1>8, <1>9, <1>10, <1>11, <1>12, <1>13, <1>14, <1>15, <1>16, <1>17, <1>18 DEF Next, Running, Guard

-----------------------------------------------------------------------------
(* Flattening.                                                             *)

(* Nothing about the flatten changes when its variables do not.            *)
LEMMA FlatteningKept ==
    ASSUME Flattening, UNCHANGED <<pc, todo, wide, tracked, position, unfilled, swept>>
    PROVE  Flattening'
    BY DEF Flattening, ExitScope

(* A step keeps the account of the flatten.                                *)
LEMMA FlatteningStep ==
    ASSUME TypeOK, Sweeping, Flattening, [Next]_vars
    PROVE  Flattening'
<1> USE DEF main, session, feed, history, exchange
<1>1. CASE CancelPreexisting
    BY <1>1 DEF CancelPreexisting, Flattening
<1>2. ASSUME NEW m \in Markets, NEW d \in {-1, 1}, Place(m, d)
      PROVE  Flattening'
    BY <1>2, FlatteningKept DEF Place
<1>3. ASSUME NEW o \in wire, OnFill(o)
      PROVE  Flattening'
    BY <1>3, FlatteningKept DEF OnFill
<1>4. ASSUME NEW m \in Markets, Adopt(m) \/ Drop(m)
      PROVE  Flattening'
    BY <1>4 DEF Adopt, Drop, Flattening
<1>5. CASE LeaveLoop
    BY <1>5 DEF LeaveLoop, Flattening
<1>6. CASE WindDownEnds
    BY <1>6 DEF WindDownEnds, Flattening
<1>7. CASE StopFeed
    BY <1>7 DEF StopFeed, Flattening
<1>8. CASE CancelQuotes
    BY <1>8 DEF CancelQuotes, Flattening
<1>9. CASE SweepFetch
    BY <1>9 DEF SweepFetch, Flattening, Answered, AfterSweeps
<1>10. CASE SweepCancel
    BY <1>10 DEF SweepCancel, Flattening, Answered, AfterSweeps
<1>11. CASE FetchPositions
    <2>1. CASE /\ todo' = {[mkt |-> m, size |-> position[m]] : m \in OpenPositions}
               /\ pc' = "flatten" /\ UNCHANGED unfilled
        <3>1. ExitScope' = ExitScope /\ position' = position
            BY <1>11 DEF FetchPositions, ExitScope
        <3>2. \A p \in todo' : p.mkt \in ExitScope /\ position[p.mkt] = p.size
            BY <2>1 DEF OpenPositions
        <3>3. \A p, q \in todo' : p.mkt = q.mkt => p = q
            BY <2>1
        <3>4. \A m \in ExitScope : position[m] # 0 => \E p \in todo' : p.mkt = m
            <4> SUFFICES ASSUME NEW m \in ExitScope, position[m] # 0
                         PROVE  \E p \in todo' : p.mkt = m
                OBVIOUS
            <4>1. [mkt |-> m, size |-> position[m]] \in todo'
                BY <2>1 DEF OpenPositions
            <4> QED
                BY <4>1
        <3> QED
            BY <2>1, <3>1, <3>2, <3>3, <3>4 DEF Flattening
    <2>2. CASE unfilled' = TRUE /\ pc' = "close" /\ UNCHANGED todo
        BY <2>2 DEF Flattening
    <2> QED
        BY <1>11, <2>1, <2>2 DEF FetchPositions
<1>12. ASSUME NEW p \in todo, FlattenOne(p)
      PROVE  Flattening'
    <2>1. PICK k \in Fillable(p.size) :
                /\ position' = [position EXCEPT ![p.mkt] = @ + k]
                /\ unfilled' = (unfilled \/ k # -p.size)
        BY <1>12 DEF FlattenOne
    <2>2. /\ p.mkt \in Markets /\ p.size \in Int /\ k \in Int
          /\ todo' = todo \ {p} /\ pc' = "flatten" /\ pc = "flatten" /\ swept' = swept
          /\ ExitScope' = ExitScope
        BY <1>12 DEF FlattenOne, TypeOK, Fillable, ExitScope
    <2>3. \A q \in todo' : q.mkt # p.mkt
        BY <2>2, <1>12 DEF Flattening, FlattenOne
    <2>4. \A m \in Markets : m # p.mkt => position'[m] = position[m]
        BY <2>1, <2>2 DEF TypeOK
    <2>5. ASSUME swept
          PROVE  \A q \in todo' : q.mkt \in ExitScope /\ position'[q.mkt] = q.size
        BY <2>2, <2>3, <2>4, <2>5 DEF Flattening, TypeOK
    <2>6. ASSUME swept, ~unfilled', NEW m \in ExitScope, position'[m] # 0
          PROVE  \E q \in todo' : q.mkt = m
        <3>1. ~unfilled /\ k = -p.size
            BY <2>1, <2>6
        <3>2. position[p.mkt] = p.size
            BY <1>12, <2>2, <2>6 DEF Flattening
        <3>3. position'[p.mkt] = 0
            BY <2>1, <2>2, <3>1, <3>2 DEF TypeOK
        <3>4. m # p.mkt /\ m \in Markets
            BY <2>6, <3>3 DEF ExitScope, TypeOK
        <3>5. PICK q \in todo : q.mkt = m
            BY <2>2, <2>4, <2>6, <3>1, <3>4 DEF Flattening
        <3> QED
            BY <2>2, <3>4, <3>5
    <2>7. \A q, r \in todo' : q.mkt = r.mkt => q = r
        BY <2>2 DEF Flattening
    <2> QED
        BY <2>2, <2>5, <2>6, <2>7 DEF Flattening
<1>13. CASE FlattenDone
    BY <1>13 DEF FlattenDone, Flattening, ExitScope
<1>14. CASE Close
    BY <1>14 DEF Close, Flattening, ExitScope
<1>15. CASE Die
    BY <1>15 DEF Die, Flattening, Forgotten
<1>16. CASE Restart
    BY <1>16 DEF Restart, Flattening, Forgotten
<1>17. ASSUME NEW o \in resting, ExchangeTrade(o)
      PROVE  Flattening'
    <2>1. /\ ExitScope' = ExitScope /\ UNCHANGED <<pc, todo, swept, unfilled>>
          /\ position' = [position EXCEPT ![o.mkt] = @ + o.d]
        BY <1>17 DEF ExchangeTrade, ExitScope
    <2>2. CASE pc \in {"flatten", "close", "ended"} /\ swept
        <3>1. o.mkt \notin ExitScope
            BY <1>17, <2>2 DEF ExchangeTrade, Sweeping, GuardSteps, Of
        <3>2. \A m \in ExitScope : position'[m] = position[m]
            BY <2>1, <3>1 DEF TypeOK, ExitScope
        <3> QED
            BY <2>1, <2>2, <3>2 DEF Flattening
    <2>3. CASE ~(pc \in {"flatten", "close", "ended"} /\ swept)
        BY <2>1, <2>3 DEF Flattening
    <2> QED
        BY <2>2, <2>3
<1>18. CASE UNCHANGED vars
    BY <1>18, FlatteningKept DEF vars
<1> QED
    BY <1>1, <1>2, <1>3, <1>4, <1>5, <1>6, <1>7, <1>8, <1>9, <1>10, <1>11, <1>12, <1>13, <1>14, <1>15, <1>16, <1>17, <1>18 DEF Next, Running, Guard

-----------------------------------------------------------------------------
(* The ledger.                                                             *)

(* The account stands when none of its terms changes.                      *)
LEMMA LedgerKept ==
    ASSUME LedgerExplained, UNCHANGED <<position, start, net, missed, wire>>
    PROVE  LedgerExplained'
    BY DEF LedgerExplained

(* A new process starts a new account.                                     *)
LEMMA LedgerRestarts ==
    ASSUME TypeOK, Forgotten, position' = position
    PROVE  LedgerExplained'
    BY MovedNone DEF Forgotten, Flat, TypeOK, LedgerExplained

(* A step keeps the account of every position.                             *)
LEMMA LedgerStep ==
    ASSUME TypeOK, Identity, LedgerExplained, [Next]_vars
    PROVE  LedgerExplained'
<1> USE DEF main, session, feed, history, exchange
<1>1. CASE CancelPreexisting
    BY <1>1, LedgerKept DEF CancelPreexisting, CancelEach
<1>2. ASSUME NEW m \in Markets, NEW d \in {-1, 1}, Place(m, d)
      PROVE  LedgerExplained'
    BY <1>2, LedgerKept DEF Place
<1>3. ASSUME NEW o \in wire, OnFill(o)
      PROVE  LedgerExplained'
    <2> SUFFICES ASSUME NEW m \in Markets
                 PROVE  position'[m] - start'[m]
                          = net'[m] + missed'[m] + Moved(wire', m)
        BY DEF LedgerExplained
    <2> DEFINE k == IF o.mkt = m THEN o.d ELSE 0
    <2>1. /\ o.mkt \in Markets /\ o.d \in Int
          /\ position' = position /\ start' = start /\ wire' = wire \ {o}
        BY <1>3 DEF OnFill, TypeOK, Order
    <2>2. Moved(wire', m) = Moved(wire, m) - k
        BY <1>3, <2>1, MovedRemove DEF TypeOK, Identity
    <2>3. Moved(wire, m) \in Int
        BY MovedInt DEF TypeOK, Identity
    <2>4. net'[m] + missed'[m] = net[m] + missed[m] + k
        <3>1. CASE o.mkt \in tracked
            BY <1>3, <2>1, <3>1 DEF OnFill, TypeOK
        <3>2. CASE o.mkt \notin tracked
            BY <1>3, <2>1, <3>2 DEF OnFill, TypeOK
        <3> QED
            BY <3>1, <3>2
    <2>5. position[m] - start[m] = net[m] + missed[m] + Moved(wire, m)
        BY DEF LedgerExplained
    <2>6. /\ net[m] \in Int /\ missed[m] \in Int
          /\ k \in Int
        BY <2>1 DEF TypeOK
    <2> HIDE DEF k
    <2>7. net'[m] + missed'[m] + Moved(wire', m) = net[m] + missed[m] + Moved(wire, m)
        BY <2>2, <2>3, <2>4, <2>6
    <2> QED
        BY <2>1, <2>5, <2>7
<1>4. ASSUME NEW m \in Markets, Adopt(m) \/ Drop(m)
      PROVE  LedgerExplained'
    BY <1>4, LedgerKept DEF Adopt, Drop
<1>5. CASE LeaveLoop
    BY <1>5, LedgerKept DEF LeaveLoop
<1>6. CASE WindDownEnds
    BY <1>6, LedgerKept DEF WindDownEnds
<1>7. CASE StopFeed
    <2>1. /\ position' = position /\ start' = start /\ net' = net /\ wire' = {}
          /\ missed' = [m \in Markets |-> missed[m] + Moved(wire, m)]
        BY <1>7 DEF StopFeed, LoseWire
    <2>2. \A m \in Markets : Moved(wire, m) \in Int /\ Moved(wire', m) = 0
        BY <2>1, MovedInt, MovedNone DEF TypeOK, Identity
    <2> QED
        BY <2>1, <2>2 DEF LedgerExplained, TypeOK
<1>8. CASE CancelQuotes
    BY <1>8, LedgerKept DEF CancelQuotes, CancelAllQuotes, CancelEach
<1>9. CASE SweepFetch
    BY <1>9, LedgerKept DEF SweepFetch
<1>10. CASE SweepCancel
    BY <1>10, LedgerKept DEF SweepCancel, CancelEach
<1>11. CASE FetchPositions
    BY <1>11, LedgerKept DEF FetchPositions
<1>12. ASSUME NEW p \in todo, FlattenOne(p)
      PROVE  LedgerExplained'
    <2>1. PICK k \in Fillable(p.size), answered \in BOOLEAN :
                /\ position' = [position EXCEPT ![p.mkt] = @ + k]
                /\ IF answered
                     THEN RecordFlatten(p.mkt, -p.size, k) /\ UNCHANGED missed
                     ELSE /\ missed' = [missed EXCEPT ![p.mkt] = @ + k]
                          /\ UNCHANGED net
        BY <1>12 DEF FlattenOne
    <2>2. k \in Int /\ p.mkt \in Markets /\ start' = start /\ wire' = wire
        BY <1>12 DEF FlattenOne, Fillable, TypeOK
    <2> SUFFICES ASSUME NEW m \in Markets
                 PROVE  position'[m] - start'[m]
                          = net'[m] + missed'[m] + Moved(wire', m)
        BY DEF LedgerExplained
    <2>3. Moved(wire, m) \in Int
        BY MovedInt DEF TypeOK, Identity
    <2>4. position[m] - start[m] = net[m] + missed[m] + Moved(wire, m)
        BY DEF LedgerExplained
    <2>5. position'[m] = position[m] + (IF p.mkt = m THEN k ELSE 0)
        BY <2>1, <2>2 DEF TypeOK
    <2>6. net'[m] + missed'[m] = net[m] + missed[m] + (IF p.mkt = m THEN k ELSE 0)
        <3>1. CASE answered
            BY <2>1, <2>2, <3>1 DEF RecordFlatten, TypeOK
        <3>2. CASE ~answered
            BY <2>1, <2>2, <3>2 DEF TypeOK
        <3> QED
            BY <3>1, <3>2
    <2>7. /\ net[m] \in Int /\ missed[m] \in Int /\ position[m] \in Int
          /\ start[m] \in Int /\ (IF p.mkt = m THEN k ELSE 0) \in Int
        BY <2>2 DEF TypeOK
    <2> QED
        BY <2>2, <2>3, <2>4, <2>5, <2>6, <2>7
<1>13. CASE FlattenDone
    BY <1>13, LedgerKept DEF FlattenDone
<1>14. CASE Close
    BY <1>14, LedgerKept DEF Close
<1>15. CASE Die
    BY <1>15, LedgerRestarts DEF Die
<1>16. CASE Restart
    BY <1>16, LedgerRestarts DEF Restart
<1>17. ASSUME NEW o \in resting, ExchangeTrade(o)
      PROVE  LedgerExplained'
    <2> SUFFICES ASSUME NEW m \in Markets
                 PROVE  position'[m] - start'[m]
                          = net'[m] + missed'[m] + Moved(wire', m)
        BY DEF LedgerExplained
    <2> DEFINE k == IF o.mkt = m THEN o.d ELSE 0
    <2>1. /\ o \in Order /\ o.mkt \in Markets /\ o.d \in Int /\ o \notin wire
          /\ start' = start /\ net' = net
          /\ position' = [position EXCEPT ![o.mkt] = @ + o.d]
        BY <1>17 DEF ExchangeTrade, TypeOK, Identity, Order
    <2>2. Moved(wire, m) \in Int
        BY MovedInt DEF TypeOK, Identity
    <2>3. position[m] - start[m] = net[m] + missed[m] + Moved(wire, m)
        BY DEF LedgerExplained
    <2>4. position'[m] = position[m] + k
        BY <2>1 DEF TypeOK
    <2>5. /\ net[m] \in Int /\ missed[m] \in Int /\ position[m] \in Int
          /\ start[m] \in Int /\ k \in Int
        BY <2>1 DEF TypeOK
    <2>6. net[m] + missed'[m] + Moved(wire', m)
            = net[m] + missed[m] + Moved(wire, m) + k
        <3>1. CASE wire' = wire \cup {o} /\ missed' = missed
            <4>1. Moved(wire', m) = Moved(wire, m) + k
                BY <2>1, <3>1, MovedAdd DEF TypeOK, Identity
            <4> HIDE DEF k
            <4> QED
                BY <2>2, <2>5, <3>1, <4>1
        <3>2. CASE wire' = wire /\ missed' = [missed EXCEPT ![o.mkt] = @ + o.d]
            <4>1. missed'[m] = missed[m] + k
                BY <2>1, <3>2 DEF TypeOK
            <4> HIDE DEF k
            <4> QED
                BY <2>2, <2>5, <3>2, <4>1
        <3> QED
            BY <1>17, <3>1, <3>2 DEF ExchangeTrade
    <2> HIDE DEF k
    <2> QED
        BY <2>1, <2>2, <2>3, <2>4, <2>5, <2>6
<1>18. CASE UNCHANGED vars
    BY <1>18, LedgerKept DEF vars
<1> QED
    BY <1>1, <1>2, <1>3, <1>4, <1>5, <1>6, <1>7, <1>8, <1>9, <1>10, <1>11, <1>12, <1>13, <1>14, <1>15, <1>16, <1>17, <1>18 DEF Next, Running, Guard

-----------------------------------------------------------------------------
(* The theorems.                                                           *)

(* The invariant holds at the start.                                       *)
LEMMA InitInv ==
    ASSUME Init
    PROVE  Inv
<1>1. TypeOK
    BY InitType
<1>2. Identity
    BY FS_EmptySet DEF Init, Identity
<1>3. NoZombies /\ Sweeping /\ Flattening
    BY DEF Init, NoZombies, Sweeping, Flattening, GuardSteps
<1>4. LedgerExplained
    <2>1. \A m \in Markets : Moved(wire, m) = 0
        BY MovedNone DEF Init
    <2> QED
        BY <1>1, <2>1 DEF Init, Flat, LedgerExplained, TypeOK
<1> QED
    BY <1>1, <1>2, <1>3, <1>4 DEF Inv

(* The invariant is inductive.                                             *)
LEMMA NextInv ==
    ASSUME Inv, [Next]_vars
    PROVE  Inv'
    BY TypeStep, IdentityStep, NoZombiesStep, SweepingStep, FlatteningStep, LedgerStep
    DEF Inv

(* The inductive invariant holds in every reachable state, whatever the    *)
(* markets, the number of sweeps, of orders and of restarts.               *)
THEOREM Invariance == Spec => []Inv
<1>1. Init => Inv
    BY InitInv
<1>2. Inv /\ [Next]_vars => Inv'
    BY NextInv
<1> QED
    BY <1>1, <1>2, PTL DEF Spec

(* cancel_preexisting_orders: a session whose startup calls all succeeded  *)
(* never has another's order in the markets it cleans up.                  *)
THEOREM NoZombiesHolds == Spec => []NoZombies
<1>1. Inv => NoZombies
    BY DEF Inv
<1> QED
    BY <1>1, Invariance, PTL

(* The shutdown guard: one good sweep leaves no order behind, up to and    *)
(* after the end of the process.                                           *)
THEOREM NoOrderSurvivesHolds == Spec => []NoOrderSurvives
<1>1. Inv => NoOrderSurvives
    BY DEF Inv, Sweeping, NoOrderSurvives, GuardSteps
<1> QED
    BY <1>1, Invariance, PTL

(* flatten_all_positions: a good sweep and a flatten that filled end flat, *)
(* whatever traded while the guard ran.                                    *)
THEOREM EndsFlatHolds == Spec => []EndsFlat
<1>1. Inv => EndsFlat
    BY DEF Inv, Flattening, EndsFlat
<1> QED
    BY <1>1, Invariance, PTL

(* record_fill and record_flatten: the session's position and the fills it *)
(* could not see explain every position of the exchange.                   *)
THEOREM LedgerExplainedHolds == Spec => []LedgerExplained
<1>1. Inv => LedgerExplained
    BY DEF Inv
<1> QED
    BY <1>1, Invariance, PTL
=============================================================================
