-------------------------- MODULE SessionLifecycle --------------------------
(***************************************************************************)
(* A process from startup to exit, and the next one after it: the cancel   *)
(* of pre-existing orders, trading, the shutdown guard with its verified   *)
(* sweeps and the flatten, the panic handler of a crash, and the restart   *)
(* (app/main.cpp, app/app_modes.cpp, core/ensure.cpp,                      *)
(* engine/trading_session.cpp).                                            *)
(*                                                                         *)
(* The exchange goes on trading our resting orders between any two REST    *)
(* calls, every call may fail, and the feed that reports the trades is     *)
(* gone from the moment the guard has joined its thread.  How a quote is   *)
(* chosen is the subject of QuoteLifecycle: here trading places orders.    *)
(* Orders are of one contract.                                             *)
(***************************************************************************)
EXTENDS Integers, FiniteSets, Functions

CONSTANTS
    Markets,        \* all markets of the account
    Targets,        \* target_tickers of the configuration
    Leftovers,      \* markets with an order and a contract from before
    Attempts,       \* kShutdownAttempts
    PageSize,       \* orders one answer of get_open_orders holds at most
    MaxOrders,      \* bound: orders placed in a behaviour
    MaxRestarts     \* bound: restarts in a behaviour

ASSUME MarketsAssumption == 
    /\ IsFiniteSet(Markets)
    /\ Targets \subseteq Markets /\ Leftovers \subseteq Markets
ASSUME BoundsAssumption ==
    {Attempts, PageSize, MaxOrders, MaxRestarts} \subseteq Nat /\ Attempts > 0

VARIABLES
    wide,       \* account_wide_janitorial
    pc,         \* where the main thread is
    attempt,    \* sweeps begun by the shutdown guard, 0 when it is not sweeping
    found,      \* the last sweep's get_open_orders: [orders, whole], those of
                \* its scope, and (history) that the page held all that rests
    todo,       \* positions of the last get_positions still to flatten
    tracked,    \* tickers_
    open,       \* open_orders_: ids
    net,        \* net_position_
    wire,       \* pushed fills the session has not recorded: orders
    missed,     \* what fills the session will never see moved each position
    swept,      \* a sweep of this startup or shutdown was good: its page held
                \* all that rested and its calls succeeded
    unfilled,   \* a flatten of this shutdown failed or did not fill
    lost,       \* orders of this session whose placement lost its answer
    resting,    \* the exchange's live orders: records [id, mkt, d]
    position,   \* the exchange's positions
    start,      \* the exchange's positions when the session began
    placed,     \* orders placed so far
    restarts    \* processes started so far, less one

main     == <<wide, pc, attempt, found, todo>>
session  == <<tracked, open, net>>
feed     == <<wire, missed>>
history  == <<swept, unfilled, lost, start, restarts>>
exchange == <<resting, position, placed>>
vars == <<main, session, feed, history, exchange>>

Flat == [m \in Markets |-> 0]
Ids(orders) == {o.id : o \in orders}
Of(S) == {o \in resting : o.mkt \in S}

(* The markets the janitorial work of the process is about.                *)
StartScope == IF wide THEN Markets ELSE Targets
ExitScope  == IF wide THEN Markets ELSE tracked

(* What get_open_orders may return: it reads one page and no cursor.       *)
Pages == IF Cardinality(resting) <= PageSize THEN {resting}
         ELSE {P \in SUBSET resting : Cardinality(P) = PageSize}

Nothing == [orders |-> {}, whole |-> FALSE]

(* The steps of the shutdown guard, in order.                              *)
GuardSteps == {"stop", "cancel", "sweep", "sweepCancel", "positions",
               "flatten", "close"}
Alive == pc \notin {"ended", "crashed"}

-----------------------------------------------------------------------------
(* REST calls shared by several handlers.                                  *)

(* A best-effort loop of cancels that got through for the orders of C:     *)
(* they leave the exchange and, if they were there, open_orders_.          *)
CancelEach(C) ==
    /\ resting' = resting \ C
    /\ open' = open \ Ids(C)
    /\ UNCHANGED <<position, placed, tracked, net>>

(* cancel_all_quotes: the session's own orders in its tracked markets.     *)
Quotes == {o \in Of(tracked) : o.id \in open}
CancelAllQuotes == \E C \in SUBSET Quotes : CancelEach(C)

-----------------------------------------------------------------------------
(* Startup and trading.                                                    *)

(* Mutant: only the configured markets are cleaned up, in either mode.     *)
MutCancelPreexisting ==
    /\ pc = "startup"
    /\ pc' = "trading"
    /\ \E page \in Pages : \E C \in SUBSET (page \cap Of(Targets)) :
        /\ CancelEach(C)
        /\ swept' = (page = resting /\ C = Of(Targets))
    /\ UNCHANGED <<wide, attempt, found, todo, feed, unfilled, lost, start,
                   restarts>>

(* Orders an earlier process left behind are cancelled; a failure is       *)
(* logged and the session begins all the same.                             *)
CancelPreexisting ==
    /\ pc = "startup"
    /\ pc' = "trading"
    /\ \E page \in Pages : \E C \in SUBSET (page \cap Of(StartScope)) :
        /\ CancelEach(C)
        /\ swept' = (page = resting /\ C = Of(StartScope))
    /\ UNCHANGED <<wide, attempt, found, todo, feed, unfilled,
                   lost, start, restarts>>

(* A quote is placed, by the feed's callbacks or the main loop, in the     *)
(* wind-down only to reduce a position; its answer may be lost.            *)
Place(m, d) ==
    /\ pc \in {"trading", "winddown"}
    /\ m \in tracked
    /\ pc = "winddown" => net[m] * d < 0
    /\ placed < MaxOrders
    /\ placed' = placed + 1
    /\ resting' = resting \cup {[id |-> placed', mkt |-> m, d |-> d]}
    /\ \/ open' = open \cup {placed'} /\ UNCHANGED lost
       \/ lost' = lost \cup {placed'} /\ UNCHANGED open
    /\ UNCHANGED <<main, tracked, net, feed, swept, unfilled, start,
                   restarts, position>>

OnFill(o) ==
    /\ pc \in {"trading", "winddown", "stop"}
    /\ o \in wire
    /\ wire' = wire \ {o}
    /\ IF o.mkt \in tracked
         THEN /\ net' = [net EXCEPT ![o.mkt] = @ + o.d]
              /\ open' = open \ {o.id}
              /\ UNCHANGED missed
         ELSE /\ missed' = [missed EXCEPT ![o.mkt] = @ + o.d]
              /\ UNCHANGED <<net, open>>
    /\ UNCHANGED <<main, tracked, history, exchange>>

(* Rotation (MarketRotation) adopts a market, and drops one that looks     *)
(* idle: an order whose placement lost its answer, or a fill still on its  *)
(* way for one that left open_orders_, does not keep it.                   *)
Adopt(m) ==
    /\ pc = "trading"
    /\ m \notin tracked
    /\ tracked' = tracked \cup {m}
    /\ UNCHANGED <<main, open, net, feed, history, exchange>>

Drop(m) ==
    /\ pc = "trading"
    /\ m \in tracked
    /\ net[m] = 0
    /\ \A o \in resting \cup wire : o.mkt = m => o.id \notin open
    /\ tracked' = tracked \ {m}
    /\ UNCHANGED <<main, open, net, feed, history, exchange>>

(* The main loop ends: with a wind-down, or straight into the guard when   *)
(* there is none or an exception unwinds the stack.                        *)
LeaveLoop ==
    /\ pc = "trading"
    /\ pc' \in {"winddown", "stop"}
    /\ UNCHANGED <<wide, attempt, found, todo, session, feed,
                   history, exchange>>

(* The wind-down ends when all is flat or its time is up.                  *)
WindDownEnds ==
    /\ pc = "winddown"
    /\ pc' = "stop"
    /\ UNCHANGED <<wide, attempt, found, todo, session, feed,
                   history, exchange>>

-----------------------------------------------------------------------------
(* The shutdown guard.                                                     *)

Moved(orders, m) ==
    SumFunctionOnSet([o \in orders |-> o.d], {o \in orders : o.mkt = m})

(* Fills that have not been recorded when the feed is stopped never will.  *)
LoseWire ==
    /\ wire' = {}
    /\ missed' = [m \in Markets |-> missed[m] + Moved(wire, m)]

StopFeed ==
    /\ pc = "stop"
    /\ pc' = "cancel"
    /\ LoseWire
    /\ attempt' = 0 /\ swept' = FALSE /\ unfilled' = FALSE
    /\ UNCHANGED <<wide, found, todo, session, lost, start,
                   restarts, exchange>>

CancelQuotes ==
    /\ pc = "cancel"
    /\ pc' = "sweep"
    /\ CancelAllQuotes
    /\ UNCHANGED <<wide, attempt, found, todo, feed, history>>

(* After n sweeps the loop goes on or is over.                             *)
AfterSweeps(n) == IF n < Attempts THEN pc' = "sweep" /\ attempt' = n
                  ELSE pc' = "positions" /\ attempt' = 0

(* An answer of get_open_orders: none of the scope in it ends the sweeps.  *)
Answered(n) ==
    \E page \in Pages :
        IF page \cap Of(ExitScope) = {}
          THEN /\ pc' = "positions" /\ attempt' = 0
               /\ swept' = (swept \/ page = resting)
               /\ UNCHANGED found
          ELSE /\ pc' = "sweepCancel" /\ attempt' = n
               /\ found' = [orders |-> page \cap Of(ExitScope), whole |-> page = resting]
               /\ UNCHANGED swept

(* Mutant: only a fetch that failed counts as an attempt.                  *)
MutUncounted ==
    /\ pc = "sweep"
    /\ \/ Answered(attempt)
       \/ AfterSweeps(attempt + 1) /\ UNCHANGED <<found, swept>>
    /\ UNCHANGED <<wide, todo, session, feed, unfilled, lost, start, restarts,
                   exchange>>

(* Ask the exchange what still rests; a failure uses up the attempt.       *)
SweepFetch ==
    /\ pc = "sweep"
    /\ \/ Answered(attempt + 1)
       \/ AfterSweeps(attempt + 1) /\ UNCHANGED <<found, swept>>
    /\ UNCHANGED <<wide, todo, session, feed, unfilled, lost,
                   start, restarts, exchange>>

(* Mutant: only orders the session knows are cancelled.                    *)
MutSweepCancel ==
    /\ pc = "sweepCancel"
    /\ AfterSweeps(attempt)
    /\ LET known == {o \in found.orders \cap resting : o.id \in open}
       IN \E C \in SUBSET known :
            /\ CancelEach(C)
            /\ swept' = (swept \/ (found.whole /\ C = known))
    /\ found' = Nothing
    /\ UNCHANGED <<wide, todo, feed, unfilled, lost, start, restarts>>

(* Cancel what was found, known to the session or not.                     *)
SweepCancel ==
    /\ pc = "sweepCancel"
    /\ AfterSweeps(attempt)
    /\ \E C \in SUBSET (found.orders \cap resting) :
        /\ CancelEach(C)
        /\ swept' = (swept \/ (found.whole /\ C = found.orders \cap resting))
    /\ found' = Nothing
    /\ UNCHANGED <<wide, todo, feed, unfilled, lost, start, restarts>>

(* Mutant: only long positions are closed.                                 *)
MutLongPositions == {m \in ExitScope : position[m] > 0}

(* The positions that flatten_all_positions goes on to close.              *)
OpenPositions == {m \in ExitScope : position[m] # 0}

FetchPositions ==
    /\ pc = "positions"
    /\ \/ /\ todo' = {[mkt |-> m, size |-> position[m]] : m \in OpenPositions}
          /\ pc' = "flatten"
          /\ UNCHANGED unfilled
       \/ /\ unfilled' = TRUE
          /\ pc' = "close"
          /\ UNCHANGED todo
    /\ UNCHANGED <<wide, attempt, found, session, feed, swept,
                   lost, start, restarts, exchange>>

(* What an immediate-or-cancel order may fill of p, from nothing to all.   *)
Fillable(p) == IF p > 0 THEN -p..0 ELSE 0..-p

(* Mutant: record_flatten books the size asked for, not the size filled.   *)
MutRecordFlatten(m, asked, filled) ==
    net' = [net EXCEPT ![m] = @ + asked]

(* record_flatten books the contracts that filled.                         *)
RecordFlatten(m, asked, filled) ==
    net' = [net EXCEPT ![m] = @ + filled]

(* One order of the flatten: it fills as far as the book allows, or the    *)
(* call throws, before the exchange acted or after it.                     *)
FlattenOne(p) ==
    /\ pc = "flatten"
    /\ p \in todo
    /\ todo' = todo \ {p}
    /\ \E k \in Fillable(p.size), answered \in BOOLEAN :
        /\ position' = [position EXCEPT ![p.mkt] = @ + k]
        /\ unfilled' = (unfilled \/ k # -p.size)
        /\ IF answered
             THEN RecordFlatten(p.mkt, -p.size, k) /\ UNCHANGED missed
             ELSE /\ missed' = [missed EXCEPT ![p.mkt] = @ + k]
                  /\ UNCHANGED net
    /\ UNCHANGED <<wide, pc, attempt, found, tracked, open, wire,
                   swept, lost, start, restarts, resting, placed>>

FlattenDone ==
    /\ pc = "flatten" /\ todo = {}
    /\ pc' = "close"
    /\ UNCHANGED <<wide, attempt, found, todo, session, feed,
                   history, exchange>>

(* The panic handler is taken out and the process exits.                   *)
Close ==
    /\ pc = "close"
    /\ pc' = "ended"
    /\ UNCHANGED <<wide, attempt, found, todo, session, feed,
                   history, exchange>>

-----------------------------------------------------------------------------
(* Crashes and restarts.                                                   *)

(* The session state of a new process, which knows nothing of the orders   *)
(* and trades before it.                                                   *)
Forgotten ==
    /\ attempt' = 0 /\ found' = Nothing /\ todo' = {}
    /\ tracked' = Targets /\ open' = {} /\ net' = Flat
    /\ wire' = {} /\ missed' = Flat
    /\ swept' = FALSE /\ unfilled' = FALSE /\ lost' = {}
    /\ start' = position

(* The process dies.  A fatal signal, std::terminate or a failed ensure    *)
(* runs the panic handler first, once: it cancels the quotes, best effort  *)
(* and on whatever the session's state is; a kill runs nothing.            *)
Die ==
    /\ Alive
    /\ pc' = "crashed"
    /\ \E C \in SUBSET Quotes : resting' = resting \ C
    /\ Forgotten
    /\ UNCHANGED <<wide, restarts, position, placed>>

Restart ==
    /\ ~Alive
    /\ restarts < MaxRestarts
    /\ restarts' = restarts + 1
    /\ pc' = "startup"
    /\ Forgotten
    /\ UNCHANGED <<wide, exchange>>

(* The exchange: a resting order trades; a live feed is told.              *)
ExchangeTrade(o) ==
    /\ o \in resting
    /\ resting' = resting \ {o}
    /\ position' = [position EXCEPT ![o.mkt] = @ + o.d]
    /\ IF pc \in {"trading", "winddown", "stop"}
         THEN wire' = wire \cup {o} /\ UNCHANGED missed
         ELSE /\ missed' = [missed EXCEPT ![o.mkt] = @ + o.d]
              /\ UNCHANGED wire
    /\ UNCHANGED <<main, session, history, placed>>

-----------------------------------------------------------------------------
(* The account may hold an order and a position that are not the           *)
(* session's: another process's, or an earlier run's.                      *)
Init ==
    /\ wide \in BOOLEAN
    /\ pc = "startup" /\ attempt = 0 /\ found = Nothing /\ todo = {}
    /\ tracked = Targets /\ open = {} /\ net = Flat
    /\ wire = {} /\ missed = Flat
    /\ swept = FALSE /\ unfilled = FALSE /\ lost = {}
    /\ resting = {[id |-> 0, mkt |-> m, d |-> 1] : m \in Leftovers}
    /\ position = [m \in Markets |-> IF m \in Leftovers THEN 1 ELSE 0]
    /\ start = position
    /\ placed = 0 /\ restarts = 0

Running ==
    \/ CancelPreexisting
    \/ \E m \in Markets, d \in {-1, 1} : Place(m, d)
    \/ \E o \in wire : OnFill(o)
    \/ \E m \in Markets : Adopt(m) \/ Drop(m)
    \/ LeaveLoop
    \/ WindDownEnds

Guard ==
    \/ StopFeed
    \/ CancelQuotes
    \/ SweepFetch
    \/ SweepCancel
    \/ FetchPositions
    \/ \E p \in todo : FlattenOne(p)
    \/ FlattenDone
    \/ Close

Next ==
    \/ Running
    \/ Guard
    \/ Die
    \/ Restart
    \/ \E o \in resting : ExchangeTrade(o)

Spec == Init /\ [][Next]_vars

(* The guard's calls return or throw, so it goes on.                       *)
FairSpec == Spec /\ WF_vars(Guard)

-----------------------------------------------------------------------------
(* Properties.                                                             *)

(* "No zombie orders survive from prior runs": unless a call of the        *)
(* startup failed or more orders rested than one page holds, every order   *)
(* in the markets it cleans up is one this session placed.                 *)
NoZombies ==
    (pc = "trading" /\ swept) =>
        \A o \in Of(StartScope) : o.id \in open \cup lost

(* One good sweep of the three is enough: after it nothing rests in the    *)
(* markets the process answers for, not even an order whose placement lost *)
(* its answer, whatever the cancels and the sweeps before it did, those    *)
(* whose page did not hold all orders included.                            *)
NoOrderSurvives ==
    (pc \in {"positions", "flatten", "close", "ended"} /\ swept)
        => Of(ExitScope) = {}

(* "End flat": with one good sweep and a flatten that filled, the process  *)
(* leaves no position, although orders traded while it shut down.          *)
EndsFlat ==
    (pc = "ended" /\ swept /\ ~unfilled)
        => \A m \in ExitScope : position[m] = 0

(* The session's own account of each position, plus the fills it could     *)
(* not see, is what the exchange's position moved since the session began: *)
(* the flatten books exactly what it traded.                               *)
LedgerExplained ==
    \A m \in Markets :
        position[m] - start[m] = net[m] + missed[m] + Moved(wire, m)

(* A shutdown comes to its end although every REST call may fail.          *)
ShutdownTerminates == (pc \in GuardSteps) ~> ~Alive
=============================================================================
