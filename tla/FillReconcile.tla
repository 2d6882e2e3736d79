---------------------------- MODULE FillReconcile ----------------------------
(***************************************************************************)
(* How the session's positions stay those of the exchange although fills   *)
(* are pushed once, over a connection that drops: the fill channel, the    *)
(* REST backfill after a reconnect, and the periodic reconciliation that   *)
(* backfills again and then halts quoting on drift (app/app_modes.cpp,     *)
(* app/main.cpp, engine/portfolio.cpp, net/websocket_client.cpp).          *)
(*                                                                         *)
(* Rotation changes the tracked set at any moment in between, and both     *)
(* on_fill and the backfills pass over markets that are not in it.         *)
(*                                                                         *)
(* The exchange goes on trading between two REST calls of the same         *)
(* handler; callbacks of the feed wait for engine_mtx, which a             *)
(* reconciliation holds from its first call to its last.  A trade's time   *)
(* is its place in the sequence of trades.                                 *)
(***************************************************************************)
EXTENDS Integers, Sequences, FiniteSets, FiniteSetsExt

CONSTANTS
    Markets,        \* all markets of the account
    StartMarkets,   \* the tracked markets at startup
    Leftovers,      \* markets with a pre-session position of one contract
    Overlap,        \* kBackfillOverlap, in trades
    MaxTrades,      \* bound: trades in a behaviour
    MaxDrops,       \* bound: disconnections in a behaviour
    MaxFaults,      \* bound: REST reads that fail in a behaviour
    AdoptLeftovers  \* rotation may adopt a market with a leftover position

ASSUME MarketsAssumption == StartMarkets \subseteq Markets /\ Leftovers \subseteq Markets
ASSUME BoundsAssumption  == {Overlap, MaxTrades, MaxDrops, MaxFaults} \subseteq Nat
ASSUME FaultsAssumption  == AdoptLeftovers \in BOOLEAN

VARIABLES
    tracked,    \* tickers_
    net,        \* net_position_
    booked,     \* the trade ids record_fill has seen
    lastFill,   \* last_fill_time
    diverge,    \* kModelDiverge
    pc,         \* reconcile_against_exchange: "idle", "backfill" or "recheck"
    conn,       \* the connection: "first", "down", "resumed" or "up"
    wire,       \* fills pushed and not yet dispatched, oldest first
    trades,     \* the exchange's trades: records [mkt, d]
    drops,      \* disconnections so far
    faults,     \* failed REST reads so far
    excused     \* history: trades a good reconnect need not bring back

ledger == <<tracked, net, booked, lastFill>>
vars   == <<ledger, diverge, pc, conn, wire, trades, drops, faults, excused>>

Ids == 1..Len(trades)
Baseline(m) == IF m \in Leftovers THEN 1 ELSE 0
Moved(m, ids) ==
    SumFunctionOnSet([i \in ids |-> IF trades[i].mkt = m THEN trades[i].d ELSE 0], ids)

(* get_positions: the exchange's account of market m.                      *)
ExchangePosition(m) == Baseline(m) + Moved(m, Ids)

RestFails == faults < MaxFaults /\ faults' = faults + 1

(* Trades neither recorded nor on their way.                               *)
OnWire == {wire[k] : k \in 1..Len(wire)}
Missed == (Ids \ booked) \ OnWire

Later(t1, t2) == IF t1 > t2 THEN t1 ELSE t2

-----------------------------------------------------------------------------
(* Recording fills.  session.on_fill ignores untracked markets and known   *)
(* trades, whichever way the fill came.                                    *)

(* Mutant: record_fill does not look the trade id up.                      *)
MutFresh(ids) == {i \in ids : trades[i].mkt \in tracked}

Fresh(ids) == {i \in ids : trades[i].mkt \in tracked /\ i \notin booked}

Record(ids) ==
    /\ net' = [m \in Markets |-> net[m] + Moved(m, Fresh(ids))]
    /\ booked' = booked \cup Fresh(ids)

(* backfill_fills: replay every tracked fill from the floor on and advance *)
(* last_fill_time.                                                         *)
Backfill(floor) ==
    LET fetched == {i \in Ids : i >= floor /\ trades[i].mkt \in tracked}
    IN /\ Record(fetched)
       /\ lastFill' = Max(fetched \cup {lastFill})
       /\ UNCHANGED tracked

(* The fill callback, on the WebSocket thread.                             *)
OnFill ==
    /\ conn = "up" /\ pc = "idle"
    /\ wire # <<>>
    /\ wire' = Tail(wire)
    /\ lastFill' = Later(lastFill, Head(wire))
    /\ Record({Head(wire)})
    /\ UNCHANGED <<tracked, diverge, pc, conn, trades, drops, faults, excused>>

-----------------------------------------------------------------------------
(* The connection.  Only fills of an open connection are pushed, and what  *)
(* was pushed and not received is lost with it.                            *)

Disconnect ==
    /\ conn \in {"up", "resumed"}
    /\ drops < MaxDrops
    /\ drops' = drops + 1
    /\ conn' = "down"
    /\ wire' = <<>>
    /\ UNCHANGED <<ledger, diverge, pc, trades, faults, excused>>

(* handle_connect subscribes to the fill channel; only a reconnect goes on *)
(* to call reconnect_callback_, before any message is dispatched.          *)
Connect ==
    /\ conn \in {"first", "down"}
    /\ conn' = IF conn = "first" THEN "up" ELSE "resumed"
    /\ UNCHANGED <<ledger, diverge, pc, wire, trades, drops, faults, excused>>

(* Mutant: the floor is the time of the last fill, exclusive.              *)
MutReconnectFloor == lastFill + 2

(* The floor of the backfill after a reconnect.                            *)
ReconnectFloor == Later(1, lastFill - Overlap)

(* The reconnect callback: a failed fetch is logged and not retried.       *)
OnReconnect ==
    /\ conn = "resumed" /\ pc = "idle"
    /\ conn' = "up"
    /\ \/ Backfill(ReconnectFloor) /\ UNCHANGED <<faults, excused>>
       \/ RestFails /\ excused' = excused \cup Missed /\ UNCHANGED ledger
    /\ UNCHANGED <<diverge, pc, wire, trades, drops>>

-----------------------------------------------------------------------------
(* reconcile_against_exchange, by the main loop under engine_mtx.          *)

(* The baseline counts outside the tracked set only.                       *)
Expected(m) == net[m] + (IF m \in tracked THEN 0 ELSE Baseline(m))

InSync == \A m \in Markets : Expected(m) = ExchangePosition(m)

(* First comparison; a failed fetch ends the attempt without a verdict.    *)
Compare ==
    /\ pc = "idle"
    /\ \/ /\ InSync
          /\ diverge' = FALSE
          /\ UNCHANGED <<pc, faults>>
       \/ /\ ~InSync
          /\ pc' = "backfill"
          /\ UNCHANGED <<diverge, faults>>
       \/ /\ RestFails
          /\ UNCHANGED <<diverge, pc>>
    /\ UNCHANGED <<ledger, conn, wire, trades, drops, excused>>

(* Mutant: the hook shares the floor of the reconnect backfill.            *)
MutSessionFloor == ReconnectFloor

(* The backfill hook replays the fills of the whole session, those a       *)
(* reconnect gave up included.                                             *)
SessionFloor == 1

SessionBackfill ==
    /\ pc = "backfill"
    /\ \/ /\ Backfill(SessionFloor)
          /\ pc' = "recheck"
          /\ excused' = {i \in excused : trades[i].mkt \notin tracked}
          /\ UNCHANGED <<diverge, faults>>
       \/ /\ RestFails
          /\ pc' = "idle"
          /\ diverge' = TRUE
          /\ UNCHANGED <<ledger, excused>>
    /\ UNCHANGED <<conn, wire, trades, drops>>

(* Second comparison; a failed fetch leaves the first verdict standing.    *)
Recompare ==
    /\ pc = "recheck"
    /\ pc' = "idle"
    /\ \/ diverge' = ~InSync /\ UNCHANGED faults
       \/ RestFails /\ diverge' = TRUE
    /\ UNCHANGED <<ledger, conn, wire, trades, drops, excused>>

-----------------------------------------------------------------------------
(* Rotation changes the tracked set while no reconciliation runs.          *)

(* add_market; the picks may name a market dropped before.                 *)
Adopt(m) ==
    /\ pc = "idle"
    /\ m \notin tracked
    /\ AdoptLeftovers \/ m \notin Leftovers
    /\ tracked' = tracked \cup {m}
    /\ UNCHANGED <<net, booked, lastFill, diverge, pc, conn, wire, trades,
                   drops, faults, excused>>

(* remove_market_if_idle of a market the picks do not name: the position   *)
(* known locally is zero and open_orders_ has no order of it, which says   *)
(* nothing of fills still unheard of: an order that traded in part leaves  *)
(* open_orders_ when the cancels of on_disconnect remove its rest.         *)
Drop(m) ==
    /\ pc = "idle"
    /\ m \in tracked
    /\ net[m] = 0
    /\ tracked' = tracked \ {m}
    /\ excused' = excused \cup {i \in Ids \ booked : trades[i].mkt = m}
    /\ UNCHANGED <<net, booked, lastFill, diverge, pc, conn, wire, trades,
                   drops, faults>>

(* The account trades in market m: an order of this session, or in a       *)
(* market it does not track another session's, or one whose placement lost *)
(* its answer.  Only an open connection is told.                           *)
ExchangeTrade(m, d) ==
    /\ Len(trades) < MaxTrades
    /\ trades' = Append(trades, [mkt |-> m, d |-> d])
    /\ wire' = IF conn \in {"up", "resumed"} THEN Append(wire, Len(trades')) ELSE wire
    /\ excused' = IF m \notin tracked \/ conn = "first"
                    THEN excused \cup {Len(trades')} ELSE excused
    /\ UNCHANGED <<ledger, diverge, pc, conn, drops, faults>>

Init ==
    /\ tracked = StartMarkets
    /\ net = [m \in Markets |-> 0]
    /\ booked = {} /\ lastFill = 0
    /\ diverge = FALSE /\ pc = "idle"
    /\ conn = "first" /\ wire = <<>>
    /\ trades = <<>> /\ drops = 0 /\ faults = 0 /\ excused = {}

Reconcile == Compare \/ SessionBackfill \/ Recompare

Next ==
    \/ OnFill
    \/ Disconnect
    \/ Connect
    \/ OnReconnect
    \/ Reconcile
    \/ \E m \in Markets : Adopt(m) \/ Drop(m)
    \/ \E m \in Markets, d \in {-1, 1} : ExchangeTrade(m, d)

Spec == Init /\ [][Next]_vars

(* The main loop reconciles every two minutes and its REST calls return or *)
(* throw.  Nothing is assumed of the connection.                           *)
FairSpec == Spec /\ WF_vars(Compare) /\ WF_vars(SessionBackfill) /\ WF_vars(Recompare)

-----------------------------------------------------------------------------
(* Properties.                                                             *)

(* The WebSocket push, the reconnect backfill and the reconciliation's     *)
(* replay of the whole session overlap freely, and still the position is   *)
(* that of the trades recorded, each counted once.                         *)
NetIsTrades == \A m \in Markets : net[m] = Moved(m, booked)

(* While connected, a trade that is neither recorded nor on its way was    *)
(* made before the first connection, or in a market not tracked at some    *)
(* time since, or in a gap whose reconnect backfill failed: and then only  *)
(* until a reconciliation has replayed the session.  The floor of the      *)
(* reconnect backfill moves with every fill received or fetched, past      *)
(* nothing else.                                                           *)
GapBackfilled == conn = "up" => Missed \subseteq excused

Drift(m) == Expected(m) # ExchangePosition(m)

(* A market that is not tracked and whose position moved all the same:     *)
(* dropped with a fill unheard of, or traded by another session.           *)
Stranded == \E m \in Markets \ tracked : Drift(m)

(* The local positions come to agree with the exchange's again and the     *)
(* drift halt is lifted, although pushes are lost, backfills fail and      *)
(* rotation goes on, unless the drift is in a market nobody tracks.        *)
PositionsConverge ==
    /\ ~InSync ~> (InSync \/ Stranded)
    /\ diverge ~> (~diverge \/ Stranded)
=============================================================================
