----------------------------- MODULE SessionPnl -----------------------------
(***************************************************************************)
(* Profit and loss of a session, and what watches it: the ledger's P&L per *)
(* market (exchange/order_manager.cpp), the marks and the portfolio        *)
(* snapshot (engine/trading_session.cpp, engine/portfolio.cpp), the        *)
(* kill-switches (engine/risk_manager.cpp) and the file that carries P&L   *)
(* from one process to the next (persist_pnl and load_pnl of               *)
(* app/main.cpp).                                                          *)
(*                                                                         *)
(* Handlers of the feed and the main loop's checks hold the engine lock,   *)
(* so each is one step.  The process may be killed at any time, within     *)
(* persist_pnl too, and a write of the file may fail with the process      *)
(* going on.  Amounts are cents.                                           *)
(***************************************************************************)
EXTENDS Integers, Sequences, FiniteSets, Functions

CONSTANTS
    Tickers,
    Fills,          \* [side, px, qty, fee] of the fills that may arrive
    Marks,          \* mid prices a book may show; 0: it has no two sides
    FlattenPrice,   \* what the taker flatten of shutdown pays
    LossLimit, MaxLoss, MaxExposure, MaxDrawdown,   \* RiskLimits
    MaxFills,       \* bound: fills
    MaxProcesses    \* bound: processes started

Side == {"yes", "no"}

ASSUME PnlAssumption ==
    /\ IsFiniteSet(Tickers) /\ Marks \subseteq 0..99
    /\ \A f \in Fills : /\ f.side \in Side /\ f.px \in Nat /\ f.qty \in Nat
                       /\ f.fee \in Nat
    /\ FlattenPrice \in Nat
    /\ {LossLimit, MaxLoss} \subseteq Int /\ {MaxExposure, MaxDrawdown} \subseteq Nat
    /\ LossLimit <= 0      \* "negative = loss" (engine/risk_limits.hpp)
    /\ {MaxFills, MaxProcesses} \subseteq Nat

VARIABLES
    phase,          \* "run", "stopping" (the feed is joined), "down"
    tracked,        \* tickers_
    lots,           \* ticker |-> side |-> prices of the open lots
    pnl,            \* ticker |-> realized_pnl
    mark,           \* ticker |-> mid of its book in ob_map_, 0 without one
    risk,           \* [constraints, peak]: RiskManager
    prior,          \* prior_pnl_: ticker |-> cents
    file,           \* pnl_state.json: [whole, pnl]
    started, fills, \* counters for the bounds
    behind,         \* history: the last write left an older file standing
    earned,         \* history: ticker |-> realized since the last lost write
    bought,         \* history: ticker |-> side |-> contracts of this process
    cash,           \* history: ticker |-> what they brought, a cost is negative
    forgotten,      \* history: untracked markets with P&L of this process
    worst           \* history: [high, fall, distorted] of equity at the checks

vars == <<phase, tracked, lots, pnl, mark, risk, prior, file, started, fills,
          behind, earned, bought, cash, forgotten, worst>>

Opposite(s) == IF s = "yes" THEN "no" ELSE "yes"
Smaller(a, b) == IF a < b THEN a ELSE b
Larger(a, b) == IF a > b THEN a ELSE b
Nothing == [t \in Tickers |-> 0]
None == [t \in Tickers |-> [s \in Side |-> 0]]
Flat == [t \in Tickers |-> [s \in Side |-> <<>>]]
NoPnl == [t \in {} |-> 0]
At(map, t) == IF t \in DOMAIN map THEN map[t] ELSE 0

-----------------------------------------------------------------------------
(* OrderManager.  Every lot is one contract, oldest first.                 *)

Matched(queues, f) == Smaller(f.qty, Len(queues[Opposite(f.side)]))

(* record_fill: what it gains and what it leaves of a market's two queues. *)
Gained(queues, f) ==
    SumFunction([i \in 1..Matched(queues, f) |->
                    100 - f.px - queues[Opposite(f.side)][i]]) - f.fee

RecordFill(queues, f) ==
    LET matched == Matched(queues, f)
        other == queues[Opposite(f.side)]
    IN  [s \in Side |-> IF s = f.side
                          THEN queues[s] \o [i \in 1..(f.qty - matched) |-> f.px]
                          ELSE SubSeq(other, matched + 1, Len(other))]

NetPosition(t) == Len(lots[t]["yes"]) - Len(lots[t]["no"])
PositionCost(t) == SumFunction(lots[t]["yes"]) + SumFunction(lots[t]["no"])

(* What a queue gains at a mark of its side, and unrealized_pnl.           *)
GainAt(queue, m) == SumFunction([i \in DOMAIN queue |-> m - queue[i]])
UnrealizedPnl(t) ==
    GainAt(lots[t]["yes"], mark[t]) + GainAt(lots[t]["no"], 100 - mark[t])

(* Portfolio::snapshot over build_marks: a position without a mark is      *)
(* worth what it cost.                                                     *)
TotalNotional == SumFunctionOnSet([t \in Tickers |-> PositionCost(t)], tracked)
TotalPnl ==
    SumFunctionOnSet(
        [t \in Tickers |-> pnl[t] + (IF mark[t] > 0 THEN UnrealizedPnl(t) ELSE 0)],
        tracked)

-----------------------------------------------------------------------------
(* RiskManager.                                                            *)

(* Mutant: the loss is that of the one market.                             *)
MutUpdated(constraints, realized, t) ==
    constraints \cup (IF realized[t] < LossLimit THEN {"PnLLimit"} ELSE {})

(* update: the realized P&L of the tracked markets, after a fill of t.     *)
Updated(constraints, realized, t) ==
    constraints \cup (IF SumFunctionOnSet(realized, tracked) < LossLimit
                        THEN {"PnLLimit"} ELSE {})

(* Mutant: the high-water mark is never raised.                            *)
MutWatched(r) ==
    [r EXCEPT !.constraints = @
        \cup (IF TotalNotional > MaxExposure THEN {"OverExposure"} ELSE {})
        \cup (IF TotalPnl < MaxLoss THEN {"PortfolioLoss"} ELSE {})
        \cup (IF r.peak - TotalPnl > MaxDrawdown THEN {"Drawdown"} ELSE {})]

(* update_portfolio.                                                       *)
Watched(r) ==
    LET peak == Larger(r.peak, TotalPnl)
    IN  [constraints |-> r.constraints
            \cup (IF TotalNotional > MaxExposure THEN {"OverExposure"} ELSE {})
            \cup (IF TotalPnl < MaxLoss THEN {"PortfolioLoss"} ELSE {})
            \cup (IF peak - TotalPnl > MaxDrawdown THEN {"Drawdown"} ELSE {}),
         peak |-> peak]

Cleared(r, bit) == [r EXCEPT !.constraints = @ \ {bit}]

-----------------------------------------------------------------------------
(* The carried P&L.                                                        *)

(* Mutant: the file holds this session's P&L only.                         *)
MutCarriedTotals(realized) ==
    [t \in {u \in tracked : realized[u] # 0} |-> realized[t]]

CarriedTotals(realized) ==
    LET kept == DOMAIN prior \cup {t \in tracked : realized[t] # 0}
    IN  [t \in kept |-> IF t \in tracked THEN At(prior, t) + realized[t] ELSE prior[t]]

(* load_pnl: a file that cannot be read counts as none.                    *)
LoadPnl == IF file.whole THEN file.pnl ELSE NoPnl

(* A fill in the ledger, and in the history.                               *)
Book(t, f) ==
    /\ fills < MaxFills /\ fills' = fills + f.qty
    /\ lots' = [lots EXCEPT ![t] = RecordFill(@, f)]
    /\ pnl' = [pnl EXCEPT ![t] = @ + Gained(lots[t], f)]
    /\ earned' = [earned EXCEPT ![t] = @ + Gained(lots[t], f)]
    /\ bought' = [bought EXCEPT ![t][f.side] = @ + f.qty]
    /\ cash' = [cash EXCEPT ![t] = @ - f.px * f.qty - f.fee]

(* persist_pnl: the file is emptied, then written.  It may not open, which *)
(* leaves the older one, or stay empty; the process goes on and is told    *)
(* nothing.  A kill in between is an empty file, then Exit.                *)
Persist ==
    \/ file' = [whole |-> TRUE, pnl |-> CarriedTotals(pnl')] /\ behind' = FALSE
    \/ UNCHANGED file /\ behind' = TRUE
    \/ file' = [whole |-> FALSE, pnl |-> NoPnl] /\ behind' = FALSE

-----------------------------------------------------------------------------
(* The process.                                                            *)
Init ==
    /\ phase = "down" /\ tracked = {} 
    /\ lots = Flat /\ pnl = Nothing /\ mark = Nothing
    /\ risk = [constraints |-> {}, peak |-> 0]
    /\ prior = NoPnl /\ file = [whole |-> TRUE, pnl |-> NoPnl]
    /\ started = 0 /\ fills = 0
    /\ behind = FALSE /\ earned = Nothing /\ bought = None /\ cash = Nothing
    /\ forgotten = {} /\ worst = [high |-> 0, fall |-> 0, distorted |-> FALSE]

(* main: the ledger is new, the file is read.                              *)
Start ==
    /\ phase = "down" /\ started < MaxProcesses
    /\ phase' = "run" /\ started' = started + 1
    /\ tracked' \in SUBSET Tickers \ {{}}
    /\ mark' \in [Tickers -> Marks] /\ \A t \in Tickers \ tracked' : mark'[t] = 0
    /\ prior' = LoadPnl
    /\ earned' = [t \in Tickers |-> IF file.whole /\ ~behind /\ t \notin forgotten
                                       THEN earned[t] ELSE At(LoadPnl, t)]
    /\ behind' = FALSE /\ forgotten' = {}
    /\ UNCHANGED <<lots, pnl, risk, file, fills, bought, cash, worst>>

(* TradingSession::on_fill.                                                *)
OnFill(t, f) ==
    /\ phase = "run" /\ t \in tracked
    /\ Book(t, f)
    /\ risk' = [risk EXCEPT !.constraints = Updated(@, pnl', t)]
    /\ Persist
    /\ UNCHANGED <<phase, tracked, mark, prior, started, forgotten, worst>>

(* on_snapshot and on_delta: the book's mid moves, or loses a side.        *)
OnBook(t, mid) ==
    /\ phase = "run" /\ t \in tracked /\ mid # mark[t]
    /\ mark' = [mark EXCEPT ![t] = mid]
    /\ UNCHANGED <<phase, tracked, lots, pnl, risk, prior, file, started, fills,
                   behind, earned, bought, cash, forgotten, worst>>

(* What the session is worth: what was paid, 100 for a pair, the mark for  *)
(* the rest.                                                               *)
Worth(t) ==
    LET pairs == Smaller(bought[t]["yes"], bought[t]["no"])
    IN  cash[t] + 100 * pairs + (bought[t]["yes"] - pairs) * mark[t]
        + (bought[t]["no"] - pairs) * (100 - mark[t])

Equity == SumFunctionOnSet([t \in Tickers |-> Worth(t)], Tickers)

(* run_portfolio_risk.                                                     *)
RunPortfolioRisk ==
    /\ phase = "run"
    /\ risk' = Watched(risk)
    /\ LET high == Larger(worst.high, Equity)
           blind == \E t \in tracked : NetPosition(t) # 0 /\ mark[t] = 0
           absent == \E t \in Tickers \ tracked : pnl[t] # 0
       IN  worst' = [high |-> high, fall |-> Larger(worst.fall, high - Equity),
                     distorted |-> worst.distorted \/ blind \/ absent]
    /\ UNCHANGED <<phase, tracked, lots, pnl, mark, prior, file, started, fills,
                   behind, earned, bought, cash, forgotten>>

(* check_ws_staleness: the feed has been silent for the threshold, or it   *)
(* is heard again.                                                         *)
CheckWsStaleness(silent) ==
    /\ phase = "run"
    /\ \/ silent /\ risk' = [risk EXCEPT !.constraints = @ \cup {"StaleBook"}]
       \/ ~silent /\ "StaleBook" \in risk.constraints /\ risk' = Cleared(risk, "StaleBook")
    /\ UNCHANGED <<phase, tracked, lots, pnl, mark, prior, file, started, fills,
                   behind, earned, bought, cash, forgotten, worst>>

(* Rotation: remove_market_if_idle and add_market.                         *)
DropMarket(t) ==
    /\ phase = "run" /\ t \in tracked /\ NetPosition(t) = 0
    /\ tracked' = tracked \ {t}
    /\ mark' = [mark EXCEPT ![t] = 0]
    /\ forgotten' = IF pnl[t] # 0 THEN forgotten \cup {t} ELSE forgotten
    /\ UNCHANGED <<phase, lots, pnl, risk, prior, file, started, fills, behind,
                   earned, bought, cash, worst>>

AddMarket(t, mid) ==
    /\ phase = "run" /\ t \notin tracked
    /\ tracked' = tracked \cup {t}
    /\ mark' = [mark EXCEPT ![t] = mid]
    /\ UNCHANGED <<phase, lots, pnl, risk, prior, file, started, fills, behind,
                   earned, bought, cash, forgotten, worst>>

(* A signal ends the main loop and the feed is joined.                     *)
Stop ==
    /\ phase = "run" /\ phase' = "stopping"
    /\ UNCHANGED <<tracked, lots, pnl, mark, risk, prior, file, started, fills,
                   behind, earned, bought, cash, forgotten, worst>>

(* flatten_all_positions and record_flatten: what the exchange holds is    *)
(* closed, in part or whole, in any market of the account.  The ledger may *)
(* hold something else and the market need not be tracked; the risk        *)
(* manager does not hear of it.                                            *)
RecordFlatten(t, side, qty) ==
    /\ phase = "stopping"
    /\ Book(t, [side |-> side, px |-> FlattenPrice, qty |-> qty, fee |-> 0])
    /\ forgotten' = forgotten \cup (IF t \notin tracked /\ pnl'[t] # 0 THEN {t} ELSE {})
    /\ Persist
    /\ UNCHANGED <<phase, tracked, mark, risk, prior, started, worst>>

(* The process ends or is killed, and its memory is gone.                  *)
Exit ==
    /\ phase \in {"run", "stopping"} /\ phase' = "down"
    /\ tracked' = {} /\ mark' = Nothing /\ prior' = NoPnl
    /\ lots' = Flat /\ pnl' = Nothing
    /\ risk' = [constraints |-> {}, peak |-> 0]
    /\ bought' = None /\ cash' = Nothing
    /\ worst' = [high |-> 0, fall |-> 0, distorted |-> FALSE]
    /\ UNCHANGED <<file, started, fills, behind, earned, forgotten>>

Next ==
    \/ Start \/ RunPortfolioRisk \/ Stop \/ Exit
    \/ \E silent \in BOOLEAN : CheckWsStaleness(silent)
    \/ \E t \in Tickers :
          \/ \E f \in Fills : OnFill(t, f)
          \/ \E mid \in Marks : OnBook(t, mid) \/ AddMarket(t, mid)
          \/ DropMarket(t)
          \/ \E side \in Side, qty \in 1..(MaxFills - fills) : RecordFlatten(t, side, qty)

Spec == Init /\ [][Next]_vars

-----------------------------------------------------------------------------
(* Properties.                                                             *)

(* The total P&L of a market survives any number of processes, kills,      *)
(* failed writes and shutdowns: as long as the market is not away with P&L *)
(* of its own, the session's view of it (prior_pnl_ and the ledger) holds  *)
(* what it earned since the last lost write, and so does the file, the     *)
(* next one that is written after a failure too.                           *)
CarriedExact ==
    \A t \in Tickers \ forgotten :
        /\ file.whole /\ ~behind => At(file.pnl, t) = earned[t]
        /\ phase # "down" => At(prior, t) + pnl[t] = earned[t]

(* While the books mark every position and no market with P&L is away,     *)
(* kDrawdown is set exactly when the equity, which is counted from the     *)
(* cash paid and the contracts held, fell too far from its high.           *)
DrawdownExact ==
    (phase # "down" /\ ~worst.distorted)
        => ("Drawdown" \in risk.constraints <=> worst.fall > MaxDrawdown)

(* daily_loss_limit: a session of several markets that has realized a      *)
(* loss beyond the limit is halted, whatever market it was lost in, unless *)
(* a market took its P&L away with it.                                     *)
LossHalts ==
    (phase = "run" /\ forgotten = {} /\ SumFunctionOnSet(pnl, Tickers) < LossLimit)
        => "PnLLimit" \in risk.constraints
=============================================================================
