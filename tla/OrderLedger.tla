----------------------------- MODULE OrderLedger -----------------------------
(***************************************************************************)
(* What the OrderManager promises about positions: fills arrive in any     *)
(* order and any number of times, each is booked once, and inventory is    *)
(* matched first in, first out, one contract at a time.                    *)
(*                                                                         *)
(* This is the abstract ledger.  A queue of unit contracts, oldest first,  *)
(* stands for a deque of lots; LotLedger has the lots and the matching     *)
(* loop of OrderManager::record_fill and is proved to implement this.      *)
(***************************************************************************)
EXTENDS Contracts, Sequences

CONSTANT Keys   \* fill keys: trade ids

VARIABLES
  held,   \* per ticker and side, the price of each contract held
  net,    \* net_position_: YES contracts minus NO contracts
  seen    \* seen_fills_

ledgerVars == <<held, net, seen>>

\* The contracts of a fill that close opposing inventory.
Matched(queue, qty) == IF qty <= Len(queue) THEN qty ELSE Len(queue)

Repeat(price, n) == [i \in 1..n |-> price]

\* The oldest opposing contracts are closed, the rest of the fill is held.
Booked(h, s, price, qty) ==
  LET opp == h[Opposite(s)]
      m == Matched(opp, qty)
  IN [x \in Side |-> IF x = s THEN h[s] \o Repeat(price, qty - m)
                     ELSE SubSeq(opp, m + 1, Len(opp))]

RecordFill(k, t, s, price, qty) ==
  /\ k \notin seen
  /\ seen' = seen \cup {k}
  /\ held' = [held EXCEPT ![t] = Booked(held[t], s, price, qty)]
  /\ net' = [net EXCEPT ![t] = IF s = "yes" THEN @ + qty ELSE @ - qty]

Init ==
  /\ held = [t \in Tickers |-> [s \in Side |-> << >>]]
  /\ net = [t \in Tickers |-> 0]
  /\ seen = {}

Next ==
  \E k \in Keys, t \in Tickers, s \in Side, price \in Prices, qty \in 1..MaxQty :
    RecordFill(k, t, s, price, qty)

Spec == Init /\ [][Next]_ledgerVars

-----------------------------------------------------------------------------
\* Type invariant of the ledger maps of the OrderManager.
TypeOK ==
  /\ held \in [Tickers -> [Side -> Seq(Prices)]]
  /\ net \in [Tickers -> Int]
  /\ seen \subseteq Keys

\* "Inventory sits on at most one side" (exposure_decomposition depends on it
\* to value the dominant side only): a market never holds YES and NO at once.
OneSided ==
  \A t \in Tickers : held[t]["yes"] = << >> \/ held[t]["no"] = << >>

\* The two records of the position agree: net_position_, which risk limits
\* and quoting read, is what the lots, which profit is computed from, hold.
NetMatchesHeld ==
  \A t \in Tickers : net[t] = Len(held[t]["yes"]) - Len(held[t]["no"])
=============================================================================
