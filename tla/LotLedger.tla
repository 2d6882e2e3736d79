------------------------------ MODULE LotLedger ------------------------------
(***************************************************************************)
(* OrderManager::record_fill as written: deques of lots, the first in,     *)
(* first out matching loop, realized spread, fees and net position, and    *)
(* the queries computed from them.  Fills reach it from the WebSocket, the *)
(* REST backfill and the reconcile replay: late, out of order, repeated.   *)
(***************************************************************************)
EXTENDS Contracts, Sequences, FiniteSets, Functions

CONSTANTS Fees,       \* fee_cents a fill may carry
          MaxTrades   \* bound on the trades the exchange executes

ASSUME LotConstants == Fees \subseteq Nat /\ MaxTrades \in Nat

VARIABLES
  tape,     \* external: trades on our orders; the index is the trade id
  lots,     \* yes_lots_ and no_lots_
  net,      \* net_position_
  spread,   \* realized_spread_
  fees,     \* fees_paid_
  seen      \* seen_fills_

vars == <<tape, lots, net, spread, fees, seen>>

-----------------------------------------------------------------------------
(* The matching loop, over the opposing lots, oldest first.  A lot reached *)
(* after the fill is used up matches nothing and is kept.                  *)

Smaller(a, b) == IF a <= b THEN a ELSE b

MatchLot(price, acc, lot) ==
  LET matched == Smaller(acc.remaining, lot.remaining)
  IN [remaining |-> acc.remaining - matched,
      gained |-> acc.gained
                   + (ContractMaxCents - price - lot.price) * matched,
      kept |-> IF matched = lot.remaining THEN acc.kept
               ELSE Append(acc.kept, [lot EXCEPT !.remaining = @ - matched])]

MatchLots(opposing, price, qty) ==
  LET after[i \in 0..Len(opposing)] ==
        IF i = 0 THEN [remaining |-> qty, gained |-> 0, kept |-> << >>]
        ELSE MatchLot(price, after[i - 1], opposing[i])
  IN after[Len(opposing)]

\* Mutant: what is left of a fill is put in front of its queue.
MutPushLot(queue, price, qty) ==
  IF qty > 0 THEN <<[price |-> price, remaining |-> qty]>> \o queue ELSE queue

PushLot(queue, price, qty) ==
  IF qty > 0 THEN Append(queue, [price |-> price, remaining |-> qty])
  ELSE queue

\* Mutant: no check of seen_fills_.
MutRecordFill(id) ==
  LET f == tape[id]
      r == MatchLots(lots[f.ticker][Opposite(f.side)], f.price, f.qty)
  IN /\ seen' = seen \cup {id}
     /\ lots' = [lots EXCEPT
                   ![f.ticker][Opposite(f.side)] = r.kept,
                   ![f.ticker][f.side] = PushLot(@, f.price, r.remaining)]
     /\ spread' = [spread EXCEPT ![f.ticker] = @ + r.gained]
     /\ net' = [net EXCEPT ![f.ticker] =
                  IF f.side = "yes" THEN @ + f.qty ELSE @ - f.qty]
     /\ fees' = [fees EXCEPT ![f.ticker] = @ + f.fee]
     /\ UNCHANGED tape

RecordFill(id) ==
  LET f == tape[id]
      r == MatchLots(lots[f.ticker][Opposite(f.side)], f.price, f.qty)
  IN /\ id \notin seen
     /\ seen' = seen \cup {id}
     /\ lots' = [lots EXCEPT
                   ![f.ticker][Opposite(f.side)] = r.kept,
                   ![f.ticker][f.side] = PushLot(@, f.price, r.remaining)]
     /\ spread' = [spread EXCEPT ![f.ticker] = @ + r.gained]
     /\ net' = [net EXCEPT ![f.ticker] =
                  IF f.side = "yes" THEN @ + f.qty ELSE @ - f.qty]
     /\ fees' = [fees EXCEPT ![f.ticker] = @ + f.fee]
     /\ UNCHANGED tape

\* A fill already booked: record_fill returns false and changes nothing.
RecordDuplicate(id) == id \in seen /\ UNCHANGED vars

\* The exchange executes a trade on one of our orders.
Execute(f) ==
  /\ Len(tape) < MaxTrades
  /\ tape' = Append(tape, f)
  /\ UNCHANGED <<lots, net, spread, fees, seen>>

Fill == [ticker : Tickers, side : Side, price : Prices, qty : 1..MaxQty,
         fee : Fees]

Init ==
  /\ tape = << >>
  /\ lots = [t \in Tickers |-> [s \in Side |-> << >>]]
  /\ net = [t \in Tickers |-> 0]
  /\ spread = [t \in Tickers |-> 0]
  /\ fees = [t \in Tickers |-> 0]
  /\ seen = {}

Next ==
  \/ \E f \in Fill : Execute(f)
  \/ \E id \in DOMAIN tape : RecordFill(id)
  \/ \E id \in DOMAIN tape : RecordDuplicate(id)

Spec == Init /\ [][Next]_vars

-----------------------------------------------------------------------------
(* The queries.                                                            *)

\* Contracts in a queue of lots, their cost, and their gain at a mark.
LotQty(q) == SumFunction([i \in DOMAIN q |-> q[i].remaining])
LotCost(q) == SumFunction([i \in DOMAIN q |-> q[i].price * q[i].remaining])
LotGain(q, mark) ==
  SumFunction([i \in DOMAIN q |-> (mark - q[i].price) * q[i].remaining])

SideQty(t, s) == LotQty(lots[t][s])
SideCost(t, s) == LotCost(lots[t][s])

RealizedPnl(t) == spread[t] - fees[t]

PositionCost(t) == SideCost(t, "yes") + SideCost(t, "no")

\* YES lots are marked at the YES mid, NO lots at its complement.
UnrealizedPnl(t, mid) ==
  LotGain(lots[t]["yes"], mid) + LotGain(lots[t]["no"], ContractMaxCents - mid)

\* Mutant: the smaller side is valued.
MutExposureDecomposition(t) ==
  LET heldYes == SideQty(t, "yes") <= SideQty(t, "no")
      qty == IF heldYes THEN SideQty(t, "yes") ELSE SideQty(t, "no")
      cost == IF heldYes THEN SideCost(t, "yes") ELSE SideCost(t, "no")
  IN [spread |-> spread[t],
      net |-> SideQty(t, "yes") - SideQty(t, "no"),
      win |-> qty * ContractMaxCents - cost, loss |-> -cost]

\* Only the dominant side is valued: "inventory sits on at most one side".
ExposureDecomposition(t) ==
  LET heldYes == SideQty(t, "yes") >= SideQty(t, "no")
      qty == IF heldYes THEN SideQty(t, "yes") ELSE SideQty(t, "no")
      cost == IF heldYes THEN SideCost(t, "yes") ELSE SideCost(t, "no")
  IN [spread |-> spread[t],
      net |-> SideQty(t, "yes") - SideQty(t, "no"),
      win |-> qty * ContractMaxCents - cost, loss |-> -cost]

-----------------------------------------------------------------------------
(* Properties.                                                             *)

\* What the booked trades of a market paid, fees included, and bought.
BookedIds(t) == {id \in seen : tape[id].ticker = t}
Paid(t) ==
  SumFunctionOnSet([id \in seen |-> tape[id].price * tape[id].qty + tape[id].fee],
                   BookedIds(t))
Bought(t) == SumFunctionOnSet([id \in seen |-> tape[id].qty], BookedIds(t))

\* Cash conservation: realized profit is what the account really has.  Every
\* booked trade paid price and fee once; each YES/NO pair matched by the loop
\* is worth 100 cents; the cost of open lots is not yet realized.
PnlConserved ==
  \A t \in Tickers :
    2 * (RealizedPnl(t) + Paid(t) - PositionCost(t))
      = ContractMaxCents * (Bought(t) - SideQty(t, "yes") - SideQty(t, "no"))

\* The two settlement outcomes, computed from all lots on both sides.
SettleYes(t) == ContractMaxCents * SideQty(t, "yes") - PositionCost(t)
SettleNo(t) == ContractMaxCents * SideQty(t, "no") - PositionCost(t)

\* exposure_decomposition, although it values one side only, tells the profit
\* of both settlements of the whole inventory and the true net position, and
\* unrealized_pnl marked at 100 and at 0 agrees with it.
ExposureExact ==
  \A t \in Tickers :
    LET d == ExposureDecomposition(t)
    IN /\ <<d.win, d.loss>> = IF net[t] >= 0 THEN <<SettleYes(t), SettleNo(t)>>
                              ELSE <<SettleNo(t), SettleYes(t)>>
       /\ d.net = net[t]
       /\ UnrealizedPnl(t, ContractMaxCents) = SettleYes(t)
       /\ UnrealizedPnl(t, 0) = SettleNo(t)

-----------------------------------------------------------------------------
(* Refinement: a lot stands for as many unit contracts at its price.       *)

UnitPrices(queue) ==
  LET units[i \in 0..Len(queue)] ==
        IF i = 0 THEN << >>
        ELSE units[i - 1] \o [j \in 1..queue[i].remaining |-> queue[i].price]
  IN units[Len(queue)]

Ledger == INSTANCE OrderLedger WITH
            Keys <- 1..MaxTrades,
            held <- [t \in Tickers |->
                       [s \in Side |-> UnitPrices(lots[t][s])]]

\* record_fill with its lots and its loop implements the unit ledger: first
\* in, first out, contract by contract, each fill once.
ImplementsLedger == Ledger!Spec
=============================================================================
