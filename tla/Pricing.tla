------------------------------- MODULE Pricing -------------------------------
(***************************************************************************)
(* What Quoter::update makes of a book (strategy/quoter.cpp,               *)
(* engine/pricing_model.cpp): the smoothed anchor, the fair value, the     *)
(* spread, the inventory skew and the two prices it wants to quote.        *)
(*                                                                         *)
(* Prices are integers in cents; the code's doubles are integers in        *)
(* thousandths of a cent, rounded down.  The two desired prices are both   *)
(* YES prices: "yes" the bid, "no" the ask.                                *)
(***************************************************************************)
EXTENDS Orderbook

CONSTANTS
    QuoteSize,          \* quote_size, in contracts
    CapLots,            \* inventory_cap_lots
    TargetSpread,       \* target_spread_cents
    MinSpread,          \* min_spread_cents
    ImbalanceSpread,    \* imbalance_spread_cents
    FlowLean,           \* flow_lean_cents, in thousandths of a cent
    UnwindEdge,         \* unwind_edge_cents, in thousandths of a cent
    LongshotThreshold,  \* longshot_price_threshold_cents
    LongshotEdge,       \* longshot_edge_cents
    MakerFee,           \* maker_fee_rate, in thousandths
    EmaAlpha,           \* fv_ema_alpha, in hundredths
    TapeWeight,         \* clearing_tape_weight, in hundredths
    Beta,               \* view_debias_beta, in hundredths
    MaxPosition,        \* max_position_per_market
    MaxQuotePrice,      \* max_quote_price_cents
    LogOdds             \* 1000 * log(p / (100 - p)) for p = MaxQuotePrice

ASSUME PricingAssumption ==
    /\ {QuoteSize, LogOdds} \subseteq Nat \ {0}
    /\ {CapLots, TargetSpread, MinSpread, ImbalanceSpread, FlowLean, UnwindEdge,
        LongshotThreshold, LongshotEdge, MakerFee, MaxPosition} \subseteq Nat
    /\ {EmaAlpha, TapeWeight} \subseteq 0..100 /\ Beta \in 0..95
    /\ MaxQuotePrice \in 1..99

None == -1
Larger(a, b) == IF a > b THEN a ELSE b
Smaller(a, b) == IF a < b THEN a ELSE b
Clamp(x, low, high) == Larger(low, Smaller(x, high))
FloorCents(mills) == mills \div 1000
CeilCents(mills) == -((-mills) \div 1000)

(* The micro-price, smoothed by the market's own average; None: no average *)
(* yet.                                                                    *)
Smoothed(visible, ema) ==
    LET micro == (MicroPrice(visible)[1] * 1000) \div MicroPrice(visible)[2]
    IN  IF ema = None THEN micro
        ELSE (EmaAlpha * micro + (100 - EmaAlpha) * ema) \div 100

(* The three pricing models.  The heuristic's time decay is nothing at the *)
(* horizon of 1000 hours the quoter passes, and its inventory is 0.        *)
FairValue(model, anchor, vwap) ==
    LET value ==
            CASE model = "heuristic" -> anchor
              [] model = "clearing" ->
                    IF vwap = None THEN anchor
                    ELSE (TapeWeight * vwap + (100 - TapeWeight) * anchor) \div 100
              [] model = "view" -> (100 * (anchor - 500 * Beta)) \div (100 - Beta)
    IN  Clamp(value, 1000, 99000)

(* The maker fee of one contract, to the nearest cent.                     *)
FeeCents(fair) ==
    LET p == fair \div 100
    IN  (2 * MakerFee * p * (1000 - p) + 10000000) \div 20000000

HalfSpread(fair, imbalanced) ==
    LET target == TargetSpread + (IF imbalanced THEN ImbalanceSpread ELSE 0)
    IN  Larger(1, Larger(target \div 2, (MinSpread + 1) \div 2)) + FeeCents(fair)

(* Mutant: the liquidity parameter is left where the risk limits put it.   *)
MutInventoryB == (1000 * MaxPosition) \div LogOdds

(* lmsr_b_from_risk, and the floor of 25 per contract quoted.              *)
InventoryB == Larger((1000 * MaxPosition) \div LogOdds, 25 * QuoteSize)

(* A position limit of 0 or a band that ends at 50 has no skew.            *)
Unskewed == MaxPosition = 0 \/ MaxQuotePrice <= 50

(* 1000 * exp(inventory / b), to second order: |inventory| is far below b. *)
OddsShift(inventory) ==
    1000 + (1000 * inventory) \div InventoryB
         + (500 * inventory * inventory) \div (InventoryB * InventoryB)

(* lmsr_skewed_fair_value, to a tenth of a cent.                           *)
SkewedFairValue(fair, inventory) ==
    IF Unskewed \/ inventory = 0 THEN fair
    ELSE LET c == fair \div 100
         IN  100 * ((1000000 * c) \div (1000 * c + (1000 - c) * OddsShift(inventory)))

(* Flow imbalance leans the value towards what the takers buy.             *)
Leaned(fair, takerSide) ==
    CASE takerSide = "yes" -> fair + FlowLean
      [] takerSide = "no" -> fair - FlowLean
      [] OTHER -> fair

ComputeQuotes(value, half) ==
    [yes |-> Clamp(FloorCents(value - 1000 * half), 1, 98),
     no |-> Clamp(CeilCents(value + 1000 * half), 2, 99)]

(* A quote that would buy a longshot gives more edge.                      *)
LongshotShaded(raw) ==
    [yes |-> IF raw.yes < LongshotThreshold
               THEN Larger(1, raw.yes - LongshotEdge) ELSE raw.yes,
     no |-> IF Complement(raw.no) < LongshotThreshold
               THEN Smaller(99, raw.no + LongshotEdge) ELSE raw.no]

(* With inventory on, the reducing side quotes at the value plus an edge.  *)
Unwound(raw, value, inventory) ==
    CASE inventory > 0 ->
            [raw EXCEPT !.no = Larger(raw.yes + 1, CeilCents(value + UnwindEdge))]
      [] inventory < 0 ->
            [raw EXCEPT !.yes = Smaller(raw.no - 1, FloorCents(value - UnwindEdge))]
      [] OTHER -> raw

(* passive_bid and passive_ask; None: no price in range is passive.        *)
Passive(raw, visible) ==
    [yes |-> IF BestAsk(visible).price <= 1 THEN None
             ELSE Smaller(raw.yes, BestAsk(visible).price - 1),
     no |-> IF BestBid(visible).price >= 99 THEN None
            ELSE Larger(raw.no, BestBid(visible).price + 1)]

(* The two prices update() wants, from the book without our own quotes.    *)
Desired(visible, fair, takerSide, inventory) ==
    LET value == SkewedFairValue(Leaned(fair, takerSide), inventory)
        raw == LongshotShaded(ComputeQuotes(value, HalfSpread(fair, takerSide # "none")))
    IN  Passive(Unwound(raw, value, inventory), visible)

(* Both sides rest and do not cross: the guards of update().               *)
Priceable(visible) == TwoSided(visible) /\ BestBid(visible).price < BestAsk(visible).price

(* The inventory brake: the accumulating side stops at the cap.            *)
Suppressed(inventory, reduceOnly) ==
    {s \in Sides :
        LET toward == IF s = "yes" THEN inventory ELSE -inventory
        IN  (reduceOnly /\ toward >= 0) \/ toward >= CapLots * QuoteSize}
=============================================================================
