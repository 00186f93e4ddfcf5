-------------------------- MODULE SimulationModels --------------------------
(***************************************************************************)
(* The pure models a simulated order goes through: admission               *)
(* (exchange.py, rejection_models.py, latency_models.py), fills against    *)
(* the displayed book (fill_models.py), queue position (queue_models.py),  *)
(* fees, slippage and settlement.  Prices are cents of the payout.  Money  *)
(* that a basis-point rate enters is counted in ten-thousandths of a cent  *)
(* (Amount), so that no division is left to round; the code computes it    *)
(* with 128 digits, which hold every product it can form exactly.          *)
(***************************************************************************)
EXTENDS OrderBook

(* The payout of one contract, Decimal("1"), in cents. *)
One == 100

BasisPoints == 10000

Amount(cents) == cents * BasisPoints

Total(numbers) == MapThenSumSet(LAMBDA i : numbers[i], DOMAIN numbers)

Least(a, b) == IF a <= b THEN a ELSE b

-----------------------------------------------------------------------------
(* Admission *)

(* BoundedRejectionModel.evaluate with the default bounds the runner uses: *)
(* the first reason that applies, in the order of the code.                *)
RejectionReason(intent, market_status, required, available) ==
  IF intent.limit_price = None \/ intent.limit_price < 0 \/ intent.limit_price > One
    THEN "INVALID_PRICE"
  ELSE IF intent.quantity <= 0
    THEN "INVALID_QUANTITY"
  ELSE IF market_status # "OPEN"
    THEN "MARKET_CLOSED"
  ELSE IF required # None /\ (available = None \/ available < required)
    THEN "INSUFFICIENT_BALANCE"
  ELSE "ACCEPTED"

(* FixedLatencyModel.activation_time *)
activation_time(accepted_at, latency) == accepted_at + latency

(* DeterministicSimulatedExchange.admit_order: a rejected order has no     *)
(* times at all.                                                           *)
admit_order(intent, market_status, submitted_at, latency, required, available) ==
  LET reason   == RejectionReason(intent, market_status, required, available)
      accepted == reason = "ACCEPTED"
  IN  [reason       |-> reason,
       submitted_at |-> submitted_at,
       accepted_at  |-> IF accepted THEN submitted_at ELSE None,
       activates_at |-> IF accepted THEN activation_time(submitted_at, latency) ELSE None]

rejected(admission) == admission.reason # "ACCEPTED"

(* SimulatedExchangeOrderAdmission.__post_init__ *)
AdmissionValid(admission) ==
  IF rejected(admission)
  THEN admission.accepted_at = None /\ admission.activates_at = None
  ELSE /\ admission.accepted_at # None /\ admission.activates_at # None
       /\ admission.activates_at >= admission.accepted_at

-----------------------------------------------------------------------------
(* Fills *)

(* _is_executable *)
IsExecutable(side, limit_price, level_price, allow_touch) ==
  \/ allow_touch /\ level_price = limit_price
  \/ IF side = "BUY" THEN level_price < limit_price ELSE level_price > limit_price

(* _opposite_side_levels *)
OppositeSideLevels(book, side) == IF side = "BUY" THEN book.asks ELSE book.bids

Component(price, quantity, role) ==
  [price |-> price, quantity |-> quantity, liquidity_role |-> role]

notional(component) == component.price * component.quantity

LiquidityRoles == {"MAKER", "TAKER", "UNKNOWN"}

FillComponents == [price : Int, quantity : Int, liquidity_role : LiquidityRoles]

FillEstimates ==
  [side : {"BUY", "SELL"}, limit_price : Int \cup {None}, order_quantity : Int,
   filled_quantity : Int, remaining_quantity : Int,
   average_fill_price : (Int \X Int) \cup {None}, liquidity_role : LiquidityRoles,
   components : Seq(FillComponents)]

(* FillEstimate; the average price is kept as the exact fraction. *)
FillEstimate(intent, remaining, role, components) ==
  [side               |-> intent.side,
   limit_price        |-> intent.limit_price,
   order_quantity     |-> intent.quantity,
   filled_quantity    |-> intent.quantity - remaining,
   remaining_quantity |-> remaining,
   average_fill_price |->
     IF components = <<>> THEN None
     ELSE <<Total([i \in DOMAIN components |-> notional(components[i])]),
            intent.quantity - remaining>>,
   liquidity_role     |-> role,
   components         |-> components]

has_fill(fill) == fill.filled_quantity > 0

is_partial(fill) == 0 < fill.filled_quantity /\ fill.filled_quantity < fill.order_quantity

(* One level of _estimate_book_fill: the loop ends when the order is       *)
(* filled or the level is not executable; an empty level is passed over.   *)
TakeLevel(intent, allow_touch, walk, level) ==
  LET quantity == Least(walk.remaining, level.quantity)
  IN  IF \/ walk.stopped \/ walk.remaining = 0
         \/ ~IsExecutable(intent.side, intent.limit_price, level.price, allow_touch)
      THEN [walk EXCEPT !.stopped = TRUE]
      ELSE IF quantity = 0 THEN walk
      ELSE [walk EXCEPT !.remaining = @ - quantity,
                        !.components = Append(@, Component(level.price, quantity, "TAKER"))]

(* The walk along the opposite side from its best level: what is left and  *)
(* what was taken after each number of levels.                             *)
BookWalk(levels, intent, allow_touch) ==
  LET walk[n \in 0..Len(levels)] ==
        IF n = 0
        THEN [remaining |-> intent.quantity, components |-> <<>>, stopped |-> FALSE]
        ELSE TakeLevel(intent, allow_touch, walk[n - 1], levels[n])
  IN  walk

(* _estimate_book_fill *)
EstimateBookFill(book, intent, allow_touch) ==
  LET levels == OppositeSideLevels(book, intent.side)
      end    == BookWalk(levels, intent, allow_touch)[Len(levels)]
  IN  FillEstimate(intent, end.remaining,
                   IF end.components = <<>> THEN "UNKNOWN" ELSE "TAKER", end.components)

(* TouchFillModel and TradeThroughFillModel, as from_configuration selects *)
(* them by name.                                                           *)
evaluate_fill(fill_model, book, intent) ==
  EstimateBookFill(book, intent, fill_model = "touch")

-----------------------------------------------------------------------------
(* Queue position *)

(* _crosses_spread *)
CrossesSpread(book, side, price) ==
  IF side = "BUY"
  THEN book.asks # <<>> /\ price >= Head(book.asks).price
  ELSE book.bids # <<>> /\ price <= Head(book.bids).price

(* _same_side_volume_ahead *)
SameSideVolumeAhead(book, side, price) ==
  LET levels == IF side = "BUY" THEN book.bids ELSE book.asks
      ahead  == {i \in DOMAIN levels : IF side = "BUY" THEN levels[i].price >= price
                                       ELSE levels[i].price <= price}
  IN  Total([i \in ahead |-> levels[i].quantity])

(* VolumeAheadQueueModel.estimate *)
QueueEstimate(book, side, price) ==
  LET crosses == CrossesSpread(book, side, price)
  IN  [crosses_spread |-> crosses,
       rests_on_book  |-> ~crosses,
       queue_position |-> IF crosses THEN 0 ELSE SameSideVolumeAhead(book, side, price)]

-----------------------------------------------------------------------------
(* Fees, slippage, settlement *)

(* FeeTableModel.estimate with the rule of the component's liquidity role. *)
FeeEstimate(rules, component) ==
  LET rule   == rules[component.liquidity_role]
      fee    == notional(component) * rule.fee_rate_bps + Amount(rule.fixed_fee)
      rebate == notional(component) * rule.rebate_rate_bps + Amount(rule.fixed_rebate)
  IN  [notional       |-> Amount(notional(component)),
       fee_amount     |-> fee,
       rebate_amount  |-> rebate,
       net_fee_amount |-> fee - rebate]

(* NoSlippageModel and BpsSlippageModel: only a taker slips, against its   *)
(* side, and a sale not below zero.  A purchase has no such bound: its     *)
(* price may end above the payout.                                         *)
SlippageEstimate(slippage_bps, side, component) ==
  LET price    == Amount(component.price)
      bps      == IF component.liquidity_role = "TAKER" THEN slippage_bps ELSE 0
      impact   == component.price * bps
      adjusted == IF side = "BUY" THEN price + impact
                  ELSE IF price - impact < 0 THEN 0 ELSE price - impact
      per_unit == IF adjusted >= price THEN adjusted - price ELSE price - adjusted
  IN  [input_price              |-> price,
       adjusted_price           |-> adjusted,
       slippage_amount_per_unit |-> per_unit,
       total_slippage           |-> per_unit * component.quantity]

(* NoSettlementModel.estimate *)
NoSettlementEstimate(outcome, quantity) ==
  [outcome |-> outcome, quantity |-> quantity, status |-> "UNRESOLVED",
   payout_amount |-> 0, is_winning_outcome |-> FALSE]

(* BinarySettlementModel.estimate, given its single winner. *)
BinarySettlementEstimate(outcome, quantity, winner, payout_per_unit) ==
  [outcome |-> outcome, quantity |-> quantity, status |-> "SETTLED",
   payout_amount |-> IF outcome = winner THEN payout_per_unit * quantity ELSE 0,
   is_winning_outcome |-> outcome = winner]
=============================================================================
