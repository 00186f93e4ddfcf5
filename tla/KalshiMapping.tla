--------------------------- MODULE KalshiMapping ---------------------------
(***************************************************************************)
(* What the Kalshi adapter makes of one raw message: the validity of the   *)
(* raw models (adapters/kalshi/raw_models.py), the classification of its   *)
(* sequence (adapters/kalshi/websocket.py) and its canonical form          *)
(* (adapters/kalshi/mapper.py).  A raw book has a yes and a no side, both  *)
(* bids; the canonical book is the one of the yes contract.                *)
(***************************************************************************)
EXTENDS OrderBook

CentsPerContract == 100

UniquePrices(levels) ==
  \A i, j \in DOMAIN levels : levels[i].price = levels[j].price => i = j

(* A bug: only a book with two sides is accepted. *)
BothSidesRequired(m) ==
  CASE m.message_type = "snapshot" -> m.yes # <<>> /\ m.no # <<>>
    [] m.message_type = "delta" ->
         IF m.action = "delete" THEN m.quantity \in {None, 0} ELSE m.quantity # None

(* KalshiRawOrderBookMessage.validate_message_shape.  Note the refusal of  *)
(* a snapshot whose two sides are empty.                                   *)
OrderBookMessageOk(m) ==
  CASE m.message_type = "snapshot" ->
         /\ m.yes # <<>> \/ m.no # <<>>
         /\ UniquePrices(m.yes) /\ UniquePrices(m.no)
    [] m.message_type = "delta" ->
         IF m.action = "delete" THEN m.quantity \in {None, 0} ELSE m.quantity # None

(* check_kalshi_websocket_sequence *)
SequenceStatus(previous, received) ==
  CASE received = None                                      -> "missing"
    [] received # None /\ previous = None                   -> "ok"
    [] received # None /\ previous # None ->
         CASE received = previous + 1 -> "ok"
           [] received = previous     -> "duplicate"
           [] received < previous     -> "stale"
           [] received > previous + 1 -> "gap"

InvalidatesStream(previous, received) ==
  \/ SequenceStatus(previous, received) = "gap"
  \/ SequenceStatus(previous, received) = "missing" /\ previous # None

(* A bug: whatever is no gap is taken. *)
StaleTaken(previous, m) ==
  CASE m.sequence = None                                      -> "missing"
    [] m.sequence # None /\ previous = None                   -> "ok"
    [] m.sequence # None /\ previous # None ->
         IF m.sequence > previous + 1 THEN "gap" ELSE "ok"

(* check_kalshi_order_book_sequence, for a parsed order-book message *)
OrderBookSequenceStatus(previous, m) ==
  LET expected == previous + 1
  IN  IF m.sequence = None THEN "missing"
      ELSE IF previous = None THEN "ok"
      ELSE CASE m.sequence = expected -> "ok"
             [] m.sequence = previous -> "duplicate"
             [] m.sequence < previous -> "stale"
             [] OTHER                 -> "gap"

InvalidatesBook(previous, m) ==
  \/ OrderBookSequenceStatus(previous, m) = "gap"
  \/ OrderBookSequenceStatus(previous, m) = "missing" /\ previous # None

(* _kalshi_no_cents_to_yes_ask_decimal *)
YesAsk(no_price) == CentsPerContract - no_price

(* _map_yes_bid_levels *)
MapYesBidLevels(levels) == SortByPrice(levels, TRUE)

(* _map_no_ask_levels *)
MapNoAskLevels(levels) ==
  SortByPrice([i \in DOMAIN levels |->
                 [price |-> YesAsk(levels[i].price), quantity |-> levels[i].quantity]],
              FALSE)

map_kalshi_order_book_snapshot(m, contract) ==
  [contract |-> contract,
   sequence |-> m.sequence,
   bids     |-> MapYesBidLevels(m.yes),
   asks     |-> MapNoAskLevels(m.no)]

(* _map_delta_level and _map_delta_quantity *)
MapDeltaLevel(m) ==
  [side     |-> IF m.side = "yes" THEN "BUY" ELSE "SELL",
   price    |-> IF m.side = "yes" THEN m.price ELSE YesAsk(m.price),
   quantity |-> IF m.action = "delete" THEN 0 ELSE m.quantity,
   action   |-> IF m.action = "delete" THEN "delete" ELSE "upsert"]

map_kalshi_order_book_delta(m, contract, previous_sequence) ==
  [contract          |-> contract,
   sequence          |-> m.sequence,
   previous_sequence |-> previous_sequence,
   changes           |-> <<MapDeltaLevel(m)>>]

(* A bug: the other price is used as it stands. *)
TradePriceOfEither(t, outcome) ==
  LET direct == IF outcome = "yes" THEN t.yes_price ELSE t.no_price
      other  == IF outcome = "yes" THEN t.no_price ELSE t.yes_price
  IN  IF direct # None THEN direct ELSE other

(* _kalshi_trade_price: the price of the outcome asked for, or the exact   *)
(* binary complement of the other one.                                     *)
TradePrice(t, outcome) ==
  LET direct == IF outcome = "yes" THEN t.yes_price ELSE t.no_price
      other  == IF outcome = "yes" THEN t.no_price ELSE t.yes_price
  IN  IF direct # None THEN direct ELSE CentsPerContract - other

(* _map_trade_aggressor_side refuses a taker side it does not know (the    *)
(* raw model takes any text for one); otherwise the taker bought or sold   *)
(* the outcome asked for.                                                  *)
TakerSideKnown(t) == t.taker_side \in {None, "yes", "no"}

TradeAggressor(t, outcome) ==
  IF t.taker_side = None THEN None
  ELSE IF t.taker_side = outcome THEN "BUY" ELSE "SELL"

(* KalshiRawTrade.validate_trade_shape *)
TradeOk(t) == t.yes_price # None \/ t.no_price # None

map_kalshi_trade(t, outcome) ==
  [trade_id  |-> t.trade_id,
   outcome   |-> outcome,
   price     |-> TradePrice(t, outcome),
   quantity  |-> t.count,
   aggressor |-> TradeAggressor(t, outcome)]
=============================================================================
