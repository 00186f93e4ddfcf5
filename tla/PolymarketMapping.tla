------------------------- MODULE PolymarketMapping -------------------------
(***************************************************************************)
(* What the Polymarket adapter makes of one raw message                    *)
(* (adapters/polymarket/raw_models.py, mapper.py).  Books and changes are  *)
(* those of an outcome token already; messages carry no sequence; one      *)
(* price_change message may hold changes of several tokens.                *)
(***************************************************************************)
EXTENDS OrderBook

(* _map_bid_levels, _map_ask_levels *)
MapBidLevels(levels) == SortByPrice(levels, TRUE)
MapAskLevels(levels) == SortByPrice(levels, FALSE)

map_polymarket_order_book_snapshot(m, contract) ==
  [contract |-> contract,
   sequence |-> None,
   bids     |-> MapBidLevels(m.bids),
   asks     |-> MapAskLevels(m.asks)]

(* map_polymarket_order_book_snapshot refuses a book of another token, and *)
(* (through OrderBookSnapshot) one that repeats a price.                   *)
SnapshotMaps(m, expected_asset_id) ==
  /\ m.asset_id = expected_asset_id
  /\ StrictlySorted(MapBidLevels(m.bids), MapAskLevels(m.asks))

(* _map_price_change: size zero deletes the level. *)
MapPriceChange(change) ==
  [side     |-> change.side,
   price    |-> change.price,
   quantity |-> change.size,
   action   |-> IF change.size = 0 THEN "delete" ELSE "upsert"]

(* The changes that are of some tokens, in their order. *)
ChangesOf(changes, asset_ids) ==
  LET kept[n \in 0..Len(changes)] ==
        IF n = 0 THEN <<>>
        ELSE IF changes[n].asset_id \in asset_ids THEN Append(kept[n - 1], changes[n])
        ELSE kept[n - 1]
  IN  kept[Len(changes)]

TokenChanges(m, asset_id) == ChangesOf(m.price_changes, {asset_id})

(* map_polymarket_order_book_delta refuses a message without a change of   *)
(* the expected token.                                                     *)
DeltaMaps(m, expected_asset_id) ==
  \E i \in DOMAIN m.price_changes : m.price_changes[i].asset_id = expected_asset_id

map_polymarket_order_book_delta(m, contract, expected_asset_id) ==
  LET changes == TokenChanges(m, expected_asset_id)
  IN  [contract          |-> contract,
       sequence          |-> None,
       previous_sequence |-> None,
       changes           |-> [i \in DOMAIN changes |-> MapPriceChange(changes[i])]]

(* PolymarketRawTrade.validate_trade_identity *)
PolymarketTradeOk(t) ==
  t.trade_id # None \/ t.transaction_hash # None \/ t.timestamp # None

(* _trade_exchange_occurred_at *)
PolymarketTradeTime(t) ==
  CASE t.timestamp # None -> t.timestamp
    [] t.timestamp = None /\ t.match_time # None -> t.match_time
    [] OTHER -> t.last_update

(* _polymarket_exchange_trade_id: without an id and a hash, a digest of    *)
(* what the message says.                                                  *)
PolymarketTradeId(t) ==
  CASE t.trade_id # None -> t.trade_id
    [] t.trade_id = None /\ t.transaction_hash # None -> t.transaction_hash
    [] OTHER -> <<t.asset_id, t.timestamp, t.match_time, t.price, t.size, t.side>>

(* map_polymarket_trade refuses a trade of another token, and one without  *)
(* size or time.                                                           *)
PolymarketTradeMaps(t, expected_asset_id) ==
  /\ t.asset_id = expected_asset_id
  /\ t.size # None
  /\ PolymarketTradeTime(t) # None

map_polymarket_trade(t) ==
  [trade_id    |-> PolymarketTradeId(t),
   price       |-> t.price,
   quantity    |-> t.size,
   aggressor   |-> t.side,
   occurred_at |-> PolymarketTradeTime(t)]

(* PolymarketWebSocketSubscriptionState.apply_update; it raises rather than *)
(* leave no token.                                                          *)
apply_update(tokens, plan) ==
  IF plan.operation = "subscribe" THEN tokens \union plan.token_ids
  ELSE tokens \ plan.token_ids

UpdateApplies(tokens, plan) == apply_update(tokens, plan) # {}
=============================================================================
