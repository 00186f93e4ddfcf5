---------------------------- MODULE ScenarioRun -----------------------------
(***************************************************************************)
(* The deterministic scenario runner of simulation/scenarios.py.  A        *)
(* scenario is an initial book, market events and order actions, each with *)
(* a sequence and a scheduled time, and a configuration.  The runner takes *)
(* the order intents one by one: it admits the order, looks for the        *)
(* request that cancels it, projects the book to the order's activation,   *)
(* fills it from the book or, if it rests, from later trades, and prices   *)
(* the fill.  Each order is judged on the whole event list, so what a live *)
(* exchange would do in time order is here a set of filters over times:    *)
(* the properties say that the filters amount to the timeline.             *)
(*                                                                         *)
(* A market event's payload stands for its canonical hash: two deliveries  *)
(* are duplicates when the payloads are equal.  Times are small integers.  *)
(* The exchange of the initial book, whether that book is valid, and the   *)
(* market status the runner is given travel with the scenario.             *)
(***************************************************************************)
EXTENDS SimulationModels, FiniteSets

VARIABLES phase,                  \* new, ready, running, done, raised
          reason,                 \* why the run raised
          scenario,
          final_book,
          order_results,
          used_cancel_sequences,
          run                     \* the SimulationScenarioRun returned

scenarioVars == <<phase, reason, scenario, final_book, order_results,
                  used_cancel_sequences, run>>

-----------------------------------------------------------------------------
(* What the canonical schemas hold of the parts of a scenario *)

(* OrderBookDeltaLevel *)
IsChange(change) ==
  change.side \in {"BUY", "SELL"} /\ change.price \in Int /\ change.quantity \in Nat

(* OrderBookSnapshot, OrderBookDelta, Trade: what an event carries. *)
IsPayload(p) ==
  \/ p.type = "snapshot" /\ IsBook(p.book) /\ p.is_valid \in BOOLEAN
  \/ /\ p.type = "delta" /\ p.delta.sequence \in Int \cup {None}
     /\ IsSequence(p.delta.changes) /\ \A i \in DOMAIN p.delta.changes : IsChange(p.delta.changes[i])
  \/ p.type = "trade" /\ p.price \in Int /\ p.quantity \in Nat

(* ScheduledMarketEvent *)
IsMarketEvent(event) ==
  event.sequence \in Int /\ event.scheduled_at \in Int /\ IsPayload(event.payload)

(* ScheduledOrderAction: an OrderIntent or a CancelOrderRequest. *)
IsOrderAction(action) ==
  /\ action # None /\ action.sequence \in Int /\ action.scheduled_at \in Int
  /\ action.type = "order_intent" =>
       /\ action.side \in {"BUY", "SELL"} /\ action.quantity \in Int
       /\ action.limit_price \in Int \cup {None}

(* SimulationConfiguration: latencies are not negative. *)
IsConfiguration(c) ==
  /\ c.fixed_latency_ms \in Nat \cup {None} /\ c.balance \in Int \cup {None}
  /\ c.disconnected_at \in Int \cup {None} /\ c.reconnected_at \in Int \cup {None}

IsScenario(s) ==
  /\ {"exchange", "market_status", "initial_book", "initial_valid", "market_events",
       "order_actions", "configuration"} \subseteq DOMAIN s
  /\ IsBook(s.initial_book) /\ IsConfiguration(s.configuration)
  /\ IsSequence(s.market_events)
  /\ \A i \in DOMAIN s.market_events : IsMarketEvent(s.market_events[i])
  /\ IsSequence(s.order_actions)
  /\ \A i \in DOMAIN s.order_actions : IsOrderAction(s.order_actions[i])

(* SimulatedScenarioCancelResult, SimulatedScenarioDisconnectResult *)
CancelResults ==
  [sequence : Int, target_order_sequence : Int, effective_at : Int,
   outcome_code : {"before_activation", "after_activation_no_fill", "fill_race_lost"}]

DisconnectResults ==
  [target_order_sequence : Int, disconnected_at : Int, reconnected_at : Int \cup {None}]

(* Why a scenario, a configuration, an order or the end of a run raises. *)
Reasons ==
  {"initial_book_invalid", "sequence_duplicate", "market_event_mismatch",
   "order_action_mismatch", "latency", "fill_model", "fees", "slippage", "settlement",
   "winners", "balance", "disconnect", "book_invalid", "book_gap", "winner_count",
   "order_result_invalid", "cancel_unmatched", "multi_leg", "artifact_sequence_duplicate",
   "final_book_invalid"}

(* None is none of the things an optional field may hold. *)
ASSUME NoneAssumption ==
  None \notin Int \cup Reasons \cup Snapshots \cup FillEstimates \cup CancelResults
                 \cup DisconnectResults

-----------------------------------------------------------------------------
(* Scenario construction *)

(* _sort_and_validate_unique_sequences *)
UniqueSequences(items) ==
  \A i, j \in DOMAIN items : items[i].sequence = items[j].sequence => i = j

SortedBySequence(items) ==
  LET sequences == Ascending({items[i].sequence : i \in DOMAIN items})
  IN  [n \in DOMAIN items |->
         items[CHOOSE i \in DOMAIN items : items[i].sequence = sequences[n]]]

ContractOf(payload) ==
  CASE payload.type = "snapshot" -> payload.book.contract
    [] payload.type = "delta"    -> payload.delta.contract
    [] payload.type = "trade"    -> payload.contract

(* _validate_market_event_lineage *)
MarketEventLineage(events, book) ==
  \A i \in DOMAIN events : ContractOf(events[i].payload) = book.contract

(* _validate_order_action_lineage: an intent names its contract, a cancel  *)
(* only its exchange.                                                      *)
OrderActionLineage(s) ==
  \A i \in DOMAIN s.order_actions :
    LET a == s.order_actions[i]
    IN  IF a.type = "order_intent" THEN a.contract = s.initial_book.contract
        ELSE a.exchange = s.exchange

(* SimulationScenario.__post_init__ *)
ScenarioError(s) ==
  IF ~s.initial_valid
    THEN "initial_book_invalid"
  ELSE IF ~UniqueSequences(s.market_events) \/ ~UniqueSequences(s.order_actions)
    THEN "sequence_duplicate"
  ELSE IF ~MarketEventLineage(s.market_events, s.initial_book)
    THEN "market_event_mismatch"
  ELSE IF ~OrderActionLineage(s)
    THEN "order_action_mismatch"
  ELSE None

SimulationScenario(s) ==
  [s EXCEPT !.market_events = SortedBySequence(@),
            !.order_actions = SortedBySequence(@)]

-----------------------------------------------------------------------------
(* Configuration *)

(* _fee_table_model_from_configuration: FeeRule refuses negative values. *)
FeesValid(c) ==
  \A role \in DOMAIN c.fees :
    /\ c.fees[role].fee_rate_bps >= 0 /\ c.fees[role].fixed_fee >= 0
    /\ c.fees[role].rebate_rate_bps >= 0 /\ c.fees[role].fixed_rebate >= 0

(* _slippage_model_for_scenario *)
SlippageValid(c) ==
  c.slippage_model = "bps" =>
    IF c.taker_slippage_bps = None THEN FALSE ELSE c.taker_slippage_bps >= 0

SlippageBps(c) == IF c.slippage_model = "none" THEN 0 ELSE c.taker_slippage_bps

(* _settlement_model_for_scenario *)
SettlementValid(c) == c.settlement_model = "binary" => c.payout_per_unit > 0

(* _settlement_winning_outcome_ids_from_configuration: how many winners    *)
(* there may be is left to the settlement model.                           *)
WinnersValid(c) ==
  c.winners # None =>
    /\ c.settlement_model # "none"
    /\ \A i, j \in DOMAIN c.winners : c.winners[i] = c.winners[j] => i = j

Winners(c) == IF c.winners = None THEN <<>> ELSE c.winners

(* _available_balance_from_configuration *)
BalanceValid(c) == c.balance # None => c.balance >= 0

(* _disconnect_window_from_configuration *)
DisconnectValid(c) ==
  c.reconnected_at # None =>
    IF c.disconnected_at = None THEN FALSE ELSE c.reconnected_at > c.disconnected_at

(* The prologue of run, in its order, after the runner was built from the  *)
(* same configuration: from_configuration validates it                     *)
(* (_validate_runner_configuration) before it asks for the latency         *)
(* (FixedLatencyModel.from_configuration).                                 *)
ConfigurationError(c) ==
  IF c.fill_model \notin {"touch", "trade_through"} THEN "fill_model"
  ELSE IF c.fixed_latency_ms = None THEN "latency"
  ELSE IF ~FeesValid(c) THEN "fees"
  ELSE IF ~SlippageValid(c) THEN "slippage"
  ELSE IF ~SettlementValid(c) THEN "settlement"
  ELSE IF ~WinnersValid(c) THEN "winners"
  ELSE IF ~BalanceValid(c) THEN "balance"
  ELSE IF ~DisconnectValid(c) THEN "disconnect"
  ELSE None

-----------------------------------------------------------------------------
(* Market events *)

(* Why apply_order_book_delta raises, for a projected book. *)
DeltaError(projected, delta) ==
  IF SnapshotRefused(projected) THEN "book_invalid"
  ELSE IF ~DeltaApplies(projected.book, delta) THEN "book_gap"
  ELSE None

(* _apply_scheduled_market_event: a snapshot replaces the book, valid or   *)
(* not; trades leave it alone; a delta that does not follow it raises.     *)
ApplyEvent(projected, event) ==
  LET p == event.payload
  IN  IF projected.raised # None \/ p \in projected.seen THEN projected
      ELSE CASE p.type = "snapshot" ->
                  [projected EXCEPT !.seen = @ \cup {p}, !.book = p.book,
                                    !.is_valid = p.is_valid]
             [] p.type = "trade" -> [projected EXCEPT !.seen = @ \cup {p}]
             [] p.type = "delta" ->
                  IF DeltaError(projected, p.delta) # None
                  THEN [projected EXCEPT !.raised = DeltaError(projected, p.delta)]
                  ELSE [projected EXCEPT !.seen = @ \cup {p},
                                         !.book = apply_order_book_delta(@, p.delta)]

(* _project_book_until: the events scheduled up to `through`, in the order *)
(* of their sequences, each payload once.                                  *)
ProjectionWalk(s, through) ==
  LET walk[n \in 0..Len(s.market_events)] ==
        IF n = 0
        THEN [book |-> s.initial_book, is_valid |-> TRUE, seen |-> {}, raised |-> None]
        ELSE IF through # None /\ s.market_events[n].scheduled_at > through THEN walk[n - 1]
        ELSE ApplyEvent(walk[n - 1], s.market_events[n])
  IN  walk

ProjectBookUntil(s, through) == ProjectionWalk(s, through)[Len(s.market_events)]

(* _duplicate_market_event_count *)
DuplicateEventCount(s) ==
  Len(s.market_events)
    - Cardinality({s.market_events[i].payload : i \in DOMAIN s.market_events})

(* _scheduled_at_during_disconnect *)
DuringDisconnect(c, time) ==
  c.disconnected_at # None
    /\ c.disconnected_at <= time
    /\ (c.reconnected_at = None \/ time < c.reconnected_at)

(* _trade_fills_resting_intent *)
TradeFillsRestingIntent(trade, intent) ==
  /\ intent.limit_price # None
  /\ trade.outcome = intent.outcome
  /\ IF intent.side = "BUY"
     THEN trade.aggressor = "SELL" /\ trade.price <= intent.limit_price
     ELSE trade.aggressor = "BUY" /\ trade.price >= intent.limit_price

(* A bug: a trade delivered again fills again. *)
FillFromEveryEvent(intent, rest, event) ==
  LET p        == event.payload
      quantity == Least(rest.remaining, p.quantity)
  IN  IF rest.remaining = 0 \/ p.type # "trade" \/ ~TradeFillsRestingIntent(p, intent)
      THEN rest
      ELSE [rest EXCEPT !.remaining = @ - quantity,
                        !.components = Append(@, Component(p.price, quantity, "MAKER"))]

(* One event of _fill_resting_order_from_trade_events. *)
FillFromEvent(intent, rest, event) ==
  LET p == event.payload
  IN  IF rest.remaining = 0 \/ p \in rest.seen THEN rest
      ELSE IF p.type # "trade" THEN [rest EXCEPT !.seen = @ \cup {p}]
      ELSE IF ~TradeFillsRestingIntent(p, intent) THEN [rest EXCEPT !.seen = @ \cup {p}]
      ELSE LET quantity == Least(rest.remaining, p.quantity)
           IN  [seen       |-> rest.seen \cup {p},
                remaining  |-> rest.remaining - quantity,
                components |-> Append(rest.components, Component(p.price, quantity, "MAKER"))]

(* The loop over the market events, of which only the ones at the places   *)
(* in span may fill: what is left and what was filled after each number of *)
(* events.                                                                 *)
RestingWalk(s, intent, quantity, span) ==
  LET walk[n \in 0..Len(s.market_events)] ==
        IF n = 0 THEN [seen |-> {}, remaining |-> quantity, components |-> <<>>]
        ELSE IF n \notin span THEN walk[n - 1]
        ELSE FillFromEvent(intent, walk[n - 1], s.market_events[n])
  IN  walk

(* The events between an order's activation and its cancel, without those  *)
(* of the disconnect.                                                      *)
RestingSpan(s, activates_at, cancel) ==
  {i \in DOMAIN s.market_events :
     LET at == s.market_events[i].scheduled_at
     IN  /\ at >= activates_at
         /\ cancel = None \/ at <= cancel.scheduled_at
         /\ ~DuringDisconnect(s.configuration, at)}

RestingFill(intent, fill, end) ==
  IF has_fill(fill) \/ end.components = <<>> THEN fill
  ELSE FillEstimate(intent, end.remaining, "MAKER", end.components)

(* _fill_resting_order_from_trade_events: only an order that took nothing  *)
(* rests.                                                                  *)
FillRestingOrder(s, intent, activates_at, cancel, fill) ==
  RestingFill(intent, fill,
              RestingWalk(s, intent, fill.remaining_quantity,
                          RestingSpan(s, activates_at, cancel))[Len(s.market_events)])

-----------------------------------------------------------------------------
(* Order actions *)

(* _order_intent_actions, in the order of the actions *)
OrderIntents(s) ==
  LET intents == {i \in DOMAIN s.order_actions : s.order_actions[i].type = "order_intent"}
  IN  [n \in 1..Cardinality(intents) |-> s.order_actions[Ascending(intents)[n]]]

(* _cancel_request_actions: where they are among the actions. *)
CancelRequests(s) ==
  {i \in DOMAIN s.order_actions : s.order_actions[i].type = "cancel_order_request"}

(* _cancel_matches_order_intent *)
CancelMatches(s, cancel, action, used) ==
  /\ cancel.sequence \notin used
  /\ cancel.scheduled_at >= action.scheduled_at
  /\ cancel.exchange = s.exchange
  /\ cancel.correlation = action.correlation

(* A bug: the last request that matches is taken, not the first. *)
LastMatchingCancel(s, action, used) ==
  LET at(i)      == s.order_actions[i].scheduled_at
      candidates == {i \in CancelRequests(s) : CancelMatches(s, s.order_actions[i], action, used)}
  IN  IF candidates = {} THEN None
      ELSE s.order_actions[CHOOSE i \in candidates : \A j \in candidates : at(j) <= at(i)]

(* The order of the requests, by time and then by sequence. *)
RequestBefore(a, b) ==
  \/ a.scheduled_at < b.scheduled_at
  \/ a.scheduled_at = b.scheduled_at /\ a.sequence <= b.sequence

(* _matching_cancel_action: the first of the requests that match. *)
MatchingCancel(s, action, used) ==
  LET candidates == {i \in CancelRequests(s) : CancelMatches(s, s.order_actions[i], action, used)}
  IN  IF candidates = {} THEN None
      ELSE s.order_actions[CHOOSE i \in candidates : \A j \in candidates :
                             RequestBefore(s.order_actions[i], s.order_actions[j])]

(* _cancel_result: a request takes effect when it is made. *)
CancelResult(cancel, target, outcome) ==
  [sequence |-> cancel.sequence, target_order_sequence |-> target,
   effective_at |-> cancel.scheduled_at, outcome_code |-> outcome]

(* A bug: a sale is backed like a purchase. *)
BalanceAtLimit(intent) ==
  IF intent.limit_price = None THEN None
  ELSE IF intent.limit_price < 0 \/ intent.limit_price > One THEN None
  ELSE intent.quantity * intent.limit_price

(* _required_balance_for_intent *)
RequiredBalance(intent) ==
  IF intent.limit_price = None THEN None
  ELSE IF intent.limit_price < 0 \/ intent.limit_price > One THEN None
  ELSE intent.quantity
         * (IF intent.side = "BUY" THEN intent.limit_price ELSE One - intent.limit_price)

(* A bug: a post-only order may touch the other side.                      *)
PostOnlyCrossesStrictly(intent, book) ==
  /\ intent.post_only /\ intent.limit_price # None
  /\ IF intent.side = "BUY"
     THEN book.asks # <<>> /\ best_ask(book).price < intent.limit_price
     ELSE book.bids # <<>> /\ best_bid(book).price > intent.limit_price

(* _post_only_would_cross, of a book that best_ask or best_bid did not     *)
(* refuse.                                                                 *)
PostOnlyWouldCross(intent, book) ==
  /\ intent.post_only /\ intent.limit_price # None
  /\ IF intent.side = "BUY"
     THEN book.asks # <<>> /\ best_ask(book).price <= intent.limit_price
     ELSE book.bids # <<>> /\ best_bid(book).price >= intent.limit_price

(* _post_only_rejection_admission *)
PostOnlyRejection(admission) ==
  [admission EXCEPT !.reason = "POST_ONLY_WOULD_CROSS",
                    !.accepted_at = None, !.activates_at = None]

(* A bug: trades while the exchange was away count as before it. *)
FillWithoutCut(s, intent, activates_at, quantity) ==
  LET span == {i \in DOMAIN s.market_events : s.market_events[i].scheduled_at >= activates_at}
  IN  quantity - RestingWalk(s, intent, quantity, span)[Len(s.market_events)].remaining

(* The events between an order's activation and the disconnect. *)
PreDisconnectSpan(s, activates_at) ==
  {i \in DOMAIN s.market_events :
     /\ s.market_events[i].scheduled_at >= activates_at
     /\ s.market_events[i].scheduled_at < s.configuration.disconnected_at}

(* _pre_disconnect_resting_fill_quantity: what their trades would fill of  *)
(* the quantity.                                                           *)
PreDisconnectFill(s, intent, activates_at, quantity) ==
  quantity - RestingWalk(s, intent, quantity,
                         PreDisconnectSpan(s, activates_at))[Len(s.market_events)].remaining

(* _disconnect_result_for_order: reported for an order that was active and *)
(* not yet cancelled or filled when the exchange went away.                *)
DisconnectResult(s, intent, sequence, activates_at, cancel, fill) ==
  LET c     == s.configuration
      taken == IF fill.liquidity_role = "TAKER" THEN fill.filled_quantity ELSE 0
  IN  IF c.disconnected_at = None THEN None
      ELSE IF \/ activates_at >= c.disconnected_at
              \/ cancel # None /\ cancel.effective_at <= c.disconnected_at
              \/ taken >= intent.quantity
              \/ taken + PreDisconnectFill(s, intent, activates_at, intent.quantity - taken)
                   >= intent.quantity
        THEN None
      ELSE [target_order_sequence |-> sequence,
            disconnected_at |-> c.disconnected_at, reconnected_at |-> c.reconnected_at]

(* _estimate_settlement: nothing to settle without a fill, and nothing     *)
(* known without a winner; the binary model raises unless there is one.    *)
SettlementRaises(c, fill) ==
  has_fill(fill) /\ c.settlement_model = "binary" /\ Len(Winners(c)) > 1

EstimateSettlement(c, intent, fill) ==
  IF ~has_fill(fill) \/ (c.settlement_model = "binary" /\ Winners(c) = <<>>) THEN None
  ELSE IF c.settlement_model = "none"
    THEN NoSettlementEstimate(intent.outcome, fill.filled_quantity)
  ELSE BinarySettlementEstimate(intent.outcome, fill.filled_quantity,
                                Winners(c)[1], c.payout_per_unit)

OrderResult(sequence, action, admission) ==
  [sequence |-> sequence, action |-> action, admission |-> admission,
   activation_book |-> None, fill_estimate |-> None,
   fee_estimates |-> <<>>, slippage_estimates |-> <<>>,
   cancel_result |-> None, settlement_result |-> None, disconnect_result |-> None]

(* SimulatedScenarioOrderResult.__post_init__ refuses a result whose parts *)
(* do not go together.                                                     *)
OrderResultValid(r) ==
  LET no_outputs == /\ r.activation_book = None /\ r.fill_estimate = None
                    /\ r.fee_estimates = <<>> /\ r.slippage_estimates = <<>>
                    /\ r.settlement_result = None /\ r.disconnect_result = None
      before_activation == IF r.cancel_result = None THEN FALSE
                           ELSE r.cancel_result.outcome_code = "before_activation"
  IN  /\ AdmissionValid(r.admission)
      /\ r.settlement_result # None =>
           IF r.fill_estimate = None THEN FALSE
           ELSE /\ has_fill(r.fill_estimate)
                /\ r.settlement_result.quantity = r.fill_estimate.filled_quantity
      /\ IF rejected(r.admission) THEN no_outputs /\ r.cancel_result = None
         ELSE IF before_activation THEN no_outputs
         ELSE IF r.activation_book = None \/ r.fill_estimate = None THEN FALSE
         ELSE /\ Len(r.fee_estimates) = Len(r.fill_estimate.components)
              /\ Len(r.slippage_estimates) = Len(r.fill_estimate.components)

(* The cancel of an accepted order that reached its activation. *)
LateCancel(cancel, sequence, fill) ==
  IF cancel = None THEN None
  ELSE CancelResult(cancel, sequence,
                    IF has_fill(fill) THEN "fill_race_lost" ELSE "after_activation_no_fill")

(* What the models make of the fill of an order that reached its           *)
(* activation; the settlement may raise.                                   *)
PricedResult(s, sequence, action, admission, cancel, book, fill) ==
  LET c    == s.configuration
      late == LateCancel(cancel, sequence, fill)
  IN  [raised |-> IF SettlementRaises(c, fill) THEN "winner_count" ELSE None,
       result |->
         [OrderResult(sequence, action, admission) EXCEPT
            !.activation_book    = book,
            !.fill_estimate      = fill,
            !.fee_estimates      = [i \in DOMAIN fill.components |->
                                      FeeEstimate(c.fees, fill.components[i])],
            !.slippage_estimates = [i \in DOMAIN fill.components |->
                                      SlippageEstimate(SlippageBps(c), action.side,
                                                       fill.components[i])],
            !.cancel_result      = late,
            !.settlement_result  = EstimateSettlement(c, action, fill),
            !.disconnect_result  = DisconnectResult(s, action, sequence,
                                                    admission.activates_at, late, fill)]]

(* An order met by the book at its activation.  A book marked invalid      *)
(* raises whatever the order: best_ask or best_bid refuses it for a        *)
(* post-only order, the fill model's evaluate for any other.               *)
ActivatedOrder(s, sequence, action, admission, cancel, projected) ==
  IF projected.raised # None
    THEN [raised |-> projected.raised, result |-> None]
  ELSE IF SnapshotRefused(projected)
    THEN [raised |-> "book_invalid", result |-> None]
  ELSE IF PostOnlyWouldCross(action, projected.book)
    THEN [raised |-> None,
          result |-> OrderResult(sequence, action, PostOnlyRejection(admission))]
  ELSE PricedResult(s, sequence, action, admission, cancel, projected.book,
                    FillRestingOrder(s, action, admission.activates_at, cancel,
                                     evaluate_fill(s.configuration.fill_model,
                                                   projected.book, action)))

(* An admitted order: rejected, cancelled before it is active, or active. *)
AdmittedOrder(s, sequence, action, admission, cancel) ==
  IF rejected(admission)
    THEN [raised |-> None, result |-> OrderResult(sequence, action, admission)]
  ELSE IF cancel # None /\ cancel.scheduled_at < admission.activates_at
    THEN [raised |-> None,
          result |-> [OrderResult(sequence, action, admission) EXCEPT
                        !.cancel_result = CancelResult(cancel, sequence, "before_activation")]]
  ELSE ActivatedOrder(s, sequence, action, admission, cancel,
                      ProjectBookUntil(s, admission.activates_at))

(* _run_order_action: the result of one order, or why the run raises. *)
RunOrderAction(s, action, sequence, cancel) ==
  LET c == s.configuration
  IN  AdmittedOrder(s, sequence, action,
                    admit_order(action, s.market_status, action.scheduled_at,
                                c.fixed_latency_ms,
                                IF c.balance # None THEN RequiredBalance(action) ELSE None,
                                c.balance),
                    cancel)

-----------------------------------------------------------------------------
(* The result of the run *)

FilledQuantity(r) == IF r.fill_estimate = None THEN 0 ELSE r.fill_estimate.filled_quantity

(* _multi_leg_imbalance_result_from_configuration and the two parameters   *)
(* it reads: both or neither, at least two legs, each an order of the run. *)
MultiLegValid(c, results) ==
  /\ c.legs = None <=> c.target = None
  /\ c.legs # None =>
       /\ c.target > 0
       /\ Len(c.legs) >= 2
       /\ \A i, j \in DOMAIN c.legs : c.legs[i] = c.legs[j] => i = j
       /\ \A i \in DOMAIN c.legs : \E k \in DOMAIN results :
            results[k].action.sequence = c.legs[i]

(* SimulatedScenarioMultiLegImbalanceResult *)
MultiLegImbalance(c, results) ==
  IF c.legs = None THEN None
  ELSE LET filled == [i \in DOMAIN c.legs |->
                        FilledQuantity(results[CHOOSE k \in DOMAIN results :
                                                 results[k].action.sequence = c.legs[i]])]
           most   == CHOOSE q \in Range(filled) : \A p \in Range(filled) : p <= q
           least  == CHOOSE q \in Range(filled) : \A p \in Range(filled) : p >= q
       IN  [leg_fills           |-> filled,
            imbalanced_quantity |-> most - least,
            target_shortfall_quantity |->
              Total([i \in DOMAIN filled |->
                       IF filled[i] < c.target THEN c.target - filled[i] ELSE 0])]

(* A bug: the stride is one less than the artifacts an order can have. *)
ArtifactBaseShort(index) == 10 + (index * 6)

(* _ORDER_RESULT_ARTIFACT_BASE_SEQUENCE and _STRIDE *)
ArtifactBase(index) == 10 + (index * 7)

(* The artifacts of one order result, by their offsets from its base. *)
OrderArtifacts(index, r) ==
  LET parts == <<TRUE, r.fill_estimate # None, r.fee_estimates # <<>>,
                 r.slippage_estimates # <<>>, r.cancel_result # None,
                 r.settlement_result # None, r.disconnect_result # None>>
  IN  {[sequence |-> ArtifactBase(index) + (k - 1), order |-> index, part |-> k] :
         k \in {k \in DOMAIN parts : parts[k]}}

(* _scenario_run_artifacts: scenario and final book, then each order's,    *)
(* then what the legs of a multi-leg run came to.                          *)
ScenarioArtifacts ==
  {[sequence |-> 0, order |-> None, part |-> 1], [sequence |-> 1, order |-> None, part |-> 2]}

AllOrderArtifacts(results) == UNION {OrderArtifacts(k - 1, results[k]) : k \in DOMAIN results}

MultiLegArtifacts(results, multi_leg) ==
  IF multi_leg = None THEN {}
  ELSE {[sequence |-> ArtifactBase(Len(results)), order |-> None, part |-> 3]}

Artifacts(results, multi_leg) ==
  ScenarioArtifacts \cup AllOrderArtifacts(results) \cup MultiLegArtifacts(results, multi_leg)

(* _normalize_artifacts, which SimulationResult.build applies. *)
ArtifactsUnique(artifacts) ==
  \A a, b \in artifacts : a.sequence = b.sequence => a = b

CountOf(results, P(_)) == Cardinality({k \in DOMAIN results : P(results[k])})

SumOfOrders(results, Value(_)) == Total([k \in DOMAIN results |-> Value(results[k])])

CancelledAs(outcome, r) ==
  IF r.cancel_result = None THEN FALSE ELSE r.cancel_result.outcome_code = outcome

(* _sum_fee_estimate_field and _sum_slippage_estimate_field *)
FeeTotal(results, field) ==
  Total([k \in DOMAIN results |->
           Total([i \in DOMAIN results[k].fee_estimates |-> results[k].fee_estimates[i][field]])])

SlippageTotal(results) ==
  Total([k \in DOMAIN results |->
           Total([i \in DOMAIN results[k].slippage_estimates |->
                    results[k].slippage_estimates[i].total_slippage])])

(* _scenario_run_metrics: what happened to the orders and the events ... *)
CountMetrics(s, results) ==
  LET duplicates == DuplicateEventCount(s)
  IN
  [accepted_order_count |-> CountOf(results, LAMBDA r : ~rejected(r.admission)),
   rejected_order_count |-> CountOf(results, LAMBDA r : rejected(r.admission)),
   filled_order_count   |-> CountOf(results, LAMBDA r : FilledQuantity(r) > 0),
   partial_fill_count   |->
     CountOf(results, LAMBDA r : r.fill_estimate # None /\ is_partial(r.fill_estimate)),
   cancel_action_count  |-> CountOf(results, LAMBDA r : r.cancel_result # None),
   canceled_before_activation_count |->
     CountOf(results, LAMBDA r : CancelledAs("before_activation", r)),
   cancel_fill_race_count |-> CountOf(results, LAMBDA r : CancelledAs("fill_race_lost", r)),
   disconnect_window_count |-> IF s.configuration.disconnected_at = None THEN 0 ELSE 1,
   open_order_disconnect_count |-> CountOf(results, LAMBDA r : r.disconnect_result # None),
   market_event_count   |-> Len(s.market_events),
   duplicate_market_event_count |-> duplicates,
   projected_market_event_count |-> Len(s.market_events) - duplicates,
   order_action_count   |-> Len(s.order_actions),
   slippage_estimate_count   |-> SumOfOrders(results, LAMBDA r : Len(r.slippage_estimates)),
   settlement_estimate_count |-> CountOf(results, LAMBDA r : r.settlement_result # None)]

(* ... and what they came to. *)
AmountMetrics(results, multi_leg) ==
  LET Settled(r) == r.settlement_result # None
      Won(r)     == IF Settled(r) THEN r.settlement_result.is_winning_outcome ELSE FALSE
  IN
  [settled_winning_quantity  |->
     SumOfOrders(results, LAMBDA r : IF Won(r) THEN r.settlement_result.quantity ELSE 0),
   settled_payout_amount |->
     SumOfOrders(results, LAMBDA r : IF Settled(r) THEN r.settlement_result.payout_amount
                                     ELSE 0),
   filled_quantity       |-> SumOfOrders(results, FilledQuantity),
   total_fee_amount      |-> FeeTotal(results, "fee_amount"),
   total_filled_notional |-> FeeTotal(results, "notional"),
   total_net_fee_amount  |-> FeeTotal(results, "net_fee_amount"),
   total_rebate_amount   |-> FeeTotal(results, "rebate_amount"),
   total_slippage_amount |-> SlippageTotal(results),
   multi_leg_leg_count   |-> IF multi_leg = None THEN 0 ELSE Len(multi_leg.leg_fills),
   multi_leg_imbalance_count |->
     IF multi_leg = None THEN 0 ELSE IF multi_leg.imbalanced_quantity > 0 THEN 1 ELSE 0,
   multi_leg_imbalance_quantity |->
     IF multi_leg = None THEN 0 ELSE multi_leg.imbalanced_quantity,
   multi_leg_target_shortfall_quantity |->
     IF multi_leg = None THEN 0 ELSE multi_leg.target_shortfall_quantity]

Metrics(s, results, multi_leg) ==
  [counts |-> CountMetrics(s, results), amounts |-> AmountMetrics(results, multi_leg)]

-----------------------------------------------------------------------------
(* The runner *)

ScenarioInit ==
  /\ phase = "new" /\ reason = None
  /\ scenario = None /\ final_book = None
  /\ order_results = <<>> /\ used_cancel_sequences = {}
  /\ run = None

Raise(why) ==
  /\ phase' = "raised" /\ reason' = why
  /\ UNCHANGED <<scenario, final_book, order_results, used_cancel_sequences, run>>

(* A SimulationScenario is constructed, or refused. *)
DefineScenario(s) ==
  /\ phase = "new" /\ ScenarioError(s) = None
  /\ phase' = "ready" /\ scenario' = SimulationScenario(s)
  /\ UNCHANGED <<reason, final_book, order_results, used_cancel_sequences, run>>

RefuseScenario(s) ==
  /\ phase = "new" /\ ScenarioError(s) # None
  /\ Raise(ScenarioError(s))

(* run up to its loop: the models are built and the final book projected. *)
StartRun ==
  /\ phase = "ready" /\ ConfigurationError(scenario.configuration) = None
  /\ \E projected \in {ProjectBookUntil(scenario, None)} :
       /\ projected.raised = None
       /\ final_book' = [book |-> projected.book, is_valid |-> projected.is_valid]
  /\ phase' = "running"
  /\ UNCHANGED <<reason, scenario, order_results, used_cancel_sequences, run>>

RefuseConfiguration ==
  /\ phase = "ready" /\ ConfigurationError(scenario.configuration) # None
  /\ Raise(ConfigurationError(scenario.configuration))

FinalBookRaises ==
  /\ phase = "ready" /\ ConfigurationError(scenario.configuration) = None
  /\ \E why \in {ProjectBookUntil(scenario, None).raised} : why # None /\ Raise(why)

(* The next order of the loop, with the request that cancels it. *)
NextOrder(action) ==
  RunOrderAction(scenario, action, Len(order_results),
                 MatchingCancel(scenario, action, used_cancel_sequences))

NextAction == OrderIntents(scenario)[Len(order_results) + 1]

MoreOrders == phase = "running" /\ Len(order_results) < Len(OrderIntents(scenario))

OrderError(outcome) ==
  IF outcome.raised # None THEN outcome.raised
  ELSE IF ~OrderResultValid(outcome.result) THEN "order_result_invalid" ELSE None

UsedBy(result) ==
  IF result.cancel_result = None THEN {} ELSE {result.cancel_result.sequence}

(* One turn of run's loop: a request counts as used when the result of the *)
(* order carries it.                                                       *)
RunOrder ==
  /\ MoreOrders
  /\ \E outcome \in {NextOrder(NextAction)} :
       /\ OrderError(outcome) = None
       /\ order_results' = Append(order_results, outcome.result)
       /\ used_cancel_sequences' = used_cancel_sequences \cup UsedBy(outcome.result)
  /\ UNCHANGED <<phase, reason, scenario, final_book, run>>

OrderRaises ==
  /\ MoreOrders
  /\ \E why \in {OrderError(NextOrder(NextAction))} : why # None /\ Raise(why)

(* _validate_no_unmatched_cancel_actions *)
UnmatchedCancels ==
  {i \in CancelRequests(scenario) :
     scenario.order_actions[i].sequence \notin used_cancel_sequences}

LoopDone == phase = "running" /\ Len(order_results) = Len(OrderIntents(scenario))

(* What the end of run refuses, in its order. *)
FinishError(s, results) ==
  IF UnmatchedCancels # {} THEN "cancel_unmatched"
  ELSE IF ~MultiLegValid(s.configuration, results) THEN "multi_leg"
  ELSE IF ~ArtifactsUnique(Artifacts(results, MultiLegImbalance(s.configuration, results)))
    THEN "artifact_sequence_duplicate"
  ELSE IF ~final_book.is_valid THEN "final_book_invalid"
  ELSE None

(* The end of run: _build_scenario_run_result and the construction of the  *)
(* SimulationScenarioRun, which computes the result again and compares.    *)
FinishRun ==
  /\ LoopDone /\ FinishError(scenario, order_results) = None
  /\ LET multi_leg == MultiLegImbalance(scenario.configuration, order_results)
     IN  run' = [multi_leg |-> multi_leg,
                 artifacts |-> Artifacts(order_results, multi_leg),
                 metrics   |-> Metrics(scenario, order_results, multi_leg)]
  /\ phase' = "done"
  /\ UNCHANGED <<reason, scenario, final_book, order_results, used_cancel_sequences>>

FinishRaises ==
  /\ LoopDone /\ FinishError(scenario, order_results) # None
  /\ Raise(FinishError(scenario, order_results))

RunStep == \/ StartRun \/ RefuseConfiguration \/ FinalBookRaises
           \/ RunOrder \/ OrderRaises \/ FinishRun \/ FinishRaises

-----------------------------------------------------------------------------
(* Properties *)

Results == {order_results[k] : k \in DOMAIN order_results}

Active(r) == r.fill_estimate # None

ScenarioTypeOK ==
  /\ phase \in {"new", "ready", "running", "done", "raised"}
  /\ reason \in Reasons \cup {None} /\ (phase = "raised" <=> reason # None)
  /\ phase = "done" <=> run # None
  /\ \A k \in DOMAIN order_results :
       /\ order_results[k].sequence = k - 1
       /\ OrderResultValid(order_results[k])
       /\ Active(order_results[k]) => order_results[k].fill_estimate.remaining_quantity >= 0

(* A trade that reached the market while the order of r was resting: from  *)
(* its activation to its cancel, and not while the exchange was away.      *)
TradedWhileResting(r, payload) ==
  /\ payload.type = "trade" /\ TradeFillsRestingIntent(payload, r.action)
  /\ \E i \in DOMAIN scenario.market_events :
       LET e == scenario.market_events[i]
       IN  /\ e.payload = payload
           /\ r.admission.activates_at <= e.scheduled_at
           /\ IF r.cancel_result = None THEN TRUE
              ELSE e.scheduled_at <= r.cancel_result.effective_at
           /\ ~DuringDisconnect(scenario.configuration, e.scheduled_at)

Payloads == {scenario.market_events[i].payload : i \in DOMAIN scenario.market_events}

(* An order that took nothing is filled by the trades that came while it   *)
(* rested, each distinct trade once however often it was delivered, up to  *)
(* its quantity and no further: scanning the whole event list once per     *)
(* order (_fill_resting_order_from_trade_events) gives what the tape alone *)
(* would give it in time.  Each order is taken by itself: it does not      *)
(* queue, and a trade may fill every order it reaches.                     *)
RestingFillsFollowTheTape ==
  \A r \in Results :
    Active(r) /\ r.fill_estimate.liquidity_role # "TAKER" =>
      r.fill_estimate.filled_quantity
        = Least(r.action.quantity,
                MapThenSumSet(LAMBDA p : p.quantity,
                              {p \in Payloads : TradedWhileResting(r, p)}))

(* The book of an order at its activation, which may not be valid. *)
BookAtActivation(r) ==
  ProjectBookUntil(scenario,
                   activation_time(r.action.scheduled_at, scenario.configuration.fixed_latency_ms))

IsValid(projected) == projected.raised = None /\ ~SnapshotRefused(projected)

(* Only a book that is valid at its activation judges an order (with any   *)
(* other the run raises): it takes what that book shows within its limit,  *)
(* and nothing else; the three places that decide whether an order crosses *)
(* (_is_executable, _post_only_would_cross, _crosses_spread) agree, so a   *)
(* post-only order never takes, one that takes was not resting, and one    *)
(* that is rejected as post-only would have crossed.                       *)
TakesWhatTheBookShows ==
  \A r \in Results :
    /\ r.admission.reason = "POST_ONLY_WOULD_CROSS" =>
         /\ r.action.post_only /\ IsValid(BookAtActivation(r))
         /\ QueueEstimate(BookAtActivation(r).book, r.action.side,
                          r.action.limit_price).crosses_spread
    /\ Active(r) =>
         /\ IsValid(BookAtActivation(r))
         /\ r.activation_book = BookAtActivation(r).book
    /\ Active(r) =>
      LET levels == OppositeSideLevels(r.activation_book, r.action.side)
          shown == {i \in DOMAIN levels :
                      IsExecutable(r.action.side, r.action.limit_price, levels[i].price,
                                   scenario.configuration.fill_model = "touch")}
          depth == Total([i \in shown |-> levels[i].quantity])
          queue == QueueEstimate(r.activation_book, r.action.side, r.action.limit_price)
      IN  /\ r.fill_estimate.liquidity_role = "TAKER" =>
               /\ r.fill_estimate.filled_quantity = Least(r.action.quantity, depth)
               /\ queue.crosses_spread /\ ~r.action.post_only
          /\ r.fill_estimate.liquidity_role # "TAKER" => depth = 0
          /\ r.action.post_only => queue.rests_on_book

(* The balance an order was admitted against covers what its fills cost,   *)
(* though the book they came from is a later one: a purchase at its price, *)
(* a sale at what the buyer may win from it.  Fees and slippage are not    *)
(* part of required_balance.                                               *)
FillsWithinBalance ==
  \A r \in Results :
    Active(r) /\ scenario.configuration.balance # None =>
      LET parts == r.fill_estimate.components
      IN  Total([i \in DOMAIN parts |->
                   parts[i].quantity * (IF r.action.side = "BUY" THEN parts[i].price
                                        ELSE One - parts[i].price)])
            <= scenario.configuration.balance

(* A way to give each of the requests an order of its own: one the         *)
(* exchange did not reject, with the request's correlation, submitted no   *)
(* later.                                                                  *)
CancelsAssignable(requests) ==
  \E f \in [requests -> DOMAIN order_results] :
    /\ \A i, j \in requests : f[i] = f[j] => i = j
    /\ \A i \in requests :
         /\ ~rejected(order_results[f[i]].admission)
         /\ CancelMatches(scenario, scenario.order_actions[i], order_results[f[i]].action, {})

(* Cancels are matched one order at a time, first come first served, yet   *)
(* no run is refused for an unmatched cancel when its cancels could have   *)
(* been matched, and in a finished run each cancels exactly one order.     *)
(* Which orders were rejected is taken as it came out: a request given to  *)
(* another order might have cancelled a post-only one before the book      *)
(* could reject it, and that assignment is not counted.                    *)
CancelsMatchWhenTheyCan ==
  LET requests == CancelRequests(scenario)
  IN  /\ reason = "cancel_unmatched" => ~CancelsAssignable(requests)
      /\ phase = "done" =>
           /\ run.metrics.counts.cancel_action_count = Cardinality(requests)
           /\ CancelsAssignable(requests)

(* Every order the disconnect finds open is reported and no other: active  *)
(* before it, not cancelled by then, and not filled by the trades up to    *)
(* then.  The code misses one case, which the second implication leaves    *)
(* out: the rest of an order that took part of its quantity never fills,   *)
(* but _disconnect_result_for_order lets later trades fill it.             *)
DisconnectFindsOpenOrders ==
  \A r \in Results :
    Active(r) /\ scenario.configuration.disconnected_at # None =>
      LET cut    == scenario.configuration.disconnected_at
          before == {p \in Payloads :
                       /\ TradedWhileResting(r, p)
                       /\ \E i \in DOMAIN scenario.market_events :
                            LET e == scenario.market_events[i]
                            IN  /\ e.payload = p /\ e.scheduled_at < cut
                                /\ e.scheduled_at >= r.admission.activates_at}
          took   == r.fill_estimate.liquidity_role = "TAKER"
          filled == IF took THEN r.fill_estimate.filled_quantity
                    ELSE MapThenSumSet(LAMBDA p : p.quantity, before)
          open   == /\ r.admission.activates_at < cut
                    /\ IF r.cancel_result = None THEN TRUE
                       ELSE r.cancel_result.effective_at > cut
                    /\ filled < r.action.quantity
      IN  /\ r.disconnect_result # None => open
          /\ open /\ ~took => r.disconnect_result # None

(* A run is only refused for what its scenario says: the results, the      *)
(* artifact sequences and the run the runner builds always pass the checks *)
(* of their own constructors.                                              *)
RunnerAcceptsItsOutput ==
  reason \notin {"order_result_invalid", "artifact_sequence_duplicate"}
=============================================================================
