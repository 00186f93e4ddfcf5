------------------------------ MODULE RiskRules ------------------------------
(***************************************************************************)
(* The nineteen pre-trade risk rules (src/src/pmrp/risk/rules/) and the    *)
(* engine that folds them into a decision (src/src/pmrp/risk/engine.py).   *)
(*                                                                         *)
(* A context is a record of the states that the lookups of RiskContext     *)
(* find for the intent at hand, None where a lookup finds nothing.         *)
(* Decimals and instants are integers.  A rule's result is its reason      *)
(* code, without the name of the rule in front.                            *)
(***************************************************************************)
EXTENDS Integers, Sequences

CONSTANTS
    Rules,         \* the rule ids the engine is configured with, in order
    MaxStateAge,   \* max_state_age of each rule
    OpenStatuses,  \* market statuses in which the market is open
    Policies,      \* breach policies: pairs <<rule id, reason code or None>>
    Switches,      \* kill switches: pairs (scope, scope_id), here model values
    None

RuleIds ==
    {"strategy_enabled", "market_enabled", "market_open", "market_data_fresh",
     "order_price", "order_quantity", "order_notional", "market_position",
     "portfolio_gross", "portfolio_net", "strategy_capital", "exchange_capital",
     "daily_loss", "open_orders", "duplicate_guard", "available_balance",
     "reconciliation", "kill_switch", "arbitrage"}

ASSUME RulesAssumption ==
    /\ Rules \in Seq(RuleIds)
    /\ Len(Rules) > 0
    /\ \A i, j \in 1 .. Len(Rules) : i # j => Rules[i] # Rules[j]
    /\ MaxStateAge \in [RuleIds -> Nat \ {0}]
    /\ None \notin Int \cup RuleIds \cup {"valid"}

-----------------------------------------------------------------------------
(* Intents and the states of a context: what their constructors let through *)

Optional(S) == S \cup {None}

OrderIntents ==
    [id : STRING, idempotency_key : STRING, side : {"buy", "sell"},
     quantity : Nat \ {0}, limit_price : Optional(Nat)]

BooleanStates == [value : BOOLEAN, observed_at : Int]

MarketStatusStates == [status : STRING, observed_at : Int]

PriceBoundsStates ==
    {b \in [min_price : Nat, max_price : Nat, tick_size : (Nat \ {0}) \cup {None},
            observed_at : Int] : b.max_price >= b.min_price}

QuantityLimitsStates ==
    {l \in [min_quantity : Nat, max_quantity : Nat, quantity_increment : Nat \ {0},
            observed_at : Int] : l.max_quantity >= l.min_quantity}

NotionalLimitStates == [max_notional : Nat \ {0}, observed_at : Int]

\* Positions and net exposures have a sign ...
SignedStates ==
    [current : Int, open_orders : Int, reserved : Int, max : Nat \ {0}, observed_at : Int]

\* ... gross exposure and capital used have none.
UnsignedStates ==
    [current : Nat, open_orders : Nat, reserved : Nat, max : Nat \ {0}, observed_at : Int]

DailyLossStates ==
    [realized : Int, unrealized : Int, max : Nat \ {0}, observed_at : Int]

OpenOrderLimitStates ==
    [current : Nat, pending_cancel : Nat, reserved : Nat, max : Nat \ {0}, observed_at : Int]

DuplicateGuardStates ==
    [known_intent_ids : SUBSET STRING, known_idempotency_keys : SUBSET STRING,
     observed_at : Int]

AvailableBalanceStates == [available : Int, reserved : Nat, observed_at : Int]

ReconciliationStates ==
    [status : STRING, gate_released : BOOLEAN, manual_reviews : Nat, mismatches : Nat,
     observed_at : Int]

KillSwitchClearStates ==
    {k \in [clear : BOOLEAN, active_scopes : SUBSET Switches, observed_at : Int] :
        k.clear => k.active_scopes = {}}

\* The counts of legs play no part in the rule.
ArbitrageLegStates ==
    [unhedged : Nat, max : Nat, hedge_deadline_at : Int \cup {None}, observed_at : Int]

\* RiskContext, as its lookups answer for one intent.
Contexts ==
    [evaluated_at : Int,
     strategy_enabled : Optional(BooleanStates),
     market_enabled : Optional(BooleanStates),
     market_status : Optional(MarketStatusStates),
     market_data_fresh : Optional(BooleanStates),
     price_bounds : Optional(PriceBoundsStates),
     quantity_limits : Optional(QuantityLimitsStates),
     notional_limits : Optional(NotionalLimitStates),
     market_position : Optional(SignedStates),
     portfolio_gross : Optional(UnsignedStates),
     portfolio_net : Optional(SignedStates),
     strategy_capital : Optional(UnsignedStates),
     exchange_known : BOOLEAN,
     exchange_capital : Optional(UnsignedStates),
     daily_loss : Optional(DailyLossStates),
     open_order_limit : Optional(OpenOrderLimitStates),
     duplicate_guard : Optional(DuplicateGuardStates),
     available_balance : Optional(AvailableBalanceStates),
     reconciliation : Optional(ReconciliationStates),
     kill_switch_clear : Optional(KillSwitchClearStates),
     arbitrage : Optional(ArbitrageLegStates)]

-----------------------------------------------------------------------------
(* What the rules share                                                    *)

\* The checks every rule makes on its state before it looks into it.
StateAge(rule, state, ctx) ==
    IF state = None THEN "state_missing"
    ELSE IF state.observed_at > ctx.evaluated_at THEN "state_future"
    ELSE IF ctx.evaluated_at - state.observed_at > MaxStateAge[rule] THEN "state_stale"
    ELSE "valid"

\* The verdict counts once the state is there and neither future nor stale.
Judged(rule, state, ctx, verdict) ==
    IF StateAge(rule, state, ctx) # "valid" THEN StateAge(rule, state, ctx) ELSE verdict

\* Rules that need a price give up before they look for their state.
Priced(intent, result) == IF intent.limit_price = None THEN "price_missing" ELSE result

Notional(intent) == intent.quantity * intent.limit_price

Abs(x) == IF x < 0 THEN -x ELSE x

Signed(intent, x) == IF intent.side = "buy" THEN x ELSE -x

AtMost(x, limit) == IF x > limit THEN "above_max" ELSE "valid"

-----------------------------------------------------------------------------
(* The rules                                                               *)

StrategyEnabledRule(intent, ctx) ==
    LET state == ctx.strategy_enabled IN
    Judged("strategy_enabled", state, ctx, IF state.value THEN "valid" ELSE "disabled")

MarketEnabledRule(intent, ctx) ==
    LET state == ctx.market_enabled IN
    Judged("market_enabled", state, ctx, IF state.value THEN "valid" ELSE "disabled")

MarketOpenRule(intent, ctx) ==
    LET state == ctx.market_status IN
    Judged("market_open", state, ctx,
           IF state.status \in OpenStatuses THEN "valid" ELSE "not_open")

MarketDataFreshnessRule(intent, ctx) ==
    LET state == ctx.market_data_fresh IN
    Judged("market_data_fresh", state, ctx, IF state.value THEN "valid" ELSE "not_fresh")

\* An intent without a limit price passes here; the engine rejects it later.
OrderPriceValidRule(intent, ctx) ==
    LET bounds == ctx.price_bounds
        price == intent.limit_price
    IN
    IF price = None THEN "not_required"
    ELSE Judged("order_price", bounds, ctx,
             IF price < bounds.min_price THEN "below_min"
             ELSE IF price > bounds.max_price THEN "above_max"
             ELSE IF /\ bounds.tick_size # None
                     /\ (price - bounds.min_price) % bounds.tick_size # 0 THEN "off_tick"
             ELSE "valid")

OrderQuantityLimitRule(intent, ctx) ==
    LET limits == ctx.quantity_limits
        quantity == intent.quantity
    IN
    Judged("order_quantity", limits, ctx,
        IF quantity < limits.min_quantity THEN "below_min"
        ELSE IF quantity > limits.max_quantity THEN "above_max"
        ELSE IF (quantity - limits.min_quantity) % limits.quantity_increment # 0
             THEN "off_increment"
        ELSE "valid")

OrderNotionalLimitRule(intent, ctx) ==
    LET limit == ctx.notional_limits IN
    Priced(intent, Judged("order_notional", limit, ctx,
                       AtMost(Notional(intent), limit.max_notional)))

MarketPositionLimitRule(intent, ctx) ==
    LET state == ctx.market_position
        effective == state.current + state.open_orders + state.reserved
    IN
    Judged("market_position", state, ctx,
           AtMost(Abs(effective + Signed(intent, intent.quantity)), state.max))

PortfolioGrossLimitRule(intent, ctx) ==
    LET state == ctx.portfolio_gross
        effective == state.current + state.open_orders + state.reserved
    IN
    Priced(intent, Judged("portfolio_gross", state, ctx,
                       AtMost(effective + Notional(intent), state.max)))

PortfolioNetLimitRule(intent, ctx) ==
    LET state == ctx.portfolio_net
        effective == state.current + state.open_orders + state.reserved
    IN
    Priced(intent, Judged("portfolio_net", state, ctx,
                       AtMost(Abs(effective + Signed(intent, Notional(intent))), state.max)))

StrategyCapitalLimitRule(intent, ctx) ==
    LET state == ctx.strategy_capital
        effective == state.current + state.open_orders + state.reserved
    IN
    Priced(intent, Judged("strategy_capital", state, ctx,
                       AtMost(effective + Notional(intent), state.max)))

ExchangeCapitalLimitRule(intent, ctx) ==
    LET state == ctx.exchange_capital
        effective == state.current + state.open_orders + state.reserved
    IN
    Priced(intent,
           IF ~ctx.exchange_known THEN "exchange_missing"
           ELSE Judged("exchange_capital", state, ctx,
                       AtMost(effective + Notional(intent), state.max)))

DailyLossLimitRule(intent, ctx) ==
    LET state == ctx.daily_loss
        pnl == state.realized + state.unrealized
    IN
    Judged("daily_loss", state, ctx, AtMost(IF pnl < 0 THEN -pnl ELSE 0, state.max))

OpenOrderLimitRule(intent, ctx) ==
    LET state == ctx.open_order_limit
        effective == state.current + state.pending_cancel + state.reserved
    IN
    Judged("open_orders", state, ctx, AtMost(effective + 1, state.max))

DuplicateOrderGuardRule(intent, ctx) ==
    LET state == ctx.duplicate_guard IN
    Judged("duplicate_guard", state, ctx,
        IF intent.id \in state.known_intent_ids THEN "duplicate_intent_id"
        ELSE IF intent.idempotency_key \in state.known_idempotency_keys
             THEN "duplicate_idempotency_key"
        ELSE "valid")

AvailableBalanceRule(intent, ctx) ==
    LET state == ctx.available_balance IN
    Priced(intent, Judged("available_balance", state, ctx,
                       IF Notional(intent) > state.available - state.reserved
                       THEN "insufficient" ELSE "valid"))

ReconciliationHealthRule(intent, ctx) ==
    LET state == ctx.reconciliation IN
    Judged("reconciliation", state, ctx,
        IF state.status # "healthy" THEN "unhealthy_status"
        ELSE IF ~state.gate_released THEN "gate_held"
        ELSE IF state.manual_reviews > 0 THEN "manual_review_required"
        ELSE IF state.mismatches > 0 THEN "mismatches_present"
        ELSE "valid")

KillSwitchClearRule(intent, ctx) ==
    LET state == ctx.kill_switch_clear IN
    Judged("kill_switch", state, ctx,
        IF state.active_scopes # {} THEN "active"
        ELSE IF ~state.clear THEN "not_clear"
        ELSE "valid")

ArbitrageLegRiskRule(intent, ctx) ==
    LET state == ctx.arbitrage IN
    Judged("arbitrage", state, ctx,
        IF state.unhedged > state.max THEN "above_max"
        ELSE IF state.unhedged > 0 /\ state.hedge_deadline_at = None THEN "deadline_missing"
        ELSE IF state.unhedged > 0 /\ ctx.evaluated_at > state.hedge_deadline_at
             THEN "hedge_timeout_expired"
        ELSE "valid")

-----------------------------------------------------------------------------
(* The engine                                                              *)

\* RiskRule.evaluate of the rule with this id.
Evaluate(rule, intent, ctx) ==
    CASE rule = "strategy_enabled"  -> StrategyEnabledRule(intent, ctx)
      [] rule = "market_enabled"    -> MarketEnabledRule(intent, ctx)
      [] rule = "market_open"       -> MarketOpenRule(intent, ctx)
      [] rule = "market_data_fresh" -> MarketDataFreshnessRule(intent, ctx)
      [] rule = "order_price"       -> OrderPriceValidRule(intent, ctx)
      [] rule = "order_quantity"    -> OrderQuantityLimitRule(intent, ctx)
      [] rule = "order_notional"    -> OrderNotionalLimitRule(intent, ctx)
      [] rule = "market_position"   -> MarketPositionLimitRule(intent, ctx)
      [] rule = "portfolio_gross"   -> PortfolioGrossLimitRule(intent, ctx)
      [] rule = "portfolio_net"     -> PortfolioNetLimitRule(intent, ctx)
      [] rule = "strategy_capital"  -> StrategyCapitalLimitRule(intent, ctx)
      [] rule = "exchange_capital"  -> ExchangeCapitalLimitRule(intent, ctx)
      [] rule = "daily_loss"        -> DailyLossLimitRule(intent, ctx)
      [] rule = "open_orders"       -> OpenOrderLimitRule(intent, ctx)
      [] rule = "duplicate_guard"   -> DuplicateOrderGuardRule(intent, ctx)
      [] rule = "available_balance" -> AvailableBalanceRule(intent, ctx)
      [] rule = "reconciliation"    -> ReconciliationHealthRule(intent, ctx)
      [] rule = "kill_switch"       -> KillSwitchClearRule(intent, ctx)
      [] rule = "arbitrage"         -> ArbitrageLegRiskRule(intent, ctx)

\* _evaluate_rules stops at the first rule that raises or returns no result
\* (fault is its index, 0 when there is none).
RuleResults(intent, ctx, fault) ==
    [i \in 1 .. (IF fault = 0 THEN Len(Rules) ELSE fault) |->
        [rule |-> Rules[i],
         reason |-> IF i = fault THEN "rule_error" ELSE Evaluate(Rules[i], intent, ctx)]]

Passed(result) == result.reason \in {"valid", "not_required"}

\* Mutant of DecisionStatus: a rule that raised does not count.
DecisionStatusOfOthers(results) ==
    IF \A i \in DOMAIN results : Passed(results[i]) \/ results[i].reason = "rule_error"
    THEN "approved" ELSE "rejected"

DecisionStatus(results) ==
    IF \E i \in DOMAIN results : results[i].reason = "rule_error" THEN "error"
    ELSE IF \A i \in DOMAIN results : Passed(results[i]) THEN "approved"
    ELSE "rejected"

\* An approval needs a limit price: without one the engine adds a failed result.
FinalResults(intent, ctx, fault) ==
    LET results == RuleResults(intent, ctx, fault) IN
    IF DecisionStatus(results) = "approved" /\ intent.limit_price = None
    THEN Append(results, [rule |-> "engine", reason |-> "approval_limit_price_missing"])
    ELSE results

\* breaches_for_decision: the failed results some policy covers.
Breaches(results) ==
    {i \in DOMAIN results :
        /\ ~Passed(results[i])
        /\ \/ <<results[i].rule, results[i].reason>> \in Policies
           \/ <<results[i].rule, None>> \in Policies}

-----------------------------------------------------------------------------
(* What each rule promises about an intent that passes it, without the     *)
(* order in which the code looks at things.                                *)

Fresh(rule, state, ctx) ==
    /\ state # None
    /\ state.observed_at \in (ctx.evaluated_at - MaxStateAge[rule]) .. ctx.evaluated_at

Exposure(state) == state.current + state.open_orders + state.reserved

OnGrid(x, low, step) == \E n \in 0 .. (x - low) : x = low + n * step

Permits(rule, intent, ctx) ==
    CASE rule = "strategy_enabled" ->
            Fresh(rule, ctx.strategy_enabled, ctx) /\ ctx.strategy_enabled.value
      [] rule = "market_enabled" ->
            Fresh(rule, ctx.market_enabled, ctx) /\ ctx.market_enabled.value
      [] rule = "market_open" ->
            Fresh(rule, ctx.market_status, ctx) /\ ctx.market_status.status \in OpenStatuses
      [] rule = "market_data_fresh" ->
            Fresh(rule, ctx.market_data_fresh, ctx) /\ ctx.market_data_fresh.value
      [] rule = "order_price" ->
            LET b == ctx.price_bounds IN
            /\ Fresh(rule, b, ctx)
            /\ intent.limit_price \in b.min_price .. b.max_price
            /\ b.tick_size # None => OnGrid(intent.limit_price, b.min_price, b.tick_size)
      [] rule = "order_quantity" ->
            LET l == ctx.quantity_limits IN
            /\ Fresh(rule, l, ctx)
            /\ intent.quantity \in l.min_quantity .. l.max_quantity
            /\ OnGrid(intent.quantity, l.min_quantity, l.quantity_increment)
      [] rule = "order_notional" ->
            /\ Fresh(rule, ctx.notional_limits, ctx)
            /\ Notional(intent) <= ctx.notional_limits.max_notional
      [] rule = "market_position" ->
            LET p == ctx.market_position IN
            /\ Fresh(rule, p, ctx)
            /\ Exposure(p) + Signed(intent, intent.quantity) \in -p.max .. p.max
      [] rule = "portfolio_gross" ->
            /\ Fresh(rule, ctx.portfolio_gross, ctx)
            /\ Exposure(ctx.portfolio_gross) + Notional(intent) <= ctx.portfolio_gross.max
      [] rule = "portfolio_net" ->
            LET n == ctx.portfolio_net IN
            /\ Fresh(rule, n, ctx)
            /\ Exposure(n) + Signed(intent, Notional(intent)) \in -n.max .. n.max
      [] rule = "strategy_capital" ->
            /\ Fresh(rule, ctx.strategy_capital, ctx)
            /\ Exposure(ctx.strategy_capital) + Notional(intent) <= ctx.strategy_capital.max
      [] rule = "exchange_capital" ->
            /\ ctx.exchange_known
            /\ Fresh(rule, ctx.exchange_capital, ctx)
            /\ Exposure(ctx.exchange_capital) + Notional(intent) <= ctx.exchange_capital.max
      [] rule = "daily_loss" ->
            /\ Fresh(rule, ctx.daily_loss, ctx)
            /\ ctx.daily_loss.realized + ctx.daily_loss.unrealized >= -ctx.daily_loss.max
      [] rule = "open_orders" ->
            LET o == ctx.open_order_limit IN
            /\ Fresh(rule, o, ctx)
            /\ o.current + o.pending_cancel + o.reserved < o.max
      [] rule = "duplicate_guard" ->
            /\ Fresh(rule, ctx.duplicate_guard, ctx)
            /\ intent.id \notin ctx.duplicate_guard.known_intent_ids
            /\ intent.idempotency_key \notin ctx.duplicate_guard.known_idempotency_keys
      [] rule = "available_balance" ->
            LET b == ctx.available_balance IN
            Fresh(rule, b, ctx) /\ Notional(intent) + b.reserved <= b.available
      [] rule = "reconciliation" ->
            LET r == ctx.reconciliation IN
            /\ Fresh(rule, r, ctx)
            /\ r.status = "healthy" /\ r.gate_released
            /\ r.manual_reviews = 0 /\ r.mismatches = 0
      [] rule = "kill_switch" ->
            /\ Fresh(rule, ctx.kill_switch_clear, ctx)
            /\ ctx.kill_switch_clear.active_scopes = {}
      [] rule = "arbitrage" ->
            LET g == ctx.arbitrage IN
            /\ Fresh(rule, g, ctx)
            /\ g.unhedged <= g.max
            /\ g.unhedged = 0 \/ (/\ g.hedge_deadline_at # None
                                  /\ ctx.evaluated_at <= g.hedge_deadline_at)

\* Every rule the engine is configured with holds of the intent.
Permitted(intent, ctx) ==
    /\ intent.limit_price # None
    /\ \A n \in 1 .. Len(Rules) : Permits(Rules[n], intent, ctx)
=============================================================================
