-------------------------- MODULE MCRiskEvaluation --------------------------
(* Small instances of the risk path.  Every instant is a whole number, money *)
(* is counted in units.                                                      *)
EXTENDS RiskEvaluation, TLC

CONSTANTS a1, a2, market

MCRules == <<"strategy_enabled", "market_enabled", "market_open", "market_data_fresh",
             "order_price", "order_quantity", "order_notional", "market_position",
             "portfolio_gross", "portfolio_net", "strategy_capital", "exchange_capital",
             "daily_loss", "open_orders", "duplicate_guard", "available_balance",
             "reconciliation", "kill_switch", "arbitrage">>
MCMaxStateAge == [r \in RuleIds |-> 1]
MCPolicies == {<<"daily_loss", None>>, <<"order_price", "off_tick">>}

Intent(name, price) == [id |-> name, idempotency_key |-> name, side |-> "buy",
                        quantity |-> 2, limit_price |-> price]
buy == Intent("i1", 3)
more == Intent("i2", 3)
free == Intent("i3", 0)
unpriced == Intent("i4", None)

Ask(intent, snapshot, order, reserve, persist) ==
    [intent |-> intent, snapshot |-> snapshot, order |-> order, reserve |-> reserve,
     persist |-> persist]

MCIntents == {buy, more, free, unpriced}
MCRequests(a) ==
    {Ask(buy, "s1", TRUE, TRUE, TRUE), Ask(more, "s2", TRUE, TRUE, TRUE)}
      \cup IF a = a1
           THEN {Ask(buy, "s2", FALSE, TRUE, FALSE), Ask(free, "s2", TRUE, TRUE, TRUE),
                 Ask(unpriced, "s1", TRUE, FALSE, TRUE)}
           ELSE {}

Exposed(current, t) ==
    [current |-> current, open_orders |-> 1, reserved |-> 0, max |-> 10, observed_at |-> t]

\* Surroundings in which everything is as it should be at instant t.
Good(t) ==
    [evaluated_at |-> t,
     strategy_enabled |-> [value |-> TRUE, observed_at |-> t],
     market_enabled |-> [value |-> TRUE, observed_at |-> t],
     market_status |-> [status |-> "open", observed_at |-> t],
     market_data_fresh |-> [value |-> TRUE, observed_at |-> t],
     price_bounds |-> [min_price |-> 0, max_price |-> 9, tick_size |-> 3, observed_at |-> t],
     quantity_limits |-> [min_quantity |-> 1, max_quantity |-> 4, quantity_increment |-> 1,
                          observed_at |-> t],
     notional_limits |-> [max_notional |-> 6, observed_at |-> t],
     market_position |-> Exposed(1, t),
     portfolio_gross |-> Exposed(1, t),
     portfolio_net |-> Exposed(1, t),
     strategy_capital |-> Exposed(1, t),
     exchange_known |-> TRUE,
     exchange_capital |-> Exposed(1, t),
     daily_loss |-> [realized |-> -2, unrealized |-> 1, max |-> 2, observed_at |-> t],
     open_order_limit |-> [current |-> 1, pending_cancel |-> 0, reserved |-> 0, max |-> 3,
                           observed_at |-> t],
     duplicate_guard |-> [known_intent_ids |-> {}, known_idempotency_keys |-> {},
                          observed_at |-> t],
     available_balance |-> [available |-> 12, reserved |-> 0, observed_at |-> t],
     reconciliation |-> [status |-> "healthy", gate_released |-> TRUE, manual_reviews |-> 0,
                         mismatches |-> 0, observed_at |-> t],
     kill_switch_clear |-> None,
     arbitrage |-> [unhedged |-> 1, max |-> 1, hedge_deadline_at |-> t + 1, observed_at |-> t]]

\* One thing is not as it should be.
Spoiled(t) ==
    LET g == Good(t) IN
    {[g EXCEPT !.strategy_enabled = None], [g EXCEPT !.strategy_enabled.value = FALSE],
     [g EXCEPT !.market_enabled.value = FALSE], [g EXCEPT !.market_enabled.observed_at = t - 2],
     [g EXCEPT !.market_status.status = "halted"], [g EXCEPT !.market_status.observed_at = t + 1],
     [g EXCEPT !.market_data_fresh.value = FALSE],
     [g EXCEPT !.price_bounds.tick_size = 2], [g EXCEPT !.price_bounds.tick_size = None],
     [g EXCEPT !.price_bounds.min_price = 4], [g EXCEPT !.price_bounds.max_price = 2],
     [g EXCEPT !.quantity_limits.quantity_increment = 2],
     [g EXCEPT !.quantity_limits.max_quantity = 1], [g EXCEPT !.quantity_limits.min_quantity = 3],
     [g EXCEPT !.notional_limits.max_notional = 5], [g EXCEPT !.market_position.current = 8],
     [g EXCEPT !.portfolio_gross.current = 4], [g EXCEPT !.portfolio_net.current = 4],
     [g EXCEPT !.strategy_capital.current = 4], [g EXCEPT !.exchange_capital.current = 4],
     [g EXCEPT !.exchange_known = FALSE], [g EXCEPT !.daily_loss.unrealized = -1],
     [g EXCEPT !.open_order_limit.pending_cancel = 2],
     [g EXCEPT !.duplicate_guard.known_intent_ids = {"i1"}],
     [g EXCEPT !.duplicate_guard.known_idempotency_keys = {"i1"}],
     [g EXCEPT !.available_balance.available = 5],
     [g EXCEPT !.reconciliation.status = "degraded"],
     [g EXCEPT !.reconciliation.gate_released = FALSE],
     [g EXCEPT !.reconciliation.manual_reviews = 1], [g EXCEPT !.reconciliation.mismatches = 1],
     [g EXCEPT !.arbitrage.unhedged = 2], [g EXCEPT !.arbitrage.hedge_deadline_at = None],
     [g EXCEPT !.arbitrage.hedge_deadline_at = t - 1]}

\* The engine agrees with what the rules promise on every one of them.
ASSUME RulesKeepTheirPromise ==
    \A s \in {Good(2)} \cup Spoiled(2), i \in {buy, more, free}, at \in 1 .. 4, r \in RuleIds :
        LET c == [s EXCEPT !.evaluated_at = at, !.kill_switch_clear =
                     [clear |-> TRUE, active_scopes |-> {}, observed_at |-> 2]]
        IN Evaluate(r, i, c) = "valid" <=> Permits(r, i, c)

\* The first attempt may meet a state that claims to be from the future.
MCSurroundings(a, t) ==
    {Good(t)} \cup IF a = a1 /\ t = 0 THEN {[Good(t) EXCEPT !.daily_loss.observed_at = t + 1]}
                    ELSE {}

MCApplies(k, intent) == intent.id = "i1"
MCListOrder == <<market>>
=============================================================================
