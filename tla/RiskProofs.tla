----------------------------- MODULE RiskProofs -----------------------------
(***************************************************************************)
(* Theorems about the risk path, for every configuration of the engine:    *)
(* the rules keep their promises, so only what is permitted is approved;   *)
(* a reservation ends once; the rows of an evaluation appear together,     *)
(* approvals have their capital, capital is not spent twice, and kill      *)
(* switches are obeyed.  Sums of reserved capital are those of SumProofs.  *)
(***************************************************************************)
EXTENDS RiskEvaluation, SumProofs, SequenceTheorems, TLAPS

-----------------------------------------------------------------------------
(* The rules keep their promises                                           *)

\* A state that passes the age checks is there, and neither future nor stale.
LEMMA ValidAgeIsFresh ==
    ASSUME NEW rule \in RuleIds, NEW state, NEW c,
           c.evaluated_at \in Int, state # None => state.observed_at \in Int,
           StateAge(rule, state, c) = "valid"
    PROVE  Fresh(rule, state, c)
BY RulesAssumption DEF StateAge, Fresh, RulesAssumption

\* A state whose verdict let the intent pass was fresh, and the verdict said so.
LEMMA JudgedPasses ==
    ASSUME NEW rule, NEW state, NEW c, NEW verdict,
           Judged(rule, state, c, verdict) \in {"valid", "not_required"}
    PROVE  StateAge(rule, state, c) = "valid" /\ verdict \in {"valid", "not_required"}
BY DEF Judged, StateAge

\* A value a whole number of steps above its minimum lies on the grid.
LEMMA NoRemainderIsOnGrid ==
    ASSUME NEW x \in Nat, NEW low \in Nat, NEW step \in Nat \ {0}, x >= low,
           (x - low) % step = 0
    PROVE  OnGrid(x, low, step)
<1> DEFINE d == x - low
           n == d \div step
<1>1. d \in Nat
  OBVIOUS
<1>2. n \in Nat /\ d = step * n + (d % step)
  BY <1>1, SMTT(30)
<1>3. d = step * n
  BY <1>1, <1>2
<1>4. n <= d
  BY <1>1, <1>2, <1>3, SMTT(30)
<1>5. x = low + n * step
  BY <1>3, <1>2
<1>6. n \in 0 .. (x - low)
  BY <1>1, <1>2, <1>4
<1> HIDE DEF n
<1> QED
  BY <1>5, <1>6 DEF OnGrid

\* An intent with a price that a rule lets pass satisfies what the rule promises:
\* the reference Permits does not follow the order of the checks in the code.
LEMMA RuleKeepsPromise ==
    ASSUME NEW intent \in OrderIntents, intent.limit_price # None,
           NEW c \in Contexts, NEW rule \in RuleIds,
           Evaluate(rule, intent, c) \in {"valid", "not_required"}
    PROVE  Permits(rule, intent, c)
<1>1. /\ intent.limit_price \in Nat
      /\ intent.quantity \in Nat
      /\ Notional(intent) \in Int
      /\ intent.side \in {"buy", "sell"}
  BY DEF OrderIntents, Optional, Notional
<1>2. c.evaluated_at \in Int
  BY DEF Contexts
<1>3. CASE rule = "strategy_enabled"
  <2> DEFINE st == c.strategy_enabled
  <2>1. st \in Optional(BooleanStates)
    BY DEF Contexts
  <2>2. StrategyEnabledRule(intent, c) \in {"valid", "not_required"}
    BY <1>3 DEF Evaluate
  <2>3. /\ StateAge(rule, st, c) = "valid"
        /\ st.value
    BY <1>3, <2>2, JudgedPasses DEF StrategyEnabledRule
  <2>4. st # None /\ Fresh(rule, st, c)
    BY <1>2, <2>1, <2>3, ValidAgeIsFresh DEF Optional, BooleanStates, StateAge
  <2> QED
    BY <1>1, <1>2, <1>3, <2>3, <2>4 DEF Permits
<1>4. CASE rule = "market_enabled"
  <2> DEFINE st == c.market_enabled
  <2>1. st \in Optional(BooleanStates)
    BY DEF Contexts
  <2>2. MarketEnabledRule(intent, c) \in {"valid", "not_required"}
    BY <1>4 DEF Evaluate
  <2>3. /\ StateAge(rule, st, c) = "valid"
        /\ st.value
    BY <1>4, <2>2, JudgedPasses DEF MarketEnabledRule
  <2>4. st # None /\ Fresh(rule, st, c)
    BY <1>2, <2>1, <2>3, ValidAgeIsFresh DEF Optional, BooleanStates, StateAge
  <2> QED
    BY <1>1, <1>2, <1>4, <2>3, <2>4 DEF Permits
<1>5. CASE rule = "market_open"
  <2> DEFINE st == c.market_status
  <2>1. st \in Optional(MarketStatusStates)
    BY DEF Contexts
  <2>2. MarketOpenRule(intent, c) \in {"valid", "not_required"}
    BY <1>5 DEF Evaluate
  <2>3. /\ StateAge(rule, st, c) = "valid"
        /\ st.status \in OpenStatuses
    BY <1>5, <2>2, JudgedPasses DEF MarketOpenRule
  <2>4. st # None /\ Fresh(rule, st, c)
    BY <1>2, <2>1, <2>3, ValidAgeIsFresh DEF Optional, MarketStatusStates, StateAge
  <2> QED
    BY <1>1, <1>2, <1>5, <2>3, <2>4 DEF Permits
<1>6. CASE rule = "market_data_fresh"
  <2> DEFINE st == c.market_data_fresh
  <2>1. st \in Optional(BooleanStates)
    BY DEF Contexts
  <2>2. MarketDataFreshnessRule(intent, c) \in {"valid", "not_required"}
    BY <1>6 DEF Evaluate
  <2>3. /\ StateAge(rule, st, c) = "valid"
        /\ st.value
    BY <1>6, <2>2, JudgedPasses DEF MarketDataFreshnessRule
  <2>4. st # None /\ Fresh(rule, st, c)
    BY <1>2, <2>1, <2>3, ValidAgeIsFresh DEF Optional, BooleanStates, StateAge
  <2> QED
    BY <1>1, <1>2, <1>6, <2>3, <2>4 DEF Permits
<1>7. CASE rule = "order_price"
  <2> DEFINE st == c.price_bounds
  <2>1. st \in Optional(PriceBoundsStates)
    BY DEF Contexts
  <2>2. OrderPriceValidRule(intent, c) \in {"valid", "not_required"}
    BY <1>7 DEF Evaluate
  <2>3. /\ StateAge(rule, st, c) = "valid"
        /\ ~(intent.limit_price < st.min_price)
        /\ ~(intent.limit_price > st.max_price)
        /\ st.tick_size # None => (intent.limit_price - st.min_price) % st.tick_size = 0
    BY <1>7, <2>2, JudgedPasses DEF OrderPriceValidRule
  <2>4. st # None /\ Fresh(rule, st, c)
    BY <1>2, <2>1, <2>3, ValidAgeIsFresh DEF Optional, PriceBoundsStates, StateAge
  <2>5. /\ st.min_price \in Nat
        /\ st.max_price \in Nat
        /\ st.tick_size # None => st.tick_size \in Nat \ {0}
    BY <2>1, <2>4 DEF Optional, PriceBoundsStates
  <2>6. st.tick_size # None => OnGrid(intent.limit_price, st.min_price, st.tick_size)
    BY <1>1, <2>3, <2>5, NoRemainderIsOnGrid
  <2> QED
    BY <1>1, <1>2, <1>7, <2>3, <2>4, <2>5, <2>6 DEF Permits
<1>8. CASE rule = "order_quantity"
  <2> DEFINE st == c.quantity_limits
  <2>1. st \in Optional(QuantityLimitsStates)
    BY DEF Contexts
  <2>2. OrderQuantityLimitRule(intent, c) \in {"valid", "not_required"}
    BY <1>8 DEF Evaluate
  <2>3. /\ StateAge(rule, st, c) = "valid"
        /\ ~(intent.quantity < st.min_quantity)
        /\ ~(intent.quantity > st.max_quantity)
        /\ (intent.quantity - st.min_quantity) % st.quantity_increment = 0
    BY <1>8, <2>2, JudgedPasses DEF OrderQuantityLimitRule
  <2>4. st # None /\ Fresh(rule, st, c)
    BY <1>2, <2>1, <2>3, ValidAgeIsFresh DEF Optional, QuantityLimitsStates, StateAge
  <2>5. /\ st.min_quantity \in Nat
        /\ st.max_quantity \in Nat
        /\ st.quantity_increment \in Nat \ {0}
    BY <2>1, <2>4 DEF Optional, QuantityLimitsStates
  <2>6. OnGrid(intent.quantity, st.min_quantity, st.quantity_increment)
    BY <1>1, <2>3, <2>5, NoRemainderIsOnGrid
  <2> QED
    BY <1>1, <1>2, <1>8, <2>3, <2>4, <2>5, <2>6 DEF Permits
<1>9. CASE rule = "order_notional"
  <2> DEFINE st == c.notional_limits
  <2>1. st \in Optional(NotionalLimitStates)
    BY DEF Contexts
  <2>2. OrderNotionalLimitRule(intent, c) \in {"valid", "not_required"}
    BY <1>9 DEF Evaluate
  <2>3. /\ StateAge(rule, st, c) = "valid"
        /\ ~(Notional(intent) > st.max_notional)
    BY <1>9, <2>2, JudgedPasses DEF OrderNotionalLimitRule, Priced, AtMost
  <2>4. st # None /\ Fresh(rule, st, c)
    BY <1>2, <2>1, <2>3, ValidAgeIsFresh DEF Optional, NotionalLimitStates, StateAge
  <2>5. st.max_notional \in Nat
    BY <2>1, <2>4 DEF Optional, NotionalLimitStates
  <2> QED
    BY <1>1, <1>2, <1>9, <2>3, <2>4, <2>5 DEF Permits
<1>10. CASE rule = "market_position"
  <2> DEFINE st == c.market_position
  <2>1. st \in Optional(SignedStates)
    BY DEF Contexts
  <2>2. MarketPositionLimitRule(intent, c) \in {"valid", "not_required"}
    BY <1>10 DEF Evaluate
  <2>3. /\ StateAge(rule, st, c) = "valid"
        /\ ~(Abs(Exposure(st) + Signed(intent, intent.quantity)) > st.max)
    BY <1>10, <2>2, JudgedPasses DEF MarketPositionLimitRule, Exposure, AtMost
  <2>4. st # None /\ Fresh(rule, st, c)
    BY <1>2, <2>1, <2>3, ValidAgeIsFresh DEF Optional, SignedStates, StateAge
  <2>5. /\ Exposure(st) \in Int
        /\ st.max \in Nat
    BY <2>1, <2>4 DEF Optional, SignedStates, Exposure
  <2> QED
    BY <1>1, <1>2, <1>10, <2>3, <2>4, <2>5 DEF Permits, Abs, Signed
<1>11. CASE rule = "portfolio_gross"
  <2> DEFINE st == c.portfolio_gross
  <2>1. st \in Optional(UnsignedStates)
    BY DEF Contexts
  <2>2. PortfolioGrossLimitRule(intent, c) \in {"valid", "not_required"}
    BY <1>11 DEF Evaluate
  <2>3. /\ StateAge(rule, st, c) = "valid"
        /\ ~(Exposure(st) + Notional(intent) > st.max)
    BY <1>11, <2>2, JudgedPasses DEF PortfolioGrossLimitRule, Priced, Exposure, AtMost
  <2>4. st # None /\ Fresh(rule, st, c)
    BY <1>2, <2>1, <2>3, ValidAgeIsFresh DEF Optional, UnsignedStates, StateAge
  <2>5. /\ Exposure(st) \in Int
        /\ st.max \in Nat
    BY <2>1, <2>4 DEF Optional, UnsignedStates, Exposure
  <2> QED
    BY <1>1, <1>2, <1>11, <2>3, <2>4, <2>5 DEF Permits
<1>12. CASE rule = "portfolio_net"
  <2> DEFINE st == c.portfolio_net
  <2>1. st \in Optional(SignedStates)
    BY DEF Contexts
  <2>2. PortfolioNetLimitRule(intent, c) \in {"valid", "not_required"}
    BY <1>12 DEF Evaluate
  <2>3. /\ StateAge(rule, st, c) = "valid"
        /\ ~(Abs(Exposure(st) + Signed(intent, Notional(intent))) > st.max)
    BY <1>12, <2>2, JudgedPasses DEF PortfolioNetLimitRule, Priced, Exposure, AtMost
  <2>4. st # None /\ Fresh(rule, st, c)
    BY <1>2, <2>1, <2>3, ValidAgeIsFresh DEF Optional, SignedStates, StateAge
  <2>5. /\ Exposure(st) \in Int
        /\ st.max \in Nat
    BY <2>1, <2>4 DEF Optional, SignedStates, Exposure
  <2> QED
    BY <1>1, <1>2, <1>12, <2>3, <2>4, <2>5 DEF Permits, Abs, Signed
<1>13. CASE rule = "strategy_capital"
  <2> DEFINE st == c.strategy_capital
  <2>1. st \in Optional(UnsignedStates)
    BY DEF Contexts
  <2>2. StrategyCapitalLimitRule(intent, c) \in {"valid", "not_required"}
    BY <1>13 DEF Evaluate
  <2>3. /\ StateAge(rule, st, c) = "valid"
        /\ ~(Exposure(st) + Notional(intent) > st.max)
    BY <1>13, <2>2, JudgedPasses DEF StrategyCapitalLimitRule, Priced, Exposure, AtMost
  <2>4. st # None /\ Fresh(rule, st, c)
    BY <1>2, <2>1, <2>3, ValidAgeIsFresh DEF Optional, UnsignedStates, StateAge
  <2>5. /\ Exposure(st) \in Int
        /\ st.max \in Nat
    BY <2>1, <2>4 DEF Optional, UnsignedStates, Exposure
  <2> QED
    BY <1>1, <1>2, <1>13, <2>3, <2>4, <2>5 DEF Permits
<1>14. CASE rule = "exchange_capital"
  <2> DEFINE st == c.exchange_capital
  <2>1. st \in Optional(UnsignedStates)
    BY DEF Contexts
  <2>2. ExchangeCapitalLimitRule(intent, c) \in {"valid", "not_required"}
    BY <1>14 DEF Evaluate
  <2>3. /\ StateAge(rule, st, c) = "valid"
        /\ c.exchange_known
        /\ ~(Exposure(st) + Notional(intent) > st.max)
    BY <1>14, <2>2, JudgedPasses DEF ExchangeCapitalLimitRule, Priced, Exposure, AtMost
  <2>4. st # None /\ Fresh(rule, st, c)
    BY <1>2, <2>1, <2>3, ValidAgeIsFresh DEF Optional, UnsignedStates, StateAge
  <2>5. /\ Exposure(st) \in Int
        /\ st.max \in Nat
    BY <2>1, <2>4 DEF Optional, UnsignedStates, Exposure
  <2> QED
    BY <1>1, <1>2, <1>14, <2>3, <2>4, <2>5 DEF Permits
<1>15. CASE rule = "daily_loss"
  <2> DEFINE st == c.daily_loss
  <2>1. st \in Optional(DailyLossStates)
    BY DEF Contexts
  <2>2. DailyLossLimitRule(intent, c) \in {"valid", "not_required"}
    BY <1>15 DEF Evaluate
  <2>3. /\ StateAge(rule, st, c) = "valid"
        /\ ~((IF st.realized + st.unrealized < 0 THEN -(st.realized + st.unrealized) ELSE 0) > st.max)
    BY <1>15, <2>2, JudgedPasses DEF DailyLossLimitRule, AtMost
  <2>4. st # None /\ Fresh(rule, st, c)
    BY <1>2, <2>1, <2>3, ValidAgeIsFresh DEF Optional, DailyLossStates, StateAge
  <2>5. /\ st.realized \in Int
        /\ st.unrealized \in Int
        /\ st.max \in Nat
    BY <2>1, <2>4 DEF Optional, DailyLossStates
  <2> QED
    BY <1>1, <1>2, <1>15, <2>3, <2>4, <2>5 DEF Permits
<1>16. CASE rule = "open_orders"
  <2> DEFINE st == c.open_order_limit
  <2>1. st \in Optional(OpenOrderLimitStates)
    BY DEF Contexts
  <2>2. OpenOrderLimitRule(intent, c) \in {"valid", "not_required"}
    BY <1>16 DEF Evaluate
  <2>3. /\ StateAge(rule, st, c) = "valid"
        /\ ~(st.current + st.pending_cancel + st.reserved + 1 > st.max)
    BY <1>16, <2>2, JudgedPasses DEF OpenOrderLimitRule, AtMost
  <2>4. st # None /\ Fresh(rule, st, c)
    BY <1>2, <2>1, <2>3, ValidAgeIsFresh DEF Optional, OpenOrderLimitStates, StateAge
  <2>5. /\ st.current \in Nat
        /\ st.pending_cancel \in Nat
        /\ st.reserved \in Nat
        /\ st.max \in Nat
    BY <2>1, <2>4 DEF Optional, OpenOrderLimitStates
  <2> QED
    BY <1>1, <1>2, <1>16, <2>3, <2>4, <2>5 DEF Permits
<1>17. CASE rule = "duplicate_guard"
  <2> DEFINE st == c.duplicate_guard
  <2>1. st \in Optional(DuplicateGuardStates)
    BY DEF Contexts
  <2>2. DuplicateOrderGuardRule(intent, c) \in {"valid", "not_required"}
    BY <1>17 DEF Evaluate
  <2>3. /\ StateAge(rule, st, c) = "valid"
        /\ intent.id \notin st.known_intent_ids
        /\ intent.idempotency_key \notin st.known_idempotency_keys
    BY <1>17, <2>2, JudgedPasses DEF DuplicateOrderGuardRule
  <2>4. st # None /\ Fresh(rule, st, c)
    BY <1>2, <2>1, <2>3, ValidAgeIsFresh DEF Optional, DuplicateGuardStates, StateAge
  <2> QED
    BY <1>1, <1>2, <1>17, <2>3, <2>4 DEF Permits
<1>18. CASE rule = "available_balance"
  <2> DEFINE st == c.available_balance
  <2>1. st \in Optional(AvailableBalanceStates)
    BY DEF Contexts
  <2>2. AvailableBalanceRule(intent, c) \in {"valid", "not_required"}
    BY <1>18 DEF Evaluate
  <2>3. /\ StateAge(rule, st, c) = "valid"
        /\ ~(Notional(intent) > st.available - st.reserved)
    BY <1>18, <2>2, JudgedPasses DEF AvailableBalanceRule, Priced
  <2>4. st # None /\ Fresh(rule, st, c)
    BY <1>2, <2>1, <2>3, ValidAgeIsFresh DEF Optional, AvailableBalanceStates, StateAge
  <2>5. /\ st.available \in Int
        /\ st.reserved \in Nat
    BY <2>1, <2>4 DEF Optional, AvailableBalanceStates
  <2> QED
    BY <1>1, <1>2, <1>18, <2>3, <2>4, <2>5 DEF Permits
<1>19. CASE rule = "reconciliation"
  <2> DEFINE st == c.reconciliation
  <2>1. st \in Optional(ReconciliationStates)
    BY DEF Contexts
  <2>2. ReconciliationHealthRule(intent, c) \in {"valid", "not_required"}
    BY <1>19 DEF Evaluate
  <2>3. /\ StateAge(rule, st, c) = "valid"
        /\ st.status = "healthy"
        /\ st.gate_released
        /\ ~(st.manual_reviews > 0)
        /\ ~(st.mismatches > 0)
    BY <1>19, <2>2, JudgedPasses DEF ReconciliationHealthRule
  <2>4. st # None /\ Fresh(rule, st, c)
    BY <1>2, <2>1, <2>3, ValidAgeIsFresh DEF Optional, ReconciliationStates, StateAge
  <2>5. /\ st.manual_reviews \in Nat
        /\ st.mismatches \in Nat
    BY <2>1, <2>4 DEF Optional, ReconciliationStates
  <2> QED
    BY <1>1, <1>2, <1>19, <2>3, <2>4, <2>5 DEF Permits
<1>20. CASE rule = "kill_switch"
  <2> DEFINE st == c.kill_switch_clear
  <2>1. st \in Optional(KillSwitchClearStates)
    BY DEF Contexts
  <2>2. KillSwitchClearRule(intent, c) \in {"valid", "not_required"}
    BY <1>20 DEF Evaluate
  <2>3. /\ StateAge(rule, st, c) = "valid"
        /\ st.active_scopes = {}
    BY <1>20, <2>2, JudgedPasses DEF KillSwitchClearRule
  <2>4. st # None /\ Fresh(rule, st, c)
    BY <1>2, <2>1, <2>3, ValidAgeIsFresh DEF Optional, KillSwitchClearStates, StateAge
  <2> QED
    BY <1>1, <1>2, <1>20, <2>3, <2>4 DEF Permits
<1>21. CASE rule = "arbitrage"
  <2> DEFINE st == c.arbitrage
  <2>1. st \in Optional(ArbitrageLegStates)
    BY DEF Contexts
  <2>2. ArbitrageLegRiskRule(intent, c) \in {"valid", "not_required"}
    BY <1>21 DEF Evaluate
  <2>3. /\ StateAge(rule, st, c) = "valid"
        /\ ~(st.unhedged > st.max)
        /\ ~(st.unhedged > 0 /\ st.hedge_deadline_at = None)
        /\ ~(st.unhedged > 0 /\ c.evaluated_at > st.hedge_deadline_at)
    BY <1>21, <2>2, JudgedPasses DEF ArbitrageLegRiskRule
  <2>4. st # None /\ Fresh(rule, st, c)
    BY <1>2, <2>1, <2>3, ValidAgeIsFresh DEF Optional, ArbitrageLegStates, StateAge
  <2>5. /\ st.unhedged \in Nat
        /\ st.max \in Nat
        /\ st.hedge_deadline_at # None => st.hedge_deadline_at \in Int
    BY <2>1, <2>4 DEF Optional, ArbitrageLegStates
  <2> QED
    BY <1>1, <1>2, <1>21, <2>3, <2>4, <2>5 DEF Permits
<1> QED
  BY <1>3, <1>4, <1>5, <1>6, <1>7, <1>8, <1>9, <1>10, <1>11, <1>12, <1>13, <1>14, <1>15, <1>16, <1>17, <1>18, <1>19, <1>20, <1>21 DEF RuleIds

\* Whatever rules the engine is configured with, and whichever rule fails: an
\* approval means that every one of them holds of the intent.  A rule that raises
\* makes the status ERROR, and an intent without a price ends up rejected.
THEOREM EngineApprovesOnlyPermitted ==
    ASSUME NEW intent \in OrderIntents, NEW c \in Contexts, NEW fault \in 0 .. Len(Rules),
           DecisionStatus(FinalResults(intent, c, fault)) = "approved"
    PROVE  Permitted(intent, c)
<1> DEFINE results == RuleResults(intent, c, fault)
           final == FinalResults(intent, c, fault)
           last == IF fault = 0 THEN Len(Rules) ELSE fault
           missing == [rule |-> "engine", reason |-> "approval_limit_price_missing"]
           S == {results[i] : i \in 1 .. last} \cup {missing}
<1>1. Len(Rules) \in Nat /\ last \in Nat
  BY RulesAssumption DEF RulesAssumption
<1>2. results \in [1 .. last -> S] /\ DOMAIN results = 1 .. last
  BY DEF RuleResults
<1>3. \A i \in DOMAIN final : final[i].reason # "rule_error" /\ Passed(final[i])
  BY DEF DecisionStatus
<1>4. final = results /\ intent.limit_price # None
  <2> SUFFICES ASSUME final = Append(results, missing)
               PROVE  FALSE
    BY <1>3 DEF FinalResults
  <2>1. results \in Seq(S)
    BY <1>1, <1>2, SeqDef
  <2>2. Len(results) + 1 \in DOMAIN final /\ final[Len(results) + 1] = missing
    BY <2>1, AppendProperties
  <2> QED
    BY <1>3, <2>2 DEF Passed
<1>5. fault = 0
  <2> SUFFICES ASSUME fault # 0
               PROVE  FALSE
    OBVIOUS
  <2>1. results[fault].reason = "rule_error"
    BY DEF RuleResults
  <2> QED
    BY <1>2, <1>3, <1>4, <2>1
<1>6. ASSUME NEW n \in 1 .. Len(Rules)
      PROVE  Permits(Rules[n], intent, c)
  <2>1. results[n].reason = Evaluate(Rules[n], intent, c)
    BY <1>5 DEF RuleResults
  <2>2. Evaluate(Rules[n], intent, c) \in {"valid", "not_required"}
    BY <1>2, <1>3, <1>4, <1>5, <2>1 DEF Passed
  <2>3. Rules[n] \in RuleIds
    BY RulesAssumption DEF RulesAssumption
  <2> QED
    BY <1>4, <2>2, <2>3, RuleKeepsPromise
<1> QED
  BY <1>4, <1>6 DEF Permitted

-----------------------------------------------------------------------------
(* The inductive invariant of the unit of work                             *)

Sound(a) ==
    /\ decision[a] \in Decisions
    /\ request[a] \in Asks
    /\ decision[a].status = "approved" =>
          decision[a].permitted /\ request[a].intent.limit_price # None

\* What an attempt holds at each step; a call that was stored has ended.
Held(a) ==
    /\ pc[a] = "observed" => ctx[a] \in Contexts /\ request[a] \in Asks
    /\ pc[a] \in Steps => Sound(a) /\ a \notin decisions
    /\ a \in decisions => Sound(a) /\ pc[a] \in {"returned", "raised"}
    /\ "add_reservation" \in staged[a] =>
          /\ pc[a] \in {"add_artifacts", "commit"}
          /\ ReservationWanted(a) /\ Reservable(a)

IInv == TypeOK /\ \A a \in Attempts : Held(a)

\* The fields of what an attempt holds.
LEMMA AskFields ==
    ASSUME NEW ask \in Asks
    PROVE  /\ ask.intent \in Intents
           /\ ask.intent \in OrderIntents
           /\ ask.snapshot \in SnapshotIds
BY IntentsAssumption DEF Asks, IntentsAssumption

\* The state before the first call satisfies the invariant.
LEMMA InitIInv == Init => IInv
BY EngineAssumption DEF Init, IInv, TypeOK, Held, Steps, Optional, EngineAssumption

\* Time, reservations and kill switches: no attempt moves.
LEMMA OthersKeepIInv ==
    ASSUME IInv,
           \/ Tick
           \/ \E i \in Intents : Release(i)
           \/ ReleaseExpired
           \/ \E k \in Switches : ActivateKillSwitch(k) \/ ReleaseKillSwitch(k)
           \/ UNCHANGED vars
    PROVE  IInv'
<1>1. UNCHANGED <<callVars, decisions>>
  BY DEF Tick, Release, ReleaseExpired, ActivateKillSwitch, ReleaseKillSwitch, vars, tables
<1>2. ASSUME NEW a \in Attempts
      PROVE  Held(a)'
  BY <1>1 DEF IInv, Held, Sound, callVars, ReservationWanted, Reservable
<1>3. TypeOK'
  <2> USE DEF IInv, TypeOK
  <2>1. CASE Tick
    BY <2>1, EngineAssumption DEF Tick, callVars, tables, EngineAssumption
  <2>2. CASE \E i \in Intents : Release(i)
    BY <2>2 DEF Release, callVars, Active, Rows, Optional
  <2>3. CASE ReleaseExpired
    <3>1. ASSUME NEW i \in Intents, Expired(i)
          PROVE  [reservations[i] EXCEPT !.status = "expired", !.released_at = now] \in Rows
      <4>1. reservations[i] \in Rows /\ now \in Int
        BY <3>1, EngineAssumption DEF Expired, Active, Optional, EngineAssumption
      <4> HIDE DEF IInv, TypeOK
      <4> QED
        BY <4>1 DEF Rows
    <3> QED
      BY <2>3, <3>1 DEF ReleaseExpired, callVars, Optional
  <2>4. CASE \E k \in Switches : ActivateKillSwitch(k)
    BY <2>4 DEF ActivateKillSwitch, callVars, tables
  <2>5. CASE \E k \in Switches : ReleaseKillSwitch(k)
    BY <2>5 DEF ReleaseKillSwitch, callVars, tables
  <2>6. CASE UNCHANGED vars
    BY <2>6 DEF vars, callVars, tables
  <2> QED
    BY <2>1, <2>2, <2>3, <2>4, <2>5, <2>6
<1> QED
  BY <1>2, <1>3 DEF IInv

\* An attempt whose own part of the state is left alone keeps what it holds.
LEMMA FrameKeepsHeld ==
    ASSUME NEW b \in Attempts, Held(b),
           pc'[b] = pc[b], request'[b] = request[b], ctx'[b] = ctx[b],
           decision'[b] = decision[b], staged'[b] = staged[b],
           b \in decisions' <=> b \in decisions
    PROVE  Held(b)'
BY DEF Held, Sound, ReservationWanted, Reservable

\* Observing builds a well-formed context for an admissible request.
LEMMA ObserveKeepsIInv ==
    ASSUME IInv, NEW a \in Attempts, NEW r \in Requests(a), Observe(a, r)
    PROVE  IInv'
<1>1. r \in Asks
  BY RequestsAssumption DEF RequestsAssumption
<1>2. PICK o \in Contexts : ctx' = [ctx EXCEPT ![a] = o]
  BY DEF Observe
<1>3. /\ pc[a] = "new"
      /\ pc' = [pc EXCEPT ![a] = "observed"]
      /\ request' = [request EXCEPT ![a] = r]
      /\ UNCHANGED <<now, decision, staged, tables, switches, overtaken>>
  BY DEF Observe
<1>4. TypeOK'
  BY <1>1, <1>2, <1>3 DEF IInv, TypeOK, tables, Optional
<1>5. Held(a)'
  BY <1>1, <1>2, <1>3 DEF IInv, TypeOK, Held, tables, Steps
<1>6. ASSUME NEW b \in Attempts, b # a
      PROVE  Held(b)'
  BY <1>2, <1>3, <1>6, FrameKeepsHeld DEF IInv, TypeOK, tables
<1> QED
  BY <1>4, <1>5, <1>6 DEF IInv

\* There is at most one result for each rule, and the engine's own.
LEMMA FinalResultsDomain ==
    ASSUME NEW intent, NEW c, NEW fault \in 0 .. Len(Rules)
    PROVE  DOMAIN FinalResults(intent, c, fault) \subseteq 1 .. Len(Rules) + 1
<1> DEFINE results == RuleResults(intent, c, fault)
           last == IF fault = 0 THEN Len(Rules) ELSE fault
           missing == [rule |-> "engine", reason |-> "approval_limit_price_missing"]
           S == {results[i] : i \in 1 .. last} \cup {missing}
<1>1. Len(Rules) \in Nat /\ last \in Nat /\ last <= Len(Rules)
  BY RulesAssumption DEF RulesAssumption
<1>2. results \in [1 .. last -> S] /\ DOMAIN results = 1 .. last
  BY DEF RuleResults
<1>3. results \in Seq(S) /\ Len(results) = last
  BY <1>1, <1>2, SeqDef, LenProperties
<1>4. DOMAIN Append(results, missing) = 1 .. last + 1
  BY <1>1, <1>3, AppendProperties, LenProperties
<1> QED
  BY <1>1, <1>2, <1>4 DEF FinalResults

\* The engine's decision is well-formed, and sound by EngineApprovesOnlyPermitted.
LEMMA EvaluateKeepsIInv ==
    ASSUME IInv, NEW a \in Attempts, NEW at \in (now - Skew) .. now, NEW fault \in Faults,
           EvaluateIntent(a, at, fault)
    PROVE  IInv'
<1> DEFINE c == [ctx[a] EXCEPT !.evaluated_at = at]
           intent == request[a].intent
           results == FinalResults(intent, c, fault)
           d == [status |-> DecisionStatus(results), evaluated_at |-> at,
                 breaches |-> Breaches(results),
                 expires_at |-> ExpiresAt(DecisionStatus(results), at),
                 permitted |-> Permitted(intent, c)]
<1>1. /\ pc[a] = "observed"
      /\ ctx' = [ctx EXCEPT ![a] = None]
      /\ decision' = [decision EXCEPT ![a] = d]
      /\ pc' = [pc EXCEPT ![a] = "add_records"]
      /\ UNCHANGED <<now, request, staged, tables, switches, overtaken>>
  BY DEF EvaluateIntent
<1>2. at \in Int
  BY EngineAssumption DEF IInv, TypeOK, EngineAssumption
<1>3. ctx[a] \in Contexts /\ request[a] \in Asks /\ intent \in OrderIntents
  BY <1>1, AskFields DEF IInv, Held
<1>4. c \in Contexts
  BY <1>2, <1>3 DEF Contexts
<1>5. fault \in 0 .. Len(Rules)
  BY EngineAssumption DEF EngineAssumption
<1>6. DecisionStatus(results) = "approved" => Permitted(intent, c)
  BY <1>3, <1>4, <1>5, EngineApprovesOnlyPermitted
<1>7. d \in Decisions
  <2>1. DecisionStatus(results) \in {"approved", "rejected", "error"}
    BY DEF DecisionStatus
  <2>2. Breaches(results) \in SUBSET (1 .. Len(Rules) + 1)
    BY <1>5, FinalResultsDomain DEF Breaches
  <2>3. ExpiresAt(DecisionStatus(results), at) \in Optional(Int)
    BY <1>2, EngineAssumption DEF ExpiresAt, Optional, EngineAssumption
  <2>4. Permitted(intent, c) \in BOOLEAN
    BY DEF Permitted
  <2> QED
    BY <1>2, <2>1, <2>2, <2>3, <2>4 DEF Decisions
<1>8. TypeOK'
  BY <1>1, <1>7 DEF IInv, TypeOK, tables, Optional, Steps
<1>9. Held(a)'
  BY <1>1, <1>3, <1>6, <1>7 DEF IInv, TypeOK, Held, Sound, tables, Steps, Permitted
<1>10. ASSUME NEW b \in Attempts, b # a
       PROVE  Held(b)'
  BY <1>1, <1>10, FrameKeepsHeld DEF IInv, TypeOK, tables
<1> QED
  BY <1>8, <1>9, <1>10 DEF IInv

\* A rolled back attempt holds nothing; nothing else changes.
LEMMA RollbackKeepsIInv ==
    ASSUME IInv, NEW a \in Attempts, pc[a] \in Steps, RollsBack(a),
           UNCHANGED <<now, ctx, tables, switches, overtaken>>
    PROVE  IInv'
<1>1. TypeOK'
  BY DEF IInv, TypeOK, RollsBack, tables, Optional
<1>2. Held(a)'
  BY DEF IInv, TypeOK, Held, RollsBack, tables, Steps
<1>3. ASSUME NEW b \in Attempts, b # a
      PROVE  Held(b)'
  BY <1>3, FrameKeepsHeld DEF IInv, TypeOK, RollsBack, tables
<1> QED
  BY <1>1, <1>2, <1>3 DEF IInv

\* A step that writes, or has nothing to write: what is staged as a reservation was
\* wanted and could be built.
LEMMA ForwardKeepsIInv ==
    ASSUME IInv, NEW a \in Attempts, NEW next \in Steps, pc[a] \in Steps,
           Flushes(a, next) \/ Skips(a, next),
           next \in {"add_artifacts", "commit"} \/ "add_reservation" \notin staged'[a],
           "add_reservation" \in staged'[a] \ staged[a] => ReservationWanted(a) /\ Reservable(a),
           UNCHANGED <<now, ctx, tables, switches, overtaken>>
    PROVE  IInv'
<1>1. /\ pc' = [pc EXCEPT ![a] = next]
      /\ \/ staged' = [staged EXCEPT ![a] = @ \cup {pc[a]}]
         \/ staged' = staged
      /\ UNCHANGED <<request, decision>>
  BY DEF Flushes, Skips
<1>2. TypeOK'
  BY <1>1 DEF IInv, TypeOK, tables
<1>3. Held(a)'
  <2>1. Held(a) /\ pc'[a] = next /\ UNCHANGED <<request, decision, decisions>>
    BY <1>1 DEF IInv, TypeOK, tables
  <2> QED
    BY <2>1 DEF Held, Sound, Steps, ReservationWanted, Reservable
<1>4. ASSUME NEW b \in Attempts, b # a
      PROVE  Held(b)'
  BY <1>1, <1>4, FrameKeepsHeld DEF IInv, TypeOK, tables
<1> QED
  BY <1>2, <1>3, <1>4 DEF IInv

\* The commit stores a sound decision, and a reservation of something.
LEMMA CommitKeepsIInv ==
    ASSUME IInv, NEW a \in Attempts, Commits(a), NEW end \in {"returned", "raised"},
           pc' = [pc EXCEPT ![a] = end]
    PROVE  IInv'
<1>1. pc[a] = "commit" /\ Held(a) /\ Sound(a)
  BY DEF Commits, IInv, Held, Steps
<1>2. ASSUME "add_reservation" \in staged[a]
      PROVE  Reservation(a) \in Rows
  <2>1. ReservationWanted(a) /\ Reservable(a)
    BY <1>1, <1>2 DEF Held
  <2>2. decision[a].evaluated_at \in Int /\ decision[a].expires_at \in Int
    BY <1>1, <2>1 DEF Sound, Reservable, Decisions, Optional
  <2>3. Notional(request[a].intent) \in Nat \ {0}
    BY <1>1, <2>1, AskFields
       DEF Sound, ReservationWanted, Reservable, Notional, OrderIntents, Optional
  <2> QED
    BY <2>2, <2>3 DEF Reservation, Rows
<1>3. request[a].intent \in Intents /\ request[a].snapshot \in SnapshotIds
  BY <1>1, AskFields DEF Sound
<1>4. decision[a].breaches \in SUBSET (1 .. Len(Rules) + 1)
  BY <1>1 DEF Sound, Decisions
<1>5. TypeOK'
  <2> USE DEF IInv, TypeOK
  <2>1. reservations' \in [Intents -> Optional(Rows)]
    BY <1>2, <1>3 DEF Commits, Optional
  <2>2. overtaken' \in SUBSET Attempts
    BY DEF Commits, InFlight
  <2>3. /\ events' \in SUBSET Attempts /\ outbox' \in SUBSET Attempts
        /\ decisions' \in SUBSET Attempts
    BY DEF Commits
  <2>4. /\ breaches' \in [Attempts -> SUBSET (1 .. Len(Rules) + 1)]
        /\ snapshots' \in [SnapshotIds -> Attempts \cup {None}]
    BY <1>3, <1>4 DEF Commits
  <2>5. /\ staged' \in [Attempts -> SUBSET Steps]
        /\ UNCHANGED <<now, request, ctx, decision, switches>>
    BY DEF Commits
  <2>6. pc' \in [Attempts -> {"new", "observed", "returned", "raised"} \cup Steps]
    OBVIOUS
  <2> QED
    BY <2>1, <2>2, <2>3, <2>4, <2>5, <2>6 DEF Optional
<1>6. Held(a)'
  BY <1>1 DEF IInv, TypeOK, Held, Sound, Commits, Steps
<1>7. ASSUME NEW b \in Attempts, b # a
      PROVE  Held(b)'
  BY <1>7, FrameKeepsHeld DEF IInv, TypeOK, Commits
<1> QED
  BY <1>5, <1>6, <1>7 DEF IInv

\* Every step of an attempt's unit of work.
LEMMA WorkKeepsIInv ==
    ASSUME IInv, NEW a \in Attempts,
           \/ AddRecords(a) \/ AddReservation(a) \/ AddArtifacts(a)
           \/ CommitReturns(a) \/ CommitUnacknowledged(a) \/ Abort(a)
    PROVE  IInv'
<1>0. Held(a)
  BY DEF IInv
<1>1. CASE AddRecords(a)
  <2>1. pc[a] \in Steps /\ pc[a] = "add_records" /\ "add_reservation" \notin staged[a]
    BY <1>0, <1>1 DEF AddRecords, Steps, Held
  <2>2. CASE Flushes(a, "add_reservation")
    <3>1. staged' = [staged EXCEPT ![a] = @ \cup {"add_records"}]
      BY <2>1, <2>2 DEF Flushes
    <3>2. "add_reservation" \notin staged'[a]
      BY <2>1, <3>1 DEF IInv, TypeOK
    <3> QED
      BY <1>1, <2>1, <2>2, <3>2, ForwardKeepsIInv DEF AddRecords, Steps
  <2>3. CASE RollsBack(a)
    BY <1>1, <2>1, <2>3, RollbackKeepsIInv DEF AddRecords
  <2> QED
    BY <1>1, <2>2, <2>3 DEF AddRecords
<1>2. CASE AddReservation(a)
  <2>1. pc[a] \in Steps
    BY <1>2 DEF AddReservation, Steps
  <2>2. CASE Skips(a, "add_artifacts")
    BY <1>2, <2>1, <2>2, ForwardKeepsIInv DEF AddReservation, Steps, Skips
  <2>3. CASE /\ Flushes(a, "add_artifacts")
             /\ ReservationWanted(a) /\ Reservable(a)
    BY <1>2, <2>1, <2>3, ForwardKeepsIInv DEF AddReservation, Steps
  <2>4. CASE RollsBack(a)
    BY <1>2, <2>1, <2>4, RollbackKeepsIInv DEF AddReservation
  <2> QED
    BY <1>2, <2>2, <2>3, <2>4 DEF AddReservation
<1>3. CASE AddArtifacts(a)
  <2>1. pc[a] \in Steps /\ pc[a] = "add_artifacts"
    BY <1>3 DEF AddArtifacts, Steps
  <2>2. CASE Flushes(a, "commit")
    <3>1. staged' = [staged EXCEPT ![a] = @ \cup {"add_artifacts"}]
      BY <2>1, <2>2 DEF Flushes
    <3>2. "add_reservation" \notin staged'[a] \ staged[a]
      BY <3>1 DEF IInv, TypeOK
    <3> QED
      BY <1>3, <2>1, <2>2, <3>2, ForwardKeepsIInv DEF AddArtifacts, Steps
  <2>3. CASE RollsBack(a)
    BY <1>3, <2>1, <2>3, RollbackKeepsIInv DEF AddArtifacts
  <2> QED
    BY <1>3, <2>2, <2>3 DEF AddArtifacts
<1>4. CASE CommitReturns(a) \/ CommitUnacknowledged(a)
  BY <1>4, CommitKeepsIInv DEF CommitReturns, CommitUnacknowledged
<1>5. CASE Abort(a)
  BY <1>5, RollbackKeepsIInv DEF Abort
<1> QED
  BY <1>1, <1>2, <1>3, <1>4, <1>5

\* In every reachable state each attempt holds what its step needs: IInv.
THEOREM Inductive == Spec => []IInv
<1>1. IInv /\ [Next]_vars => IInv'
  <2> SUFFICES ASSUME IInv, [Next]_vars
               PROVE  IInv'
    OBVIOUS
  <2>1. ASSUME NEW a \in Attempts, NEW r \in Requests(a), Observe(a, r)
        PROVE  IInv'
    BY <2>1, ObserveKeepsIInv
  <2>2. ASSUME NEW a \in Attempts, NEW at \in (now - Skew) .. now, NEW fault \in Faults,
               EvaluateIntent(a, at, fault)
        PROVE  IInv'
    BY <2>2, EvaluateKeepsIInv
  <2>3. ASSUME NEW a \in Attempts,
               \/ AddRecords(a) \/ AddReservation(a) \/ AddArtifacts(a)
               \/ CommitReturns(a) \/ CommitUnacknowledged(a) \/ Abort(a)
        PROVE  IInv'
    BY <2>3, WorkKeepsIInv
  <2> QED
    BY <2>1, <2>2, <2>3, OthersKeepIInv DEF Next
<1> QED
  BY <1>1, InitIInv, PTL DEF Spec

\* Type correctness of the risk path: every reservation row that is ever stored is
\* for a positive amount and has an expiry (CapitalReservation.__post_init__).
THEOREM TypeCorrect == Spec => []TypeOK
BY Inductive, PTL DEF IInv

\* Every approval in the risk_decisions table meets the promise of every configured
\* rule, whatever the rules, their number, the contexts and the failures.
THEOREM ApprovalsPermittedHolds == Spec => []ApprovalsPermitted
<1>1. IInv => ApprovalsPermitted
  BY DEF IInv, TypeOK, Held, Sound, ApprovalsPermitted, Approved
<1> QED
  BY <1>1, Inductive, PTL

-----------------------------------------------------------------------------
(* Reservations                                                            *)

\* A staged reservation is the only one for its intent, staged or stored: the
\* unique constraint on intent_id.
Exclusive ==
    \A a \in Attempts : "add_reservation" \in staged[a] =>
        /\ reservations[request[a].intent] = None
        /\ \A b \in Attempts \ {a} :
              "add_reservation" \in staged[b] => request[b].intent # request[a].intent

\* A step that stages no reservation and stores none leaves Exclusive alone.
LEMMA NothingReserved ==
    ASSUME Exclusive,
           \A a \in Attempts : "add_reservation" \in staged'[a] =>
               "add_reservation" \in staged[a] /\ request'[a] = request[a],
           \A i \in Intents : reservations[i] = None => reservations'[i] = None,
           \A a \in Attempts : "add_reservation" \in staged[a] => request[a].intent \in Intents
    PROVE  Exclusive'
BY DEF Exclusive

\* A staged reservation belongs to a request for a known intent.
LEMMA StagedIntents ==
    ASSUME IInv, NEW a \in Attempts, "add_reservation" \in staged[a]
    PROVE  request[a].intent \in Intents /\ pc[a] \in {"add_artifacts", "commit"}
BY AskFields DEF IInv, Held, Sound, Steps

\* Every step keeps staged reservations exclusive.
LEMMA ExclusiveInductive == IInv /\ Exclusive /\ [Next]_vars => Exclusive'
<1> SUFFICES ASSUME IInv, Exclusive, [Next]_vars
             PROVE  Exclusive'
  OBVIOUS
<1>1. \A a \in Attempts : "add_reservation" \in staged[a] => request[a].intent \in Intents
  BY StagedIntents
<1> USE DEF IInv, TypeOK
<1>2. CASE \/ Tick \/ UNCHANGED vars
           \/ \E k \in Switches : ActivateKillSwitch(k) \/ ReleaseKillSwitch(k)
  BY <1>2 DEF Tick, ActivateKillSwitch, ReleaseKillSwitch, vars, callVars, tables, Exclusive
<1>3. CASE \E i \in Intents : Release(i)
  BY <1>1, <1>3, NothingReserved DEF Release, Active, callVars
<1>4. CASE ReleaseExpired
  BY <1>1, <1>4, NothingReserved DEF ReleaseExpired, Expired, Active, callVars
<1>5. ASSUME NEW a \in Attempts, NEW r \in Requests(a), Observe(a, r)
      PROVE  Exclusive'
  <2>1. "add_reservation" \notin staged[a]
    BY <1>5, StagedIntents DEF Observe
  <2> QED
    BY <1>1, <1>5, <2>1, NothingReserved DEF Observe, tables
<1>6. ASSUME NEW a \in Attempts, NEW at \in (now - Skew) .. now, NEW fault \in Faults,
             EvaluateIntent(a, at, fault)
      PROVE  Exclusive'
  BY <1>6 DEF EvaluateIntent, tables, Exclusive
<1>7. ASSUME NEW a \in Attempts, RollsBack(a), UNCHANGED reservations
      PROVE  Exclusive'
  BY <1>1, <1>7, NothingReserved DEF RollsBack
<1>8. ASSUME NEW a \in Attempts, AddRecords(a)
      PROVE  Exclusive'
  <2>1. CASE Flushes(a, "add_reservation")
    BY <1>1, <1>8, <2>1, NothingReserved DEF AddRecords, Flushes, tables
  <2> QED
    BY <1>7, <1>8, <2>1 DEF AddRecords, tables
<1>9. ASSUME NEW a \in Attempts, AddReservation(a)
      PROVE  Exclusive'
  <2>1. CASE Skips(a, "add_artifacts")
    BY <1>1, <1>9, <2>1, NothingReserved DEF AddReservation, Skips, tables
  <2>2. CASE /\ Flushes(a, "add_artifacts")
             /\ IntentFree(a)
             /\ ~Blocked(a, "add_reservation", LAMBDA b : request[b].intent = request[a].intent)
    <3>1. \A b \in Attempts \ {a} :
             "add_reservation" \in staged[b] => request[b].intent # request[a].intent
      BY <2>2 DEF Blocked
    <3>2. reservations[request[a].intent] = None
      BY <2>2 DEF IntentFree
    <3>3. /\ staged' = [staged EXCEPT ![a] = @ \cup {pc[a]}]
          /\ UNCHANGED <<request, reservations>>
      BY <1>9, <2>2 DEF AddReservation, Flushes, tables
    <3> QED
      BY <3>1, <3>2, <3>3 DEF Exclusive
  <2> QED
    BY <1>7, <1>9, <2>1, <2>2 DEF AddReservation, tables
<1>10. ASSUME NEW a \in Attempts, AddArtifacts(a)
       PROVE  Exclusive'
  <2>1. CASE Flushes(a, "commit")
    BY <1>1, <1>10, <2>1, NothingReserved DEF AddArtifacts, Flushes, tables
  <2> QED
    BY <1>7, <1>10, <2>1 DEF AddArtifacts, tables
<1>11. ASSUME NEW a \in Attempts, Commits(a)
       PROVE  Exclusive'
  <2>1. staged' = [staged EXCEPT ![a] = {}] /\ UNCHANGED request
    BY <1>11 DEF Commits
  <2>2. \/ UNCHANGED reservations
        \/ /\ "add_reservation" \in staged[a]
           /\ reservations' = [reservations EXCEPT ![request[a].intent] = Reservation(a)]
    BY <1>11 DEF Commits
  <2> QED
    BY <1>1, <2>1, <2>2 DEF Exclusive
<1>12. ASSUME NEW a \in Attempts, Abort(a)
       PROVE  Exclusive'
  BY <1>7, <1>12 DEF Abort, tables
<1> QED
  BY <1>2, <1>3, <1>4, <1>5, <1>6, <1>8, <1>9, <1>10, <1>11, <1>12
     DEF Next, CommitReturns, CommitUnacknowledged

\* No step replaces a stored reservation or touches one that has ended: neither a
\* retry, nor a concurrent evaluation of the same intent, nor release after expiry; and
\* none expires early.
THEOREM ReservationsAreFinalHolds == Spec => ReservationsAreFinal
<1>1. Init => Exclusive
  BY DEF Init, Exclusive
<1>2. ASSUME IInv, Exclusive, [Next]_vars, NEW i \in Intents, reservations[i] # None
      PROVE  \/ reservations'[i] = reservations[i]
             \/ /\ reservations[i].status = "active"
                /\ reservations'[i].status \in {"released", "expired"}
                /\ reservations'[i].status = "expired" => reservations[i].expires_at <= now
                /\ reservations'[i].by = reservations[i].by
  <2> USE DEF IInv, TypeOK
  <2>1. reservations[i] \in Rows
    BY <1>2 DEF Optional
  <2>2. CASE \E j \in Intents : Release(j)
    BY <1>2, <2>1, <2>2 DEF Release, Active, Rows
  <2>3. CASE ReleaseExpired
    BY <1>2, <2>1, <2>3 DEF ReleaseExpired, Expired, Active, Rows
  <2>4. ASSUME NEW a \in Attempts, Commits(a)
        PROVE  reservations'[i] = reservations[i]
    BY <1>2, <2>4, StagedIntents DEF Commits, Exclusive
  <2>5. CASE UNCHANGED reservations
    BY <2>5
  <2> QED
    BY <1>2, <2>2, <2>3, <2>4, <2>5
       DEF Next, Tick, ActivateKillSwitch, ReleaseKillSwitch, Observe, EvaluateIntent,
           AddRecords, AddReservation, AddArtifacts, CommitReturns, CommitUnacknowledged,
           Abort, vars, tables
<1>3. IInv /\ Exclusive /\ [Next]_vars =>
         [\A i \in Intents : reservations[i] # None =>
             \/ reservations'[i] = reservations[i]
             \/ /\ reservations[i].status = "active"
                /\ reservations'[i].status \in {"released", "expired"}
                /\ reservations'[i].status = "expired" => reservations[i].expires_at <= now
                /\ reservations'[i].by = reservations[i].by]_vars
  BY <1>2
<1>4. Spec => []Exclusive
  BY <1>1, Inductive, ExclusiveInductive, PTL DEF Spec
<1> QED
  BY <1>3, <1>4, Inductive, PTL DEF Spec, ReservationsAreFinal

-----------------------------------------------------------------------------
(* All or nothing                                                          *)

\* What an open transaction has written at each of its steps.
StagedSoFar ==
    \A a \in Attempts :
        /\ "add_records" \in staged[a] <=> pc[a] \in {"add_reservation", "add_artifacts", "commit"}
        /\ pc[a] \in {"add_artifacts", "commit"} /\ ReservationWanted(a)
              => "add_reservation" \in staged[a]

\* A staged input snapshot is the only one with its id, staged or stored: the unique
\* constraint on risk_input_snapshot_id.
SnapshotExclusive ==
    \A a \in Attempts : "add_records" \in staged[a] =>
        /\ snapshots[request[a].snapshot] = None
        /\ \A b \in Attempts \ {a} :
              "add_records" \in staged[b] => request[b].snapshot # request[a].snapshot

\* A stored decision still has its own input snapshot.
SnapshotKept == \A a \in decisions : snapshots[request[a].snapshot] = a

Stored == CommittedTogether /\ CapitalBacksApprovals /\ SnapshotKept

SInv == StagedSoFar /\ SnapshotExclusive /\ Stored

\* The first state has stored and staged nothing.
LEMMA InitSInv == Init => SInv
BY RowsAssumption DEF Init, SInv, StagedSoFar, SnapshotExclusive, Stored, CommittedTogether,
   CapitalBacksApprovals, SnapshotKept, Approved, RowsAssumption

\* The intent and the snapshot of an attempt in its unit of work.
LEMMA WorkFields ==
    ASSUME IInv, NEW a \in Attempts, pc[a] \in Steps \/ a \in decisions
    PROVE  request[a].intent \in Intents /\ request[a].snapshot \in SnapshotIds
BY AskFields DEF IInv, Held, Sound

\* A step that moves one unfinished attempt and leaves the tables alone.
LEMMA StoredFrame ==
    ASSUME IInv, Stored, NEW a \in Attempts, a \notin decisions,
           pc'[a] # "returned", UNCHANGED tables,
           \A b \in Attempts \ {a} :
               pc'[b] = pc[b] /\ request'[b] = request[b] /\ decision'[b] = decision[b]
    PROVE  Stored'
<1>1. decisions \subseteq Attempts \ {a}
  BY DEF IInv, TypeOK
<1>2. Approved' = Approved
  BY <1>1 DEF Approved, tables
<1>3. CommittedTogether'
  BY <1>1, <1>2 DEF Stored, CommittedTogether, tables
<1>4. CapitalBacksApprovals'
  BY <1>1, <1>2 DEF Stored, CapitalBacksApprovals, tables, Approved
<1>5. SnapshotKept'
  BY <1>1 DEF Stored, SnapshotKept, tables
<1> QED
  BY <1>3, <1>4, <1>5 DEF Stored

\* A step that moves one attempt and leaves the snapshots alone keeps staged snapshots
\* exclusive, unless it is the one that stages it.
LEMMA ExclusiveFrame ==
    ASSUME SnapshotExclusive, UNCHANGED snapshots,
           \A b \in Attempts : "add_records" \in staged'[b] =>
               "add_records" \in staged[b] /\ request'[b] = request[b]
    PROVE  SnapshotExclusive'
BY DEF SnapshotExclusive

\* Steps in which no attempt moves: reservations may end, but keep what they are for.
LEMMA RowsOnlyEnd ==
    ASSUME IInv,
           \/ Tick
           \/ \E i \in Intents : Release(i)
           \/ ReleaseExpired
           \/ \E k \in Switches : ActivateKillSwitch(k) \/ ReleaseKillSwitch(k)
           \/ UNCHANGED vars,
           NEW i \in Intents
    PROVE  reservations'[i] = reservations[i] \/
           /\ reservations[i] # None /\ reservations'[i] # None
           /\ reservations'[i].by = reservations[i].by
           /\ reservations'[i].notional = reservations[i].notional
           /\ reservations'[i].expires_at = reservations[i].expires_at
           /\ reservations'[i].status # "active"
<1> USE RowsAssumption DEF IInv, TypeOK, RowsAssumption
<1>0. \A st \in {"released", "expired"} :
         LET row == [reservations[i] EXCEPT !.status = st, !.released_at = now] IN
         reservations[i] # None => /\ row # None
                                   /\ row.by = reservations[i].by
                                   /\ row.notional = reservations[i].notional
                                   /\ row.expires_at = reservations[i].expires_at
                                   /\ row.status # "active"
  <2> TAKE st \in {"released", "expired"}
  <2> SUFFICES ASSUME reservations[i] # None
               PROVE  LET row == [reservations[i] EXCEPT !.status = st, !.released_at = now] IN
                      /\ row # None
                      /\ row.by = reservations[i].by
                      /\ row.notional = reservations[i].notional
                      /\ row.expires_at = reservations[i].expires_at
                      /\ row.status # "active"
    OBVIOUS
  <2>1. reservations[i] \in Rows /\ now \in Int
    BY EngineAssumption DEF EngineAssumption
  <2> HIDE DEF IInv, TypeOK
  <2>2. [reservations[i] EXCEPT !.status = st, !.released_at = now] \in Rows
    BY <2>1 DEF Rows
  <2> QED
    BY <2>1, <2>2 DEF Rows
<1>1. CASE \E j \in Intents : Release(j)
  <2>1. PICK j \in Intents : Release(j)
    BY <1>1
  <2>2. /\ reservations[j] # None
        /\ reservations' = [reservations EXCEPT ![j] =
              [reservations[j] EXCEPT !.status = "released", !.released_at = now]]
    BY <2>1 DEF Release, Active
  <2> QED
    BY <1>0, <2>2
<1>2. CASE ReleaseExpired
  BY <1>0, <1>2 DEF ReleaseExpired, Expired, Active
<1> QED
  BY <1>1, <1>2 DEF Tick, ActivateKillSwitch, ReleaseKillSwitch, vars, tables

\* The same steps keep the invariant of the tables.
LEMMA OthersKeepSInv ==
    ASSUME IInv, SInv,
           \/ Tick
           \/ \E i \in Intents : Release(i)
           \/ ReleaseExpired
           \/ \E k \in Switches : ActivateKillSwitch(k) \/ ReleaseKillSwitch(k)
           \/ UNCHANGED vars
    PROVE  SInv'
<1>1. UNCHANGED <<callVars, snapshots, decisions, breaches, events, outbox>>
  BY DEF Tick, Release, ReleaseExpired, ActivateKillSwitch, ReleaseKillSwitch, vars, tables
<1>2. \A i \in Intents : reservations'[i] = reservations[i] \/
         /\ reservations[i] # None /\ reservations'[i] # None
         /\ reservations'[i].by = reservations[i].by
         /\ reservations'[i].notional = reservations[i].notional
         /\ reservations'[i].expires_at = reservations[i].expires_at
  BY RowsOnlyEnd
<1>3. StagedSoFar' /\ SnapshotExclusive' /\ SnapshotKept'
  BY <1>1 DEF SInv, Stored, StagedSoFar, SnapshotExclusive, SnapshotKept, callVars,
              ReservationWanted
<1>4. Approved' = Approved
  BY <1>1 DEF Approved, callVars
<1>5. CommittedTogether'
  BY <1>1, <1>2, <1>4 DEF SInv, Stored, CommittedTogether, callVars
<1>6. CapitalBacksApprovals'
  <2>1. \A a \in Approved : request[a].intent \in Intents
    BY WorkFields DEF Approved, IInv, TypeOK
  <2> QED
    BY <1>1, <1>2, <1>4, <2>1 DEF SInv, Stored, CapitalBacksApprovals, callVars
<1> QED
  BY <1>3, <1>5, <1>6 DEF SInv, Stored

\* A rolled back attempt leaves nothing staged and nothing stored.
LEMMA RollbackKeepsSInv ==
    ASSUME IInv, SInv, NEW a \in Attempts, pc[a] \in Steps, RollsBack(a), UNCHANGED tables
    PROVE  SInv'
<1>1. a \notin decisions
  BY DEF IInv, Held
<1>2. /\ pc' = [pc EXCEPT ![a] = "raised"]
      /\ staged' = [staged EXCEPT ![a] = {}]
      /\ request' = [request EXCEPT ![a] = None]
      /\ decision' = [decision EXCEPT ![a] = None]
  BY DEF RollsBack
<1>3. Stored'
  BY <1>1, <1>2, StoredFrame DEF SInv, IInv, TypeOK
<1>4. SnapshotExclusive'
  BY <1>2, ExclusiveFrame DEF SInv, IInv, TypeOK, tables
<1>5. StagedSoFar'
  BY <1>2 DEF SInv, StagedSoFar, IInv, TypeOK, ReservationWanted
<1> QED
  BY <1>3, <1>4, <1>5 DEF SInv

\* A call that observes, and the engine's decision, write nothing.
LEMMA BeforeWorkKeepsSInv ==
    ASSUME IInv, SInv, NEW a \in Attempts,
           \/ \E r \in Requests(a) : Observe(a, r)
           \/ \E at \in (now - Skew) .. now, fault \in Faults : EvaluateIntent(a, at, fault)
    PROVE  SInv'
<1>1. /\ pc[a] \in {"new", "observed"}
      /\ pc' \in {[pc EXCEPT ![a] = "observed"], [pc EXCEPT ![a] = "add_records"]}
      /\ UNCHANGED <<staged, tables>>
      /\ \A b \in Attempts \ {a} : request'[b] = request[b] /\ decision'[b] = decision[b]
  BY DEF Observe, EvaluateIntent, IInv, TypeOK
<1>2. a \notin decisions /\ "add_records" \notin staged[a] /\ "add_reservation" \notin staged[a]
  BY <1>1 DEF IInv, Held, SInv, StagedSoFar
<1>3. Stored'
  BY <1>1, <1>2, StoredFrame DEF SInv, IInv, TypeOK
<1>4. SnapshotExclusive'
  BY <1>1, <1>2, ExclusiveFrame DEF SInv, tables
<1>5. StagedSoFar'
  BY <1>1, <1>2 DEF SInv, StagedSoFar, IInv, TypeOK, ReservationWanted
<1> QED
  BY <1>3, <1>4, <1>5 DEF SInv

\* The steps of a unit of work before its commit.
LEMMA FlushKeepsSInv ==
    ASSUME IInv, SInv, NEW a \in Attempts,
           AddRecords(a) \/ AddReservation(a) \/ AddArtifacts(a)
    PROVE  SInv'
<1> USE DEF IInv, TypeOK
<1>0. pc[a] \in Steps /\ UNCHANGED tables /\ a \notin decisions
  BY DEF AddRecords, AddReservation, AddArtifacts, Steps, Held
<1>1. ASSUME RollsBack(a) PROVE SInv'
  BY <1>0, <1>1, RollbackKeepsSInv
<1>2. ASSUME NEW next \in Steps, Flushes(a, next) \/ Skips(a, next)
      PROVE  Stored'
  <2>1. pc' = [pc EXCEPT ![a] = next] /\ UNCHANGED <<request, decision>>
    BY <1>2 DEF Flushes, Skips
  <2>2. pc'[a] # "returned"
    BY <2>1 DEF Steps
  <2> QED
    BY <1>0, <2>1, <2>2, StoredFrame DEF SInv
<1>3. CASE AddRecords(a) /\ Flushes(a, "add_reservation")
  <2>1. /\ pc[a] = "add_records"
        /\ snapshots[request[a].snapshot] = None
        /\ pc' = [pc EXCEPT ![a] = "add_reservation"]
        /\ staged' = [staged EXCEPT ![a] = @ \cup {"add_records"}]
        /\ UNCHANGED <<request, decision, snapshots>>
    <3>1. pc[a] = "add_records"
      BY <1>3 DEF AddRecords
    <3>2. snapshots[request[a].snapshot] = None
      <4>1. ~RollsBack(a)
        BY <1>3, <3>1 DEF Flushes, RollsBack
      <4> QED
        BY <1>3, <4>1 DEF AddRecords
    <3> QED
      BY <1>0, <1>3, <3>1, <3>2 DEF Flushes, tables
  <2>2. \A b \in Attempts \ {a} :
           "add_records" \in staged[b] => request[b].snapshot # request[a].snapshot
    BY <1>3 DEF AddRecords, Blocked
  <2>3. SnapshotExclusive'
    BY <2>1, <2>2 DEF SInv, SnapshotExclusive
  <2>4. StagedSoFar'
    BY <2>1 DEF SInv, StagedSoFar, ReservationWanted
  <2> QED
    BY <1>2, <1>3, <2>3, <2>4 DEF SInv, Steps
<1>4. CASE AddReservation(a) /\ ~RollsBack(a)
  <2>1. /\ pc[a] = "add_reservation"
        /\ pc' = [pc EXCEPT ![a] = "add_artifacts"]
        /\ \/ ~ReservationWanted(a) /\ UNCHANGED staged
           \/ staged' = [staged EXCEPT ![a] = @ \cup {"add_reservation"}]
        /\ UNCHANGED <<request, decision, snapshots>>
    BY <1>0, <1>4 DEF AddReservation, Flushes, Skips, tables
  <2>2. SnapshotExclusive'
    BY <2>1, ExclusiveFrame DEF SInv
  <2>3. StagedSoFar'
    BY <2>1 DEF SInv, StagedSoFar, ReservationWanted
  <2>4. Stored'
    BY <1>2, <1>4 DEF AddReservation, Steps
  <2> QED
    BY <2>2, <2>3, <2>4 DEF SInv
<1>5. CASE AddArtifacts(a) /\ ~RollsBack(a)
  <2>1. /\ pc[a] = "add_artifacts"
        /\ Flushes(a, "commit")
        /\ pc' = [pc EXCEPT ![a] = "commit"]
        /\ staged' = [staged EXCEPT ![a] = @ \cup {"add_artifacts"}]
        /\ UNCHANGED <<request, decision, snapshots>>
    BY <1>0, <1>5 DEF AddArtifacts, Flushes, tables
  <2>2. SnapshotExclusive'
    BY <2>1, ExclusiveFrame DEF SInv
  <2>3. StagedSoFar'
    BY <2>1 DEF SInv, StagedSoFar, ReservationWanted
  <2> QED
    BY <1>2, <2>1, <2>2, <2>3 DEF SInv, Steps
<1> QED
  BY <1>1, <1>3, <1>4, <1>5 DEF AddRecords

\* The commit makes the rows of one evaluation visible, all of them.
LEMMA CommitKeepsSInv ==
    ASSUME IInv, Exclusive, SInv, NEW a \in Attempts, Commits(a),
           NEW end \in {"returned", "raised"}, pc' = [pc EXCEPT ![a] = end]
    PROVE  SInv'
<1> USE RowsAssumption DEF IInv, TypeOK, RowsAssumption
<1> DEFINE s == request[a].snapshot
           i == request[a].intent
<1>1. pc[a] = "commit" /\ Sound(a) /\ a \notin decisions
  BY DEF Commits, Held, Steps
<1>2. i \in Intents /\ s \in SnapshotIds
  BY <1>1, WorkFields DEF Steps
<1>3. "add_records" \in staged[a] /\ snapshots[s] = None
  BY <1>1 DEF SInv, StagedSoFar, SnapshotExclusive
<1>4. /\ snapshots' = [snapshots EXCEPT ![s] = a]
      /\ decisions' = decisions \cup {a}
      /\ breaches' = [breaches EXCEPT ![a] = decision[a].breaches]
      /\ staged' = [staged EXCEPT ![a] = {}]
      /\ UNCHANGED <<request, decision>>
  BY DEF Commits
<1>5. IF request[a].persist
      THEN events' = events \cup {a} /\ outbox' = outbox \cup {a}
      ELSE UNCHANGED <<events, outbox>>
  BY DEF Commits
<1>6. \/ "add_reservation" \notin staged[a] /\ UNCHANGED reservations
      \/ /\ "add_reservation" \in staged[a]
         /\ ReservationWanted(a) /\ Reservable(a)
         /\ reservations[i] = None
         /\ reservations' = [reservations EXCEPT ![i] = Reservation(a)]
  BY DEF Commits, Exclusive, Held
<1>7. Approved' = IF decision[a].status = "approved" THEN Approved \cup {a} ELSE Approved
  BY <1>4 DEF Approved
<1>8. StagedSoFar'
  BY <1>4 DEF SInv, StagedSoFar, ReservationWanted
<1>9. SnapshotExclusive'
  BY <1>2, <1>3, <1>4 DEF SInv, SnapshotExclusive
<1>10. SnapshotKept'
  <2>1. \A b \in decisions : request[b].snapshot # s
    BY <1>3 DEF SInv, Stored, SnapshotKept
  <2>2. \A b \in decisions : request[b].snapshot \in SnapshotIds
    BY WorkFields
  <2> QED
    BY <1>2, <1>4, <2>1, <2>2 DEF SInv, Stored, SnapshotKept
<1>11. CommittedTogether'
  <2>1. events' = outbox'
    BY <1>5 DEF SInv, Stored, CommittedTogether
  <2>2. ASSUME NEW b \in Attempts
        PROVE  b \in decisions' <=> \E t \in SnapshotIds : snapshots'[t] = b
    <3>1. CASE b = a
      BY <1>2, <1>4, <3>1
    <3>2. CASE b # a
      <4>1. \A t \in SnapshotIds : snapshots'[t] = b <=> snapshots[t] = b
        BY <1>3, <1>4, <3>2
      <4> QED
        BY <1>4, <3>2, <4>1 DEF SInv, Stored, CommittedTogether
    <3> QED
      BY <3>1, <3>2
  <2>3. ASSUME NEW b \in Attempts
        PROVE  b \in events' <=> b \in decisions' /\ request[b].persist
    BY <1>1, <1>4, <1>5 DEF SInv, Stored, CommittedTogether
  <2>4. ASSUME NEW b \in Attempts
        PROVE  /\ breaches'[b] = IF b \in decisions' THEN decision[b].breaches ELSE {}
               /\ pc'[b] = "returned" => b \in decisions'
    BY <1>1, <1>4 DEF SInv, Stored, CommittedTogether
  <2>5. ASSUME NEW j \in Intents, reservations'[j] # None
        PROVE  reservations'[j].by \in Approved'
    <3>1. CASE reservations'[j] = reservations[j]
      BY <1>7, <2>5, <3>1 DEF SInv, Stored, CommittedTogether
    <3>2. CASE reservations'[j] # reservations[j]
      <4>1. reservations'[j] = Reservation(a) /\ ReservationWanted(a)
        BY <1>2, <1>6, <3>2
      <4> QED
        BY <1>7, <4>1 DEF Reservation, ReservationWanted
    <3> QED
      BY <3>1, <3>2
  <2> QED
    BY <1>4, <2>1, <2>2, <2>3, <2>4, <2>5 DEF CommittedTogether
<1>12. CapitalBacksApprovals'
  <2> SUFFICES ASSUME NEW b \in Approved', request[b].reserve
               PROVE  LET row == reservations'[request[b].intent] IN
                      /\ row # None /\ row.by = b
                      /\ row.notional = Notional(request[b].intent)
                      /\ row.expires_at = decision[b].expires_at
    BY <1>4 DEF CapitalBacksApprovals
  <2>1. CASE b = a
    <3>1. decision[a].status = "approved"
      BY <1>4, <2>1 DEF Approved
    <3>2. "add_reservation" \in staged[a]
      BY <1>1, <2>1, <3>1 DEF SInv, StagedSoFar, ReservationWanted
    <3>3. reservations' = [reservations EXCEPT ![i] = Reservation(a)] /\ Reservable(a)
      BY <1>6, <3>2
    <3>4. reservations'[i] = Reservation(a)
      BY <1>2, <3>3
    <3>5. Reservation(a) \in Rows
      <4>1. decision[a].evaluated_at \in Int /\ decision[a].expires_at \in Int
        BY <1>1, <3>3 DEF Sound, Reservable, Decisions, Optional
      <4>2. Notional(i) \in Nat \ {0}
        BY <1>1, <3>1, <3>3, AskFields DEF Sound, Reservable, Notional, OrderIntents, Optional
      <4> QED
        BY <4>1, <4>2 DEF Reservation, Rows
    <3> QED
      BY <2>1, <3>4, <3>5 DEF Reservation
  <2>2. CASE b # a
    <3>1. b \in Approved
      BY <1>7, <2>2
    <3>2. LET row == reservations[request[b].intent] IN
          /\ row # None /\ row.by = b
          /\ row.notional = Notional(request[b].intent)
          /\ row.expires_at = decision[b].expires_at
      BY <3>1 DEF SInv, Stored, CapitalBacksApprovals
    <3>3. request[b].intent \in Intents
      BY <3>1, WorkFields DEF Approved
    <3>4. reservations'[request[b].intent] = reservations[request[b].intent]
      BY <1>6, <3>2, <3>3
    <3> QED
      BY <3>2, <3>4
  <2> QED
    BY <2>1, <2>2
<1> QED
  BY <1>8, <1>9, <1>10, <1>11, <1>12 DEF SInv, Stored

\* The invariant of the tables holds in every reachable state.
THEOREM StorageInductive == Spec => [](Exclusive /\ SInv)
<1>1. Init => Exclusive
  BY DEF Init, Exclusive
<1>2. IInv /\ Exclusive /\ SInv /\ [Next]_vars => SInv'
  <2> SUFFICES ASSUME IInv, Exclusive, SInv, [Next]_vars
               PROVE  SInv'
    OBVIOUS
  <2>1. ASSUME NEW a \in Attempts, CommitReturns(a) \/ CommitUnacknowledged(a)
        PROVE  SInv'
    BY <2>1, CommitKeepsSInv DEF CommitReturns, CommitUnacknowledged
  <2>2. ASSUME NEW a \in Attempts, Abort(a)
        PROVE  SInv'
    BY <2>2, RollbackKeepsSInv DEF Abort
  <2> QED
    BY <2>1, <2>2, OthersKeepSInv, BeforeWorkKeepsSInv, FlushKeepsSInv DEF Next
<1> QED
  BY <1>1, <1>2, InitSInv, Inductive, ExclusiveInductive, PTL DEF Spec

\* The rows of an evaluation appear together or not at all, through rollbacks,
\* cancellations, lost acknowledgements and attempts with the same keys.
THEOREM CommittedTogetherHolds == Spec => []CommittedTogether
BY StorageInductive, PTL DEF SInv, Stored

\* Every approval that asked for capital has a reservation of its own for it.
THEOREM CapitalBacksApprovalsHolds == Spec => []CapitalBacksApprovals
BY StorageInductive, PTL DEF SInv, Stored

-----------------------------------------------------------------------------
(* Kill switches                                                           *)

\* list_active is long enough to show every active switch.
AllListed ==
    /\ ListOrder \in Seq(Switches)
    /\ \A k \in Switches : \E n \in 1 .. Len(ListOrder) : ListOrder[n] = k
    /\ ListLimit \in Nat /\ Len(ListOrder) <= ListLimit

HasRule(rule) == \E n \in 1 .. Len(Rules) : Rules[n] = rule

\* A switch row was released by the instant t, or was activated at from or later.
OffBy(w, from, t) == w.from >= from \/ (w.to # None /\ w.to <= t)

\* An attempt that saw no switch in its way: the ones that concern it were off then.
SwitchesSeen(a) ==
    pc[a] = "observed" =>
        LET st == ctx[a].kill_switch_clear IN
        st # None =>
        /\ st.observed_at <= now
        /\ st.active_scopes = {} =>
              \A w \in switches : Applies(w.switch, request[a].intent) =>
                  OffBy(w, st.observed_at, st.observed_at)

\* An approval, stored or about to be, was given while no switch was in its way.
SwitchesObeyed(a) ==
    (pc[a] \in Steps \/ a \in decisions) /\ decision[a].status = "approved" =>
        /\ decision[a].evaluated_at <= now
        /\ \A w \in switches : Applies(w.switch, request[a].intent) =>
              OffBy(w, decision[a].evaluated_at - MaxStateAge["kill_switch"],
                    decision[a].evaluated_at)

\* No switch is released in the future.
SwitchesPast == \A w \in switches : w.to # None => w.to <= now

\* What an observation takes from the tables.
LEMMA ObservationFields ==
    ASSUME NEW s \in Contexts, NEW intent
    PROVE  /\ Observation(s, intent).kill_switch_clear = ClearState(intent)
           /\ Observation(s, intent).strategy_capital = Reserved(s.strategy_capital)
BY DEF Observation, Contexts

\* Every active switch is listed.
LEMMA EverySwitchListed ==
    ASSUME AllListed, TypeOK
    PROVE  ActiveSwitches \subseteq ListActive
<1> SUFFICES ASSUME NEW k \in ActiveSwitches
             PROVE  k \in ListActive
  OBVIOUS
<1>1. k \in Switches
  BY DEF ActiveSwitches, TypeOK
<1>2. Len(ListOrder) \in Nat /\ DOMAIN ListOrder = 1 .. Len(ListOrder)
  BY LenProperties DEF AllListed
<1>3. PICK m \in 1 .. Len(ListOrder) : ListOrder[m] = k
  BY <1>1 DEF AllListed
<1> DEFINE Before == {l \in 1 .. m : ListOrder[l] \in ActiveSwitches}
<1>4. Cardinality(Before) <= ListLimit
  <2>1. IsFiniteSet(1 .. m) /\ Cardinality(1 .. m) = m
    BY <1>2, FS_Interval
  <2>2. Before \in SUBSET (1 .. m)
    OBVIOUS
  <2> HIDE DEF Before
  <2>3. Cardinality(Before) <= Cardinality(1 .. m) /\ IsFiniteSet(Before)
    BY <2>1, <2>2, FS_Subset
  <2>4. Cardinality(Before) \in Nat
    BY <2>3, FS_CardinalityType
  <2> QED
    BY <1>2, <2>1, <2>3, <2>4 DEF AllListed
<1> QED
  BY <1>2, <1>3, <1>4 DEF ListActive

\* Every step but the observation and the decision of an attempt keeps what the attempt
\* knows: time goes on, a new row starts now and a row is released once.
LEMMA SwitchesFrame ==
    ASSUME NEW b \in Attempts, IInv, SwitchesSeen(b), SwitchesObeyed(b), now' \in Int, now' >= now,
           \A w \in switches' :
               /\ w.from \in Nat
               /\ \/ w.from >= now
                  \/ \E v \in switches : /\ w.switch = v.switch /\ w.from = v.from
                                         /\ v.to # None => w.to = v.to,
           pc'[b] = "observed" =>
               pc[b] = "observed" /\ ctx'[b] = ctx[b] /\ request'[b] = request[b],
           pc'[b] \in Steps \/ b \in decisions' =>
               /\ pc[b] \in Steps \/ b \in decisions
               /\ decision'[b] = decision[b] /\ request'[b] = request[b]
    PROVE  SwitchesSeen(b)' /\ SwitchesObeyed(b)'
<1>0. now \in Int
  BY EngineAssumption DEF IInv, TypeOK, EngineAssumption
<1>1. SwitchesSeen(b)'
  <2> SUFFICES ASSUME pc'[b] = "observed"
               PROVE  LET st == ctx'[b].kill_switch_clear IN
                      st # None =>
                      /\ st.observed_at <= now'
                      /\ st.active_scopes = {} =>
                            \A w \in switches' : Applies(w.switch, request'[b].intent) =>
                                OffBy(w, st.observed_at, st.observed_at)
    BY DEF SwitchesSeen, OffBy
  <2> DEFINE st == ctx[b].kill_switch_clear
  <2>1. /\ st # None =>
              /\ st.observed_at <= now
              /\ st.active_scopes = {} =>
                    \A w \in switches : Applies(w.switch, request[b].intent) =>
                        OffBy(w, st.observed_at, st.observed_at)
        /\ ctx'[b] = ctx[b] /\ request'[b] = request[b]
    BY DEF SwitchesSeen
  <2>2. st # None => st.observed_at \in Int
    <3>1. ctx[b] \in Contexts
      BY DEF IInv, Held
    <3>2. st \in Optional(KillSwitchClearStates)
      BY <3>1 DEF Contexts
    <3> QED
      BY <2>1, <3>2 DEF Optional, KillSwitchClearStates
  <2> QED
    BY <1>0, <2>1, <2>2 DEF OffBy
<1>2. SwitchesObeyed(b)'
  <2> DEFINE d == decision[b]
  <2> SUFFICES ASSUME pc'[b] \in Steps \/ b \in decisions', d.status = "approved"
               PROVE  /\ d.evaluated_at <= now'
                      /\ \A w \in switches' : Applies(w.switch, request[b].intent) =>
                            OffBy(w, d.evaluated_at - MaxStateAge["kill_switch"], d.evaluated_at)
    BY DEF SwitchesObeyed, OffBy
  <2>1. /\ d.evaluated_at <= now
        /\ \A w \in switches : Applies(w.switch, request[b].intent) =>
              OffBy(w, d.evaluated_at - MaxStateAge["kill_switch"], d.evaluated_at)
    BY DEF SwitchesObeyed
  <2>2. d.evaluated_at \in Int /\ MaxStateAge["kill_switch"] \in Nat
    BY RulesAssumption DEF IInv, Held, Sound, Decisions, RulesAssumption, RuleIds
  <2> QED
    BY <1>0, <2>1, <2>2 DEF OffBy
<1> QED
  BY <1>1, <1>2

\* How the table of kill switches changes in a step.
LEMMA SwitchRows ==
    ASSUME IInv, [Next]_vars, NEW w \in switches'
    PROVE  /\ w.from \in Nat
           /\ \/ w.from >= now
              \/ \E v \in switches : /\ w.switch = v.switch /\ w.from = v.from
                                     /\ v.to # None => w.to = v.to
<1> USE EngineAssumption DEF IInv, TypeOK, EngineAssumption
<1>1. CASE UNCHANGED switches
  BY <1>1
<1>2. ASSUME NEW k \in Switches, ActivateKillSwitch(k)
      PROVE  /\ w.from \in Nat
             /\ \/ w.from >= now
                \/ \E v \in switches : /\ w.switch = v.switch /\ w.from = v.from
                                       /\ v.to # None => w.to = v.to
  <2>1. w \in switches \/ w = [switch |-> k, from |-> now, to |-> None]
    BY <1>2 DEF ActivateKillSwitch
  <2>2. now \in Nat
    OBVIOUS
  <2> QED
    BY <2>1, <2>2
<1>3. ASSUME NEW k \in Switches, ReleaseKillSwitch(k)
      PROVE  /\ w.from \in Nat
             /\ \/ w.from >= now
                \/ \E v \in switches : /\ w.switch = v.switch /\ w.from = v.from
                                       /\ v.to # None => w.to = v.to
  <2>1. PICK v \in switches : w = IF v.switch = k /\ v.to = None THEN [v EXCEPT !.to = now] ELSE v
    BY <1>3 DEF ReleaseKillSwitch
  <2>2. v \in [switch : Switches, from : Nat, to : Nat \cup {None}]
    OBVIOUS
  <2>3. w.switch = v.switch /\ w.from = v.from /\ (v.to # None => w.to = v.to)
    <3> HIDE DEF IInv, TypeOK
    <3> QED
      BY <2>1, <2>2
  <2> QED
    BY <2>2, <2>3
<1> QED
  BY <1>1, <1>2, <1>3
     DEF Next, Tick, Release, ReleaseExpired, Observe, EvaluateIntent, AddRecords, AddReservation,
         AddArtifacts, CommitReturns, CommitUnacknowledged, Commits, Abort, vars

\* Which of an attempt's fields a step can change, unless it observes or decides.
LEMMA WorkFrame ==
    ASSUME IInv, [Next]_vars, NEW b \in Attempts,
           \A r \in Requests(b) : ~Observe(b, r),
           \A at \in (now - Skew) .. now, fault \in Faults : ~EvaluateIntent(b, at, fault)
    PROVE  /\ now' \in Int /\ now' >= now
           /\ pc'[b] \in Steps => pc[b] \in Steps
           /\ pc'[b] = "observed" =>
                pc[b] = "observed" /\ ctx'[b] = ctx[b] /\ request'[b] = request[b]
           /\ pc'[b] \in Steps \/ b \in decisions' =>
                /\ pc[b] \in Steps \/ b \in decisions
                /\ decision'[b] = decision[b] /\ request'[b] = request[b]
<1> USE EngineAssumption DEF IInv, TypeOK, EngineAssumption
<1> DEFINE Goal ==
       /\ now' \in Int /\ now' >= now
       /\ pc'[b] \in Steps => pc[b] \in Steps
       /\ pc'[b] = "observed" =>
            pc[b] = "observed" /\ ctx'[b] = ctx[b] /\ request'[b] = request[b]
       /\ pc'[b] \in Steps \/ b \in decisions' =>
            /\ pc[b] \in Steps \/ b \in decisions
            /\ decision'[b] = decision[b] /\ request'[b] = request[b]
<1>1. CASE \/ Tick
           \/ \E i \in Intents : Release(i)
           \/ ReleaseExpired
           \/ \E k \in Switches : ActivateKillSwitch(k) \/ ReleaseKillSwitch(k)
           \/ UNCHANGED vars
  <2>1. UNCHANGED <<callVars, decisions>> /\ now' \in {now, now + 1}
    BY <1>1 DEF Tick, Release, ReleaseExpired, ActivateKillSwitch, ReleaseKillSwitch, vars, tables
  <2> QED
    BY <2>1 DEF callVars
<1>2. ASSUME NEW a \in Attempts, NEW r \in Requests(a), Observe(a, r)
      PROVE  Goal
  <2>1. a # b
    BY <1>2
  <2> QED
    BY <1>2, <2>1 DEF Observe, tables
<1>3. ASSUME NEW a \in Attempts, NEW at \in (now - Skew) .. now, NEW fault \in Faults,
             EvaluateIntent(a, at, fault)
      PROVE  Goal
  <2>1. a # b
    BY <1>3
  <2> QED
    BY <1>3, <2>1 DEF EvaluateIntent, tables
<1>4. ASSUME NEW a \in Attempts, RollsBack(a), pc[a] \in Steps,
             UNCHANGED <<now, ctx, tables, switches, overtaken>>
      PROVE  Goal
  <2>1. a \notin decisions
    BY <1>4 DEF Held
  <2> QED
    BY <1>4, <2>1 DEF RollsBack, tables, Steps
<1>5. ASSUME NEW a \in Attempts, NEW next \in Steps, pc[a] \in Steps,
             Flushes(a, next) \/ Skips(a, next),
             UNCHANGED <<now, ctx, tables, switches, overtaken>>
      PROVE  Goal
  BY <1>5 DEF Flushes, Skips, tables, Steps
<1>6. ASSUME NEW a \in Attempts, CommitReturns(a) \/ CommitUnacknowledged(a)
      PROVE  Goal
  <2>1. /\ pc[a] = "commit"
        /\ pc' \in {[pc EXCEPT ![a] = "returned"], [pc EXCEPT ![a] = "raised"]}
        /\ decisions' = decisions \cup {a}
        /\ UNCHANGED <<now, request, ctx, decision>>
    BY <1>6 DEF CommitReturns, CommitUnacknowledged, Commits
  <2> QED
    BY <2>1 DEF Steps
<1> HIDE DEF Goal
<1>7. ASSUME NEW a \in Attempts, AddRecords(a) \/ AddReservation(a) \/ AddArtifacts(a) \/ Abort(a)
      PROVE  Goal
  BY <1>4, <1>5, <1>7 DEF AddRecords, AddReservation, AddArtifacts, Abort, Steps
<1> QED
  BY <1>1, <1>2, <1>3, <1>6, <1>7 DEF Next, Goal

\* The engine's decision: an approval passed the rule on what was seen.
LEMMA DecisionObeysSwitches ==
    ASSUME IInv, NEW a \in Attempts, NEW at \in (now - Skew) .. now, NEW fault \in Faults,
           EvaluateIntent(a, at, fault), SwitchesSeen(a), HasRule("kill_switch")
    PROVE  SwitchesSeen(a)' /\ SwitchesObeyed(a)'
<1> DEFINE c == [ctx[a] EXCEPT !.evaluated_at = at]
           intent == request[a].intent
           results == FinalResults(intent, c, fault)
           st == ctx[a].kill_switch_clear
<1>1. /\ pc[a] = "observed"
      /\ pc' = [pc EXCEPT ![a] = "add_records"]
      /\ UNCHANGED <<now, request, switches, decisions>>
      /\ decision'[a].status = DecisionStatus(results)
      /\ decision'[a].evaluated_at = at
  BY DEF EvaluateIntent, tables, IInv, TypeOK
<1>2. at \in Int /\ now \in Int /\ at <= now
  BY EngineAssumption DEF IInv, TypeOK, EngineAssumption
<1>3. ctx[a] \in Contexts /\ request[a] \in Asks /\ intent \in OrderIntents
  BY <1>1, AskFields DEF IInv, Held
<1>4. c \in Contexts /\ c.evaluated_at = at /\ c.kill_switch_clear = st
  BY <1>2, <1>3 DEF Contexts
<1>5. ASSUME DecisionStatus(results) = "approved"
      PROVE  \A w \in switches : Applies(w.switch, intent) =>
                 OffBy(w, at - MaxStateAge["kill_switch"], at)
  <2>1. fault \in 0 .. Len(Rules)
    BY EngineAssumption DEF EngineAssumption
  <2>2. Permitted(intent, c)
    BY <1>3, <1>4, <1>5, <2>1, EngineApprovesOnlyPermitted
  <2>3. Permits("kill_switch", intent, c)
    BY <2>2 DEF Permitted, HasRule
  <2>4. Fresh("kill_switch", st, c) /\ st.active_scopes = {} /\ st # None
    BY <1>4, <2>3 DEF Permits, Fresh
  <2>5. /\ st.observed_at \in (at - MaxStateAge["kill_switch"]) .. at
        /\ MaxStateAge["kill_switch"] \in Nat
    BY <1>4, <2>4, RulesAssumption DEF Fresh, RulesAssumption, RuleIds
  <2>6. \A w \in switches : Applies(w.switch, intent) => OffBy(w, st.observed_at, st.observed_at)
    BY <1>1, <2>4 DEF SwitchesSeen
  <2>7. \A w \in switches : w.from \in Nat /\ w.to \in Nat \cup {None}
    BY DEF IInv, TypeOK
  <2> QED
    BY <1>2, <2>5, <2>6, <2>7 DEF OffBy
<1>6. pc'[a] = "add_records"
  BY <1>1 DEF IInv, TypeOK
<1> HIDE DEF results, c
<1>7. SwitchesObeyed(a)'
  BY <1>1, <1>2, <1>5, <1>6 DEF SwitchesObeyed, OffBy
<1> QED
  BY <1>6, <1>7 DEF SwitchesSeen

\* What a caller sees of the switches is true when it sees it.
LEMMA ObservationSeesSwitches ==
    ASSUME AllListed, IInv, SwitchesPast, NEW a \in Attempts, NEW r \in Requests(a),
           Observe(a, r)
    PROVE  SwitchesSeen(a)' /\ SwitchesObeyed(a)'
<1>1. PICK s \in Surroundings(a, now) : ctx' = [ctx EXCEPT ![a] = Observation(s, r.intent)]
  BY DEF Observe
<1>2. /\ pc[a] = "new"
      /\ pc' = [pc EXCEPT ![a] = "observed"]
      /\ request' = [request EXCEPT ![a] = r]
      /\ UNCHANGED <<now, switches, decisions>>
  BY DEF Observe, tables
<1>3. s \in Contexts
  BY SurroundingsAssumption DEF SurroundingsAssumption, IInv, TypeOK
<1> DEFINE st == ClearState(r.intent)
<1>4. ctx'[a].kill_switch_clear = st /\ pc'[a] = "observed" /\ request'[a] = r
  <2>1. Observation(s, r.intent).kill_switch_clear = st
    BY <1>3, ObservationFields
  <2> HIDE DEF st
  <2> QED
    BY <1>1, <1>2, <2>1 DEF IInv, TypeOK
<1>5. /\ st.observed_at = now
      /\ st.active_scopes = {} => \A k \in ActiveSwitches : ~Applies(k, r.intent)
  BY EverySwitchListed DEF ClearState, IInv
<1>6. SwitchesSeen(a)'
  <2>1. \A w \in switches : w.to = None => w.switch \in ActiveSwitches
    BY DEF ActiveSwitches
  <2> HIDE DEF st
  <2>2. st.active_scopes = {} =>
           \A w \in switches : Applies(w.switch, r.intent) => OffBy(w, st.observed_at, st.observed_at)
    BY <1>5, <2>1 DEF SwitchesPast, OffBy
  <2>3. now \in Int
    BY EngineAssumption DEF IInv, TypeOK, EngineAssumption
  <2> QED
    BY <1>2, <1>4, <1>5, <2>2, <2>3 DEF SwitchesSeen, OffBy
<1>7. SwitchesObeyed(a)'
  BY <1>2, <1>4 DEF SwitchesObeyed, IInv, Held, Steps
<1> QED
  BY <1>6, <1>7

\* Every step keeps what each attempt knows about the kill switches.
LEMMA SwitchesInductive ==
    ASSUME AllListed, HasRule("kill_switch"), IInv, SwitchesPast, [Next]_vars,
           \A a \in Attempts : SwitchesSeen(a) /\ SwitchesObeyed(a)
    PROVE  SwitchesPast' /\ \A a \in Attempts : SwitchesSeen(a)' /\ SwitchesObeyed(a)'
<1> USE EngineAssumption DEF EngineAssumption
<1>1. SwitchesPast'
  <2>1. CASE UNCHANGED switches
    <3>1. now \in Int /\ now' \in {now, now + 1}
      <4>1. Tick \/ UNCHANGED now
        BY DEF Next, Release, ReleaseExpired, ActivateKillSwitch, ReleaseKillSwitch, Observe,
               EvaluateIntent, AddRecords, AddReservation, AddArtifacts, CommitReturns,
               CommitUnacknowledged, Commits, Abort, vars
      <4> QED
        BY <4>1 DEF IInv, TypeOK, Tick
    <3>2. \A w \in switches : w.to # None => w.to \in Nat
      BY DEF IInv, TypeOK
    <3> QED
      BY <2>1, <3>1, <3>2 DEF SwitchesPast
  <2>2. ASSUME NEW k \in Switches, ActivateKillSwitch(k)
        PROVE  SwitchesPast'
    BY <2>2 DEF ActivateKillSwitch, SwitchesPast
  <2>3. ASSUME NEW k \in Switches, ReleaseKillSwitch(k)
        PROVE  SwitchesPast'
    <3>1. ASSUME NEW w \in switches'
          PROVE  w.to # None => w.to <= now
      <4>1. PICK v \in switches :
               w = IF v.switch = k /\ v.to = None THEN [v EXCEPT !.to = now] ELSE v
        BY <2>3 DEF ReleaseKillSwitch
      <4>2. v \in [switch : Switches, from : Nat, to : Nat \cup {None}] /\ now \in Int
        BY DEF IInv, TypeOK
      <4> QED
        BY <4>1, <4>2 DEF SwitchesPast
    <3> QED
      BY <2>3, <3>1 DEF SwitchesPast, ReleaseKillSwitch
  <2> QED
    BY <2>1, <2>2, <2>3
       DEF Next, Tick, Release, ReleaseExpired, Observe, EvaluateIntent, AddRecords,
           AddReservation, AddArtifacts, CommitReturns, CommitUnacknowledged, Commits, Abort, vars
<1>2. ASSUME NEW a \in Attempts
      PROVE  SwitchesSeen(a)' /\ SwitchesObeyed(a)'
  <2>1. ASSUME NEW r \in Requests(a), Observe(a, r)
        PROVE  SwitchesSeen(a)' /\ SwitchesObeyed(a)'
    BY <2>1, ObservationSeesSwitches
  <2>2. ASSUME NEW at \in (now - Skew) .. now, NEW fault \in Faults, EvaluateIntent(a, at, fault)
        PROVE  SwitchesSeen(a)' /\ SwitchesObeyed(a)'
    BY <2>2, DecisionObeysSwitches
  <2>3. CASE /\ \A r \in Requests(a) : ~Observe(a, r)
             /\ \A at \in (now - Skew) .. now, fault \in Faults : ~EvaluateIntent(a, at, fault)
    <3>1. /\ now' \in Int /\ now' >= now
          /\ pc'[a] = "observed" =>
               pc[a] = "observed" /\ ctx'[a] = ctx[a] /\ request'[a] = request[a]
          /\ pc'[a] \in Steps \/ a \in decisions' =>
               /\ pc[a] \in Steps \/ a \in decisions
               /\ decision'[a] = decision[a] /\ request'[a] = request[a]
      BY <2>3, WorkFrame
    <3> QED
      BY <3>1, SwitchRows, SwitchesFrame
  <2> QED
    BY <2>1, <2>2, <2>3
<1> QED
  BY <1>1, <1>2

\* Where the list of active switches is not cut off, no approval is given or stored while
\* a switch that concerns it has been active for longer than max_state_age, however the
\* activation, the release, the observation and the evaluation interleave.
THEOREM KillSwitchStopsApprovalsHolds ==
    ASSUME AllListed
    PROVE  Spec => []KillSwitchStopsApprovals
<1>1. CASE HasRule("kill_switch")
  <2> DEFINE K == SwitchesPast /\ \A a \in Attempts : SwitchesSeen(a) /\ SwitchesObeyed(a)
  <2>1. Init => K
    BY DEF Init, SwitchesPast, SwitchesSeen, SwitchesObeyed, Steps
  <2>2. IInv /\ K /\ [Next]_vars => K'
    BY <1>1, SwitchesInductive
  <2>3. IInv /\ K => KillSwitchStopsApprovals
    BY DEF IInv, TypeOK, SwitchesObeyed, OffBy, KillSwitchStopsApprovals, Approved
  <2> HIDE DEF K
  <2> QED
    BY <2>1, <2>2, <2>3, Inductive, PTL DEF Spec
<1>2. CASE ~HasRule("kill_switch")
  <2>1. KillSwitchStopsApprovals
    BY <1>2 DEF KillSwitchStopsApprovals, HasRule
  <2> QED
    BY <2>1, PTL
<1> QED
  BY <1>1, <1>2

-----------------------------------------------------------------------------
(* Capital                                                                 *)

\* The reservations that are still good at t, and what they add up to.
LiveRows(res, t) ==
    {i \in Intents : res[i] # None /\ res[i].status = "active" /\ res[i].expires_at > t}

Spent(res, t) == MapThenSumSet(LAMBDA i : res[i].notional, LiveRows(res, t))

\* There are finitely many reservations.
FiniteRows == IsFiniteSet({i \in Intents : reservations[i] # None})

\* An attempt that no reservation has overtaken: what is outstanding is at most what it saw,
\* and once it is approved there is room for it.
Covered(a) ==
    a \notin overtaken =>
        /\ pc[a] = "observed" =>
              LET st == ctx[a].strategy_capital IN
              st # None => /\ Outstanding <= st.reserved
                           /\ st.max - st.current - st.open_orders <= Budget
        /\ pc[a] \in Steps /\ decision[a].status = "approved" =>
              Outstanding + Notional(request[a].intent) <= Budget

CapitalInv == FiniteRows /\ NoOverspend /\ \A a \in Attempts : Covered(a)

\* The sum of a field of rows is a sum of SumProofs.
LEMMA SumOfRows ==
    ASSUME NEW res, NEW S
    PROVE  MapThenSumSet(LAMBDA i : res[i].notional, S) = SumOver([i \in S |-> res[i].notional], S)
<1> DEFINE F == [i \in S |-> res[i].notional]
           H(h) == h = [s \in SUBSET S |->
                          IF s = {} THEN 0 ELSE res[Pick(s)].notional + h[s \ {Pick(s)}]]
<1>1. ASSUME NEW s \in SUBSET S, s # {}
      PROVE  F[Pick(s)] = res[Pick(s)].notional
  BY <1>1, Picked
<1>2. ASSUME NEW h PROVE H(h) <=> IsSum(h, F, S)
  <2>1. ASSUME NEW s \in SUBSET S
        PROVE  (IF s = {} THEN 0 ELSE res[Pick(s)].notional + h[s \ {Pick(s)}])
                  = (IF s = {} THEN 0 ELSE F[Pick(s)] + h[s \ {Pick(s)}])
    BY <1>1
  <2> QED
    BY <2>1, Zenon DEF IsSum
<1>3. (CHOOSE h : H(h)) = (CHOOSE h : IsSum(h, F, S))
  <2> HIDE DEF H
  <2> QED
    BY <1>2, Zenon
<1>4. MapThenSumSet(LAMBDA i : res[i].notional, S) = (CHOOSE h : H(h))[S]
  BY DEF MapThenSumSet, MapThenFoldSet, Pick
<1> QED
  BY <1>3, <1>4, SumUnfolded

\* What a caller adds up and what the property adds up are the same sum.
LEMMA SameSums == Outstanding = Spent(reservations, now) /\ ActiveNotionalSum(now) = Outstanding
<1>1. Live(now) = LiveRows(reservations, now)
  BY DEF Live, Active, LiveRows
<1> QED
  BY <1>1 DEF Outstanding, Spent, ActiveNotionalSum, LiveRows

\* The same in the next state.
LEMMA SameSumsNext == Outstanding' = Spent(reservations', now')
BY DEF Outstanding, Spent, LiveRows, MapThenSumSet, MapThenFoldSet

\* Fewer live rows with the same amounts add up to no more.
LEMMA SpentShrinks ==
    ASSUME NEW r1 \in [Intents -> Rows \cup {None}], NEW r2 \in [Intents -> Rows \cup {None}],
           NEW t1, NEW t2, IsFiniteSet(LiveRows(r1, t1)),
           LiveRows(r2, t2) \subseteq LiveRows(r1, t1),
           \A i \in LiveRows(r2, t2) : r2[i].notional = r1[i].notional
    PROVE  /\ Spent(r1, t1) \in Nat /\ Spent(r2, t2) \in Nat
           /\ Spent(r2, t2) <= Spent(r1, t1)
<1> DEFINE S == LiveRows(r1, t1)
           U == LiveRows(r2, t2)
           F == [i \in S |-> r1[i].notional]
           G == [i \in U |-> r2[i].notional]
<1>1. (\A i \in S : F[i] \in Nat) /\ (\A i \in U : F[i] = G[i])
  BY DEF LiveRows, Rows
<1>2. Spent(r1, t1) = SumOver(F, S) /\ Spent(r2, t2) = SumOver(G, U)
  BY SumOfRows DEF Spent
<1>3. U \in SUBSET S /\ IsFiniteSet(S) /\ IsFiniteSet(U)
  BY FS_Subset
<1> HIDE DEF S, U, F, G
<1>4. SumOver(F, U) = SumOver(G, U)
  BY <1>1, <1>3, SumEqual
<1>5. SumOver(F, U) <= SumOver(F, S)
  BY <1>1, <1>3, SumMonotonic
<1>6. SumOver(F, S) \in Nat /\ SumOver(F, U) \in Nat
  BY <1>1, <1>3, SumType
<1> QED
  BY <1>2, <1>4, <1>5, <1>6

\* One more row adds at most its amount.
LEMMA SpentGrows ==
    ASSUME NEW r1 \in [Intents -> Rows \cup {None}], NEW t, NEW j \in Intents, r1[j] = None,
           NEW row \in Rows, IsFiniteSet(LiveRows(r1, t))
    PROVE  Spent([r1 EXCEPT ![j] = row], t) <= Spent(r1, t) + row.notional
<1> DEFINE r2 == [r1 EXCEPT ![j] = row]
           S == LiveRows(r1, t)
           U == LiveRows(r2, t)
           F == [i \in S |-> r1[i].notional]
           G == [i \in U |-> r2[i].notional]
<1>1. r2[j] = row /\ (\A i \in Intents : i # j => r2[i] = r1[i]) /\ j \notin S
      /\ row.notional \in Nat
  BY DEF LiveRows, Rows
<1>2. \A i \in S : F[i] \in Nat
  BY DEF LiveRows, Rows
<1>3. Spent(r1, t) = SumOver(F, S) /\ Spent(r2, t) = SumOver(G, U)
  BY SumOfRows DEF Spent
<1>4. U = S \/ U = S \cup {j}
  BY <1>1 DEF LiveRows
<1>5. \A i \in S : i \in U => G[i] = F[i]
  BY <1>1 DEF LiveRows
<1>6. j \in U => G[j] = row.notional
  BY <1>1
<1> HIDE DEF S, U, F, G, r2
<1>7. SumOver(F, S) \in Nat
  BY <1>2, SumType DEF S
<1>8. IsFiniteSet(S)
  BY DEF S
<1>9. CASE U = S
  <2>1. SumOver(G, S) = SumOver(F, S)
    BY <1>5, <1>8, <1>9, SumEqual
  <2> QED
    BY <1>1, <1>3, <1>7, <1>9, <2>1 DEF r2
<1>10. CASE U = S \cup {j}
  <2>1. \A i \in S : G[i] = F[i]
    BY <1>5, <1>10
  <2>2. \A i \in S \cup {j} : G[i] \in Int
    BY <1>1, <1>2, <1>6, <1>10, <2>1
  <2>3. SumOver(G, S \cup {j}) = G[j] + SumOver(G, S)
    BY <1>1, <1>8, <2>2, SumAdd
  <2>4. SumOver(G, S) = SumOver(F, S)
    BY <1>8, <2>1, SumEqual
  <2> QED
    BY <1>1, <1>3, <1>6, <1>7, <1>10, <2>3, <2>4 DEF r2
<1> QED
  BY <1>4, <1>9, <1>10

\* What is outstanding is a number, as long as the rows are finite.
LEMMA OutstandingType ==
    ASSUME TypeOK, FiniteRows
    PROVE  Outstanding \in Nat /\ IsFiniteSet(LiveRows(reservations, now))
<1>1. LiveRows(reservations, now) \subseteq {i \in Intents : reservations[i] # None}
  BY DEF LiveRows
<1>2. IsFiniteSet(LiveRows(reservations, now))
  BY <1>1, FS_Subset DEF FiniteRows
<1>3. Spent(reservations, now) \in Nat
  BY <1>2, SpentShrinks DEF TypeOK
<1> QED
  BY <1>2, <1>3, SameSums

\* Either a step stores a reservation, or what is outstanding does not grow.
LEMMA OutstandingStep ==
    ASSUME IInv, IInv', Exclusive, FiniteRows, [Next]_vars,
           \A a \in Attempts : Commits(a) => "add_reservation" \notin staged[a]
    PROVE  FiniteRows' /\ Outstanding' <= Outstanding /\ UNCHANGED overtaken
<1>1. \A i \in Intents : reservations'[i] = reservations[i] \/
         /\ reservations[i] # None /\ reservations'[i] # None
         /\ reservations'[i].notional = reservations[i].notional
         /\ reservations'[i].status # "active"
  <2>1. CASE UNCHANGED reservations
    BY <2>1
  <2>2. CASE \/ Tick
             \/ \E i \in Intents : Release(i)
             \/ ReleaseExpired
             \/ \E k \in Switches : ActivateKillSwitch(k) \/ ReleaseKillSwitch(k)
             \/ UNCHANGED vars
    BY <2>2, RowsOnlyEnd
  <2> QED
    BY <2>1, <2>2, ZenonT(60) DEF Next, Observe, EvaluateIntent, AddRecords, AddReservation, AddArtifacts,
       CommitReturns, CommitUnacknowledged, Commits, Abort, tables
<1>2. UNCHANGED overtaken
  BY ZenonT(60) DEF Next, Tick, Release, ReleaseExpired, ActivateKillSwitch, ReleaseKillSwitch, Observe,
         EvaluateIntent, AddRecords, AddReservation, AddArtifacts, CommitReturns,
         CommitUnacknowledged, Commits, Abort, vars
<1>3. {i \in Intents : reservations'[i] # None} = {i \in Intents : reservations[i] # None}
  BY <1>1
<1>4. FiniteRows'
  BY <1>3 DEF FiniteRows
<1>5. now \in Int /\ now' \in {now, now + 1}
  <2>1. Tick \/ UNCHANGED now
    BY ZenonT(60) DEF Next, Release, ReleaseExpired, ActivateKillSwitch, ReleaseKillSwitch, Observe,
           EvaluateIntent, AddRecords, AddReservation, AddArtifacts, CommitReturns,
           CommitUnacknowledged, Commits, Abort, vars
  <2> QED
    BY <2>1, EngineAssumption DEF IInv, TypeOK, Tick, EngineAssumption
<1>6. LiveRows(reservations', now') \subseteq LiveRows(reservations, now)
  <2> SUFFICES ASSUME NEW i \in LiveRows(reservations', now')
               PROVE  i \in LiveRows(reservations, now)
    OBVIOUS
  <2>1. i \in Intents /\ reservations[i] = reservations'[i] /\ reservations[i] # None
        /\ reservations[i].status = "active" /\ reservations[i].expires_at > now'
    BY <1>1 DEF LiveRows
  <2>2. reservations[i].expires_at \in Int
    BY <2>1 DEF IInv, TypeOK, Rows
  <2> QED
    BY <1>5, <2>1, <2>2 DEF LiveRows
<1>7. \A i \in LiveRows(reservations', now') : reservations'[i].notional = reservations[i].notional
  BY <1>1 DEF LiveRows
<1>8. IsFiniteSet(LiveRows(reservations, now))
  BY OutstandingType DEF IInv
<1>9. Spent(reservations', now') <= Spent(reservations, now)
  BY <1>6, <1>7, <1>8, SpentShrinks DEF IInv, TypeOK
<1>10. Outstanding' = Spent(reservations', now') /\ Outstanding = Spent(reservations, now)
  BY SameSums, SameSumsNext
<1> QED
  BY <1>2, <1>4, <1>9, <1>10

\* An approval is never taken back.
LEMMA ApprovalsStay ==
    ASSUME IInv, [Next]_vars, NEW b \in Approved
    PROVE  b \in Approved' /\ request'[b] = request[b]
<1>1. b \in Attempts /\ b \in decisions /\ pc[b] \in {"returned", "raised"}
  BY DEF IInv, TypeOK, Held, Approved
<1>2. /\ \A r \in Requests(b) : ~Observe(b, r)
      /\ \A at \in (now - Skew) .. now, fault \in Faults : ~EvaluateIntent(b, at, fault)
  BY <1>1 DEF Observe, EvaluateIntent
<1>3. b \in decisions'
  BY <1>1 DEF Next, Tick, Release, ReleaseExpired, ActivateKillSwitch, ReleaseKillSwitch, Observe,
         EvaluateIntent, AddRecords, AddReservation, AddArtifacts, CommitReturns,
         CommitUnacknowledged, Commits, Abort, vars, tables
<1>4. decision'[b] = decision[b] /\ request'[b] = request[b]
  BY <1>1, <1>2, <1>3, WorkFrame
<1> QED
  BY <1>3, <1>4 DEF Approved

\* A step that stores no reservation keeps the bound.
LEMMA NoOverspendFrame ==
    ASSUME IInv, IInv', FiniteRows, FiniteRows', NoOverspend, [Next]_vars,
           Outstanding' <= Outstanding, UNCHANGED overtaken
    PROVE  NoOverspend'
<1> SUFFICES ASSUME \A a \in Approved' : request'[a].reserve => a \notin overtaken'
             PROVE  Outstanding' <= Budget
  BY DEF NoOverspend
<1>1. \A a \in Approved : request[a].reserve => a \notin overtaken
  BY ApprovalsStay
<1>2. Outstanding <= Budget
  BY <1>1 DEF NoOverspend
<1>3. Outstanding \in Nat /\ Outstanding' \in Nat
  <2>1. Outstanding \in Nat
    BY OutstandingType DEF IInv
  <2>2. TypeOK'
    BY DEF IInv
  <2>3. IsFiniteSet(LiveRows(reservations', now'))
    <3>1. LiveRows(reservations', now') \subseteq {i \in Intents : reservations'[i] # None}
      BY DEF LiveRows
    <3> QED
      BY <3>1, FS_Subset DEF FiniteRows
  <2>4. Spent(reservations', now') \in Nat
    BY <2>2, <2>3, SpentShrinks DEF TypeOK
  <2> QED
    BY <2>1, <2>4, SameSumsNext
<1> QED
  BY <1>2, <1>3, EngineAssumption DEF EngineAssumption

\* The commit of a reservation: it fits if nothing overtook it, and it overtakes the others.
LEMMA CommitKeepsCapital ==
    ASSUME IInv, IInv', Exclusive, CapitalInv, [Next]_vars,
           NEW a \in Attempts, Commits(a), "add_reservation" \in staged[a],
           CommitReturns(a) \/ CommitUnacknowledged(a)
    PROVE  CapitalInv'
<1> DEFINE i == request[a].intent
<1>1. /\ pc[a] = "commit" /\ Sound(a) /\ ReservationWanted(a) /\ Reservable(a)
      /\ reservations[i] = None /\ i \in Intents
  BY WorkFields DEF IInv, Held, Exclusive, Commits, Steps
<1>2. /\ reservations' = [reservations EXCEPT ![i] = Reservation(a)]
      /\ overtaken' = overtaken \cup (InFlight \ {a})
      /\ decisions' = decisions \cup {a}
      /\ UNCHANGED <<now, request, decision>>
      /\ \E end \in {"returned", "raised"} : pc' = [pc EXCEPT ![a] = end]
  BY DEF Commits, CommitReturns, CommitUnacknowledged
<1>3. reservations'[i] = Reservation(a) /\ Reservation(a) \in Rows
      /\ Reservation(a).notional = Notional(i)
  <2>1. reservations'[i] = Reservation(a)
    BY <1>1, <1>2 DEF IInv, TypeOK
  <2>2. Reservation(a).notional = Notional(i) /\ Reservation(a).by = a
    BY DEF Reservation
  <2>3. decision[a].evaluated_at \in Int /\ decision[a].expires_at \in Int
    BY <1>1 DEF Sound, Reservable, Decisions, Optional
  <2>4. Notional(i) \in Nat \ {0}
    BY <1>1, AskFields DEF Sound, Reservable, ReservationWanted, Notional, OrderIntents, Optional
  <2> QED
    BY <2>1, <2>2, <2>3, <2>4 DEF Rows, Reservation
<1>4. FiniteRows'
  <2>1. {j \in Intents : reservations'[j] # None}
           \subseteq {j \in Intents : reservations[j] # None} \cup {i}
    BY <1>2 DEF IInv, TypeOK
  <2>2. IsFiniteSet({j \in Intents : reservations[j] # None} \cup {i})
    BY FS_AddElement DEF CapitalInv, FiniteRows
  <2> QED
    BY <2>1, <2>2, FS_Subset DEF FiniteRows
<1>5. \A b \in Attempts : Covered(b)'
  BY <1>2 DEF Covered, InFlight, IInv, TypeOK, Steps
<1>6. NoOverspend'
  <2> SUFFICES ASSUME \A b \in Approved' : request'[b].reserve => b \notin overtaken'
               PROVE  Outstanding' <= Budget
    BY DEF NoOverspend
  <2>1. a \notin overtaken
    BY <1>1, <1>2 DEF Approved, ReservationWanted
  <2>2. Outstanding + Notional(i) <= Budget
    BY <1>1, <2>1 DEF CapitalInv, Covered, Steps, ReservationWanted
  <2>3. Outstanding \in Nat /\ IsFiniteSet(LiveRows(reservations, now))
    BY OutstandingType DEF CapitalInv, IInv
  <2>4. Spent(reservations', now) <= Spent(reservations, now) + Notional(i)
    BY <1>1, <1>2, <1>3, <2>3, SpentGrows DEF IInv, TypeOK
  <2>5. Outstanding' <= Outstanding + Notional(i)
    BY <1>2, <2>4, SameSums, SameSumsNext
  <2>6. Outstanding' \in Int /\ Notional(i) \in Int
    <3>1. Notional(i) \in Int
      BY <1>3 DEF Rows
    <3>2. IsFiniteSet(LiveRows(reservations', now'))
      <4>1. LiveRows(reservations', now') \subseteq {j \in Intents : reservations'[j] # None}
        BY DEF LiveRows
      <4> QED
        BY <1>4, <4>1, FS_Subset DEF FiniteRows
    <3>3. Spent(reservations', now') \in Nat
      BY <3>2, SpentShrinks DEF IInv, TypeOK
    <3> QED
      BY <3>1, <3>3, SameSumsNext
  <2> QED
    BY <2>2, <2>3, <2>5, <2>6, EngineAssumption DEF EngineAssumption
<1> QED
  BY <1>4, <1>5, <1>6 DEF CapitalInv

\* An observation sees at least what is outstanding.
LEMMA ObservationCovers ==
    ASSUME IInv, FiniteRows, NEW a \in Attempts, NEW r \in Requests(a), Observe(a, r),
           Outstanding' <= Outstanding
    PROVE  Covered(a)'
<1>1. PICK s \in Surroundings(a, now) : ctx' = [ctx EXCEPT ![a] = Observation(s, r.intent)]
  BY DEF Observe
<1>2. pc' = [pc EXCEPT ![a] = "observed"]
  BY DEF Observe
<1>3. /\ s \in Contexts
      /\ s.strategy_capital # None =>
            s.strategy_capital.max - s.strategy_capital.current
              - s.strategy_capital.open_orders <= Budget
  BY SurroundingsAssumption DEF SurroundingsAssumption, IInv, TypeOK
<1>4. ctx'[a].strategy_capital = Reserved(s.strategy_capital) /\ pc'[a] = "observed"
  <2>1. Observation(s, r.intent).strategy_capital = Reserved(s.strategy_capital)
    BY <1>3, ObservationFields
  <2> QED
    BY <1>1, <1>2, <2>1 DEF IInv, TypeOK
<1>5. ASSUME s.strategy_capital # None
      PROVE  LET st == Reserved(s.strategy_capital) IN
             /\ st.reserved = Outstanding
             /\ st.max - st.current - st.open_orders <= Budget
  <2>1. s.strategy_capital \in UnsignedStates
    BY <1>3, <1>5 DEF Contexts, Optional
  <2>2. Reserved(s.strategy_capital) = [s.strategy_capital EXCEPT !.reserved = Outstanding]
    BY <1>5, SameSums DEF Reserved
  <2> QED
    BY <1>3, <1>5, <2>1, <2>2 DEF UnsignedStates
<1>6. s.strategy_capital = None => Reserved(s.strategy_capital) = None
  BY DEF Reserved
<1> QED
  BY <1>4, <1>5, <1>6 DEF Covered, Steps

\* An approval leaves room for its own amount.
LEMMA DecisionCovers ==
    ASSUME IInv, FiniteRows, Outstanding' <= Outstanding, Outstanding' \in Nat,
           NEW a \in Attempts, Covered(a),
           NEW at \in (now - Skew) .. now, NEW fault \in Faults,
           EvaluateIntent(a, at, fault), HasRule("strategy_capital")
    PROVE  Covered(a)'
<1> DEFINE c == [ctx[a] EXCEPT !.evaluated_at = at]
           intent == request[a].intent
           results == FinalResults(intent, c, fault)
           st == ctx[a].strategy_capital
<1>1. /\ pc[a] = "observed"
      /\ pc'[a] = "add_records"
      /\ UNCHANGED <<request, overtaken>>
      /\ decision'[a].status = DecisionStatus(results)
  BY DEF EvaluateIntent, IInv, TypeOK
<1>2. at \in Int
  BY EngineAssumption DEF IInv, TypeOK, EngineAssumption
<1>3. ctx[a] \in Contexts /\ intent \in OrderIntents
  BY <1>1, AskFields DEF IInv, Held
<1>4. c \in Contexts /\ c.strategy_capital = st
  BY <1>2, <1>3 DEF Contexts
<1>5. ASSUME DecisionStatus(results) = "approved", a \notin overtaken
      PROVE  Outstanding' + Notional(intent) <= Budget
  <2>1. fault \in 0 .. Len(Rules)
    BY EngineAssumption DEF EngineAssumption
  <2>2. Permitted(intent, c)
    BY <1>3, <1>4, <1>5, <2>1, EngineApprovesOnlyPermitted
  <2>3. Permits("strategy_capital", intent, c)
    BY <2>2 DEF Permitted, HasRule
  <2>4. Exposure(st) + Notional(intent) <= st.max /\ st # None
    BY <1>4, <2>3 DEF Permits, Fresh
  <2>5. Outstanding <= st.reserved /\ st.max - st.current - st.open_orders <= Budget
    BY <1>1, <1>5, <2>4 DEF Covered
  <2>6. st \in UnsignedStates
    BY <1>3, <2>4 DEF Contexts, Optional
  <2>7. intent.limit_price \in Nat
    <3>1. Sound(a)'
      BY EvaluateKeepsIInv, <1>1 DEF IInv, Held, Steps
    <3> QED
      BY <1>1, <1>3, <1>5, <3>1 DEF Sound, OrderIntents, Optional
  <2>8. Notional(intent) \in Nat
    BY <1>3, <2>7 DEF Notional, OrderIntents
  <2>9. Outstanding \in Nat
    BY OutstandingType DEF IInv
  <2>10. /\ st.max \in Int /\ st.current \in Int /\ st.open_orders \in Int /\ st.reserved \in Int
         /\ Budget \in Int
    BY <2>6, EngineAssumption DEF UnsignedStates, EngineAssumption
  <2>11. st.current + st.open_orders + st.reserved + Notional(intent) <= st.max
    BY <2>4 DEF Exposure
  <2> HIDE DEF st, intent
  <2> QED
    BY <2>5, <2>8, <2>9, <2>10, <2>11
<1> HIDE DEF results, c
<1> QED
  BY <1>1, <1>5 DEF Covered

\* Every step keeps the bound on the capital promised.
LEMMA CapitalInductive ==
    ASSUME HasRule("strategy_capital"), IInv, IInv', Exclusive, CapitalInv, [Next]_vars
    PROVE  CapitalInv'
<1>1. ASSUME NEW a \in Attempts, Commits(a), "add_reservation" \in staged[a]
      PROVE  CapitalInv'
  <2>1. CommitReturns(a) \/ CommitUnacknowledged(a)
    <3>1. a \notin decisions /\ a \in decisions'
      BY <1>1 DEF Commits, IInv, Held, Steps
    <3>2. PICK b \in Attempts : CommitReturns(b) \/ CommitUnacknowledged(b)
      BY <3>1 DEF Next, Tick, Release, ReleaseExpired, ActivateKillSwitch, ReleaseKillSwitch,
         Observe, EvaluateIntent, AddRecords, AddReservation, AddArtifacts, Abort, vars, tables
    <3>3. a = b
      BY <3>1, <3>2 DEF CommitReturns, CommitUnacknowledged, Commits
    <3> QED
      BY <3>2, <3>3
  <2> QED
    BY <1>1, <2>1, CommitKeepsCapital
<1>2. CASE \A a \in Attempts : Commits(a) => "add_reservation" \notin staged[a]
  <2>1. FiniteRows' /\ Outstanding' <= Outstanding /\ UNCHANGED overtaken
    BY <1>2, OutstandingStep DEF CapitalInv
  <2>2. NoOverspend'
    BY <2>1, NoOverspendFrame DEF CapitalInv
  <2>3. Outstanding \in Nat /\ Outstanding' \in Nat
    <3>1. Outstanding \in Nat
      BY OutstandingType DEF CapitalInv, IInv
    <3>2. IsFiniteSet(LiveRows(reservations', now'))
      <4>1. LiveRows(reservations', now') \subseteq {j \in Intents : reservations'[j] # None}
        BY DEF LiveRows
      <4> QED
        BY <2>1, <4>1, FS_Subset DEF FiniteRows
    <3>3. Spent(reservations', now') \in Nat
      BY <3>2, SpentShrinks DEF IInv, TypeOK
    <3> QED
      BY <3>1, <3>3, SameSumsNext
  <2>4. ASSUME NEW a \in Attempts
        PROVE  Covered(a)'
    <3>1. ASSUME NEW r \in Requests(a), Observe(a, r)
          PROVE  Covered(a)'
      BY <2>1, <3>1, ObservationCovers DEF CapitalInv
    <3>2. ASSUME NEW at \in (now - Skew) .. now, NEW fault \in Faults, EvaluateIntent(a, at, fault)
          PROVE  Covered(a)'
      BY <2>1, <2>3, <3>2, DecisionCovers DEF CapitalInv
    <3>3. CASE /\ \A r \in Requests(a) : ~Observe(a, r)
               /\ \A at \in (now - Skew) .. now, fault \in Faults : ~EvaluateIntent(a, at, fault)
      <4>1. /\ pc'[a] = "observed" => pc[a] = "observed" /\ ctx'[a] = ctx[a]
            /\ pc'[a] \in Steps =>
                 pc[a] \in Steps /\ decision'[a] = decision[a] /\ request'[a] = request[a]
        BY <3>3, WorkFrame
      <4>2. Covered(a)
        BY DEF CapitalInv
      <4>3. pc[a] = "observed" /\ ctx[a].strategy_capital # None =>
               ctx[a].strategy_capital.reserved \in Nat
        BY DEF IInv, Held, Contexts, Optional, UnsignedStates
      <4>4. pc[a] \in Steps /\ decision[a].status = "approved" => Notional(request[a].intent) \in Nat
        BY AskFields DEF IInv, Held, Sound, Notional, OrderIntents, Optional
      <4> QED
        BY <2>1, <2>3, <4>1, <4>2, <4>3, <4>4, EngineAssumption DEF Covered, EngineAssumption
    <3> QED
      BY <3>1, <3>2, <3>3
  <2> QED
    BY <2>1, <2>2, <2>4 DEF CapitalInv
<1> QED
  BY <1>1, <1>2

\* With the strategy capital rule configured, and as long as no approval reserved capital
\* during the evaluation of another, the reservations that are still good never add up to
\* more than the strategy's capital: for any number of intents, attempts, rules and
\* amounts, through retries, releases, expiry and lost acknowledgements.
THEOREM NoOverspendHolds ==
    ASSUME HasRule("strategy_capital")
    PROVE  Spec => []NoOverspend
<1>1. Init => CapitalInv
  <2> SUFFICES ASSUME Init PROVE CapitalInv
    OBVIOUS
  <2>1. FiniteRows
    <3>1. {i \in Intents : reservations[i] # None} = {}
      BY DEF Init
    <3> QED
      BY <3>1, FS_EmptySet DEF FiniteRows
  <2>2. Outstanding <= Budget
    <3>1. LiveRows(reservations, now) = {}
      BY DEF Init, LiveRows
    <3> DEFINE S == LiveRows(reservations, now)
               F == [i \in S |-> reservations[i].notional]
    <3>2. Spent(reservations, now) = SumOver(F, S)
      BY SumOfRows DEF Spent
    <3> HIDE DEF F
    <3>3. Spent(reservations, now) = 0
      BY <3>1, <3>2, SumStep, FS_EmptySet
    <3> QED
      BY <3>3, SameSums, EngineAssumption DEF EngineAssumption
  <2>3. \A a \in Attempts : Covered(a)
    BY DEF Init, Covered, Steps
  <2> QED
    BY <2>1, <2>2, <2>3 DEF CapitalInv, NoOverspend
<1>2. IInv /\ IInv' /\ Exclusive /\ CapitalInv /\ [Next]_vars => CapitalInv'
  BY CapitalInductive
<1>3. CapitalInv => NoOverspend
  BY DEF CapitalInv
<1> QED
  BY <1>1, <1>2, <1>3, Inductive, StorageInductive, PTL DEF Spec
=============================================================================
