----------------------------- MODULE MCBacktest -----------------------------
(***************************************************************************)
(* Instances for the replay and the scenario runner.  The hand-written     *)
(* scenarios come in families: trades at every order of times around one   *)
(* resting order, books that change before an order is active, orders and  *)
(* cancels of the same and of other correlations, and one scenario for     *)
(* each thing the constructors and the runner refuse.                      *)
(***************************************************************************)
EXTENDS Backtest

Level(p, q) == [price |-> p, quantity |-> q]

BookOf(n, bids, asks) == [contract |-> "M", sequence |-> n, bids |-> bids, asks |-> asks]

Opening == BookOf(1, <<Level(48, 2), Level(46, 3)>>, <<Level(52, 2), Level(54, 3)>>)

Trade(p, q, side) ==
  [type |-> "trade", contract |-> "M", outcome |-> "yes", price |-> p, quantity |-> q,
   aggressor |-> side]

Delta(n, changes) ==
  [type |-> "delta",
   delta |-> [contract |-> "M", sequence |-> n, previous_sequence |-> n - 1,
              changes |-> changes]]

Change(s, p, q) == [side |-> s, price |-> p, quantity |-> q, action |-> "update"]

Snapshot(b) == [type |-> "snapshot", book |-> b, is_valid |-> TRUE]

At(n, t, p) == [sequence |-> n, scheduled_at |-> t, payload |-> p]

Order(n, t, side, limit, q) ==
  [type |-> "order_intent", sequence |-> n, scheduled_at |-> t, contract |-> "M",
   outcome |-> "yes", side |-> side, quantity |-> q, limit_price |-> limit,
   post_only |-> FALSE, correlation |-> "a"]

Cancel(n, t, c) ==
  [type |-> "cancel_order_request", sequence |-> n, scheduled_at |-> t, exchange |-> "X",
   correlation |-> c]

NoFee == [fee_rate_bps |-> 0, fixed_fee |-> 0, rebate_rate_bps |-> 0, fixed_rebate |-> 0]

Plain ==
  [fill_model |-> "touch", fixed_latency_ms |-> 0,
   fees |-> [TAKER |-> [NoFee EXCEPT !.fee_rate_bps = 35, !.fixed_fee = 1],
             MAKER |-> [NoFee EXCEPT !.rebate_rate_bps = 10], UNKNOWN |-> NoFee],
   slippage_model |-> "none", taker_slippage_bps |-> None,
   settlement_model |-> "none", payout_per_unit |-> One, winners |-> None,
   balance |-> None, disconnected_at |-> None, reconnected_at |-> None,
   legs |-> None, target |-> None]

Scenario(events, actions, c) ==
  [exchange |-> "X", market_status |-> "OPEN", initial_book |-> Opening, initial_valid |-> TRUE,
   market_events |-> events, order_actions |-> actions, configuration |-> c]

Away == {<<None, None>>, <<3, None>>, <<3, 4>>}

-----------------------------------------------------------------------------
Sales == {Trade(48, 1, "SELL"), Trade(47, 2, "SELL")}

Trades == Sales \cup {Trade(53, 1, "BUY")}

(* Two trades around one order, its cancel and the disconnect. *)
Tapes ==
  {Scenario(<<At(1, t1, p1), At(2, t2, p2)>>,
            <<Order(1, 1, o[1], o[2], q)>> \o (IF k = 0 THEN <<>> ELSE <<Cancel(2, k, "a")>>),
            [Plain EXCEPT !.fixed_latency_ms = l, !.disconnected_at = w[1],
                          !.reconnected_at = w[2]]) :
     t1 \in 2..4, t2 \in 2..4, p1 \in Trades, p2 \in Trades,
     o \in {<<"BUY", 48>>, <<"BUY", 52>>, <<"SELL", 53>>}, q \in {1, 3}, l \in {0, 2},
     k \in {0, 2, 3, 4}, w \in Away}

(* Three sales, some of them the same, around a purchase of three. *)
LongTapes ==
  {Scenario(<<At(1, t1, p1), At(2, t2, p2), At(3, t3, p3)>>,
            <<Order(1, 1, "BUY", limit, 3)>> \o (IF k = 0 THEN <<>> ELSE <<Cancel(2, k, "a")>>),
            [Plain EXCEPT !.fixed_latency_ms = l, !.disconnected_at = w[1],
                          !.reconnected_at = w[2]]) :
     t1 \in 2..4, t2 \in 2..4, t3 \in 2..4,
     p1 \in Sales, p2 \in Sales, p3 \in Sales,
     limit \in {48, 52}, l \in {0, 2}, k \in {0, 2, 3, 4}, w \in Away}

-----------------------------------------------------------------------------
Thin    == Delta(2, <<Change("SELL", 52, 0), Change("BUY", 50, 1)>>)
Refill  == Delta(3, <<Change("SELL", 51, 2)>>)
Emptied == Snapshot(BookOf(7, <<Level(50, 0), Level(45, 2)>>, <<>>))
Broken  == [Emptied EXCEPT !.book.sequence = 1, !.is_valid = FALSE]

BookTapes ==
  UNION {{<<At(1, t, Thin), At(2, u, Refill)>>, <<At(1, t, Refill)>>,
          <<At(1, t, Emptied)>>, <<At(1, t, Broken)>>, <<At(1, 2, Broken), At(2, t, Thin)>>,
          <<At(1, t, Broken), At(2, u, Emptied)>>} : t \in {2, 4}, u \in {2, 4}}
    \cup {<<At(1, 2, Thin), At(2, t, Thin), At(3, 4, Refill)>> : t \in {2, 4}}

(* Books that change before or after an order of either side is active. *)
Books ==
  {Scenario(events, <<[Order(1, 1, side, limit, q) EXCEPT !.post_only = p]>>,
            [Plain EXCEPT !.fixed_latency_ms = 2, !.fill_model = f, !.balance = b]) :
     events \in BookTapes, side \in {"BUY", "SELL"},
     limit \in {45, 48, 50, 51, 52, 54, 101, None},
     q \in {2, 4}, p \in BOOLEAN, f \in {"touch", "trade_through"}, b \in {None, 100}}

-----------------------------------------------------------------------------
Requests ==
  {<<>>} \cup {<<Cancel(3, t, c)>> : t \in 2..4, c \in {"a", "b"}}
    \cup {<<Cancel(3, t, c), Cancel(4, u, d)>> :
            t \in 2..4, u \in 2..4, c \in {"a", "b"}, d \in {"a", "b"}}

(* Two orders and their cancels. *)
Pairs ==
  {Scenario(<<At(1, 3, Trade(48, 1, "SELL"))>>,
            <<[Order(1, t, "BUY", limit, 1) EXCEPT !.post_only = TRUE],
              [Order(2, u, "BUY", 48, 1) EXCEPT !.correlation = c]>> \o requests,
            [Plain EXCEPT !.fixed_latency_ms = 1]) :
     t \in {1, 3}, u \in {1, 3}, limit \in {48, 52, 101}, c \in {"a", "b"},
     requests \in Requests}

-----------------------------------------------------------------------------
Base == Scenario(<<At(1, 2, Thin)>>, <<Order(1, 1, "BUY", 54, 2)>>, Plain)

Legs(orders, legs, target) ==
  Scenario(<<At(1, 2, Trade(48, 1, "SELL"))>>, orders,
           [Plain EXCEPT !.legs = legs, !.target = target, !.disconnected_at = 4])

TwoLegs == <<Order(1, 1, "BUY", 54, 3), Order(2, 1, "BUY", 48, 2), Cancel(3, 5, "a")>>

Configured == [Base EXCEPT !.configuration.settlement_model = "binary"]

(* Settlement, slippage and legs, valid and not; what the constructors     *)
(* refuse.                                                                 *)
Others ==
  {Base,
   [Base EXCEPT !.market_status = "CLOSED"],
   [Base EXCEPT !.initial_valid = FALSE],
   [Base EXCEPT !.order_actions[1].quantity = 0],
   [Base EXCEPT !.order_actions[1].contract = "N"],
   [Base EXCEPT !.market_events[1].payload.delta.contract = "N"],
   [Base EXCEPT !.market_events = @ \o <<At(1, 3, Refill)>>],
   [Base EXCEPT !.order_actions = @ \o <<[Cancel(2, 2, "a") EXCEPT !.exchange = "Y"]>>],
   [Base EXCEPT !.configuration.fixed_latency_ms = None],
   [Base EXCEPT !.configuration.fill_model = "mid"],
   [Base EXCEPT !.configuration.fees.TAKER.fixed_fee = -1],
   [Base EXCEPT !.configuration.slippage_model = "bps"],
   [Base EXCEPT !.configuration.slippage_model = "bps", !.configuration.taker_slippage_bps = 30],
   [Base EXCEPT !.configuration.slippage_model = "bps", !.configuration.taker_slippage_bps = -1],
   [Base EXCEPT !.configuration.balance = -1],
   [Base EXCEPT !.configuration.reconnected_at = 3],
   [Base EXCEPT !.configuration.disconnected_at = 3, !.configuration.reconnected_at = 3],
   [Base EXCEPT !.configuration.winners = <<"yes">>],
   Configured,
   [Configured EXCEPT !.configuration.payout_per_unit = 0],
   [Configured EXCEPT !.configuration.winners = <<"yes">>],
   [Configured EXCEPT !.configuration.winners = <<"no">>],
   [Configured EXCEPT !.configuration.winners = <<"yes", "no">>],
   [Configured EXCEPT !.configuration.winners = <<"yes", "yes">>],
   Legs(TwoLegs, <<1, 2>>, 2), Legs(TwoLegs, <<1, 2>>, None), Legs(TwoLegs, <<1, 1>>, 2),
   Legs(TwoLegs, <<1>>, 2), Legs(TwoLegs, <<1, 9>>, 2),
   Legs(<<Order(1, 1, "BUY", 52, 3), Order(2, 1, "BUY", 48, 2)>>, <<1, 2>>, 3)}

MCFixtures == {Tapes, LongTapes, Books, Pairs, Others}

-----------------------------------------------------------------------------
MCManifest == [replay_session_id |-> "s", starts_at |-> 1, ends_at |-> 4]

Event(id, occurred, received, n, p) ==
  [event_id |-> id, occurred_at |-> occurred, received_at |-> received,
   exchange_sequence |-> n, partition |-> Missing, replay_session_id |-> "s", payload |-> p]

Third == Delta(4, <<Change("BUY", 50, 0)>>)

E2 == Event(1, 2, 5, 2, Thin)
E3 == Event(2, 2, 4, 3, Refill)
E4 == Event(3, 3, 3, 4, Third)
ET == Event(4, 2, 3, Missing, Trade(48, 1, "SELL"))

Recording(recorded, order) == [files |-> recorded, paths |-> order, created_at |-> 0]

MCRecordings ==
  {Recording(<<<<E4, E3>>, <<ET, E2>>>>, <<1, 2>>),
   Recording(<<<<E4, E3>>, <<ET, E2>>>>, <<2, 1>>),
   [Recording(<<<<E3>>, <<E2>>>>, <<1, 2>>) EXCEPT !.created_at = 5],
   Recording(<<<<E3>>, <<E2, [E2 EXCEPT !.event_id = 9, !.received_at = 6]>>>>, <<1, 2>>),
   Recording(<<<<E2>>>>, <<1>>),
   Recording(<<<<E4, E2>>>>, <<1>>),
   Recording(<<<<E2, [E3 EXCEPT !.exchange_sequence = Missing]>>>>, <<1>>),
   Recording(<<<<[ET EXCEPT !.partition = 1], E2, ET>>>>, <<1>>),
   Recording(<<<<[E2 EXCEPT !.exchange_sequence = -1]>>>>, <<1>>),
   Recording(<<<<[E2 EXCEPT !.partition = -1]>>>>, <<1>>),
   Recording(<<<<[E2 EXCEPT !.received_at = Missing]>>>>, <<1>>),
   Recording(<<<<[E2 EXCEPT !.replay_session_id = "t"]>>>>, <<1>>),
   Recording(<<<<[E2 EXCEPT !.occurred_at = 5]>>>>, <<1>>),
   Recording(<<<<E2>>, <<>>>>, <<1, 2>>),
   Recording(<<<<E2>>>>, <<>>)}

MCPlans ==
  {Scenario(<<>>, <<Order(1, t, "BUY", limit, 2)>>, [Plain EXCEPT !.fixed_latency_ms = 1]) :
     t \in 1..2, limit \in {48, 51, 54}}
=============================================================================
