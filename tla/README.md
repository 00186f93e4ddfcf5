# PMRP verification project

TLA+ models of the Prediction Market Research Platform (PMRP, Python 3.13, asyncio),
checked with TLC on small instances and, where it matters most, proved with TLAPS for
every instance. Paths below are relative to the repository (`src/src/pmrp/...` is the
implementation, `src/docs/` its documents).

## 1. The system

PMRP is a modular monolith: one process, one event loop, one PostgreSQL database.
Market data enters through exchange adapters, travels as canonical events on an
in-process bus, reaches strategies, whose order intents pass the risk engine; approvals,
reservations, events and outbox messages are stored in one transaction; portfolio
projections and a simulator account for what would have been traded.

| Component | State it keeps | Operations | Talks to |
|---|---|---|---|
| Event bus (`bus/`) | registry of subscriptions by consumer name, one bounded queue each, consumer tasks | publish, subscribe, start_consumer, iterate, close | everything that publishes or consumes |
| Command dispatcher (`commands/`) | idempotency entries in insertion order, bounded | dispatch (before, handler, record) | handlers, registry |
| Strategy runtime (`strategies/runtime.py`, `lifecycle.py`) | lifecycle state, health, subscription, consumer task, order-intent gate | start, stop, on_event, degrade | bus, strategy hooks, context |
| Strategy registry, restart policy, state store, baseline | catalogue; none; checkpoints per namespace; none | register, decide, save/load/clear | runtime |
| Risk rules and engine (`risk/rules/`, `engine.py`, `breaches.py`) | none (the context is an argument) | evaluate | service |
| Risk service and workflow (`risk/service.py`, `workflow.py`, `events.py`) | one open unit of work | evaluate and persist, build events | engine, storage |
| Capital reservations, kill switches (`risk/`, `storage/repositories/`) | rows with a status and instants | add, release, release_expired, sums and lists | service, whoever builds contexts |
| Unit of work (`storage/transactions.py`) | the transaction | enter, flush, commit, rollback | database |
| Portfolio (`portfolio/`) | positions, cash, journal, applied journal ids | fills, transfers, fees, settlement, corrections, PnL attribution, reconciliation | storage with `expected_version` |
| Portfolio event workflow (`portfolio/workflow.py`) | one open unit of work | persist events and outbox messages | storage |
| Simulation (`simulation/`) | scenario, projected order book, order results | admit, activate, fill, cancel, disconnect, settle, report | replay |
| Replay and clocks (`replay/`, `clock/`) | virtual time, position in the stream | load, sort, run, advance, reset | bus |
| Adapters (`adapters/`) | websocket connection, subscription state, sequence | connect, subscribe, update, receive, map, heartbeat | bus |
| Events, schemas, storage models | none of their own | validation, mapping | all |

Hard behaviours, and where they come from:

* **Interleaving.** Everything between two awaits is atomic, everything else is not:
  `start()` and `stop()` overlap with the consumer task; `dispatch()` calls overlap in
  their handlers; two risk evaluations overlap between the reading of their context and
  their commit; two portfolio projectors and a reconciliation read and write the same
  rows; two `update_tokens()` calls overlap in their sends; a consumer that sleeps on the
  replay clock moves it under the engine.
* **Failure and cancellation.** Handlers, strategy hooks, lifecycle publishes, rules,
  flushes and commits fail; tasks are cancelled; the acknowledgement of a commit can be
  lost; a publication ends a replay half way.
* **Unreliable delivery.** Feed frames are lost, repeated, late or without a sequence,
  connections die silently; fills and settlements arrive at least once and in any order;
  recorded streams are cut into files in any order and hold duplicates.
* **Bounds.** Bounded queues with a sentinel, a bounded idempotency cache with eviction,
  capital limits, list limits.
* **Time.** State ages, approvals that expire, shutdown timeouts, deadlines.

What makes each component correct:

* bus: nothing accepted is lost, repeated or reordered; fan-out is all or nothing; the
  registry is exact; `close()` returns and drains;
* dispatcher: one handler at a time per key, claims survive eviction, duplicates repeat
  the recorded outcome of the same command;
* runtime: one consumer per strategy, a failed strategy emits and runs nothing more,
  `stop()` ends and ends in a terminal state;
* risk: an approval meets every configured rule on fresh states, is backed by its own
  capital, is stored with everything that belongs to it or not at all, and kill switches
  take effect;
* portfolio: whatever is delivered how often and in which order, the journal only grows
  by balanced entries, rows equal an in-order replay of what was posted, profit explains
  cash, a correction replaces what it corrects, and health is reported only of complete
  books;
* feeds: a book that is shown is the exchange's own at some moment, moves forward only,
  and comes back after it was withdrawn; live connections are kept, dead ones given up;
  the subscription on record is the one that was sent;
* simulation: scans over an event list amount to what an exchange would have done in
  time; the runner accepts what it builds;
* replay: events come out in key order, none before its time, and a session is complete.

`PROJECT.json` lists every component with its status, and every hazard at its line with
the properties that would catch it.

## 2. The modules

| Module | Models | State and actions |
|---|---|---|
| `EventBus` | `bus/in_process.py`, `bus/subscription.py` | A variable per attribute (`_closed`, `_subscriptions`, `_consumer_handles`, `_pending_events`, the counters) and per subscription object (queue, consumer task, event in the handler). `PublishBackpressure`/`PublishDelivers` are the two ends of `publish()`; `Subscribe`, `StartConsumer`, `IteratorTakes`, `SubscriptionClose`, `HandleClose` are the methods; `TaskTakesEvent`, `TaskTakesSentinel`, `HandlerReturns`, `HandlerRaises`, `TaskCancelled` the consumer task between its awaits; `BusClose`, `BusCloseReturns`, `BusCloseTimesOut` the three stretches of `close()`. |
| `CommandDispatcher` | `commands/dispatcher.py`, answers of `commands/registry.py` | `entries` and `pos` are the `OrderedDict` of the in-memory hook. A call is one step up to its handler (`RefusedByRegistry`, `BeforeDispatchRaises`, `AnsweredFromEntry`, `RefusedAtCapacity`, `Claim`, `ClaimEvicting`) and one after it (`HandlerEnds`, `RecordRaises`, `Cancelled`). The hook holds its lock across no await, so these are atomic. |
| `StrategyRuntime` | `strategies/runtime.py`, `lifecycle.py`, the gate of `context.py` | One strategy. `pc` says where each `start()` and `stop()` coroutine is, `taskPc` where each consumer task is, `ready` the order in which the loop enters new coroutines. The transition table is `AllowedNext`. |
| `RiskRules` | `risk/rules/*`, `risk/context.py`, `risk/engine.py`, `risk/breaches.py` | Operators only: a context is a record of the states the lookups find, each of the nineteen rules maps intent and context to a reason code, `RuleResults`, `DecisionStatus`, `FinalResults` are the engine. `Permits` states, rule by rule and independently of the code's order of checks, what a passed rule promises. |
| `RiskEvaluation` | `risk/service.py`, `workflow.py`, `events.py`, `reservations.py`, `kill_switches.py`, `storage/transactions.py` and the repositories | An attempt observes (external: nothing in the repository builds a `RiskContext`), evaluates, flushes records, reservation, breaches and events, and commits. Tables are variables; `staged` is what an open transaction wrote. Both workflow entry points are there (`persist`: events before the commit, otherwise after). |
| `PortfolioAccounting` | `portfolio/positions.py`, `journal.py`, `balances.py`, `fees.py`, `transfers.py`, `settlement.py`, `projections.py`, `pnl.py`, the comparison of `reconciliation.py` | Operators only: each `apply_*_once` helper maps what the caller read to new rows and a journal entry, a duplicate, or the reason it raises. Decimals are whole numbers of `1/Unit`, rounded half-even to `Precision` significant digits. |
| `PortfolioStore` | the repositories under `storage/repositories/`, `portfolio_unit_of_work.py`, `portfolio/workflow.py`, `reconciliation.py` | Tables are variables. A session reads (`ReadPositions`), calls a helper (`ApplyJob`), writes row by row with its version checks (`Write`), commits, persists its events in a second unit of work (`PersistEvents`) and may fail anywhere (`Fail`). `SaveSettlement`, `StartReconciliation` and `Reconcile` run beside it. The projector itself is external. |
| `Ledger` | abstract specification | A journal that grows by one balanced, new entry at a time, and books that move by it in the same step. `PortfolioStore!ImplementsLedger` is the refinement. |
| `PortfolioBatch` | `apply_fills_once` in memory | A position carried from batch to batch without the rounding of the database columns. |
| `OrderBook` | `simulation/order_book.py`, `schemas/market_data.py` | Operators: snapshots, `apply_delta` and its sequence rules, crossing. Shared by the feeds and the scenario runner. |
| `KalshiMapping`, `PolymarketMapping` | raw models, mappers and the sequence check of the two adapters | Operators from a raw message to a canonical one, or to its refusal. |
| `MarketFeed` | `adapters/kalshi/websocket.py`, `adapters/polymarket/websocket.py` | One venue per behaviour. The exchange, the wire with its faults and the loop that drives the helpers (as `docs/01_ARCHITECTURE.md` 14.4 and 14.5 prescribe) are external; connect, subscribe, receive, sequence check, heartbeat check, resubscription and the two halves of `update_tokens()` are the adapters'. |
| `BookReplica` | abstract specification | A replica shows the exchange's book after some number of its changes, follows change by change or by a snapshot, and never goes back. `MarketFeed!ImplementsReplica` is the refinement. |
| `SimulationModels` | `simulation/exchange.py`, `rejection_models.py`, `latency_models.py`, `fill_models.py`, `queue_models.py`, `fee_models.py`, `slippage_models.py`, `settlement.py` | Operators: what one order meets. |
| `ScenarioRun` | `simulation/scenarios.py`, `results.py` | `DefineScenario`/`RefuseScenario` are the constructors, `StartRun` the checks and the final book, one action per order intent, `FinishRun` the cancel check, artifacts and metrics; each can raise. |
| `Replay` | `replay/`, `clock/replay.py`, `schemas/replay.py` | Load, refuse, sort, then per event an advance of the clock and a publication, each of which may fail; completion, the refusal of the session, reruns, clock resets and sleeping consumers. |
| `Backtest` | composition | What a completed replay published becomes the market events of a scenario; scenarios written by hand are the other way in. |
| `EventBusProofs`, `CommandDispatcherProofs`, `StrategyRuntimeProofs`, `RiskProofs`, `PortfolioProofs`, `MarketFeedProofs`, `BacktestProofs` | theorems about the module of that name (`RiskProofs`: `RiskRules` and `RiskEvaluation`; `PortfolioProofs`: `PortfolioStore` and `Ledger`; `BacktestProofs`: `Replay`, `ScenarioRun` and the models they use, within `Backtest`) | see section 5 |
| `SumProofs` | lemmas | what `SumOver` does when an element is added, removed or changed, when the set grows, and when it is split |
| `MC*` | small instances | constants only, and `RulesKeepTheirPromise` |

Abstractions worth knowing: events, keys, requests and intents are model values or small
records; decimals and instants are integers; health reports, logging, hashes and messages are
left out; an identifier derived by hashing is the tuple it hashes. An event type is the set
of its instances. In `RiskEvaluation` all intents share strategy, exchange, account and
currency, so every reservation is within the scope of every sum. In `PortfolioStore` the jobs
of the exchange are a list in the order of their instants, of which several may be equal; any
part of them is delivered in any order, and the first `Past` are posted at the start.
`_validate_fill_order` and its siblings refuse a job that is older than its row and take one
of the same instant, so `ProjectionIsReplay` asks for some order of the jobs of an instant
(`Orders`). In `MarketFeed` every frame carries how many changes its sender had made, which
only the properties read. In `ScenarioRun` a payload stands for its canonical hash, and money
that a basis-point rate enters is counted in ten-thousandths of a cent, so nothing is left to
round. The loops of the simulation over levels, events and changes are recursive functions of
the number of turns taken (`BookWalk`, `ProjectionWalk`, `RestingWalk`), which is the form
the proofs need. The workflow always hands its input snapshot to the service, so an attempt
always adds one. A flush that meets a unique key held by another open transaction waits for
it, as PostgreSQL makes it.

## 3. The runs

Every run disables TLC's deadlock check: all of the systems may come to rest (a closed
bus, answered calls, a stopped strategy, finished attempts, posted jobs, a finished
replay), and the feed idles when the exchange has no more changes.

| Run | Instance | Shows |
|---|---|---|
| `bus_safety` | 2 subscription objects, 2 names, 2 events of 2 types, a partition key, queue sizes 1 and 2, 2 publishes | `QueueAccounting`, `ExactlyOnceInOrder`, `RegistryConsistent`, `PeersSeeTheSameStream` |
| `bus_liveness` | the same with one name and type, no symmetry | `CloseReturns`, `ClosedConsumersDrain` |
| `dispatch_safety` | 4 calls, 3 keys, 4 kinds of request, room for 2 entries, a hook that may raise | `ClaimHeld`, `DuplicatesRepeatTheOutcome`, `OneRunPerRetention` |
| `dispatch_cancel` | 2 calls, 2 keys | **violation** of `NoOrphanedClaim` |
| `runtime_safety` | 2 starts, 2 stops, 3 events, queue of 2, publishes that raise | `OneConsumer`, `FailureClosesTheGate`, `EventsOnlyWhileRunning`, `StopEnds` |
| `runtime_stuck` | 1 start, 1 stop, 1 event | **violation** of `StopIsFinal` |
| `risk_safety` | 2 attempts, 4 intents, 19 rules, 2 snapshots, 3 instants, a kill switch, faults in a rule | `ApprovalsPermitted`, `NoOverspend`, `CapitalBacksApprovals`, `CommittedTogether`, `KillSwitchStopsApprovals`, `ReservationsAreFinal` |
| `risk_overspend` | 2 attempts, no switch, 2 instants | **violation** of `NoConcurrentOverspend` |
| `portfolio_safety` | 2 projectors, 1 contract, 2 balances, 8 jobs of which 3 are posted and 4 delivered, three of these at one instant, a settlement and its correction, one reconciliation | `ImplementsLedger`, `ProjectionIsReplay`, `PnlExplainsCash`, `CorrectionReplaces`, `EventsFollowTheJournal`, `HealthyMeansComplete` |
| `portfolio_rounding` | 3 fills of one contract in batches, 5 digits | **violation** of `OrderedFillsAreJournaled` |
| `market_feed` | both venues, 3 histories each, 2 faults on Kalshi and 1 on Polymarket, 2 token updates that may overlap | `BookIsExchangeBook`, `TradesMirror`, `SubscriptionsAgree`, `ImplementsReplica`, `BooksRecover`, `OnlyDeadConnectionsEnd` |
| `backtest` | 15 recordings, 2 runs on a clock built at 1 or 3, some 28,000 scenarios in 5 families | `RestingFillsFollowTheTape`, `TakesWhatTheBookShows`, `FillsWithinBalance`, `CancelsMatchWhenTheyCan`, `DisconnectFindsOpenOrders`, `RunnerAcceptsItsOutput`, `PublishedInKeyOrder`, `CompletedSessionIsWhole`, `ReplayedBooksHaveNoGaps` |

Every module with variables states its types as `TypeOK`. For the bus, the dispatcher, the
runtime and the risk path it is proved; the runs spend their time on the properties above,
and `INVARIANT TypeOK` can be added to any configuration to check the others.

Why the bounds are enough for what happens in them:

* *bus*: a size-1 queue is full after one publish, so back-pressure meets a peer that has
  room; the two objects can share a name one after the other, so a late close meets a
  newer subscription; e1 has a market and e2 has none, so both sources of the partition
  key occur.
* *dispatch*: three keys for two places force evictions and refusals at capacity; four
  calls allow a claim, an eviction, a duplicate and a conflicting request on one key.
* *runtime*: with two starts and two stops each of start/stop can meet another one
  before, during and after `initialize()` and the drain; three events overflow the queue.
* *risk*: limits are chosen so that one intent fits into the capital and two do not; an
  approval lives one instant, so expiry, sweep and retry all happen within three; the
  observation may be one instant old when it is judged. `MaxStateAge` is 1, so a state is
  fresh, exactly at its limit, and stale. One intent is free (no reservation can be
  built), one has no price. `RulesKeepTheirPromise` compares every rule with its promise
  on a good context and thirty-odd contexts with one thing wrong, at four instants.
* *portfolio*: the second fill leaves an average that has to be rounded; a transfer, this
  fill, a settlement and its correction are in flight on shared rows, each any number of
  times, so every pair of jobs races through `expected_version` and the unique journal ids.
  The first three happen at one instant, so each can be posted before each other one, and the
  rows differ: a replay in the one order of the list would not explain them all; the
  reconciliation can start and end at every point between them. Amounts are hundredths and
  stay below the seven digits of `Precision`, as those of the database columns stay below the
  28 of the context, so only averages round. The batch run carries averages with as many
  digits as the context has (five), which is the situation of a position kept in memory.
* *feed*: one gap needs a lost frame and a later one, a second fault hits the recovery;
  one Kalshi history crosses and thins out the book, one empties it, one only trades; the
  Polymarket messages change two tokens at once, and Kalshi trades name a taker side the
  mapper knows or not. `MissedLimit` is 2, so a frame can be
  exactly at, and beyond, the limit; `WireCap` frames in flight let a stale frame of an
  old subscription meet a new one.
* *backtest*: recordings hold duplicates, late events, ties of time with and without a
  sequence, and every kind of dataset the loader refuses; two runs are enough for one to
  fail and the next to meet the clock it left. The families put trades at every order of
  times around one resting order with its cancel and a disconnect, change the book before
  or after an activation, pair orders with cancels of the same and of other correlations,
  and take one scenario for each refusal.

Named bounds: `MaxPublish`, `MaxEvents`, `MaxTime`, `MaxActivations`,
`MaxReconciliations`, `MaxFaults`, `WireCap`, `MaxRuns`; `Attempts`, `Calls`, `Starts`,
`Stops`, `Sessions`, `TokenUpdates` bound the number of calls.

Symmetry is used only in safety runs, over objects nothing else distinguishes
(subscriptions, names, calls, keys, sessions).

### Fairness

`EventBus!LoopFairness` says that the event loop runs ready tasks, delivers cancellations
and fires the shutdown timer. It assumes nothing of handlers, which may hang;
`ClosedConsumersDrain` takes "handlers finish" as its own premise. A handler that catches
its cancellation and goes on is outside the model.
`StrategyRuntime!Fairness` says in addition that the strategy's own coroutines finish:
`stop()` has no timeout, so without that it need not end. Nobody is obliged to call
`start()`, `stop()`, `publish()` or `close()`.
`MarketFeed!Fairness` says that the exchange greets, acknowledges and sends its
heartbeats, that the client's loop, which is one task, keeps going, and that time passes.
It assumes nothing of the exchange's book, of faults or of `update_tokens()`; faults are
bounded in number, which `BooksRecover` needs: a connection that breaks for ever never
recovers. The two refinements and the safety properties use no fairness.

## 4. Findings

1. **A cancelled command is never released** (`dispatch_cancel`). `dispatch()` records
   the outcome of a handler for `Exception` only; a `CancelledError` leaves the key in
   progress for ever, retries are refused, and the entry is never evicted
   (`commands/dispatcher.py:308`; `docs/02_ENGINEERING.md:1322` asks components to handle
   cancellation explicitly).
2. **A strategy can stay DRAINING** (`runtime_stuck`). If `on_event()` fails after
   `stop()` set DRAINING, the transition to DEGRADED is not allowed, raises in the
   consumer task, and again in `stop()`, which ends before `shutdown()`
   (`strategies/runtime.py:235`, `:254`).
3. **Concurrent approvals can overspend** (`risk_overspend`). The service judges a
   context read before the transaction and inserts the reservation without a lock or a
   second look at the sum (`risk/service.py:218`), while `risk/reservations.py:34` says
   reservations prevent concurrent approvals from overspending. `NoOverspend` shows that
   this is the only way: when no evaluation is overtaken by another one's commit, limits
   hold through retries, expiry and lost acknowledgements.

4. **An in-memory batch rejects an ordinary fill** (`portfolio_rounding`).
   `_validate_projection_for_fill` compares `closed * (price - average)` with
   `closed * price - closed * average` for exact equality although each product is
   rounded to the context's digits (`portfolio/journal.py:201`): sell 4 at 0.96, sell 29
   at 0.93, buy 17 at 0.86, and `apply_fills_once` raises. A position read back from its
   `Numeric(38, 18)` column has few enough digits and is not affected, which is why
   `portfolio_safety` has no such case.

Facts the models had to be precise about, none of which contradicts a document:

* A `start()` that overlaps another one after a `stop()` puts its own subscription into
  the handle before its transition to RUNNING is refused (`strategies/runtime.py:201`); the
  consumer task of the other `start()` may then read that subscription, which nobody
  closes, and a `stop()` that waits for the task (`:254`) does not end. `StopEnds` holds
  wherever this has not happened (`Misdirected`).
* Kalshi's raw model refuses the snapshot of a book with two empty sides, so a book that
  was withdrawn stays away while the market is empty (`Recoverable`).
* The last change of a quiet market, if its frame is lost, is noticed only with the next
  frame; `BookReplica` allows it, since the shown book is then merely old. Polymarket
  frames have no sequence at all, so the model loses none of them: a loss there cannot be
  noticed by this code.
* Two `update_tokens()` calls that overlap lose one of the updates, since each computes
  the new set before its send and stores it afterwards. No document says what two updates in
  flight should do, so nothing is claimed of them: once calls have overlapped each other or a
  reconnect, `SubscriptionsAgree` and `BooksRecover` say nothing about the subscription. A
  call whose send failed stores nothing and does not count as overlapping.
* A disconnect misses one kind of open order: the rest of an order that took part of its
  quantity never fills, but `_disconnect_result_for_order` lets later trades fill it.
  `DisconnectFindsOpenOrders` leaves this case out of one direction.
* A book marked invalid raises for every order that meets it at its activation:
  `_post_only_would_cross` asks `best_ask` or `best_bid`, which refuse it
  (`simulation/order_book.py:24`), and so does the fill model. No order is rejected as
  post-only by such a book.
* The runner takes each order by itself: a trade may fill every order it reaches, and the
  queue ahead is an estimate that delays nothing. `RestingFillsFollowTheTape` says what the
  code does there, not what a shared exchange would do.
* A post-only order that is rejected at its activation leaves the request that cancels it
  unmatched, and an unmatched cancel makes the whole run raise.
* A dataset whose manifest was created after its window starts is replayed to the last
  event and then refused by `ReplaySession`.
* A consumer that sleeps on the replay clock moves the engine's clock; the next event is
  then in the past and the run ends with a time-reversal error.
* A ping that Kalshi sends between a subscription and its acknowledgement makes
  `subscribe()` raise; the loop reconnects.

## 5. The proofs

`EventBusProofs` assumes `BusAssumption` (finitely many subscription objects, positive queue
sizes, the sentinel is no event) and proves, for any number of subscriptions, names, types,
keys, sizes and publishes, `TypeOK`, `QueueAccounting`, `ExactlyOnceInOrder`,
`RegistryConsistent` and `PeersSeeTheSameStream`. The invariants are not inductive one by
one: `IInv` joins them with `Unborn` (an object not constructed has an empty queue and no
history), `Constructed` (its arguments are legal), `IdleHands` (only a task in its handler
holds an event) and `Attached` (a handle, and all `close()` waits for, has its task). Queue
accounting, for example, needs the registry to know that publish only reaches open queues,
and the order needs the accounting to know that no event is behind the sentinel. The facts
about sequences (append, head and tail, suffix) are lemmas stated once;
`PeersSeeTheSameStream` is preserved because a publish appends the same event to both of two
equal subscriptions.

`RiskProofs` assumes `RulesAssumption`, `RequestsAssumption`, `IntentsAssumption`,
`EngineAssumption` and `SurroundingsAssumption` (rule ids are unique, ages positive,
requests and contexts are what the constructors let through; what the caller observes is
arbitrary within that). `EngineApprovesOnlyPermitted` is about the engine alone: for
every list of rules, every context and every rule that raises, a decision is approved
only if every configured rule's `Permits` holds and the intent has a price. It rests on
one lemma per group of rules (`RuleKeepsPromise`). On top of it `Inductive` carries
`IInv`: types, and `Held(a)`, what an attempt at each step of its unit of work has
decided. It yields `TypeCorrect` (every stored reservation is of a positive amount with
an expiry), `ApprovalsPermittedHolds` and `ReservationsAreFinalHolds`; the last also
needs `Exclusive`: two open transactions never hold the same intent.

Its second part is about what is stored. `StorageInductive` carries `SInv`: what an open
transaction has staged at each step (`StagedSoFar`), that a staged input snapshot is the
only one with its id (`SnapshotExclusive`, the unique constraint), and what is stored.
Without the first two a commit could not be known to complete a decision or to leave
another one's snapshot alone. It yields `CommittedTogether` and `CapitalBacksApprovals`.
`KillSwitchStopsApprovals` follows a switch from its row through what an attempt observed
(`SwitchesSeen`) to what it decided (`SwitchesObeyed`); it assumes `AllListed`, that
`list_active` is long enough to show every switch, since the code cuts the list at a
hundred. `NoOverspend` assumes that the `strategy_capital` rule is configured (nothing
else looks at the sum) and rests on `CapitalInv`: as long as an attempt has not been
overtaken, what is outstanding is at most what it saw, so its own amount still fits when
it commits. `RowsAssumption` (None is no row) and a budget in `Nat` are its other
assumptions. The sums of reserved capital are over sets; `SumProofs` derives what is
needed of them without induction over an operator: if a fact about sums failed, it would
fail for a set of least cardinality, and there it does not.

`CommandDispatcherProofs` assumes `DispatcherAssumption` and proves `TypeOK`, `ClaimHeld`,
`DuplicatesRepeatTheOutcome`, `OneRunPerRetention` and, in addition to what the run
checks, `CapacityBound`. `IInv` adds `CallsOK`, `EntriesOK` (a finished entry holds the
outcome of an answered call with its key and fingerprint) and `RunsCounted`, the inductive
form of `OneRunPerRetention`: the runs of a key are at most its evictions plus one while
its entry is there.

`StrategyRuntimeProofs` proves `TypeOK`, `OneConsumer`, `FailureClosesTheGate` and the
action property `EventsOnlyWhileRunning` for any number of overlapping calls. `OneConsumer`
is inductive only with `TasksFollowRunning` (no task before the first RUNNING) and
`RunningIsSubscribed` (while RUNNING, the strategy's own subscription is open, so the bus
refuses a second `start()` its own); `Attached` says that whoever reads has a subscription.

`PortfolioProofs` proves that the tables implement `Ledger` for any jobs, sessions,
failures and redeliveries, and `EventsFollowTheJournal`. The refinement has a premise,
`[]NothingRounds`: no Decimal operation of a helper about to be called has more digits
than the context keeps. Amounts in the database are far from that limit; beyond it the
claim is false, which is what finding 4 shows in memory. The argument has two halves. About the
helpers: each of them, called on well-formed rows, returns a duplicate, a refusal, or a
balanced entry under the job's own id with rows that differ by exactly its lines
(`Posts`, one lemma per helper). About the tables: `StoreInv` says that what a session
has read or is about to write is right for the rows that are there, as long as these have
the versions it saw (`ReadOK`, `PendingOK`), that two open transactions never hold the
same row (`LocksExclusive`), so a version checked by a write still holds at the commit,
and that rows are what the schemas accept. The commit is then one `Post`, everything else
stutters. Sums over the
balances are again `SumProofs`. Assumed of the constants: `JobsAssumption` (the schemas
of fills, transfers and settlements), `IdsAssumption` (different jobs derive different
journal ids), `StartAssumption` (the rows at the start are ones the schemas accept).
`EventsInv` is what a session that persists events knows of its entry.

Four more theorems about the tables have the same premise. `ProfitExplainsCash` is the first
half of `PnlExplainsCash` (`PnlIsCash`). `PnlInv` says of the whole journal what the property
says of two periods, and of every session about to write that its entry lies before the
horizon and that its cash lines are the ones its balances move by (`EntryShape`, from the
helpers); since the entry is balanced, a commit adds the same amount to both sides. That two
half-open periods add up to the journal is a lemma about splitting a sum. `BooksAssumption`
says that the books at the start are explained by their journal, which is trivial for an
empty one. `CostExplainsCash` adds the second half, `CostIsCarried`: the cost booked in the
journal is the one the positions carry as quantity times average. The average of an increased
position is a quotient, rounded half to even by less than one, so a fill leaves at most its
resulting quantity unexplained, and nothing else does (`CostStep`: opening, reducing, closing
and reversing a position are four cases, a correction moves no cost). No position is larger
than the volume traded, so after n fills the difference is at most n times that volume
(`DriftGrows`). `CostInv` carries this bound together with what each session about to write
knows of the row that is there.

`CorrectionsReplace` proves `CorrectionReplaces` position by position. `CorrectionInv` says
that every entry of a settlement or a correction, committed or about to be, is the amount (or
the difference of two amounts) of the position kept in `original` (`Explained`), that a
position is kept only for a settlement that is posted, and that ids are unique
(`SettledAssumption`: so it is at the start). A settlement is posted once, so the kept
position never changes, and the two entries add up.

`ProjectionsReplay` proves `ProjectionIsReplay`: the rows, to their versions, and the journal
are those of the posted jobs applied once each in an order by their instants, those of one
instant in some order of them. A helper looks at the rows of its own job and at whether its
id is posted, and at nothing else (`OutcomeLocal`), so two jobs that share no row can be
exchanged (`Commutes`). A job that commits although later ones are posted shares no row with
these: a row is not older than any job posted to it (`RowsFollow`), and the helpers refuse a
job that is older than its row. So the new job can be moved back, job by job, to its own
instant (`ReplayAdds`, by least counterexample over the length of the replay). Jobs of its
instant that are posted may share its rows; it comes behind them, so the order is changed
there: the new job becomes the last of its instant (`Moved`, `TiesPosted`), which changes
nothing of a replay it is not part of (`MovedReplay`). `ProjectionInv` joins this
(`TablesReplay`) with what a session about to write has computed, and from which rows
(`Computed`), and with the statuses of settlement rows. `OrderAssumption` says that a
settlement happens when its record says and that the books at the start are in order.

`MarketFeedProofs` proves the refinement of `BookReplica` for both venues and every
history, number of faults, wire capacity and set of tokens, under `FeedAssumption` and
`HistoriesAssumption` (a history is a start with two sides of finitely many integer prices, a
sequence of changes with a side and a price, and a set of trades). On Kalshi
the argument is the sequence number: frames tell of the past, a change is applied only if
its sequence is one more than the one kept (`BookOK`: that is the number of changes the
shown book has seen). Polymarket has no sequence, and the argument is about the wire
(`ChainOK`): frames are in order; each relevant change in flight is the next one after
the relevant frame, or the shown book, before it (`Linked`); and the last relevant frame
leaves out nothing that happened since (`Complete`). It also needs that the messages the
exchange sends contain a relevant change exactly if one was made, which is about the
recursive `ChangesOf` and is proved by least counterexample. `TradesMirror` follows from
the frames in flight, `SubscriptionsAgree` from `TokensInv`: at most one call is under
way, and what it is about to store is what the exchange was asked for.

`BooksAreTheExchanges` goes from the position of the book to its contents
(`BookIsExchangeBook`). Each frame tells of the exchange's book at its position (`FrameOK`),
and `ShownInv` says that the levels shown are the mirror image of that book (`Mirrors`). It
follows the levels through the mappers: raw price lists to dictionaries, complements to the
outcome asked for, a change of one level, and the sorted lists, each step as a lemma about
functions from prices to quantities; the recursive books and message contents again by least
counterexample. On Polymarket it also needs that the changes between the shown book and the
next relevant frame leave the book of the token alone. `LiveConnectionsStay` is the safety
half of `OnlyDeadConnectionsEnd`: a live connection in its stream is never stale. `BeatInv`
counts what an idle interval can hide: a frame is at most one interval late, so two silent
intervals are as many as there can be, and the theorem assumes a `MissedLimit` of at least
two, which is the default `missed_heartbeat_limit` of both adapters
(`kalshi/websocket.py:457`, `polymarket/websocket.py:369`). With a limit of one it would be
false.

`BacktestProofs` has two parts. The first is about replay within the composition, for every
recording, cut into files in any way, every manifest and number of runs, under
`ManifestAssumption`.
`ReplayInv` says that each run, the failed ones too, published a prefix of the sorted
dataset, none of it before its time (`PublishedOK`); that the engine's position is the
length of that prefix and the clock is not behind it (`LoopOK`), whatever sleeping
consumers do; and that a session is one of a whole run (`SessionOK`). That the published
prefix contains all events with smaller keys, and each event as often as it was recorded,
is about `sort_replay_events`: keys are totally ordered (two different tuples differ at a
least place), so is coming before in the sense of a stable sort, an event's place is the
number of events before it, different events have different places, and by the pigeonhole
principle every place is taken. No induction over the dataset is needed.

The second part is about the scenario runner, for every scenario, fixture and plan, under
`SchemaAssumption` (recorded events, plans and fixtures are instances of the canonical
schemas: integral prices and quantities, levels in order, latencies that are not negative)
and `NoneAssumption` (None is no value of an optional field). `RunnerInductive` carries
`RunnerInv`:

* `PayloadsOK`, `ScenarioOK`: what was loaded are instances of the schemas, and a scenario
  that was accepted has its events and actions in sequence;
* `ResultsOK`: each result meets `ResultOK`, which is established once, when the order action
  returns, and was given the first of the requests that match it (`GivenOK`); the requests
  that count as used are those the results carry, each carried once (`CarriedOK`);
* `EndOK`: how a run that raised or finished relates to its unmatched requests.

The six properties of the runner follow.

* `TakesWhatTheBookShows`, `FillsWithinBalance`: an order is judged, and rejected as
  post-only, only by a book that is valid at its activation, since with any other the run
  raises. The walk over the opposite levels has, after any number of turns, taken from the
  levels within the limit and from no other, up to the quantity, and no level cost more than
  the limit price; the balance was admitted for the whole quantity at that price.
* `RestingFillsFollowTheTape`: the walk over the events has, after any number of turns, filled
  the smaller of the quantity and the volume of the distinct trades met so far. A trade seen
  twice, a cancel and a disconnect are all decided event by event; the reference sums over a
  set.
* `DisconnectFindsOpenOrders`: the walk that looks for open orders is the same one, ended at
  the disconnect.
* `CancelsMatchWhenTheyCan`: suppose a request is left over, and take the requests of its
  correlation that are not later than it. Every order one of these could cancel could be
  cancelled by the left-over one too, so it was given a request that is not later, and not
  the left-over one. So there are fewer such orders than requests, and by the pigeonhole
  principle no assignment exists. Which orders were rejected is taken as it came out.
* `RunnerAcceptsItsOutput`: the artifacts of a result are numbered within a stride of their
  own, so sequences are unique, and the parts of a result are those its constructor demands.

What a loop has done after n turns is proved by least counterexample: the turns that
violate the claim have a least element (`WellFoundedInduction`), the claim holds at 0, and
one turn preserves it. `ReplayedBooksHaveNoGaps` joins the two parts. `GapInv` says that the
readings of a replay clock never decrease, that the events of a scenario made from a replay
are the published ones, and that a `book_gap` reason was given by some projection. If the
recording of a sequenced book has no gap, its sorted events are the snapshot and its changes
in sequence, a projection up to any point has applied exactly the changes up to its sequence
(`TapeNeverRaises`), and no projection can have found a gap.

The inductive invariants of the portfolio, the feeds, the replay and the runner were checked
with TLC on the instances of the runs, but for conjuncts that quantify over sets TLC cannot
enumerate (`Computed`).

Only model-checked:

* liveness (`CloseReturns`, `ClosedConsumersDrain`, `StopEnds`, `BooksRecover`, and that a
  dead connection is given up, the second half of `OnlyDeadConnectionsEnd`), which is outside
  this prover's reach;
* `HealthyMeansComplete`: it is a fact about the instance's amounts, since two missing
  jobs of opposite amounts would leave the compared totals equal.

## 6. Not modelled

* REST clients, schema declarations, row models and mappers, migrations and
  configuration: input and output without state. What they guarantee is used where a
  model needs it (`OrderIntents`, `Contexts`, unique keys, sorted books).
* Raw messages other than books, changes and trades.
* In the simulation: expected fills and expected final book, result and checksum hashing,
  the catalogue of fixtures, and the limits of `Decimal`. In replay: the engine's checks
  that its clock was built for the manifest's window and that the ordering policy is the
  one it knows; the model builds both that way.
* Registration at start-up (command, strategy and event registries), health reports.
* `evaluate_rate_limit`, the restart policy and the strategy state store: single steps
  without an await whose callers (but for the fixture adapter, a test double) are not in
  the repository.
* The kill switch list is cut off at a hundred rows; `ListActive` models the cut, the
  run stays below it.
* A second, different correction of one settlement; the order of corrections is the
  caller's business, and the caller is not in the repository.

## 7. Plan

The components with state of their own are modelled, and every safety property of the runs
that holds for all constants is proved. What could be added:

1. A condition on amounts under which `HealthyMeansComplete` holds for every exchange (no
   missing jobs cancel out in every compared field), and its proof.
2. `ProjectionsReplay` without its premise: a replay in an order by instant rounds as the
   tables do, so the property should not need `NothingRounds`; only `StoreInv` does.

## 8. Running it

    tlc -workers 2 -config EventBus.cfg MCEventBus
    tlapm EventBusProofs.tla

and likewise for the other configurations (their module is given in `PROJECT.json`) and
the other `*Proofs` modules. From nothing the proofs take some minutes each.
