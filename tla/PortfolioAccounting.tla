------------------------ MODULE PortfolioAccounting ------------------------
(***************************************************************************)
(* The accounting helpers of src/src/pmrp/portfolio: what one fill,        *)
(* settlement, correction, fee, rebate, transfer or observed balance does  *)
(* to a position and to cash balances, and the journal entry that records  *)
(* it.  They are pure functions of what the caller read; PortfolioStore    *)
(* runs them against the tables and PortfolioBatch runs them in memory.    *)
(*                                                                         *)
(* Money and prices are whole numbers of 1/Unit.  A journal line is a      *)
(* signed amount on an account; an entry keeps one amount per account.     *)
(***************************************************************************)
EXTENDS Integers, FiniteSetsExt

CONSTANTS
    None,
    Unit,            \* price and money units per 1
    Precision        \* significant digits of the decimal context (28 in Python)

ASSUME UnitAssumption == Unit \in Nat \ {0} /\ Precision \in Nat \ {0}

-----------------------------------------------------------------------------
(* Decimal arithmetic                                                      *)

Magnitude(x) == IF x < 0 THEN -x ELSE x
Sign(x) == IF x > 0 THEN 1 ELSE IF x < 0 THEN -1 ELSE 0
Least(a, b) == IF a < b THEN a ELSE b

\* n / d to the nearest whole number, ties to even (ROUND_HALF_EVEN).
HalfEven(n, d) ==
    LET q == n \div d
        r == n % d
    IN  IF 2 * r > d \/ (2 * r = d /\ q % 2 = 1) THEN q + 1 ELSE q

\* The weight of the last digit that Precision significant digits leave.
LastDigit(x) ==
    LET drop == CHOOSE k \in 0 .. 9 :
                  /\ Magnitude(x) < 10 ^ (Precision + k)
                  /\ k = 0 \/ Magnitude(x) >= 10 ^ (Precision + k - 1)
    IN  10 ^ drop

\* What a Decimal operation returns when its exact result is x.
Decimal(x) ==
    IF Magnitude(x) < 10 ^ Precision THEN x
    ELSE Sign(x) * HalfEven(Magnitude(x), LastDigit(x)) * LastDigit(x)

\* Decimal division of an amount by a quantity.
Quotient(x, q) == Sign(x) * HalfEven(Magnitude(x), q)

-----------------------------------------------------------------------------
(* Positions                                                               *)

Direction(fill) == IF fill.side = "buy" THEN 1 ELSE -1
FillMoney(m) == IF m = None THEN 0 ELSE m

WeightedAverage(q, avg, n, price) ==
    Quotient(Decimal(Decimal(q * avg) + Decimal(n * price)), q + n)

\* _apply_weighted_average_fill: quantity q, held at avg, after one fill.
ApplyWeightedAverageFill(q, avg, fill) ==
    LET d        == Direction(fill)
        projected == q + d * fill.quantity
        reduces  == q # 0 /\ Sign(q) # d
        closed   == IF reduces THEN Least(Magnitude(q), fill.quantity) ELSE 0
        opened   == fill.quantity - closed
    IN  [quantity |-> projected,
         average |-> IF projected = 0 THEN None
                     ELSE IF q = 0 THEN fill.price
                     ELSE IF ~reduces
                          THEN WeightedAverage(Magnitude(q), avg, fill.quantity, fill.price)
                     ELSE IF Sign(projected) = Sign(q) THEN avg
                     ELSE fill.price,
         realized |-> IF reduces
                      THEN Decimal(closed * Decimal(fill.price - avg)) * Sign(q) ELSE 0,
         closed |-> closed,
         opened |-> opened,
         closed_cost |-> IF reduces THEN Decimal(closed * avg) ELSE 0,
         closed_value |-> Decimal(closed * fill.price),
         opened_notional |-> Decimal(opened * fill.price)]

NoPosition == [quantity |-> 0, average |-> None, realized |-> 0, fees |-> 0, rebates |-> 0,
               opened_at |-> None, updated_at |-> None, version |-> 0]

\* _project_opened_at
OpenedAt(p, projected, fill) ==
    IF projected = 0 THEN None
    ELSE IF p.quantity = 0 \/ p.opened_at = None THEN fill.at
    ELSE IF Sign(p.quantity) = Sign(projected) THEN Least(p.opened_at, fill.at)
    ELSE fill.at

\* _fill_money, _validate_existing_position, _validate_fill_order: the fill is for this
\* position, in its currency, and no older than what the position has seen.
FillAccepted(p, fill, currency) ==
    /\ fill.currency = currency
    /\ FillMoney(fill.fee) >= 0 /\ FillMoney(fill.rebate) >= 0
    /\ p # None =>
          /\ fill.contract = p.contract
          /\ (p.quantity = 0) = (p.average = None)
          /\ fill.at >= p.updated_at

\* The projection of apply_fill_to_position, from the row that was there and the trade w.
FillProjection(was, fill, w) ==
    [position |->
       [contract |-> fill.contract,
        quantity |-> w.quantity,
        average |-> w.average,
        realized |-> Decimal(was.realized + w.realized),
        fees |-> Decimal(was.fees + FillMoney(fill.fee)),
        rebates |-> Decimal(was.rebates + FillMoney(fill.rebate)),
        opened_at |-> OpenedAt(was, w.quantity, fill),
        updated_at |-> IF was.updated_at = None \/ fill.at > was.updated_at THEN fill.at
                       ELSE was.updated_at,
        version |-> was.version + 1],
     trade |-> w,
     notional |-> Decimal(fill.quantity * fill.price)]

\* apply_fill_to_position of an accepted fill.
ApplyFill(p, fill) ==
    LET was == IF p = None THEN NoPosition ELSE p
    IN  FillProjection(was, fill, ApplyWeightedAverageFill(was.quantity, was.average, fill))

-----------------------------------------------------------------------------
(* Journal entries                                                         *)

\* Account codes.  cash is the balance the caller applies the entry to; a transfer moves
\* cash between the accounts of two balances, outbound and inbound.
Accounts == {"cash", "outbound", "inbound", "position_cost", "realized_trading_pnl",
             "settlement_pnl", "fees_paid", "rebates_received", "balance_correction"}

Entry(id, at, lines) ==
    [id |-> id, at |-> at, lines |-> [a \in Accounts |-> IF a \in DOMAIN lines
                                                          THEN lines[a] ELSE 0]]

\* AccountingJournalEntry.validate_journal_balance
Balanced(entry) ==
    LET l == entry.lines
    IN  l["cash"] + l["outbound"] + l["inbound"] + l["position_cost"]
          + l["realized_trading_pnl"] + l["settlement_pnl"] + l["fees_paid"]
          + l["rebates_received"] + l["balance_correction"] = 0

FillEntryId(fill) == <<"fill", fill.id>>

\* _validate_projection_for_fill: the realised amount, computed from the price difference,
\* is the one the cost and the value of the closed quantity give.
ProjectionMatches(fill, projection) ==
    LET w == projection.trade
    IN  /\ projection.notional = Decimal(fill.quantity * fill.price)
        /\ w.closed + w.opened = fill.quantity
        /\ w.closed_value = Decimal(w.closed * fill.price)
        /\ w.opened_notional = Decimal(w.opened * fill.price)
        /\ w.realized = Decimal(w.closed_value - w.closed_cost) * (-Direction(fill))

\* The lines of build_fill_journal_entry.
FillEntry(fill, projection) ==
    LET d == Direction(fill)
        w == projection.trade
        fee == FillMoney(fill.fee)
        rebate == FillMoney(fill.rebate)
    IN  Entry(FillEntryId(fill), fill.at,
              [cash |-> -d * projection.notional - fee + rebate,
               position_cost |-> d * w.closed_cost + d * w.opened_notional,
               realized_trading_pnl |-> -w.realized,
               fees_paid |-> fee,
               rebates_received |-> -rebate])

\* The lines of a fill are added up one by one, each sum a Decimal.
FillBalances(fill, projection) ==
    LET d == Direction(fill)
        w == projection.trade
        trade == Decimal(d * w.closed_cost - d * projection.notional)
    IN  Decimal(Decimal(trade - w.realized) + d * w.opened_notional) = 0
-----------------------------------------------------------------------------
(* Cash balances                                                           *)

\* apply_journal_to_cash_balance: a movement at an instant.  Nothing older than the
\* balance is applied to it.
CashAccepts(balance, entry) == entry.at >= balance.captured_at

ApplyToCash(balance, entry, amount) ==
    [balance EXCEPT !.available = @ + amount, !.total = @ + amount, !.captured_at = entry.at]

\* CashBalance.validate_balance_identity
BalanceIdentity(balance) == balance.available + balance.reserved = balance.total

-----------------------------------------------------------------------------
(* Outcomes of the apply_*_once helpers                                    *)

Duplicate == [outcome |-> "duplicate"]
Refused == [outcome |-> "refused"]

\* positions and cash hold what is to be saved, by contract and by balance.
Applied(positions, cash, entry) ==
    [outcome |-> "applied", positions |-> positions, cash |-> cash, entry |-> entry]

Nothing == [k \in {} |-> None]
Row(key, row) == [k \in {key} |-> row]

\* Once(id, ids, valid, result): a known journal id is a duplicate, before anything of the
\* application itself is validated.
Once(id, ids, valid, result) ==
    IF id \in ids THEN Duplicate ELSE IF valid THEN result ELSE Refused

\* build_fill_journal_entry: the entry of a projection it validates.
FillJournal(fill, projection) ==
    IF ~(ProjectionMatches(fill, projection) /\ FillBalances(fill, projection))
    THEN [outcome |-> "mismatch"]
    ELSE [outcome |-> "applied", position |-> projection.position,
          entry |-> FillEntry(fill, projection)]

\* apply_fill_once: the projection and its journal entry, or why there is none.
FillOnce(p, fill, applied, currency) ==
    IF fill.id \in applied THEN Duplicate
    ELSE IF ~FillAccepted(p, fill, currency) THEN Refused
    ELSE FillJournal(fill, ApplyFill(p, fill))

\* What apply_journal_to_cash_balance_once makes of the outcome f of a fill.
FillToCash(f, fill, b) ==
    IF f.outcome # "applied" THEN f
    ELSE IF ~CashAccepts(b, f.entry) THEN Refused
    ELSE Applied(Row(fill.contract, f.position),
                 Row(fill.balance, ApplyToCash(b, f.entry, f.entry.lines["cash"])), f.entry)

\* apply_fill_once, then apply_journal_to_cash_balance_once with its entry.
ApplyFillOnce(view, fill) ==
    LET b == view.cash[fill.balance]
    IN  FillToCash(FillOnce(view.positions[fill.contract], fill,
                            {i[2] : i \in {k \in view.ids : k[1] = "fill"}}, b.currency),
                   fill, b)

-----------------------------------------------------------------------------
(* Settlement                                                              *)

\* _validate_settlement_position
SettlementAccepted(p, settlement, status, currency) ==
    /\ settlement.status = status
    /\ settlement.settled_at # None /\ settlement.payout # None
    /\ settlement.currency = currency
    /\ p # None
    /\ p.quantity # 0 /\ p.average # None

\* _build_settlement_accounting_result
SettlementAccounting(p, settlement) ==
    LET cost == Decimal(p.quantity * p.average)
        cash == IF p.contract \in settlement.winners
                THEN Decimal(p.quantity * settlement.payout) ELSE 0
    IN  [cash |-> cash, cost |-> cost, pnl |-> Decimal(cash - cost)]

\* Mutant of Closed: the result of the settlement is not realised.
ClosedUnrealized(p, pnl, settlement) ==
    [p EXCEPT !.quantity = 0, !.average = None, !.opened_at = None,
              !.updated_at = settlement.settled_at, !.version = @ + 1]

\* The flat position that a settlement, or its correction, leaves.
Closed(p, pnl, settlement) ==
    [p EXCEPT !.quantity = 0, !.average = None, !.realized = Decimal(@ + pnl),
              !.opened_at = None, !.updated_at = settlement.settled_at, !.version = @ + 1]

SettlementEntryId(contract, settlement) == <<"settlement", contract, settlement.id>>

\* build_settlement_journal_entry
SettlementEntry(id, at, a) ==
    Entry(id, at, [cash |-> a.cash, position_cost |-> -a.cost, settlement_pnl |-> -a.pnl])

\* apply_settlement_once
ApplySettlementOnce(view, contract, balance, settlement) ==
    LET p == view.positions[contract]
        b == view.cash[balance]
        id == SettlementEntryId(contract, settlement)
        a == SettlementAccounting(p, settlement)
        entry == SettlementEntry(id, settlement.settled_at, a)
    IN  Once(id, view.ids,
             /\ SettlementAccepted(p, settlement, "settled", b.currency)
             /\ settlement.settled_at >= p.updated_at
             /\ CashAccepts(b, entry),
             Applied(Row(contract, Closed(p, a.pnl, settlement)),
                     Row(balance, ApplyToCash(b, entry, a.cash)), entry))

CorrectionEntryId(contract, previous, corrected) ==
    <<"settlement_correction", contract, previous.id, corrected.id>>

\* Mutant of Correction: the corrected outcome, and not the difference.
CorrectionInFull(original, previous, corrected) == SettlementAccounting(original, corrected)

\* build_settlement_correction_accounting_result: the difference between two outcomes.
Correction(original, previous, corrected) ==
    LET was == SettlementAccounting(original, previous)
        now == SettlementAccounting(original, corrected)
    IN  [cash |-> Decimal(now.cash - was.cash), cost |-> Decimal(now.cost - was.cost),
         pnl |-> Decimal(now.pnl - was.pnl)]

\* build_settlement_correction_journal_entry: the accounts of a settlement, by the
\* differences.
CorrectionEntry(id, at, c) == SettlementEntry(id, at, c)

\* _validate_settlement_correction_identity
CorrectionIdentity(original, settled, previous, corrected, currency) ==
    /\ corrected.status = "corrected"
    /\ corrected.corrects = previous.id
    /\ SettlementAccepted(original, previous, "settled", currency)
    /\ SettlementAccepted(original, corrected, "corrected", currency)
    /\ settled.contract = original.contract
    /\ settled.quantity = 0 /\ settled.average = None

\* apply_settlement_correction_once, on the position as it was when it was settled.  Identity is validated before the duplicate.
ApplyCorrectionOnce(view, original, contract, balance, previous, corrected) ==
    LET p == view.positions[contract]
        b == view.cash[balance]
        id == CorrectionEntryId(contract, previous, corrected)
        c == Correction(original, previous, corrected)
        entry == CorrectionEntry(id, corrected.settled_at, c)
    IN  IF ~CorrectionIdentity(original, p, previous, corrected, b.currency) THEN Refused
        ELSE Once(id, view.ids,
                  /\ corrected.settled_at >= p.updated_at
                  /\ Balanced(entry) /\ CashAccepts(b, entry),
                  Applied(Row(contract, Closed(p, c.pnl, corrected)),
                          Row(balance, ApplyToCash(b, entry, entry.lines["cash"])), entry))

-----------------------------------------------------------------------------
(* Fees, rebates, transfers and observed balances                          *)

FeeEntry(fee) ==
    Entry(<<"fee", fee.id>>, fee.at, [cash |-> -fee.amount, fees_paid |-> fee.amount])

RebateEntry(rebate) ==
    Entry(<<"rebate", rebate.id>>, rebate.at,
          [cash |-> rebate.amount, rebates_received |-> -rebate.amount])

\* apply_fee_once and apply_rebate_once: the currency is validated before the duplicate.
ApplyCashEntryOnce(view, item, entry) ==
    LET b == view.cash[item.balance]
    IN  IF item.currency # b.currency THEN Refused
        ELSE Once(entry.id, view.ids, item.amount > 0 /\ CashAccepts(b, entry),
                  Applied(Nothing,
                          Row(item.balance, ApplyToCash(b, entry, entry.lines["cash"])), entry))

\* build_cash_transfer_journal_entry: one entry, so that its source event has one header;
\* the two transfer offsets cancel.
TransferEntry(t) ==
    Entry(<<"transfer", t.id>>, t.at, [outbound |-> -t.amount, inbound |-> t.amount])

\* _validate_transfer_inputs
TransferAccepted(t, source, target) ==
    /\ t.source # t.target
    /\ source.currency = target.currency /\ t.currency = source.currency
    /\ t.amount > 0

\* apply_cash_transfer_once
ApplyTransferOnce(view, t) ==
    LET entry == TransferEntry(t)
        source == view.cash[t.source]
        target == view.cash[t.target]
        cash == [b \in {t.source, t.target} |->
                   IF b = t.source THEN ApplyToCash(source, entry, entry.lines["outbound"])
                   ELSE ApplyToCash(target, entry, entry.lines["inbound"])]
    IN  IF ~TransferAccepted(t, source, target) THEN Refused
        ELSE Once(entry.id, view.ids, CashAccepts(source, entry) /\ CashAccepts(target, entry),
                  Applied(Nothing, cash, entry))

\* derive_balance_correction_journal_entry_id hashes what was observed.
BalanceCorrectionId(o) ==
    <<"balance_correction", o.balance, o.available, o.total, o.at, o.reference>>

\* build_balance_correction_journal_entry: the available cash becomes the observed one.
BalanceCorrectionEntry(b, o) ==
    Entry(BalanceCorrectionId(o), o.at,
          [cash |-> o.available - b.available, balance_correction |-> b.available - o.available])

\* _validate_balance_correction_application: reserved cash is not corrected.
ObservedAccepted(b, o) ==
    /\ o.at >= b.captured_at
    /\ o.total - o.available = b.reserved

\* apply_balance_correction_once: the identity is validated before the duplicate.
ApplyBalanceCorrectionOnce(view, o) ==
    LET b == view.cash[o.balance]
        entry == BalanceCorrectionEntry(b, o)
    IN  IF o.currency # b.currency THEN Refused
        ELSE Once(entry.id, view.ids,
                  ObservedAccepted(b, o) /\ entry.lines["cash"] # 0 /\ CashAccepts(b, entry),
                  Applied(Nothing,
                          Row(o.balance, ApplyToCash(b, entry, entry.lines["cash"])), entry))

-----------------------------------------------------------------------------
(* PnL attribution                                                         *)

\* _sum_account over a set of entries.
SumAccount(entries, account) ==
    LET amount(e) == e.lines[account] IN MapThenSumSet(amount, entries)

\* build_journal_pnl_attribution of the entries of one period; unrealised PnL and slippage
\* come from the caller and are 0 here.
PnlAttribution(entries, starts_at, ends_at) ==
    LET realized == -SumAccount(entries, "realized_trading_pnl")
        fees == SumAccount(entries, "fees_paid")
        rebates == -SumAccount(entries, "rebates_received")
        settlement == -SumAccount(entries, "settlement_pnl")
    IN  [journal |-> {e.id : e \in entries}, starts_at |-> starts_at, ends_at |-> ends_at,
         realized |-> realized, fees |-> fees, rebates |-> rebates,
         settlement |-> settlement,
         total |-> realized - fees + rebates + settlement]

\* Mutant of InPeriod: the end of the period counts too.
InPeriodClosed(entry, starts_at, ends_at) == entry.at >= starts_at /\ entry.at <= ends_at

\* _validate_journal_period: the half-open period.
InPeriod(entry, starts_at, ends_at) == entry.at >= starts_at /\ entry.at < ends_at

-----------------------------------------------------------------------------
(* Snapshots and reconciliation                                            *)

\* build_portfolio_snapshot, _validate_snapshot_horizon
SnapshotAccepted(positions, cash, at) ==
    /\ \A c \in DOMAIN positions : positions[c] # None => positions[c].updated_at <= at
    /\ \A b \in DOMAIN cash : cash[b].captured_at <= at

\* Mutant of BalanceView: only what is reserved is compared.
BalanceViewReserved(b) == [currency |-> b.currency, reserved |-> b.reserved]

\* _compare_position_fields and _compare_balance_fields: what must agree.
PositionView(p) == IF p = None THEN None
                   ELSE [quantity |-> p.quantity, average |-> p.average, realized |-> p.realized,
                         fees |-> p.fees, rebates |-> p.rebates]
BalanceView(b) == [currency |-> b.currency, available |-> b.available, reserved |-> b.reserved,
                   total |-> b.total]

\* _compare_positions: missing on one side, or different.
PositionMismatches(local, external) ==
    {<<"position", c>> : c \in {k \in DOMAIN local :
        PositionView(local[k]) # PositionView(external[k])}}

\* _compare_balances
BalanceMismatches(local, external) ==
    {<<"balance", b>> : b \in {k \in DOMAIN local :
        BalanceView(local[k]) # BalanceView(external[k])}}

\* reconcile_record_id_sets, for fills
RecordMismatches(local, external) ==
    {<<"fill", f>> : f \in (local \ external) \cup (external \ local)}

\* reconcile_portfolio_snapshots and reconcile_fill_ids
Mismatches(local, external) ==
    PositionMismatches(local.positions, external.positions)
    \cup BalanceMismatches(local.cash, external.cash)
    \cup RecordMismatches(local.fills, external.fills)

\* build_reconciliation_result, _status_for_mismatches: only a clean comparison releases
\* the trading gate (severity unknown, which only a caller sets, does not either).
ReconciliationStatus(mismatches) == IF mismatches = {} THEN "healthy" ELSE "mismatch"

=============================================================================
