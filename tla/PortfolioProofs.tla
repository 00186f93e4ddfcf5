--------------------------- MODULE PortfolioProofs ---------------------------
(***************************************************************************)
(* Theorems about the portfolio tables.  Events are announced only for     *)
(* committed entries; and, as long as no Decimal operation has to round    *)
(* its result, however sessions interleave, fail and repeat deliveries:    *)
(* the tables implement the Ledger (every job is posted once, by a         *)
(* balanced entry, and cash and realised PnL move by its lines), a         *)
(* correction replaces the settlement it corrects, the rows are those of a *)
(* replay of the posted jobs in the order of their instants, and what the  *)
(* balances gained is the attributed PnL and the cost that the positions   *)
(* carry.                                                                  *)
(***************************************************************************)
EXTENDS PortfolioStore, SumProofs

-----------------------------------------------------------------------------
(* Results of the helpers                                                  *)

\* A Decimal operation whose exact result is x returns x.
Exact(x) == Decimal(x) = x

\* Nothing that apply_fill_once computes has more digits than the decimal context keeps;
\* the average is the quotient of exact amounts, rounded.
ExactFill(p, fill) ==
    LET was == IF p = None THEN NoPosition ELSE p
        q == was.quantity
        d == Direction(fill)
        w == ApplyWeightedAverageFill(q, was.average, fill)
        notional == fill.quantity * fill.price
        traded == d * w.closed_cost - d * notional
    IN  /\ Exact(notional) /\ Exact(w.opened * fill.price)
        /\ q # 0 => /\ Exact(Magnitude(q) * was.average)
                    /\ Exact(Magnitude(q) * was.average + notional)
                    /\ Exact(w.closed * was.average)
                    /\ Exact(fill.price - was.average)
                    /\ Exact(w.closed * (fill.price - was.average))
        /\ Exact(was.realized + w.realized)
        /\ Exact(was.fees + FillMoney(fill.fee)) /\ Exact(was.rebates + FillMoney(fill.rebate))
        /\ Exact(traded) /\ Exact(traded - w.realized)
        /\ Exact(traded - w.realized + d * w.opened_notional)

\* The same for the amounts of a settlement of position p ...
ExactAmounts(p, settlement) ==
    LET cost == p.quantity * p.average
        value == p.quantity * settlement.payout
    IN  p # None /\ p.average # None /\ settlement.payout # None =>
            /\ Exact(cost) /\ Exact(value)
            /\ Exact(value - cost) /\ Exact(0 - cost)

\* ... for apply_settlement_once ...
ExactSettlement(p, settlement) ==
    /\ ExactAmounts(p, settlement)
    /\ p # None /\ p.average # None /\ settlement.payout # None =>
          Exact(p.realized + SettlementAccounting(p, settlement).pnl)

\* ... and for apply_settlement_correction_once.
ExactCorrection(p, was, previous, corrected) ==
    /\ ExactAmounts(was, previous) /\ ExactAmounts(was, corrected)
    /\ p # None /\ was # None /\ was.average # None
       /\ previous.payout # None /\ corrected.payout # None =>
          LET old == SettlementAccounting(was, previous)
              new == SettlementAccounting(was, corrected)
          IN  /\ Exact(new.cash - old.cash) /\ Exact(new.cost - old.cost)
              /\ Exact(new.pnl - old.pnl)
              /\ Exact(p.realized + Correction(was, previous, corrected).pnl)

\* The realised PnL of an entry, and what it moves on a balance.
Pnl(e) == -e.lines["realized_trading_pnl"] - e.lines["settlement_pnl"]
CashMove(j, e, b) ==
    IF j.kind = "transfer"
    THEN IF b = j.source THEN e.lines["outbound"]
         ELSE IF b = j.target THEN e.lines["inbound"] ELSE 0
    ELSE IF b = j.balance THEN e.lines["cash"] ELSE 0

VersionOf(p) == IF p = None THEN 0 ELSE p.version
RealizedOf(p) == IF p = None THEN 0 ELSE p.realized

\* What a helper promises that was called for job j on the positions ps and the balances
\* cs: a balanced entry, and the rows that follow from it.
Posts(r, j, ps, cs) ==
    /\ r.outcome = "applied"
    /\ r.entry.id = EntryId(j)
    /\ r.entry.lines \in [Accounts -> Int] /\ Balanced(r.entry)
    /\ DOMAIN r.cash \subseteq Balances /\ DOMAIN r.positions \subseteq Contracts
    /\ \A b \in DOMAIN r.cash :
          /\ r.cash[b] \in CashRows /\ BalanceIdentity(r.cash[b])
          /\ r.cash[b].version = cs[b].version
          /\ r.cash[b].total = cs[b].total + CashMove(j, r.entry, b)
    /\ \A b \in Balances \ DOMAIN r.cash : CashMove(j, r.entry, b) = 0
    /\ \A c \in DOMAIN r.positions :
          /\ r.positions[c] \in PositionRows
          /\ (r.positions[c].quantity = 0) = (r.positions[c].average = None)
          /\ r.positions[c].version = VersionOf(ps[c]) + 1
          /\ r.positions[c].realized = RealizedOf(ps[c]) + Pnl(r.entry)
          /\ DOMAIN r.positions = {c}
    /\ DOMAIN r.positions = {} => Pnl(r.entry) = 0

\* A movement keeps a balance consistent.
LEMMA CashApplied ==
    ASSUME NEW b \in CashRows, BalanceIdentity(b), NEW e, e.at \in Int, NEW amount \in Int
    PROVE  /\ ApplyToCash(b, e, amount) \in CashRows
           /\ BalanceIdentity(ApplyToCash(b, e, amount))
           /\ ApplyToCash(b, e, amount).version = b.version
           /\ ApplyToCash(b, e, amount).total = b.total + amount
<1> DEFINE x == b.available + amount
           y == b.total + amount
           a == [b EXCEPT !.available = x, !.total = y, !.captured_at = e.at]
<1>1. /\ b.available \in Int /\ b.reserved \in Nat /\ b.total \in Int
      /\ b.available + b.reserved = b.total
  BY DEF CashRows, BalanceIdentity
<1>2. x \in Int /\ y \in Int /\ x + b.reserved = y
  BY <1>1
<1>3. a = ApplyToCash(b, e, amount)
  BY DEF ApplyToCash
<1> HIDE DEF x, y
<1>4. a \in CashRows
  BY <1>2 DEF CashRows
<1>5. a.available = x /\ a.reserved = b.reserved /\ a.total = y /\ a.version = b.version
  BY DEF CashRows
<1>6. BalanceIdentity(a)
  BY <1>2, <1>5 DEF BalanceIdentity
<1> HIDE DEF a
<1> QED
  BY <1>3, <1>4, <1>5, <1>6 DEF y

\* A result for one balance, with or without a position.
LEMMA OneBalancePosts ==
    ASSUME NEW j, j.kind # "transfer", j.balance \in Balances, NEW ps, NEW cs, RowsOK(ps, cs),
           NEW e, e.id = EntryId(j), e.at \in Int, e.lines \in [Accounts -> Int], Balanced(e),
           NEW r, r.outcome = "applied", r.entry = e,
           r.cash = Row(j.balance, ApplyToCash(cs[j.balance], e, e.lines["cash"])),
           \/ r.positions = Nothing /\ Pnl(e) = 0
           \/ \E c \in Contracts, p \in PositionRows :
                 /\ r.positions = Row(c, p)
                 /\ (p.quantity = 0) = (p.average = None)
                 /\ p.version = VersionOf(ps[c]) + 1
                 /\ p.realized = RealizedOf(ps[c]) + Pnl(e)
    PROVE  Posts(r, j, ps, cs)
<1> DEFINE a == ApplyToCash(cs[j.balance], e, e.lines["cash"])
<1>1. e.lines["cash"] \in Int
  BY DEF Accounts
<1>2. cs[j.balance] \in CashRows /\ BalanceIdentity(cs[j.balance])
  BY DEF RowsOK
<1>3. /\ a \in CashRows /\ BalanceIdentity(a)
      /\ a.version = cs[j.balance].version /\ a.total = cs[j.balance].total + e.lines["cash"]
  BY <1>1, <1>2, CashApplied
<1> HIDE DEF a
<1>4. DOMAIN r.cash = {j.balance} /\ r.cash[j.balance] = a
  BY DEF Row, a
<1>5. /\ CashMove(j, e, j.balance) = e.lines["cash"]
      /\ \A b \in Balances : b # j.balance => CashMove(j, e, b) = 0
  BY DEF CashMove
<1>6. CASE r.positions = Nothing /\ Pnl(e) = 0
  <2>1. DOMAIN r.positions = {}
    BY <1>6 DEF Nothing
  <2> QED
    BY <1>3, <1>4, <1>5, <1>6, <2>1 DEF Posts
<1>7. ASSUME NEW c \in Contracts, NEW p \in PositionRows, r.positions = Row(c, p),
             (p.quantity = 0) = (p.average = None),
             p.version = VersionOf(ps[c]) + 1, p.realized = RealizedOf(ps[c]) + Pnl(e)
      PROVE  Posts(r, j, ps, cs)
  <2>1. DOMAIN r.positions = {c} /\ r.positions[c] = p
    BY <1>7 DEF Row
  <2> QED
    BY <1>3, <1>4, <1>5, <1>7, <2>1 DEF Posts
<1> QED
  BY <1>6, <1>7

\* The lines of an entry that names some accounts.
LEMMA EntryFields ==
    ASSUME NEW id, NEW at, NEW lines
    PROVE  /\ Entry(id, at, lines).id = id /\ Entry(id, at, lines).at = at
           /\ Entry(id, at, lines).lines
                = [a \in Accounts |-> IF a \in DOMAIN lines THEN lines[a] ELSE 0]
BY DEF Entry

\* What is known of a job.
LEMMA JobFields == ASSUME NEW j \in Jobs PROVE JobOK(j) /\ j.at \in Int
BY JobsAssumption, StoreAssumption DEF JobsAssumption, StoreAssumption

\* Fees and rebates.
LEMMA CashEntryPosts ==
    ASSUME NEW j \in Jobs, j.kind \in {"fee", "rebate"}, NEW ps, NEW cs, RowsOK(ps, cs), NEW ids,
           NEW e, e = IF j.kind = "fee" THEN FeeEntry(j) ELSE RebateEntry(j),
           NEW r, r = ApplyCashEntryOnce([positions |-> ps, cash |-> cs, ids |-> ids], j, e),
           r.outcome = "applied"
    PROVE  Posts(r, j, ps, cs)
<1>1. j.at \in Int /\ j.balance \in Balances /\ j.amount \in Int
  BY JobFields DEF JobOK
<1> DEFINE fee == [cash |-> -j.amount, fees_paid |-> j.amount]
           rebate == [cash |-> j.amount, rebates_received |-> -j.amount]
           lines == IF j.kind = "fee" THEN fee ELSE rebate
<1>2. e.id = EntryId(j) /\ e.at \in Int
  BY <1>1 DEF FeeEntry, RebateEntry, Entry, EntryId
<1>3. e.lines = [a \in Accounts |-> IF a \in DOMAIN lines THEN lines[a] ELSE 0]
  BY DEF FeeEntry, RebateEntry, Entry
<1>4. e.lines \in [Accounts -> Int]
  BY <1>1, <1>3 DEF Accounts
<1>5. Balanced(e) /\ Pnl(e) = 0
  BY <1>1, <1>3 DEF Accounts, Balanced, Pnl
<1>6. r = Applied(Nothing, Row(j.balance, ApplyToCash(cs[j.balance], e, e.lines["cash"])), e)
  BY DEF ApplyCashEntryOnce, Once, Refused, Duplicate
<1>7. /\ r.entry = e /\ r.positions = Nothing
      /\ r.cash = Row(j.balance, ApplyToCash(cs[j.balance], e, e.lines["cash"]))
  BY <1>6 DEF Applied
<1> QED
  BY <1>1, <1>2, <1>4, <1>5, <1>7, OneBalancePosts

\* Observed balances.
LEMMA ObservedPosts ==
    ASSUME NEW j \in Jobs, j.kind = "observed", NEW ps, NEW cs, RowsOK(ps, cs), NEW ids,
           NEW r, r = ApplyBalanceCorrectionOnce([positions |-> ps, cash |-> cs, ids |-> ids], j),
           r.outcome = "applied"
    PROVE  Posts(r, j, ps, cs)
<1> DEFINE b == cs[j.balance]
           e == BalanceCorrectionEntry(b, j)
           x == j.available - b.available
           y == b.available - j.available
           lines == [cash |-> x, balance_correction |-> y]
<1>1. j.at \in Int /\ j.balance \in Balances /\ j.available \in Int
  BY JobFields DEF JobOK
<1>2. x \in Int /\ y \in Int /\ x + y = 0
  <2>1. b.available \in Int
    BY <1>1 DEF RowsOK, CashRows
  <2> QED
    BY <1>1, <2>1
<1>3. e.id = EntryId(j) /\ e.at \in Int
  BY <1>1 DEF BalanceCorrectionEntry, Entry, EntryId
<1>4. e.lines = [a \in Accounts |-> IF a \in DOMAIN lines THEN lines[a] ELSE 0]
  BY DEF BalanceCorrectionEntry, Entry
<1>5. r = Applied(Nothing, Row(j.balance, ApplyToCash(b, e, e.lines["cash"])), e)
  BY DEF ApplyBalanceCorrectionOnce, Once, Refused, Duplicate
<1> HIDE DEF e, b, x, y
<1>6. e.lines \in [Accounts -> Int]
  BY <1>1, <1>2, <1>4 DEF Accounts
<1>7. Balanced(e) /\ Pnl(e) = 0
  <2>1. /\ e.lines["cash"] = x /\ e.lines["balance_correction"] = y
        /\ \A a \in Accounts \ {"cash", "balance_correction"} : e.lines[a] = 0
    BY <1>4 DEF Accounts
  <2> QED
    BY <1>2, <2>1 DEF Balanced, Pnl, Accounts
<1>8. /\ r.entry = e /\ r.positions = Nothing
      /\ r.cash = Row(j.balance, ApplyToCash(b, e, e.lines["cash"]))
  BY <1>5 DEF Applied
<1> QED
  BY <1>1, <1>3, <1>6, <1>7, <1>8, OneBalancePosts DEF b

\* Transfers.
LEMMA TransferPosts ==
    ASSUME NEW j \in Jobs, j.kind = "transfer", NEW ps, NEW cs, RowsOK(ps, cs), NEW ids,
           NEW r, r = ApplyTransferOnce([positions |-> ps, cash |-> cs, ids |-> ids], j),
           r.outcome = "applied"
    PROVE  Posts(r, j, ps, cs)
<1> DEFINE e == TransferEntry(j)
           out == ApplyToCash(cs[j.source], e, e.lines["outbound"])
           in == ApplyToCash(cs[j.target], e, e.lines["inbound"])
           lines == [outbound |-> -j.amount, inbound |-> j.amount]
           rows == [b \in {j.source, j.target} |-> IF b = j.source THEN out ELSE in]
<1>1. j.at \in Int /\ j.source \in Balances /\ j.target \in Balances /\ j.amount \in Int
  BY JobFields DEF JobOK
<1>2. e.id = EntryId(j) /\ e.at \in Int
  BY <1>1 DEF TransferEntry, Entry, EntryId
<1>3. e.lines = [a \in Accounts |-> IF a \in DOMAIN lines THEN lines[a] ELSE 0]
  BY DEF TransferEntry, Entry
<1>4. j.source # j.target /\ r = Applied(Nothing, rows, e)
  BY DEF ApplyTransferOnce, TransferAccepted, Once, Refused, Duplicate
<1> HIDE DEF e
<1>5. e.lines \in [Accounts -> Int]
  BY <1>1, <1>3 DEF Accounts
<1>6. Balanced(e) /\ Pnl(e) = 0
  <2>1. /\ e.lines["outbound"] = -j.amount /\ e.lines["inbound"] = j.amount
        /\ \A a \in Accounts \ {"outbound", "inbound"} : e.lines[a] = 0
    BY <1>3 DEF Accounts
  <2> QED
    BY <1>1, <2>1 DEF Balanced, Pnl, Accounts
<1>7. e.lines["outbound"] \in Int /\ e.lines["inbound"] \in Int
  BY <1>5 DEF Accounts
<1>8. /\ cs[j.source] \in CashRows /\ BalanceIdentity(cs[j.source])
      /\ cs[j.target] \in CashRows /\ BalanceIdentity(cs[j.target])
  BY <1>1 DEF RowsOK
<1>9. /\ out \in CashRows /\ BalanceIdentity(out)
      /\ out.version = cs[j.source].version
      /\ out.total = cs[j.source].total + e.lines["outbound"]
  BY <1>2, <1>7, <1>8, CashApplied
<1>10. /\ in \in CashRows /\ BalanceIdentity(in)
       /\ in.version = cs[j.target].version
       /\ in.total = cs[j.target].total + e.lines["inbound"]
  BY <1>2, <1>7, <1>8, CashApplied
<1> HIDE DEF out, in
<1>11. /\ DOMAIN rows = {j.source, j.target} /\ rows[j.source] = out /\ rows[j.target] = in
  BY <1>4
<1>12. /\ CashMove(j, e, j.source) = e.lines["outbound"]
       /\ CashMove(j, e, j.target) = e.lines["inbound"]
       /\ \A b \in Balances : b \notin {j.source, j.target} => CashMove(j, e, b) = 0
  BY <1>4 DEF CashMove
<1>13. r.outcome = "applied" /\ r.entry = e /\ r.cash = rows /\ DOMAIN r.positions = {}
  BY <1>4 DEF Applied, Nothing
<1> HIDE DEF rows
<1>14. \A b \in DOMAIN r.cash :
          /\ r.cash[b] \in CashRows /\ BalanceIdentity(r.cash[b])
          /\ r.cash[b].version = cs[b].version
          /\ r.cash[b].total = cs[b].total + CashMove(j, r.entry, b)
  <2>1. SUFFICES ASSUME NEW b \in {j.source, j.target}
                 PROVE  /\ rows[b] \in CashRows /\ BalanceIdentity(rows[b])
                        /\ rows[b].version = cs[b].version
                        /\ rows[b].total = cs[b].total + CashMove(j, e, b)
    BY <1>11, <1>13
  <2>2. CASE b = j.source
    BY <2>2, <1>9, <1>11, <1>12
  <2>3. CASE b = j.target
    BY <2>3, <1>10, <1>11, <1>12
  <2> QED
    BY <2>2, <2>3
<1> QED
  BY <1>1, <1>2, <1>5, <1>6, <1>11, <1>12, <1>13, <1>14 DEF Posts

\* The position that a settlement or a correction leaves.
LEMMA ClosedRow ==
    ASSUME NEW p \in PositionRows, NEW pnl \in Int, NEW x, x.settled_at \in Int,
           Exact(p.realized + pnl)
    PROVE  /\ Closed(p, pnl, x) \in PositionRows
           /\ (Closed(p, pnl, x).quantity = 0) = (Closed(p, pnl, x).average = None)
           /\ Closed(p, pnl, x).version = p.version + 1
           /\ Closed(p, pnl, x).realized = p.realized + pnl
<1> DEFINE v == p.version + 1
           y == p.realized + pnl
           a == [p EXCEPT !.quantity = 0, !.average = None, !.realized = y,
                          !.opened_at = None, !.updated_at = x.settled_at, !.version = v]
<1>1. p.version \in Nat \ {0} /\ p.realized \in Int
  BY DEF PositionRows
<1>2. v \in Nat \ {0} /\ y \in Int
  BY <1>1
<1>3. a = Closed(p, pnl, x)
  BY DEF Closed, Exact
<1> HIDE DEF v, y
<1>4. a \in PositionRows
  <2> DEFINE p1 == [p EXCEPT !.quantity = 0]
             p2 == [p1 EXCEPT !.average = None]
             p3 == [p2 EXCEPT !.realized = y]
             p4 == [p3 EXCEPT !.opened_at = None]
             p5 == [p4 EXCEPT !.updated_at = x.settled_at]
             p6 == [p5 EXCEPT !.version = v]
  <2>1. p1 \in PositionRows
    BY DEF PositionRows
  <2> HIDE DEF p1
  <2>2. p2 \in PositionRows
    BY <2>1 DEF PositionRows
  <2> HIDE DEF p2
  <2>3. p3 \in PositionRows
    BY <1>2, <2>2 DEF PositionRows
  <2> HIDE DEF p3
  <2>4. p4 \in PositionRows
    BY <2>3 DEF PositionRows
  <2> HIDE DEF p4
  <2>5. p5 \in PositionRows
    BY <2>4 DEF PositionRows
  <2> HIDE DEF p5
  <2>6. p6 \in PositionRows
    BY <1>2, <2>5 DEF PositionRows
  <2> QED
    BY <2>6, Zenon DEF p1, p2, p3, p4, p5
<1>5. a.quantity = 0 /\ a.average = None /\ a.version = v /\ a.realized = y
  BY DEF PositionRows
<1> HIDE DEF a
<1> QED
  BY <1>3, <1>4, <1>5 DEF v, y

\* The entry of a settlement or a correction.
LEMMA SettlementEntryFields ==
    ASSUME NEW id, NEW at, NEW a, a.cash \in Int, a.cost \in Int, a.pnl \in Int,
           NEW e, e = SettlementEntry(id, at, a)
    PROVE  /\ e.id = id /\ e.at = at /\ e.lines \in [Accounts -> Int]
           /\ e.lines["cash"] = a.cash /\ e.lines["settlement_pnl"] = -a.pnl
           /\ Pnl(e) = a.pnl
           /\ Balanced(e) <=> a.cash - a.cost - a.pnl = 0
<1> DEFINE x == a.cash
           y == -a.cost
           z == -a.pnl
           lines == [cash |-> x, position_cost |-> y, settlement_pnl |-> z]
<1>1. x \in Int /\ y \in Int /\ z \in Int
  OBVIOUS
<1>2. /\ e.id = id /\ e.at = at
      /\ e.lines = [k \in Accounts |-> IF k \in DOMAIN lines THEN lines[k] ELSE 0]
  BY DEF SettlementEntry, Entry
<1> HIDE DEF x, y, z
<1>3. e.lines \in [Accounts -> Int]
  BY <1>1, <1>2 DEF Accounts
<1>4. /\ e.lines["cash"] = x /\ e.lines["position_cost"] = y /\ e.lines["settlement_pnl"] = z
      /\ \A k \in Accounts \ {"cash", "position_cost", "settlement_pnl"} : e.lines[k] = 0
  BY <1>2 DEF Accounts
<1>5. Balanced(e) <=> x + y + z = 0
  BY <1>1, <1>4 DEF Balanced, Accounts
<1>6. Pnl(e) = -z
  BY <1>1, <1>4 DEF Pnl, Accounts
<1> QED
  BY <1>1, <1>2, <1>3, <1>4, <1>5, <1>6 DEF x, y, z

\* The amounts of a settlement.
LEMMA SettlementAmounts ==
    ASSUME NEW p \in PositionRows, p.average # None, NEW x, x.payout \in Int \cup {None},
           x.payout # None, ExactAmounts(p, x), NEW a, a = SettlementAccounting(p, x)
    PROVE  a.cash \in Int /\ a.cost \in Int /\ a.pnl = a.cash - a.cost
<1>1. p.quantity \in Int /\ p.average \in Int /\ x.payout \in Int /\ p # None
  BY StartAssumption DEF StartAssumption, PositionRows
<1> DEFINE cost == p.quantity * p.average
           value == p.quantity * x.payout
<1>2. cost \in Int /\ value \in Int
  BY <1>1
<1>3. Exact(cost) /\ Exact(value) /\ Exact(value - cost) /\ Exact(0 - cost)
  BY <1>1 DEF ExactAmounts
<1>4. /\ a.cost = Decimal(cost)
      /\ a.cash = IF p.contract \in x.winners THEN Decimal(value) ELSE 0
      /\ a.pnl = Decimal(a.cash - a.cost)
  BY DEF SettlementAccounting
<1> HIDE DEF cost, value
<1> QED
  BY <1>2, <1>3, <1>4 DEF Exact

\* Settlements.
LEMMA SettlementPosts ==
    ASSUME NEW j \in Jobs, j.kind = "settlement", NEW ps, NEW cs, RowsOK(ps, cs), NEW ids,
           NEW x, x.id = Settlements[j.settlement].id, x.settled_at \in Int \cup {None},
           x.payout \in Int \cup {None}, ExactSettlement(ps[j.contract], x),
           NEW r, r = ApplySettlementOnce([positions |-> ps, cash |-> cs, ids |-> ids],
                                          j.contract, j.balance, x),
           r.outcome = "applied"
    PROVE  Posts(r, j, ps, cs)
<1> DEFINE p == ps[j.contract]
           b == cs[j.balance]
           a == SettlementAccounting(p, x)
           e == SettlementEntry(SettlementEntryId(j.contract, x), x.settled_at, a)
           row == Closed(p, a.pnl, x)
<1>1. j.contract \in Contracts /\ j.balance \in Balances
  BY JobFields DEF JobOK
<1>2. /\ r = Applied(Row(j.contract, row), Row(j.balance, ApplyToCash(b, e, a.cash)), e)
      /\ SettlementAccepted(p, x, "settled", b.currency)
  BY DEF ApplySettlementOnce, Once, Refused, Duplicate
<1>3. p # None /\ p.average # None /\ x.settled_at # None /\ x.payout # None
  BY <1>2 DEF SettlementAccepted
<1>4. p \in PositionRows
  BY <1>1, <1>3 DEF RowsOK
<1>5. EntryId(j) = SettlementEntryId(j.contract, x)
  BY DEF EntryId, SettlementEntryId
<1>6. ExactAmounts(p, x) /\ Exact(p.realized + a.pnl)
  BY <1>3 DEF ExactSettlement
<1> HIDE DEF p, b, e
<1>7. a.cash \in Int /\ a.cost \in Int /\ a.pnl = a.cash - a.cost
  BY <1>3, <1>4, <1>6, SettlementAmounts
<1> HIDE DEF a
<1>8. a.pnl \in Int
  BY <1>7
<1>9. /\ e.id = SettlementEntryId(j.contract, x) /\ e.at = x.settled_at
      /\ e.lines \in [Accounts -> Int] /\ e.lines["cash"] = a.cash
      /\ Pnl(e) = a.pnl /\ (Balanced(e) <=> a.cash - a.cost - a.pnl = 0)
  BY <1>7, <1>8, SettlementEntryFields DEF e
<1>10. Balanced(e)
  BY <1>7, <1>9
<1>11. x.settled_at \in Int
  BY <1>3
<1>12. /\ row \in PositionRows /\ (row.quantity = 0) = (row.average = None)
       /\ row.version = p.version + 1 /\ row.realized = p.realized + a.pnl
  BY <1>4, <1>6, <1>8, <1>11, ClosedRow
<1> HIDE DEF row
<1>13. /\ r.entry = e /\ r.positions = Row(j.contract, row)
       /\ r.cash = Row(j.balance, ApplyToCash(b, e, e.lines["cash"]))
  BY <1>2, <1>9 DEF Applied
<1>14. /\ row.version = VersionOf(ps[j.contract]) + 1
       /\ row.realized = RealizedOf(ps[j.contract]) + Pnl(e)
  BY <1>3, <1>9, <1>12 DEF VersionOf, RealizedOf, p
<1> QED
  BY <1>1, <1>2, <1>5, <1>9, <1>10, <1>11, <1>12, <1>13, <1>14, OneBalancePosts DEF b, Applied

\* Corrections; the entry is balanced because the helper validates it.
LEMMA CorrectionPosts ==
    ASSUME NEW j \in Jobs, j.kind = "correction", NEW ps, NEW cs, RowsOK(ps, cs), NEW ids,
           NEW x, x.id = Settlements[j.settlement].id, x.settled_at \in Int \cup {None},
           x.payout \in Int \cup {None},
           NEW y, y.id = Settlements[j.previous].id, y.payout \in Int \cup {None},
           NEW was \in PositionRows, ExactCorrection(ps[j.contract], was, y, x),
           ps[j.contract] # None,
           NEW r, r = ApplyCorrectionOnce([positions |-> ps, cash |-> cs, ids |-> ids], was,
                                          j.contract, j.balance, y, x),
           r.outcome = "applied"
    PROVE  Posts(r, j, ps, cs)
<1> DEFINE p == ps[j.contract]
           b == cs[j.balance]
           old == SettlementAccounting(was, y)
           new == SettlementAccounting(was, x)
           a == Correction(was, y, x)
           id == CorrectionEntryId(j.contract, y, x)
           e == CorrectionEntry(id, x.settled_at, a)
           row == Closed(p, a.pnl, x)
<1>1. j.contract \in Contracts /\ j.balance \in Balances
  BY JobFields DEF JobOK
<1>2. /\ r = Applied(Row(j.contract, row),
                     Row(j.balance, ApplyToCash(b, e, e.lines["cash"])), e)
      /\ CorrectionIdentity(was, p, y, x, b.currency) /\ Balanced(e)
  BY DEF ApplyCorrectionOnce, Once, Refused, Duplicate
<1>3. /\ was.average # None /\ x.settled_at # None /\ x.payout # None /\ y.payout # None
      /\ was # None
  BY <1>2 DEF CorrectionIdentity, SettlementAccepted
<1>4. p \in PositionRows /\ p # None
  BY <1>1 DEF RowsOK
<1>5. EntryId(j) = id
  BY DEF EntryId, CorrectionEntryId
<1>6. /\ ExactAmounts(was, y) /\ ExactAmounts(was, x)
      /\ Exact(new.cash - old.cash) /\ Exact(new.cost - old.cost) /\ Exact(new.pnl - old.pnl)
      /\ Exact(p.realized + a.pnl)
  BY <1>3, <1>4 DEF ExactCorrection
<1>7. /\ a.cash = Decimal(new.cash - old.cash) /\ a.cost = Decimal(new.cost - old.cost)
      /\ a.pnl = Decimal(new.pnl - old.pnl)
  BY DEF Correction
<1> HIDE DEF p, b, e, id
<1>8. old.cash \in Int /\ old.cost \in Int /\ old.pnl = old.cash - old.cost
  BY <1>3, <1>6, SettlementAmounts
<1>9. new.cash \in Int /\ new.cost \in Int /\ new.pnl = new.cash - new.cost
  BY <1>3, <1>6, SettlementAmounts
<1> HIDE DEF a, old, new
<1>10. a.cash \in Int /\ a.cost \in Int /\ a.pnl \in Int
  BY <1>6, <1>7, <1>8, <1>9 DEF Exact
<1>11. /\ e.id = id /\ e.at = x.settled_at
       /\ e.lines \in [Accounts -> Int] /\ e.lines["cash"] = a.cash /\ Pnl(e) = a.pnl
  BY <1>10, SettlementEntryFields DEF e, CorrectionEntry
<1>12. x.settled_at \in Int
  BY <1>3
<1>13. /\ row \in PositionRows /\ (row.quantity = 0) = (row.average = None)
       /\ row.version = p.version + 1 /\ row.realized = p.realized + a.pnl
  BY <1>4, <1>6, <1>10, <1>12, ClosedRow
<1> HIDE DEF row
<1>14. /\ r.entry = e /\ r.positions = Row(j.contract, row)
       /\ r.cash = Row(j.balance, ApplyToCash(b, e, e.lines["cash"]))
  BY <1>2 DEF Applied
<1>15. /\ row.version = VersionOf(ps[j.contract]) + 1
       /\ row.realized = RealizedOf(ps[j.contract]) + Pnl(e)
  BY <1>4, <1>11, <1>13 DEF VersionOf, RealizedOf, p
<1> QED
  BY <1>1, <1>2, <1>5, <1>11, <1>12, <1>13, <1>14, <1>15, OneBalancePosts DEF b, Applied

\* Division rounds to a whole number.
LEMMA QuotientType ==
    ASSUME NEW x \in Int, NEW q \in Nat \ {0} PROVE Quotient(x, q) \in Int
<1>1. Magnitude(x) \in Nat /\ Sign(x) \in Int
  BY DEF Magnitude, Sign
<1> DEFINE n == Magnitude(x)
           m == n \div q
           h == HalfEven(n, q)
<1> HIDE DEF n
<1>2. n \in Nat
  BY <1>1 DEF n
<1>3. m \in Int
  BY <1>2
<1>4. h \in Int
  BY <1>3 DEF HalfEven
<1>5. Quotient(x, q) = Sign(x) * h
  BY DEF Quotient, n
<1> HIDE DEF h
<1> QED
  BY <1>1, <1>4, <1>5

\* The fields of a fill.
LEMMA FillFields ==
    ASSUME NEW j \in Jobs, j.kind = "fill"
    PROVE  /\ j.contract \in Contracts /\ j.balance \in Balances /\ j.at \in Int
           /\ j.quantity \in Nat \ {0} /\ j.price \in Nat
           /\ FillMoney(j.fee) \in Int /\ FillMoney(j.rebate) \in Int
           /\ Direction(j) \in {1, -1}
BY JobFields DEF JobOK, FillMoney, Direction

\* What a fill makes of a quantity and its average.
LEMMA FillTrade ==
    ASSUME NEW j \in Jobs, j.kind = "fill", NEW p,
           p = NoPosition \/ p \in PositionRows, (p.quantity = 0) = (p.average = None),
           NEW w, w = ApplyWeightedAverageFill(p.quantity, p.average, j),
           Exact(j.quantity * j.price), Exact(w.opened * j.price),
           p.quantity # 0 => /\ Exact(Magnitude(p.quantity) * p.average)
                             /\ Exact(Magnitude(p.quantity) * p.average + j.quantity * j.price)
                             /\ Exact(w.closed * p.average)
                             /\ Exact(j.price - p.average)
                             /\ Exact(w.closed * (j.price - p.average))
    PROVE  /\ w.quantity \in Int /\ w.average \in Int \cup {None}
           /\ (w.quantity = 0) = (w.average = None)
           /\ w.realized \in Int /\ w.closed_cost \in Int /\ w.opened_notional \in Int
<1> DEFINE q == p.quantity
           avg == p.average
           m == Magnitude(q)
           d == Direction(j)
           projected == q + d * j.quantity
           reduces == q # 0 /\ Sign(q) # d
           closed == IF reduces THEN Least(Magnitude(q), j.quantity) ELSE 0
           opened == j.quantity - closed
           weighted == WeightedAverage(m, avg, j.quantity, j.price)
           held == m * avg
           notional == j.quantity * j.price
<1>1. j.quantity \in Nat \ {0} /\ j.price \in Nat /\ d \in {1, -1}
  BY FillFields
<1>2. q \in Int /\ (q # 0 => avg \in Int)
  BY DEF NoPosition, PositionRows
<1>3. None \notin Int
  BY StartAssumption DEF StartAssumption
<1>4. m \in Nat /\ Sign(q) \in Int
  BY <1>2 DEF Magnitude, Sign
<1>5. projected \in Int /\ closed \in Int /\ opened \in Int
  BY <1>1, <1>2, <1>4 DEF Least
<1>6. /\ w.quantity = projected
      /\ w.average = IF projected = 0 THEN None
                     ELSE IF q = 0 THEN j.price
                     ELSE IF ~reduces THEN weighted
                     ELSE IF Sign(projected) = Sign(q) THEN avg ELSE j.price
      /\ w.realized = IF reduces THEN Decimal(closed * Decimal(j.price - avg)) * Sign(q) ELSE 0
      /\ w.closed = closed /\ w.opened = opened
      /\ w.closed_cost = IF reduces THEN Decimal(closed * avg) ELSE 0
      /\ w.opened_notional = Decimal(opened * j.price)
  BY DEF ApplyWeightedAverageFill
<1>7. q # 0 => weighted \in Int
  <2> SUFFICES ASSUME q # 0 PROVE weighted \in Int
    OBVIOUS
  <2>1. held \in Int /\ notional \in Int /\ m + j.quantity \in Nat \ {0}
    BY <1>1, <1>2, <1>4
  <2>2. Decimal(held) = held /\ Decimal(notional) = notional
        /\ Decimal(held + notional) = held + notional
    BY DEF Exact
  <2>3. weighted = Quotient(Decimal(Decimal(held) + Decimal(notional)), m + j.quantity)
    BY DEF WeightedAverage
  <2>4. weighted = Quotient(held + notional, m + j.quantity)
    BY <2>2, <2>3
  <2> HIDE DEF held, notional, weighted
  <2>5. held + notional \in Int
    BY <2>1
  <2> QED
    BY <2>1, <2>4, <2>5, QuotientType
<1>8. q # 0 => /\ closed * avg \in Int /\ Decimal(closed * avg) = closed * avg
               /\ Decimal(j.price - avg) = j.price - avg
               /\ closed * (j.price - avg) \in Int
               /\ Decimal(closed * (j.price - avg)) = closed * (j.price - avg)
  <2>1. q # 0 => closed * avg \in Int /\ closed * (j.price - avg) \in Int
    BY <1>1, <1>2, <1>5
  <2> QED
    BY <1>6, <2>1 DEF Exact
<1>9. opened * j.price \in Int /\ Decimal(opened * j.price) = opened * j.price
  <2>1. opened * j.price \in Int
    BY <1>1, <1>5
  <2> QED
    BY <1>6, <2>1 DEF Exact
<1> HIDE DEF q, avg, m, d, projected, closed, opened, weighted
<1>10. reduces => q # 0
  OBVIOUS
<1> HIDE DEF reduces
<1>11. w.realized \in Int
  <2>1. CASE reduces
    <3> DEFINE y == closed * (j.price - avg)
    <3>1. w.realized = y * Sign(q) /\ y \in Int
      BY <1>6, <1>8, <1>10, <2>1
    <3> HIDE DEF y
    <3> QED
      BY <1>4, <3>1
  <2> QED
    BY <1>6, <2>1
<1>12. w.closed_cost \in Int /\ w.opened_notional \in Int
  BY <1>6, <1>8, <1>9, <1>10
<1>13. w.average \in Int \cup {None} /\ (w.quantity = 0) = (w.average = None)
  <2>1. CASE projected = 0
    BY <1>6, <2>1
  <2>2. CASE projected # 0
    <3>1. w.average \in Int
      BY <1>1, <1>2, <1>6, <1>7, <2>2 DEF q, avg
    <3> QED
      BY <1>3, <1>6, <2>2, <3>1
  <2> QED
    BY <2>1, <2>2
<1> QED
  BY <1>5, <1>6, <1>11, <1>12, <1>13

\* Fills; the entry is balanced because build_fill_journal_entry adds its lines up.
LEMMA FillPosts ==
    ASSUME NEW j \in Jobs, j.kind = "fill", NEW ps, NEW cs, RowsOK(ps, cs), NEW ids,
           ExactFill(ps[j.contract], j),
           NEW r, r = ApplyFillOnce([positions |-> ps, cash |-> cs, ids |-> ids], j),
           r.outcome = "applied"
    PROVE  Posts(r, j, ps, cs)
<1> DEFINE p == IF ps[j.contract] = None THEN NoPosition ELSE ps[j.contract]
           b == cs[j.balance]
           w == ApplyWeightedAverageFill(p.quantity, p.average, j)
           d == Direction(j)
           notional == j.quantity * j.price
           fee == FillMoney(j.fee)
           rebate == FillMoney(j.rebate)
           projection == FillProjection(p, j, w)
           row == projection.position
           e == FillEntry(j, projection)
           traded == d * w.closed_cost - d * notional
           total == traded - w.realized + d * w.opened_notional
<1>1. /\ j.contract \in Contracts /\ j.balance \in Balances /\ j.at \in Int
      /\ j.quantity \in Nat \ {0} /\ j.price \in Nat
      /\ fee \in Int /\ rebate \in Int /\ d \in {1, -1}
  BY FillFields
<1>2. /\ r = Applied(Row(j.contract, row),
                     Row(j.balance, ApplyToCash(b, e, e.lines["cash"])), e)
      /\ FillAccepted(ps[j.contract], j, b.currency) /\ FillBalances(j, projection)
  BY DEF ApplyFillOnce, FillToCash, FillOnce, FillJournal, ApplyFill, Refused, Duplicate
<1>3. /\ p = NoPosition \/ p \in PositionRows
      /\ (p.quantity = 0) = (p.average = None)
      /\ p.version = VersionOf(ps[j.contract]) /\ p.realized = RealizedOf(ps[j.contract])
  <2>1. CASE ps[j.contract] = None
    BY <2>1 DEF NoPosition, VersionOf, RealizedOf
  <2>2. CASE ps[j.contract] # None
    BY <1>1, <2>2 DEF RowsOK, VersionOf, RealizedOf
  <2> QED
    BY <2>1, <2>2
<1>4. /\ p.version \in Nat /\ p.realized \in Int /\ p.fees \in Nat /\ p.rebates \in Nat
      /\ p.opened_at \in Int \cup {None} /\ p.updated_at \in Int \cup {None}
  BY <1>3 DEF NoPosition, PositionRows
<1>5. /\ Exact(notional) /\ Exact(w.opened * j.price)
      /\ p.quantity # 0 => /\ Exact(Magnitude(p.quantity) * p.average)
                           /\ Exact(Magnitude(p.quantity) * p.average + notional)
                           /\ Exact(w.closed * p.average)
                           /\ Exact(j.price - p.average)
                           /\ Exact(w.closed * (j.price - p.average))
      /\ Exact(p.realized + w.realized)
      /\ Exact(p.fees + fee) /\ Exact(p.rebates + rebate)
      /\ Exact(traded) /\ Exact(traded - w.realized) /\ Exact(total)
  BY DEF ExactFill
<1> HIDE DEF p, b
<1>6. /\ w.quantity \in Int /\ w.average \in Int \cup {None}
      /\ (w.quantity = 0) = (w.average = None)
      /\ w.realized \in Int /\ w.closed_cost \in Int /\ w.opened_notional \in Int
  BY <1>3, <1>5, FillTrade
<1> HIDE DEF w
<1>7. notional \in Int /\ Decimal(notional) = notional
  BY <1>1, <1>5 DEF Exact
<1>8. /\ projection.trade = w /\ projection.notional = notional
  BY <1>7 DEF FillProjection
<1>9. /\ row.contract = j.contract /\ row.quantity = w.quantity /\ row.average = w.average
      /\ row.realized = p.realized + w.realized
      /\ row.version = p.version + 1
      /\ row \in PositionRows
  <2> DEFINE opened == OpenedAt(p, w.quantity, j)
             updated == IF p.updated_at = None \/ j.at > p.updated_at THEN j.at
                        ELSE p.updated_at
             fees == p.fees + fee
             rebates == p.rebates + rebate
             realized == p.realized + w.realized
             version == p.version + 1
  <2>1. row = [contract |-> j.contract, quantity |-> w.quantity, average |-> w.average,
               realized |-> realized, fees |-> fees, rebates |-> rebates,
               opened_at |-> opened, updated_at |-> updated, version |-> version]
    BY <1>5 DEF FillProjection, Exact
  <2>2. opened \in Int \cup {None}
    BY <1>1, <1>4 DEF OpenedAt, Least
  <2>3. updated \in Int
    BY <1>1, <1>4
  <2>4. fee >= 0 /\ rebate >= 0
    BY <1>2 DEF FillAccepted
  <2>5. fees \in Nat /\ rebates \in Nat /\ realized \in Int /\ version \in Nat \ {0}
    BY <1>1, <1>4, <1>6, <2>4
  <2> HIDE DEF row, opened, updated, fees, rebates, realized, version
  <2>6. row \in PositionRows
    BY <1>1, <1>6, <2>1, <2>2, <2>3, <2>5 DEF PositionRows
  <2>7. row.contract = j.contract /\ row.quantity = w.quantity /\ row.average = w.average
        /\ row.realized = realized /\ row.version = version
    BY <2>1
  <2> QED
    BY <2>6, <2>7 DEF realized, version
<1> HIDE DEF row
<1> DEFINE x1 == -d * notional - fee + rebate
           x2 == d * w.closed_cost + d * w.opened_notional
           x3 == -w.realized
           lines == [cash |-> x1, position_cost |-> x2, realized_trading_pnl |-> x3,
                     fees_paid |-> fee, rebates_received |-> -rebate]
<1>10. /\ e.id = EntryId(j) /\ e.at = j.at
       /\ e.lines = [k \in Accounts |-> IF k \in DOMAIN lines THEN lines[k] ELSE 0]
  BY <1>8 DEF FillEntry, Entry, EntryId
<1> HIDE DEF e, fee, rebate
<1>11. x1 \in Int /\ x2 \in Int /\ x3 \in Int
  BY <1>1, <1>6, <1>7
<1>12. x1 + x2 + x3 + fee + (-rebate) = 0
  <2>1. FillBalances(j, projection)
        = (Decimal(Decimal(Decimal(traded) - w.realized) + d * w.opened_notional) = 0)
    BY <1>8 DEF FillBalances
  <2>2. total = 0
    BY <1>2, <1>5, <2>1 DEF Exact
  <2> HIDE DEF projection, notional
  <2>3. d * w.closed_cost \in Int /\ d * notional \in Int /\ d * w.opened_notional \in Int
        /\ -d * notional = -(d * notional)
    BY <1>1, <1>6, <1>7
  <2> QED
    BY <1>1, <1>6, <2>2, <2>3
<1> HIDE DEF x1, x2, x3, d, notional, projection
<1>13. e.lines \in [Accounts -> Int]
  BY <1>1, <1>10, <1>11 DEF Accounts
<1>14. /\ e.lines["cash"] = x1 /\ e.lines["position_cost"] = x2
       /\ e.lines["realized_trading_pnl"] = x3
       /\ e.lines["fees_paid"] = fee /\ e.lines["rebates_received"] = -rebate
       /\ e.lines["outbound"] = 0 /\ e.lines["inbound"] = 0
       /\ e.lines["settlement_pnl"] = 0 /\ e.lines["balance_correction"] = 0
  BY <1>10 DEF Accounts
<1>15. Balanced(e)
  BY <1>1, <1>11, <1>12, <1>14 DEF Balanced
<1>16. Pnl(e) = w.realized
  <2>1. x3 = -w.realized
    BY DEF x3
  <2> QED
    BY <1>6, <1>14, <2>1 DEF Pnl
<1>17. /\ r.entry = e /\ r.positions = Row(j.contract, row)
       /\ r.cash = Row(j.balance, ApplyToCash(b, e, e.lines["cash"]))
       /\ r.outcome = "applied"
  BY <1>2 DEF Applied
<1>18. (row.quantity = 0) = (row.average = None)
  BY <1>6, <1>9
<1>19. j.kind # "transfer" /\ e.at \in Int
  BY <1>1, <1>10
<1> QED
  BY <1>1, <1>3, <1>9, <1>10, <1>13, <1>15, <1>16, <1>17, <1>18, <1>19, OneBalancePosts DEF b

\* A settlement row, as it was read, and the record it is a row of.
LEMMA SettlementRowFields ==
    ASSUME NEW id \in DOMAIN Settlements
    PROVE  /\ SettlementRow(id).id = Settlements[id].id
           /\ SettlementRow(id).settled_at \in Int \cup {None}
           /\ SettlementRow(id).payout \in Int \cup {None}
<1>1. Settlements[id] \in SettlementRecords
  BY JobsAssumption DEF JobsAssumption
<1> DEFINE at == IF settlements[id] = "finalized" THEN None ELSE Settlements[id].settled_at
           x == [Settlements[id] EXCEPT !.status = settlements[id], !.settled_at = at]
<1>2. at \in Int \cup {None}
  BY <1>1 DEF SettlementRecords
<1>3. SettlementRow(id) = x
  BY DEF SettlementRow
<1> HIDE DEF at
<1>4. x.id = Settlements[id].id /\ x.settled_at = at /\ x.payout = Settlements[id].payout
  BY <1>1 DEF SettlementRecords
<1>5. Settlements[id].payout \in Int \cup {None}
  BY <1>1 DEF SettlementRecords
<1> HIDE DEF x
<1> QED
  BY <1>2, <1>3, <1>4, <1>5

-----------------------------------------------------------------------------
(* Sessions                                                                *)

\* The arguments that ApplyJob has for the job of a session.
Was(j) == IF j.kind = "correction" THEN original[<<j.contract, j.previous>>] ELSE None
SettledRow(j) == IF j.kind \in {"correction", "settlement"} THEN SettlementRow(j.settlement)
                 ELSE None
PreviousRow(j) == IF j.kind = "correction" THEN SettlementRow(j.previous) ELSE None

\* Nothing a session is about to compute is rounded to the decimal context.
ExactJob(j, ps) ==
    /\ j.kind = "fill" => ExactFill(ps[j.contract], j)
    /\ j.kind = "settlement" => ExactSettlement(ps[j.contract], SettledRow(j))
    /\ j.kind = "correction" =>
          ExactCorrection(ps[j.contract], Was(j), PreviousRow(j), SettledRow(j))
NothingRounds == \A s \in Sessions : pc[s] = "read" => ExactJob(job[s], seen[s])

\* What a session in a transaction has read is what was there when it read it: a row with
\* the version it saw is the row it saw.
ReadOK(j, ps) ==
    /\ j \in Jobs
    /\ ps \in [Contracts -> PositionRows \cup {None}]
    /\ \A c \in Contracts :
          /\ ps[c] # None => (ps[c].quantity = 0) = (ps[c].average = None)
          /\ VersionOf(ps[c]) <= VersionOf(positions[c])
          /\ VersionOf(ps[c]) = VersionOf(positions[c]) => ps[c] = positions[c]
    /\ j.kind \in {"settlement", "correction"} => ps[j.contract] # None
    /\ j.kind = "correction" => original[<<j.contract, j.previous>>] # None

\* What it is about to write is what follows from the rows that are there, as far as they
\* still have the versions it was computed from.
PendingOK(j, r) ==
    /\ j \in Jobs /\ r.outcome = "applied"
    /\ r.entry.id = EntryId(j)
    /\ r.entry.lines \in [Accounts -> Int] /\ Balanced(r.entry)
    /\ DOMAIN r.cash \subseteq Balances /\ DOMAIN r.positions \subseteq Contracts
    /\ \A b \in DOMAIN r.cash :
          /\ r.cash[b] \in CashRows /\ BalanceIdentity(r.cash[b])
          /\ r.cash[b].version <= cash[b].version
          /\ r.cash[b].version = cash[b].version =>
                r.cash[b].total = cash[b].total + CashMove(j, r.entry, b)
    /\ \A b \in Balances \ DOMAIN r.cash : CashMove(j, r.entry, b) = 0
    /\ \A c \in DOMAIN r.positions :
          /\ r.positions[c] \in PositionRows
          /\ (r.positions[c].quantity = 0) = (r.positions[c].average = None)
          /\ r.positions[c].version <= VersionOf(positions[c]) + 1
          /\ r.positions[c].version = VersionOf(positions[c]) + 1 =>
                r.positions[c].realized = RealizedOf(positions[c]) + Pnl(r.entry)
          /\ DOMAIN r.positions = {c}
    /\ DOMAIN r.positions = {} => Pnl(r.entry) = 0

\* A row it has written is locked, and so still the one it was written over.
HeldOK(p, r, rows) ==
    /\ rows # {} => p = "write"
    /\ \A row \in rows : row \in RowsOf(r) => Current(r, row)

SessionOK(s) ==
    /\ pc[s] = "read" => ReadOK(job[s], seen[s])
    /\ pc[s] = "write" => /\ PendingOK(job[s], result[s])
                          /\ job[s].kind = "settlement" => seen[s] \in PositionRows
    /\ HeldOK(pc[s], result[s], written[s])

LocksExclusive ==
    \A s, t \in Sessions : s # t => written[s] \cap written[t] = {}

TablesOK ==
    /\ RowsOK(positions, cash)
    /\ \A e \in journal : e.lines \in [Accounts -> Int]
    /\ original \in [Contracts \X DOMAIN Settlements -> PositionRows \cup {None}]
    /\ DOMAIN pc = Sessions /\ DOMAIN job = Sessions /\ DOMAIN seen = Sessions
    /\ DOMAIN result = Sessions /\ DOMAIN written = Sessions

StoreInv == TablesOK /\ LocksExclusive /\ \A s \in Sessions : SessionOK(s)

\* The initial state has no transactions.
LEMMA StoreInit == Init => StoreInv
<1> SUFFICES ASSUME Init PROVE StoreInv
  OBVIOUS
<1>1. TablesOK
  BY StartAssumption DEF StartAssumption, Init, TablesOK
<1>2. LocksExclusive
  BY DEF Init, LocksExclusive
<1>3. ASSUME NEW s \in Sessions PROVE SessionOK(s)
  BY DEF Init, SessionOK, HeldOK
<1> QED
  BY <1>1, <1>2, <1>3 DEF StoreInv

\* A session that goes on, the tables and the other sessions as they were.
LEMMA SessionKept ==
    ASSUME StoreInv, NEW t \in Sessions, UNCHANGED <<positions, cash, journal, original>>,
           pc'[t] = pc[t], job'[t] = job[t], seen'[t] = seen[t],
           result'[t] = result[t], written'[t] = written[t]
    PROVE  SessionOK(t)'
<1>1. SessionOK(t)
  BY DEF StoreInv
<1>2. ASSUME pc[t] = "read" PROVE ReadOK(job[t], seen[t])'
  BY <1>1, <1>2, Zenon DEF SessionOK, ReadOK
<1>3. ASSUME pc[t] = "write" PROVE PendingOK(job[t], result[t])'
  <2>1. PendingOK(job[t], result[t])
    BY <1>1, <1>3 DEF SessionOK
  <2> QED
    BY <2>1, ZenonT(60) DEF PendingOK
<1>4. HeldOK(pc[t], result[t], written[t])'
  <2>1. HeldOK(pc[t], result[t], written[t])
    BY <1>1 DEF SessionOK
  <2>2. ASSUME NEW r, NEW row PROVE Current(r, row)' = Current(r, row)
    BY DEF Current, JournalIsNew, JournalIds, PositionIsCurrent, CashIsCurrent
  <2> QED
    BY <2>1, <2>2 DEF HeldOK
<1> QED
  BY <1>1, <1>2, <1>3, <1>4 DEF SessionOK

\* The end of a session, the tables as they were.
LEMMA ResetKeeps ==
    ASSUME StoreInv, NEW s \in Sessions, Reset(s), UNCHANGED <<positions, cash, journal, original>>
    PROVE  StoreInv'
<1>1. TablesOK'
  BY DEF StoreInv, TablesOK, Reset
<1>2. LocksExclusive'
  BY DEF StoreInv, TablesOK, LocksExclusive, Reset
<1>3. ASSUME NEW t \in Sessions PROVE SessionOK(t)'
  <2>1. CASE t = s
    <3>1. pc'[t] = "idle" /\ written'[t] = {}
      BY <2>1 DEF StoreInv, TablesOK, Reset
    <3> QED
      BY <3>1 DEF SessionOK, HeldOK
  <2>2. CASE t # s
    <3>1. /\ pc'[t] = pc[t] /\ job'[t] = job[t] /\ seen'[t] = seen[t]
          /\ result'[t] = result[t] /\ written'[t] = written[t]
      BY <2>2 DEF StoreInv, TablesOK, Reset
    <3> QED
      BY <3>1, SessionKept
  <2> QED
    BY <2>1, <2>2
<1> QED
  BY <1>1, <1>2, <1>3 DEF StoreInv

\* Reading the positions.
LEMMA ReadPositionsKeeps ==
    ASSUME StoreInv, NEW s \in Sessions, NEW j \in Jobs, ReadPositions(s, j)
    PROVE  StoreInv'
<1>1. TablesOK'
  BY DEF StoreInv, TablesOK, ReadPositions, tables
<1>2. LocksExclusive'
  BY DEF StoreInv, LocksExclusive, ReadPositions
<1>3. ASSUME NEW t \in Sessions PROVE SessionOK(t)'
  <2>1. CASE t = s
    <3>1. /\ pc'[s] = "read" /\ job'[s] = j /\ seen'[s] = positions
          /\ written'[s] = {} /\ UNCHANGED <<positions, original>>
      <4>1. SessionOK(s) /\ pc[s] = "idle"
        BY DEF StoreInv, ReadPositions
      <4> QED
        BY <4>1 DEF StoreInv, TablesOK, SessionOK, HeldOK, ReadPositions, tables
    <3>2. /\ positions \in [Contracts -> PositionRows \cup {None}]
          /\ \A c \in Contracts : positions[c] # None =>
                (positions[c].quantity = 0) = (positions[c].average = None)
      BY DEF StoreInv, TablesOK, RowsOK
    <3>3. \A c \in Contracts : VersionOf(positions[c]) \in Int
      BY <3>2 DEF VersionOf, PositionRows
    <3>4. Callable(j)
      BY DEF ReadPositions
    <3>5. ReadOK(j, positions)
      BY <3>2, <3>3, <3>4 DEF ReadOK, Callable
    <3>6. ReadOK(j, positions)'
      BY <3>1, <3>5 DEF ReadOK
    <3> QED
      BY <2>1, <3>1, <3>6 DEF SessionOK, HeldOK
  <2>2. CASE t # s
    <3>1. /\ pc'[t] = pc[t] /\ job'[t] = job[t] /\ seen'[t] = seen[t]
          /\ result'[t] = result[t] /\ written'[t] = written[t]
          /\ UNCHANGED <<positions, cash, journal, original>>
      BY <2>2 DEF StoreInv, TablesOK, ReadPositions, tables
    <3> QED
      BY <3>1, SessionKept
  <2> QED
    BY <2>1, <2>2
<1> QED
  BY <1>1, <1>2, <1>3 DEF StoreInv

\* What the helper of a job returns when it is applied to what its session has read.
LEMMA OutcomePosts ==
    ASSUME TablesOK, NEW j, NEW ps, ReadOK(j, ps), ExactJob(j, ps), NEW ids,
           NEW r, r = Outcome(j, [positions |-> ps, cash |-> cash, ids |-> ids],
                              Was(j), SettledRow(j), PreviousRow(j)),
           r.outcome = "applied"
    PROVE  Posts(r, j, ps, cash)
<1> DEFINE view == [positions |-> ps, cash |-> cash, ids |-> ids]
<1>1. j \in Jobs /\ JobOK(j)
  BY JobFields DEF ReadOK
<1>2. RowsOK(ps, cash)
  BY DEF TablesOK, RowsOK, ReadOK
<1>3. CASE j.kind = "fill"
  <2>1. r = ApplyFillOnce(view, j) /\ ExactFill(ps[j.contract], j)
    BY <1>3 DEF Outcome, ExactJob
  <2> QED
    BY <1>1, <1>2, <1>3, <2>1, FillPosts
<1>4. CASE j.kind \in {"fee", "rebate"}
  <2> DEFINE e == IF j.kind = "fee" THEN FeeEntry(j) ELSE RebateEntry(j)
  <2>1. r = ApplyCashEntryOnce(view, j, e)
    BY <1>4 DEF Outcome
  <2> HIDE DEF e
  <2>2. e = IF j.kind = "fee" THEN FeeEntry(j) ELSE RebateEntry(j)
    BY DEF e
  <2> QED
    BY <1>1, <1>2, <1>4, <2>1, <2>2, CashEntryPosts
<1>5. CASE j.kind = "transfer"
  <2>1. r = ApplyTransferOnce(view, j)
    BY <1>5 DEF Outcome
  <2> QED
    BY <1>1, <1>2, <1>5, <2>1, TransferPosts
<1>6. CASE j.kind = "observed"
  <2>1. r = ApplyBalanceCorrectionOnce(view, j)
    BY <1>6 DEF Outcome
  <2> QED
    BY <1>1, <1>2, <1>6, <2>1, ObservedPosts
<1>7. CASE j.kind = "settlement"
  <2> DEFINE x == SettlementRow(j.settlement)
  <2>1. SettledRow(j) = x
    BY <1>7 DEF SettledRow
  <2>2. /\ r = ApplySettlementOnce(view, j.contract, j.balance, x)
        /\ ExactSettlement(ps[j.contract], x)
    BY <1>7, <2>1 DEF Outcome, ExactJob
  <2>3. /\ x.id = Settlements[j.settlement].id /\ x.settled_at \in Int \cup {None}
        /\ x.payout \in Int \cup {None}
    BY <1>1, <1>7, SettlementRowFields DEF JobOK
  <2> HIDE DEF x
  <2> QED
    BY <1>1, <1>2, <1>7, <2>2, <2>3, SettlementPosts
<1>8. CASE j.kind = "correction"
  <2> DEFINE x == SettlementRow(j.settlement)
             y == SettlementRow(j.previous)
             was == original[<<j.contract, j.previous>>]
  <2>1. SettledRow(j) = x /\ PreviousRow(j) = y /\ Was(j) = was
    BY <1>8 DEF SettledRow, PreviousRow, Was
  <2>2. /\ r = ApplyCorrectionOnce(view, was, j.contract, j.balance, y, x)
        /\ ExactCorrection(ps[j.contract], was, y, x)
    BY <1>8, <2>1 DEF Outcome, ExactJob
  <2>3. /\ x.id = Settlements[j.settlement].id /\ x.settled_at \in Int \cup {None}
        /\ x.payout \in Int \cup {None}
    BY <1>1, <1>8, SettlementRowFields DEF JobOK
  <2>4. y.id = Settlements[j.previous].id /\ y.payout \in Int \cup {None}
    BY <1>1, <1>8, SettlementRowFields DEF JobOK
  <2>5. was \in PositionRows /\ ps[j.contract] # None
    BY <1>1, <1>8 DEF ReadOK, JobOK, TablesOK
  <2> HIDE DEF x, y, was
  <2> QED
    BY <1>1, <1>2, <1>8, <2>2, <2>3, <2>4, <2>5, CorrectionPosts
<1> QED
  BY <1>1, <1>3, <1>4, <1>5, <1>6, <1>7, <1>8 DEF JobOK

\* A result computed from what a session has read follows from the rows that are there, as
\* far as those are the ones it has read.
LEMMA PostsIsPending ==
    ASSUME TablesOK, NEW j, NEW ps, ReadOK(j, ps), NEW r, Posts(r, j, ps, cash)
    PROVE  PendingOK(j, r)
<1>1. ASSUME NEW c \in DOMAIN r.positions
      PROVE  /\ r.positions[c].version <= VersionOf(positions[c]) + 1
             /\ r.positions[c].version = VersionOf(positions[c]) + 1 =>
                   r.positions[c].realized = RealizedOf(positions[c]) + Pnl(r.entry)
  <2>1. c \in Contracts
    BY <1>1 DEF Posts
  <2>2. VersionOf(ps[c]) \in Int /\ VersionOf(positions[c]) \in Int
    BY <2>1 DEF ReadOK, TablesOK, RowsOK, VersionOf, PositionRows
  <2>3. /\ VersionOf(ps[c]) <= VersionOf(positions[c])
        /\ VersionOf(ps[c]) = VersionOf(positions[c]) => ps[c] = positions[c]
    BY <2>1 DEF ReadOK
  <2>4. /\ r.positions[c].version = VersionOf(ps[c]) + 1
        /\ r.positions[c].realized = RealizedOf(ps[c]) + Pnl(r.entry)
    BY <1>1 DEF Posts
  <2> QED
    BY <2>2, <2>3, <2>4
<1>2. ASSUME NEW b \in DOMAIN r.cash
      PROVE  r.cash[b].version <= cash[b].version
  <2>1. b \in Balances /\ r.cash[b].version = cash[b].version
    BY <1>2 DEF Posts
  <2>2. cash[b].version \in Int
    BY <2>1 DEF TablesOK, RowsOK, CashRows
  <2> QED
    BY <2>1, <2>2
<1>3. j \in Jobs
  BY DEF ReadOK
<1> QED
  BY <1>1, <1>2, <1>3 DEF Posts, PendingOK

\* Calling the helper.
LEMMA ApplyJobKeeps ==
    ASSUME StoreInv, NothingRounds, NEW s \in Sessions, ApplyJob(s)
    PROVE  StoreInv'
<1> DEFINE j == job[s]
           view == [positions |-> seen[s], cash |-> cash, ids |-> JournalIds]
           r == Outcome(j, view, Was(j), SettledRow(j), PreviousRow(j))
<1>1. pc[s] = "read" /\ UNCHANGED <<positions, cash, journal, original>>
  BY DEF ApplyJob, tables
<1>2. \/ /\ r.outcome = "applied"
         /\ pc' = [pc EXCEPT ![s] = "write"]
         /\ result' = [result EXCEPT ![s] = r]
         /\ seen' = [seen EXCEPT ![s] = IF j.kind = "settlement" THEN @[j.contract] ELSE None]
         /\ UNCHANGED <<job, written>>
      \/ Reset(s)
  BY DEF ApplyJob, Was, SettledRow, PreviousRow
<1>3. CASE Reset(s)
  BY <1>1, <1>3, ResetKeeps
<1>4. ASSUME r.outcome = "applied",
             pc' = [pc EXCEPT ![s] = "write"], result' = [result EXCEPT ![s] = r],
             seen' = [seen EXCEPT ![s] = IF j.kind = "settlement" THEN @[j.contract] ELSE None],
             UNCHANGED <<job, written>>
      PROVE  StoreInv'
  <2>1. ReadOK(j, seen[s]) /\ ExactJob(j, seen[s]) /\ TablesOK /\ SessionOK(s)
    BY <1>1 DEF StoreInv, SessionOK, NothingRounds
  <2>2. Posts(r, j, seen[s], cash)
    BY <1>4, <2>1, OutcomePosts
  <2> HIDE DEF r
  <2>3. PendingOK(j, r)
    BY <2>1, <2>2, PostsIsPending
  <2>4. /\ pc'[s] = "write" /\ job'[s] = j /\ result'[s] = r /\ written'[s] = {}
        /\ j.kind = "settlement" => seen'[s] = seen[s][j.contract]
    BY <1>1, <1>4, <2>1 DEF TablesOK, SessionOK, HeldOK
  <2>5. j.kind = "settlement" => seen'[s] \in PositionRows
    <3>1. j.kind = "settlement" => j.contract \in Contracts
      BY <2>1, JobFields DEF ReadOK, JobOK
    <3> QED
      BY <2>1, <2>4, <3>1 DEF ReadOK
  <2>6. SessionOK(s)'
    <3>1. PICK k, x : k = j /\ x = r
      OBVIOUS
    <3>2. PendingOK(k, x)'
      <4>1. PendingOK(k, x)
        BY <2>3, <3>1
      <4> QED
        BY <1>1, <4>1, Zenon DEF PendingOK
    <3>3. k = job'[s] /\ x = result'[s] /\ k.kind = j.kind
      BY <2>4, <3>1
    <3> HIDE DEF j
    <3> QED
      BY <2>4, <2>5, <3>1, <3>2, <3>3 DEF SessionOK, HeldOK
  <2>7. ASSUME NEW t \in Sessions, t # s PROVE SessionOK(t)'
    <3>1. /\ pc'[t] = pc[t] /\ job'[t] = job[t] /\ seen'[t] = seen[t]
          /\ result'[t] = result[t] /\ written'[t] = written[t]
      BY <1>4, <2>1, <2>7 DEF TablesOK
    <3> QED
      BY <1>1, <3>1, SessionKept
  <2>8. TablesOK'
    BY <1>1, <1>4, <2>1 DEF TablesOK
  <2>9. LocksExclusive'
    BY <1>4 DEF StoreInv, LocksExclusive
  <2> QED
    BY <2>6, <2>7, <2>8, <2>9 DEF StoreInv
<1> QED
  BY <1>2, <1>3, <1>4

\* A repository call.
LEMMA WriteKeeps ==
    ASSUME StoreInv, NEW s \in Sessions, Write(s)
    PROVE  StoreInv'
<1> DEFINE row == NextRow(s)
<1>1. /\ pc[s] = "write" /\ ~Locked(s, row)
      /\ UNCHANGED <<positions, cash, journal, original>>
  BY DEF Write, tables
<1>2. CASE Reset(s)
  BY <1>1, <1>2, ResetKeeps
<1>3. ASSUME Current(result[s], row), written' = [written EXCEPT ![s] = @ \cup {row}],
             UNCHANGED <<pc, job, seen, result>>
      PROVE  StoreInv'
  <2> HIDE DEF row
  <2>1. TablesOK'
    BY <1>1, <1>3 DEF StoreInv, TablesOK
  <2>2. /\ written'[s] = written[s] \cup {row}
        /\ \A t \in Sessions : t # s => written'[t] = written[t]
    BY <1>3 DEF StoreInv, TablesOK
  <2>3. LocksExclusive'
    BY <1>1, <2>2 DEF StoreInv, LocksExclusive, Locked
  <2>4. SessionOK(s)'
    <3>1. SessionOK(s)
      BY DEF StoreInv
    <3>2. PendingOK(job[s], result[s])'
      <4>1. PendingOK(job[s], result[s])
        BY <1>1, <3>1 DEF SessionOK
      <4> QED
        BY <1>1, <1>3, <4>1, Zenon DEF PendingOK
    <3>3. HeldOK(pc[s], result[s], written[s])'
      <4>1. ASSUME NEW x PROVE Current(result[s], x)' = Current(result[s], x)
        BY <1>1, <1>3 DEF Current, JournalIsNew, JournalIds, PositionIsCurrent, CashIsCurrent
      <4>2. \A x \in RowsOf(result[s]) \cap written[s] : Current(result[s], x)
        BY <3>1 DEF SessionOK, HeldOK
      <4>3. \A x \in RowsOf(result[s]) \cap (written[s] \cup {row}) : Current(result[s], x)'
        BY <1>3, <4>1, <4>2
      <4> QED
        BY <1>1, <1>3, <2>2, <4>3 DEF HeldOK
    <3> QED
      BY <1>1, <1>3, <3>1, <3>2, <3>3 DEF SessionOK
  <2>5. ASSUME NEW t \in Sessions, t # s PROVE SessionOK(t)'
    BY <1>1, <1>3, <2>2, <2>5, SessionKept
  <2> QED
    BY <2>1, <2>3, <2>4, <2>5 DEF StoreInv
<1> QED
  BY <1>2, <1>3 DEF Write

\* A balance that is saved: the next version of the row.
LEMMA CashCounted ==
    ASSUME NEW b \in CashRows, BalanceIdentity(b)
    PROVE  /\ [b EXCEPT !.version = @ + 1] \in CashRows
           /\ BalanceIdentity([b EXCEPT !.version = @ + 1])
           /\ [b EXCEPT !.version = @ + 1].version = b.version + 1
           /\ [b EXCEPT !.version = @ + 1].total = b.total
<1> DEFINE v == b.version + 1
           a == [b EXCEPT !.version = v]
<1>1. b.version \in Nat /\ v \in Nat
  BY DEF CashRows
<1> HIDE DEF v
<1>2. a \in CashRows /\ a.version = v /\ a.total = b.total /\ a.available = b.available
      /\ a.reserved = b.reserved
  BY <1>1 DEF CashRows
<1>3. BalanceIdentity(a)
  BY <1>2 DEF BalanceIdentity
<1> QED
  BY <1>2, <1>3 DEF v

\* A commit: every row it saves is the next version of the row that is there.
LEMMA CommitSaves ==
    ASSUME StoreInv, NEW s \in Sessions, Commit(s), NEW r, r = result[s]
    PROVE  /\ PendingOK(job[s], r) /\ r.entry.id \notin JournalIds
           /\ \A row \in RowsOf(r) : row \in written[s]
           /\ journal' = journal \cup {r.entry}
           /\ DOMAIN positions' = Contracts /\ DOMAIN cash' = Balances
           /\ \A c \in DOMAIN r.positions :
                 /\ positions'[c] = r.positions[c]
                 /\ r.positions[c].version = VersionOf(positions[c]) + 1
           /\ \A c \in Contracts \ DOMAIN r.positions : positions'[c] = positions[c]
           /\ \A b \in DOMAIN r.cash :
                 /\ cash'[b] \in CashRows /\ BalanceIdentity(cash'[b])
                 /\ cash'[b].version = cash[b].version + 1
                 /\ cash'[b].total = r.cash[b].total /\ r.cash[b].version = cash[b].version
           /\ \A b \in Balances \ DOMAIN r.cash : cash'[b] = cash[b]
<1>1. /\ pc[s] = "write" /\ RowsOf(r) \subseteq written[s]
      /\ journal' = journal \cup {r.entry}
      /\ positions' = Saved(r.positions, positions)
      /\ cash' = Saved(Counted(r.cash), cash)
  BY DEF Commit, AllWritten
<1>2. PendingOK(job[s], r) /\ HeldOK("write", r, written[s])
  BY <1>1 DEF StoreInv, SessionOK
<1>3. \A row \in RowsOf(r) : Current(r, row)
  BY <1>1, <1>2 DEF HeldOK
<1>4. DOMAIN positions = Contracts /\ DOMAIN cash = Balances
  BY DEF StoreInv, TablesOK, RowsOK
<1>5. DOMAIN r.positions \subseteq Contracts /\ DOMAIN r.cash \subseteq Balances
  BY <1>2 DEF PendingOK
<1>6. r.entry.id \notin JournalIds
  <2>1. <<"journal", r.entry.id>> \in RowsOf(r)
    BY DEF RowsOf
  <2>2. Current(r, <<"journal", r.entry.id>>)
    BY <1>3, <2>1
  <2> QED
    BY <2>2 DEF Current, JournalIsNew
<1>7. ASSUME NEW c \in DOMAIN r.positions
      PROVE  /\ positions'[c] = r.positions[c]
             /\ r.positions[c].version = VersionOf(positions[c]) + 1
  <2>1. <<"position", c>> \in RowsOf(r)
    BY <1>7 DEF RowsOf
  <2>2. Current(r, <<"position", c>>)
    BY <1>3, <2>1
  <2>3. r.positions[c].version = VersionOf(positions[c]) + 1
    BY <2>2 DEF Current, PositionIsCurrent, VersionOf
  <2> QED
    BY <1>1, <1>4, <1>5, <1>7, <2>3 DEF Saved
<1>8. ASSUME NEW b \in DOMAIN r.cash
      PROVE  /\ cash'[b] \in CashRows /\ BalanceIdentity(cash'[b])
             /\ cash'[b].version = cash[b].version + 1
             /\ cash'[b].total = r.cash[b].total /\ r.cash[b].version = cash[b].version
  <2>1. <<"cash", b>> \in RowsOf(r)
    BY <1>8 DEF RowsOf
  <2>2. Current(r, <<"cash", b>>)
    BY <1>3, <2>1
  <2>3. r.cash[b].version = cash[b].version
    BY <2>2 DEF Current, CashIsCurrent
  <2>4. r.cash[b] \in CashRows /\ BalanceIdentity(r.cash[b])
    BY <1>2, <1>8 DEF PendingOK
  <2>5. cash'[b] = [r.cash[b] EXCEPT !.version = @ + 1]
    BY <1>1, <1>4, <1>5, <1>8 DEF Saved, Counted
  <2> QED
    BY <2>3, <2>4, <2>5, CashCounted
<1>9. DOMAIN positions' = Contracts /\ DOMAIN cash' = Balances
  BY <1>1, <1>4 DEF Saved
<1>10. \A c \in Contracts \ DOMAIN r.positions : positions'[c] = positions[c]
  BY <1>1, <1>4 DEF Saved
<1>11. \A b \in Balances \ DOMAIN r.cash : cash'[b] = cash[b]
  BY <1>1, <1>4 DEF Saved, Counted
<1> QED
  BY <1>1, <1>2, <1>6, <1>7, <1>8, <1>9, <1>10, <1>11

\* The tables after a commit.
LEMMA CommitKeepsTables ==
    ASSUME StoreInv, NEW s \in Sessions, Commit(s)
    PROVE  TablesOK'
<1> DEFINE r == result[s]
<1>1. /\ PendingOK(job[s], r)
      /\ journal' = journal \cup {r.entry}
      /\ DOMAIN positions' = Contracts /\ DOMAIN cash' = Balances
      /\ \A c \in DOMAIN r.positions : positions'[c] = r.positions[c]
      /\ \A c \in Contracts \ DOMAIN r.positions : positions'[c] = positions[c]
      /\ \A b \in DOMAIN r.cash : cash'[b] \in CashRows /\ BalanceIdentity(cash'[b])
      /\ \A b \in Balances \ DOMAIN r.cash : cash'[b] = cash[b]
  BY CommitSaves
<1>2. TablesOK /\ SessionOK(s) /\ pc[s] = "write"
  BY DEF StoreInv, Commit
<1>3. /\ positions' = Saved(r.positions, positions)
      /\ cash' = Saved(Counted(r.cash), cash)
      /\ original' = IF job[s].kind = "settlement"
                     THEN [original EXCEPT ![<<job[s].contract, job[s].settlement>>] = seen[s]]
                     ELSE original
      /\ DOMAIN pc' = DOMAIN pc /\ DOMAIN job' = DOMAIN job /\ DOMAIN seen' = DOMAIN seen
      /\ DOMAIN result' = DOMAIN result /\ DOMAIN written' = DOMAIN written
  BY DEF Commit, Reset
<1> HIDE DEF r
<1>4. RowsOK(positions', cash')
  <2>1. ASSUME NEW c \in Contracts
        PROVE  /\ positions'[c] \in PositionRows \cup {None}
               /\ positions'[c] # None =>
                     (positions'[c].quantity = 0) = (positions'[c].average = None)
    <3>1. CASE c \in DOMAIN r.positions
      BY <1>1, <3>1 DEF PendingOK
    <3>2. CASE c \notin DOMAIN r.positions
      BY <1>1, <1>2, <2>1, <3>2 DEF TablesOK, RowsOK
    <3> QED
      BY <3>1, <3>2
  <2>2. ASSUME NEW b \in Balances
        PROVE  cash'[b] \in CashRows /\ BalanceIdentity(cash'[b])
    BY <1>1, <1>2, <2>2 DEF TablesOK, RowsOK
  <2>3. /\ positions' = [c \in Contracts |-> positions'[c]]
        /\ cash' = [b \in Balances |-> cash'[b]]
    BY <1>1, <1>3 DEF Saved
  <2>4. positions' \in [Contracts -> PositionRows \cup {None}] /\ cash' \in [Balances -> CashRows]
    BY <2>1, <2>2, <2>3
  <2> QED
    BY <2>1, <2>2, <2>4 DEF RowsOK
<1>5. \A e \in journal' : e.lines \in [Accounts -> Int]
  BY <1>1, <1>2 DEF TablesOK, PendingOK
<1>6. original' \in [Contracts \X DOMAIN Settlements -> PositionRows \cup {None}]
  <2>1. CASE job[s].kind = "settlement"
    BY <1>2, <1>3, <2>1 DEF TablesOK, SessionOK
  <2>2. CASE job[s].kind # "settlement"
    BY <1>2, <1>3, <2>2 DEF TablesOK
  <2> QED
    BY <2>1, <2>2
<1> QED
  BY <1>2, <1>3, <1>4, <1>5, <1>6 DEF TablesOK

\* A commit and another session: it has read rows of a version that is gone, or of a row
\* that the commit leaves alone.
LEMMA CommitKeepsReaders ==
    ASSUME StoreInv, NEW s \in Sessions, Commit(s), NEW j, NEW ps, ReadOK(j, ps)
    PROVE  ReadOK(j, ps)'
<1> DEFINE r == result[s]
<1>1. /\ PendingOK(job[s], r)
      /\ \A c \in DOMAIN r.positions :
            /\ positions'[c] = r.positions[c]
            /\ r.positions[c].version = VersionOf(positions[c]) + 1
      /\ \A c \in Contracts \ DOMAIN r.positions : positions'[c] = positions[c]
  BY CommitSaves
<1>2. TablesOK /\ SessionOK(s) /\ pc[s] = "write" /\ None \notin PositionRows
  BY StartAssumption DEF StoreInv, Commit, StartAssumption
<1>3. original' = IF job[s].kind = "settlement"
                  THEN [original EXCEPT ![<<job[s].contract, job[s].settlement>>] = seen[s]]
                  ELSE original
  BY DEF Commit
<1> HIDE DEF r
<1>4. ASSUME NEW c \in Contracts
      PROVE  /\ VersionOf(ps[c]) <= VersionOf(positions'[c])
             /\ VersionOf(ps[c]) = VersionOf(positions'[c]) => ps[c] = positions'[c]
  <2>1. VersionOf(ps[c]) \in Int /\ VersionOf(positions[c]) \in Int
    BY <1>2 DEF ReadOK, TablesOK, RowsOK, VersionOf, PositionRows
  <2>2. /\ VersionOf(ps[c]) <= VersionOf(positions[c])
        /\ VersionOf(ps[c]) = VersionOf(positions[c]) => ps[c] = positions[c]
    BY DEF ReadOK
  <2>3. CASE c \in DOMAIN r.positions
    <3>1. /\ positions'[c] = r.positions[c] /\ positions'[c] \in PositionRows
          /\ r.positions[c].version = VersionOf(positions[c]) + 1
      BY <1>1, <2>3 DEF PendingOK
    <3>2. VersionOf(positions'[c]) = VersionOf(positions[c]) + 1
      BY <1>2, <3>1 DEF VersionOf
    <3> QED
      BY <2>1, <2>2, <3>2
  <2>4. CASE c \notin DOMAIN r.positions
    BY <1>1, <2>2, <2>4
  <2> QED
    BY <2>3, <2>4
<1>5. j.kind = "correction" => original'[<<j.contract, j.previous>>] # None
  <2> SUFFICES ASSUME j.kind = "correction" PROVE original'[<<j.contract, j.previous>>] # None
    OBVIOUS
  <2>1. original[<<j.contract, j.previous>>] # None /\ j.previous \in DOMAIN Settlements
    BY JobFields DEF ReadOK, JobOK
  <2>2. CASE job[s].kind = "settlement"
    <3>1. seen[s] \in PositionRows
      BY <1>2, <2>2 DEF SessionOK
    <3> QED
      BY <1>2, <1>3, <2>1, <2>2, <3>1 DEF TablesOK
  <2>3. CASE job[s].kind # "settlement"
    BY <1>3, <2>1, <2>3
  <2> QED
    BY <2>2, <2>3
<1> QED
  BY <1>4, <1>5 DEF ReadOK

\* The same for what another session is about to write ...
LEMMA CommitKeepsPending ==
    ASSUME StoreInv, NEW s \in Sessions, Commit(s), NEW j, NEW x, PendingOK(j, x)
    PROVE  PendingOK(j, x)'
<1> DEFINE r == result[s]
<1>1. /\ PendingOK(job[s], r)
      /\ \A c \in DOMAIN r.positions :
            /\ positions'[c] = r.positions[c]
            /\ r.positions[c].version = VersionOf(positions[c]) + 1
      /\ \A c \in Contracts \ DOMAIN r.positions : positions'[c] = positions[c]
      /\ \A b \in DOMAIN r.cash : cash'[b].version = cash[b].version + 1
      /\ \A b \in Balances \ DOMAIN r.cash : cash'[b] = cash[b]
  BY CommitSaves
<1>2. TablesOK /\ None \notin PositionRows
  BY StartAssumption DEF StoreInv, StartAssumption
<1> HIDE DEF r
<1>3. ASSUME NEW c \in DOMAIN x.positions
      PROVE  /\ x.positions[c].version <= VersionOf(positions'[c]) + 1
             /\ x.positions[c].version = VersionOf(positions'[c]) + 1 =>
                   x.positions[c].realized = RealizedOf(positions'[c]) + Pnl(x.entry)
  <2>1. /\ c \in Contracts /\ x.positions[c] \in PositionRows
        /\ x.positions[c].version <= VersionOf(positions[c]) + 1
        /\ x.positions[c].version = VersionOf(positions[c]) + 1 =>
              x.positions[c].realized = RealizedOf(positions[c]) + Pnl(x.entry)
    BY <1>3 DEF PendingOK
  <2>2. VersionOf(positions[c]) \in Int /\ x.positions[c].version \in Int
    BY <1>2, <2>1 DEF TablesOK, RowsOK, VersionOf, PositionRows
  <2>3. CASE c \in DOMAIN r.positions
    <3>1. /\ positions'[c] = r.positions[c] /\ positions'[c] \in PositionRows
          /\ r.positions[c].version = VersionOf(positions[c]) + 1
      BY <1>1, <2>3 DEF PendingOK
    <3>2. VersionOf(positions'[c]) = VersionOf(positions[c]) + 1
      BY <1>2, <3>1 DEF VersionOf
    <3> QED
      BY <2>1, <2>2, <3>2
  <2>4. CASE c \notin DOMAIN r.positions
    BY <1>1, <2>1, <2>4
  <2> QED
    BY <2>3, <2>4
<1>4. ASSUME NEW b \in DOMAIN x.cash
      PROVE  /\ x.cash[b].version <= cash'[b].version
             /\ x.cash[b].version = cash'[b].version =>
                   x.cash[b].total = cash'[b].total + CashMove(j, x.entry, b)
  <2>1. /\ b \in Balances /\ x.cash[b] \in CashRows
        /\ x.cash[b].version <= cash[b].version
        /\ x.cash[b].version = cash[b].version =>
              x.cash[b].total = cash[b].total + CashMove(j, x.entry, b)
    BY <1>4 DEF PendingOK
  <2>2. cash[b].version \in Int /\ x.cash[b].version \in Int
    BY <1>2, <2>1 DEF TablesOK, RowsOK, CashRows
  <2>3. CASE b \in DOMAIN r.cash
    BY <1>1, <2>1, <2>2, <2>3
  <2>4. CASE b \notin DOMAIN r.cash
    BY <1>1, <2>1, <2>4
  <2> QED
    BY <2>3, <2>4
<1>5. PendingOK(j, x)
  OBVIOUS
<1> QED
  BY <1>3, <1>4, <1>5, Zenon DEF PendingOK

\* ... and for the rows it has written, which the commit did not write.
LEMMA CommitKeepsHeld ==
    ASSUME StoreInv, NEW s \in Sessions, Commit(s), NEW x, NEW rows,
           DOMAIN x.positions \subseteq Contracts, DOMAIN x.cash \subseteq Balances,
           rows \cap written[s] = {},
           NEW row \in RowsOf(x) \cap rows, Current(x, row)
    PROVE  Current(x, row)'
<1> DEFINE r == result[s]
<1>1. /\ \A y \in RowsOf(r) : y \in written[s]
      /\ journal' = journal \cup {r.entry}
      /\ \A c \in Contracts \ DOMAIN r.positions : positions'[c] = positions[c]
      /\ \A b \in Balances \ DOMAIN r.cash : cash'[b] = cash[b]
  BY CommitSaves
<1> HIDE DEF r
<1>2. row \notin RowsOf(r)
  BY <1>1
<1>3. CASE row = <<"journal", x.entry.id>>
  <2>1. x.entry.id # r.entry.id
    BY <1>2, <1>3 DEF RowsOf
  <2>2. x.entry.id \notin JournalIds
    BY <1>3 DEF Current, JournalIsNew
  <2>3. x.entry.id \notin JournalIds'
    BY <1>1, <2>1, <2>2 DEF JournalIds
  <2> QED
    BY <1>3, <2>3 DEF Current, JournalIsNew
<1>4. ASSUME NEW c \in DOMAIN x.positions, row = <<"position", c>> PROVE Current(x, row)'
  <2>1. c \in Contracts \ DOMAIN r.positions
    BY <1>2, <1>4 DEF RowsOf
  <2>2. positions'[c] = positions[c]
    BY <1>1, <2>1
  <2> QED
    BY <1>4, <2>2 DEF Current, PositionIsCurrent
<1>5. ASSUME NEW b \in DOMAIN x.cash, row = <<"cash", b>> PROVE Current(x, row)'
  <2>1. b \in Balances \ DOMAIN r.cash
    BY <1>2, <1>5 DEF RowsOf
  <2>2. cash'[b] = cash[b]
    BY <1>1, <2>1
  <2> QED
    BY <1>5, <2>2 DEF Current, CashIsCurrent
<1> QED
  BY <1>3, <1>4, <1>5 DEF RowsOf

\* Committing.
LEMMA CommitKeeps ==
    ASSUME StoreInv, NEW s \in Sessions, Commit(s)
    PROVE  StoreInv'
<1>1. TablesOK'
  BY CommitKeepsTables
<1>2. TablesOK /\ LocksExclusive /\ \A t \in Sessions : SessionOK(t)
  BY DEF StoreInv
<1>3. /\ written'[s] = {} /\ pc'[s] \in {"idle", "events"}
      /\ \A t \in Sessions : t # s =>
            /\ pc'[t] = pc[t] /\ job'[t] = job[t] /\ seen'[t] = seen[t]
            /\ result'[t] = result[t] /\ written'[t] = written[t]
  BY <1>2 DEF Commit, Reset, TablesOK
<1>4. LocksExclusive'
  BY <1>2, <1>3 DEF LocksExclusive
<1>5. SessionOK(s)'
  BY <1>3 DEF SessionOK, HeldOK
<1>6. ASSUME NEW t \in Sessions, t # s PROVE SessionOK(t)'
  <2>1. /\ pc'[t] = pc[t] /\ job'[t] = job[t] /\ seen'[t] = seen[t]
        /\ result'[t] = result[t] /\ written'[t] = written[t]
    BY <1>3, <1>6
  <2>2. PICK j, ps, x, rows : j = job[t] /\ ps = seen[t] /\ x = result[t] /\ rows = written[t]
    OBVIOUS
  <2>3. SessionOK(t)
    BY <1>2
  <2>4. pc[t] = "read" => ReadOK(j, ps)'
    BY <2>2, <2>3, CommitKeepsReaders DEF SessionOK
  <2>5. pc[t] = "write" => PendingOK(j, x)'
    BY <2>2, <2>3, CommitKeepsPending DEF SessionOK
  <2>6. ASSUME NEW row \in RowsOf(x) \cap rows PROVE Current(x, row)'
    <3>1. pc[t] = "write" /\ Current(x, row)
      BY <2>2, <2>3, <2>6 DEF SessionOK, HeldOK
    <3>2. DOMAIN x.positions \subseteq Contracts /\ DOMAIN x.cash \subseteq Balances
      BY <2>2, <2>3, <3>1 DEF SessionOK, PendingOK
    <3>3. rows \cap written[s] = {}
      BY <1>2, <1>6, <2>2 DEF LocksExclusive
    <3> QED
      BY <2>6, <3>1, <3>2, <3>3, CommitKeepsHeld
  <2>7. HeldOK(pc[t], x, rows)'
    <3>1. rows # {} => pc[t] = "write"
      BY <2>2, <2>3 DEF SessionOK, HeldOK
    <3> QED
      BY <2>1, <2>6, <3>1 DEF HeldOK
  <2>8. j = job'[t] /\ ps = seen'[t] /\ x = result'[t] /\ rows = written'[t]
    BY <2>1, <2>2
  <2>9. j.kind = "settlement" /\ pc[t] = "write" => seen'[t] \in PositionRows
    BY <2>1, <2>2, <2>3 DEF SessionOK
  <2> QED
    BY <2>1, <2>4, <2>5, <2>7, <2>8, <2>9 DEF SessionOK
<1> QED
  BY <1>1, <1>4, <1>5, <1>6 DEF StoreInv

\* Every step that rounds nothing keeps the invariant.
LEMMA StoreNext == StoreInv /\ NothingRounds /\ [Next]_vars => StoreInv'
<1> SUFFICES ASSUME StoreInv, NothingRounds, [Next]_vars PROVE StoreInv'
  OBVIOUS
<1>1. ASSUME NEW s \in Sessions, NEW j \in Jobs, ReadPositions(s, j) PROVE StoreInv'
  BY <1>1, ReadPositionsKeeps
<1>2. ASSUME NEW s \in Sessions, ApplyJob(s) PROVE StoreInv'
  BY <1>2, ApplyJobKeeps
<1>3. ASSUME NEW s \in Sessions, Write(s) PROVE StoreInv'
  BY <1>3, WriteKeeps
<1>4. ASSUME NEW s \in Sessions, Commit(s) PROVE StoreInv'
  BY <1>4, CommitKeeps
<1>5. ASSUME NEW s \in Sessions, PersistEvents(s) \/ Fail(s) PROVE StoreInv'
  <2>1. Reset(s) /\ UNCHANGED <<positions, cash, journal, original>>
    BY <1>5 DEF PersistEvents, Fail, tables
  <2> QED
    BY <2>1, ResetKeeps
<1>6. ASSUME UNCHANGED <<positions, cash, journal, original, sessionVars>> PROVE StoreInv'
  <2>1. UNCHANGED <<pc, job, seen, result, written>>
    BY <1>6 DEF sessionVars
  <2>2. TablesOK' /\ LocksExclusive'
    BY <1>6, <2>1 DEF StoreInv, TablesOK, LocksExclusive
  <2>3. \A t \in Sessions : SessionOK(t)'
    BY <1>6, <2>1, SessionKept
  <2> QED
    BY <2>2, <2>3 DEF StoreInv
<1>7. ASSUME NEW x \in DOMAIN Settlements, NEW status, SaveSettlement(x, status)
      PROVE  StoreInv'
  BY <1>6, <1>7 DEF SaveSettlement
<1>8. ASSUME StartReconciliation PROVE StoreInv'
  BY <1>6, <1>8 DEF StartReconciliation, tables
<1>9. ASSUME NEW n \in 0 .. Len(Exchange), Reconcile(n) PROVE StoreInv'
  BY <1>6, <1>9 DEF Reconcile, tables
<1>10. CASE UNCHANGED vars
  BY <1>6, <1>10 DEF vars, tables
<1> QED
  BY <1>1, <1>2, <1>3, <1>4, <1>5, <1>7, <1>8, <1>9, <1>10 DEF Next

-----------------------------------------------------------------------------
(* The ledger                                                              *)

\* The realised PnL of a table is a sum of SumProofs.
LEMMA RealizedSum ==
    ASSUME NEW table
    PROVE  Realized(table) = SumOver([c \in Contracts |-> RealizedOf(table[c])], Contracts)
<1> DEFINE F == [c \in Contracts |-> RealizedOf(table[c])]
           value(c) == IF table[c] = None THEN 0 ELSE table[c].realized
           H(h) == h = [s \in SUBSET Contracts |->
                          IF s = {} THEN 0 ELSE value(Pick(s)) + h[s \ {Pick(s)}]]
<1>1. ASSUME NEW s \in SUBSET Contracts, s # {}
      PROVE  F[Pick(s)] = value(Pick(s))
  BY <1>1, Picked DEF RealizedOf
<1>2. ASSUME NEW h PROVE H(h) <=> IsSum(h, F, Contracts)
  <2>1. ASSUME NEW s \in SUBSET Contracts
        PROVE  (IF s = {} THEN 0 ELSE value(Pick(s)) + h[s \ {Pick(s)}])
                  = (IF s = {} THEN 0 ELSE F[Pick(s)] + h[s \ {Pick(s)}])
    BY <1>1
  <2> HIDE DEF value, F
  <2> QED
    BY <2>1, Zenon DEF IsSum
<1>3. (CHOOSE h : H(h)) = (CHOOSE h : IsSum(h, F, Contracts))
  <2> HIDE DEF H
  <2> QED
    BY <1>2, Zenon
<1>4. Realized(table) = (CHOOSE h : H(h))[Contracts]
  BY DEF Realized, MapThenSumSet, MapThenFoldSet, Pick
<1> QED
  BY <1>3, <1>4, SumUnfolded

\* One row of the table changes.
LEMMA RealizedMoves ==
    ASSUME NEW old, NEW new, NEW c \in Contracts, NEW amount \in Int,
           \A k \in Contracts : RealizedOf(old[k]) \in Int,
           RealizedOf(new[c]) = RealizedOf(old[c]) + amount,
           \A k \in Contracts \ {c} : new[k] = old[k]
    PROVE  Realized(new) = Realized(old) + amount
<1> DEFINE F == [k \in Contracts |-> RealizedOf(old[k])]
           G == [k \in Contracts |-> RealizedOf(new[k])]
           rest == Contracts \ {c}
<1>1. IsFiniteSet(Contracts) /\ IsFiniteSet(rest)
  BY StoreAssumption, FS_Subset DEF StoreAssumption
<1>2. /\ \A k \in Contracts : F[k] \in Int
      /\ \A k \in Contracts : G[k] \in Int
      /\ \A k \in rest : F[k] = G[k]
      /\ G[c] = F[c] + amount
  OBVIOUS
<1>3. Realized(old) = SumOver(F, Contracts) /\ Realized(new) = SumOver(G, Contracts)
  BY RealizedSum
<1> HIDE DEF F, G
<1>4. SumOver(F, Contracts) = F[c] + SumOver(F, rest)
  BY <1>1, <1>2, SumRemove
<1>5. SumOver(G, Contracts) = G[c] + SumOver(G, rest)
  BY <1>1, <1>2, SumRemove
<1>6. SumOver(F, rest) = SumOver(G, rest)
  BY <1>1, <1>2, SumEqual
<1>7. SumOver(F, rest) \in Int
  BY <1>1, <1>2, SumType
<1> QED
  BY <1>2, <1>3, <1>4, <1>5, <1>6, <1>7

\* What an entry moves, by the job it was made for.
LEMMA MovesOfJob ==
    ASSUME NEW j \in Jobs, NEW e, e.id = EntryId(j)
    PROVE  /\ Moves(e)["pnl"] = Pnl(e)
           /\ \A b \in Balances : Moves(e)[b] = CashMove(j, e, b)
<1>1. e.id \in {EntryId(k) : k \in Jobs}
  OBVIOUS
<1>2. JobOf(e) = CHOOSE k \in Jobs : EntryId(k) = e.id
  BY <1>1 DEF JobOf, JobById
<1>3. JobOf(e) = j
  BY <1>2, IdsAssumption DEF IdsAssumption
<1>4. "pnl" \notin Balances
  BY StoreAssumption DEF StoreAssumption
<1>5. Moves(e)["pnl"] = Pnl(e)
  BY DEF Moves, BookKeys, Pnl
<1>6. ASSUME NEW b \in Balances PROVE Moves(e)[b] = CashMove(j, e, b)
  BY <1>3, <1>4 DEF Moves, BookKeys, CashMove
<1> QED
  BY <1>5, <1>6

\* A commit moves the balances by the lines of its entry.
LEMMA CommitMovesCash ==
    ASSUME StoreInv, NEW s \in Sessions, Commit(s), NEW j, NEW r, r = result[s], j = job[s]
    PROVE  \A b \in Balances : cash'[b].total = cash[b].total + CashMove(j, r.entry, b)
<1> TAKE b \in Balances
<1>1. /\ PendingOK(j, r)
      /\ \A k \in DOMAIN r.cash :
            cash'[k].total = r.cash[k].total /\ r.cash[k].version = cash[k].version
      /\ \A k \in Balances \ DOMAIN r.cash : cash'[k] = cash[k]
  BY CommitSaves
<1>2. CASE b \in DOMAIN r.cash
  BY <1>1, <1>2 DEF PendingOK
<1>3. CASE b \notin DOMAIN r.cash
  <2>1. CashMove(j, r.entry, b) = 0 /\ cash'[b] = cash[b]
    BY <1>1, <1>3 DEF PendingOK
  <2>2. cash[b].total \in Int
    BY DEF StoreInv, TablesOK, RowsOK, CashRows
  <2> QED
    BY <2>1, <2>2
<1> QED
  BY <1>2, <1>3

\* A commit posts its entry and moves the books by it.
LEMMA CommitPosts ==
    ASSUME StoreInv, NEW s \in Sessions, Commit(s)
    PROVE  Books!Post
<1>1. PICK r, j : r = result[s] /\ j = job[s]
  OBVIOUS
<1>2. /\ PendingOK(j, r) /\ r.entry.id \notin JournalIds
      /\ journal' = journal \cup {r.entry}
      /\ \A c \in DOMAIN r.positions :
            /\ positions'[c] = r.positions[c]
            /\ r.positions[c].version = VersionOf(positions[c]) + 1
      /\ \A c \in Contracts \ DOMAIN r.positions : positions'[c] = positions[c]
      /\ \A b \in DOMAIN r.cash :
            cash'[b].total = r.cash[b].total /\ r.cash[b].version = cash[b].version
      /\ \A b \in Balances \ DOMAIN r.cash : cash'[b] = cash[b]
  BY <1>1, CommitSaves
<1>3. TablesOK /\ TablesOK' /\ None \notin PositionRows
  BY CommitKeepsTables, StartAssumption DEF StoreInv, StartAssumption
<1>4. j \in Jobs /\ r.entry.id = EntryId(j) /\ r.entry.lines \in [Accounts -> Int]
      /\ Balanced(r.entry) /\ DOMAIN r.positions \subseteq Contracts
      /\ DOMAIN r.cash \subseteq Balances
  BY <1>2 DEF PendingOK
<1>5. /\ Moves(r.entry)["pnl"] = Pnl(r.entry)
      /\ \A b \in Balances : Moves(r.entry)[b] = CashMove(j, r.entry, b)
  BY <1>4, MovesOfJob
<1>6. Pnl(r.entry) \in Int
  <2>1. r.entry.lines["realized_trading_pnl"] \in Int /\ r.entry.lines["settlement_pnl"] \in Int
    BY <1>4 DEF Accounts
  <2> QED
    BY <2>1 DEF Pnl
<1>7. \A b \in Balances : cash'[b].total = cash[b].total + CashMove(j, r.entry, b)
  BY <1>1, CommitMovesCash
<1>8. \A k \in Contracts : RealizedOf(positions[k]) \in Int
  BY <1>3 DEF TablesOK, RowsOK, RealizedOf, PositionRows
<1>9. Realized(positions') = Realized(positions) + Pnl(r.entry)
  <2>1. ASSUME NEW c \in DOMAIN r.positions
        PROVE  Realized(positions') = Realized(positions) + Pnl(r.entry)
    <3>1. /\ c \in Contracts /\ r.positions[c] \in PositionRows /\ DOMAIN r.positions = {c}
          /\ r.positions[c].realized = RealizedOf(positions[c]) + Pnl(r.entry)
          /\ positions'[c] = r.positions[c]
      BY <1>2, <1>4, <2>1 DEF PendingOK
    <3>2. RealizedOf(positions'[c]) = RealizedOf(positions[c]) + Pnl(r.entry)
      BY <1>3, <3>1 DEF RealizedOf
    <3>3. \A k \in Contracts \ {c} : positions'[k] = positions[k]
      BY <1>2, <3>1
    <3>4. PICK old, new : old = positions /\ new = positions'
      OBVIOUS
    <3>5. Realized(new) = Realized(old) + Pnl(r.entry)
      BY <1>6, <1>8, <3>1, <3>2, <3>3, <3>4, RealizedMoves
    <3> QED
      BY <3>4, <3>5
  <2>2. ASSUME DOMAIN r.positions = {}
        PROVE  Realized(positions') = Realized(positions) + Pnl(r.entry)
    <3>1. Pnl(r.entry) = 0 /\ \A k \in Contracts : positions'[k] = positions[k]
      BY <1>2, <2>2 DEF PendingOK
    <3>2. positions' = positions
      BY <1>3, <3>1 DEF TablesOK, RowsOK
    <3>3. Realized(positions) \in Int
      <4> DEFINE F == [k \in Contracts |-> RealizedOf(positions[k])]
      <4>1. \A k \in Contracts : F[k] \in Int
        BY <1>8
      <4>2. Realized(positions) = SumOver(F, Contracts)
        BY RealizedSum
      <4> HIDE DEF F
      <4>3. IsFiniteSet(Contracts)
        BY StoreAssumption DEF StoreAssumption
      <4> QED
        BY <4>1, <4>2, <4>3, SumType
    <3> QED
      BY <3>1, <3>2, <3>3
  <2> QED
    BY <2>1, <2>2
<1> DEFINE entry == Posting(r.entry)
           posted == {Posting(e) : e \in journal}
           amounts == [k \in BookKeys |-> IF k = "pnl" THEN Realized(positions)
                                          ELSE cash[k].total]
<1>10. entry.id = r.entry.id /\ entry.total = 0 /\ entry.moves = Moves(r.entry)
  BY <1>4 DEF Posting
<1>11. \A d \in posted : d.id # entry.id
  BY <1>2, <1>10 DEF Posting, JournalIds
<1>12. posted' = posted \cup {entry}
  BY <1>2
<1>13. amounts' = [k \in BookKeys |-> amounts[k] + entry.moves[k]]
  <2>1. ASSUME NEW k \in BookKeys
        PROVE  (IF k = "pnl" THEN Realized(positions') ELSE cash'[k].total)
                  = amounts[k] + entry.moves[k]
    BY <1>5, <1>7, <1>9, <1>10 DEF BookKeys
  <2> QED
    BY <2>1
<1> HIDE DEF entry
<1>14. entry \in posted' \ posted
  BY <1>11, <1>12
<1> QED
  BY <1>10, <1>11, <1>12, <1>13, <1>14 DEF Books!Post

\* The tables that no commit changes.
LEMMA BooksKept ==
    ASSUME UNCHANGED <<positions, cash, journal>>
    PROVE  UNCHANGED <<{Posting(e) : e \in journal},
                       [k \in BookKeys |-> IF k = "pnl" THEN Realized(positions)
                                           ELSE cash[k].total]>>
OBVIOUS

\* PortfolioStore implements the Ledger as long as no Decimal operation rounds: in every
\* interleaving of projectors that fail, repeat deliveries and overwrite each other's reads,
\* the journal takes each job's balanced entry once, and the cash balances and the realised
\* PnL move by its lines in the same commit (SqlAlchemyPortfolioUnitOfWork, the version and
\* primary-key checks of the repositories).
THEOREM LedgerIsImplemented == Spec /\ []NothingRounds => ImplementsLedger
<1>1. Init => Books!Init
  BY DEF Init, Books!Init
<1>2. StoreInv /\ NothingRounds /\ [Next]_vars
      => [Books!Post]_<<{Posting(e) : e \in journal},
                        [k \in BookKeys |-> IF k = "pnl" THEN Realized(positions)
                                            ELSE cash[k].total]>>
  <2> SUFFICES ASSUME StoreInv, [Next]_vars, ~(\E s \in Sessions : Commit(s))
               PROVE  UNCHANGED <<positions, cash, journal>>
    BY CommitPosts, BooksKept
  <2>1. ASSUME NEW s \in Sessions,
               \/ \E j \in Jobs : ReadPositions(s, j)
               \/ ApplyJob(s) \/ Write(s) \/ PersistEvents(s) \/ Fail(s)
        PROVE  UNCHANGED <<positions, cash, journal>>
    BY <2>1 DEF ReadPositions, ApplyJob, Write, PersistEvents, Fail, tables
  <2>2. ASSUME NEW x \in DOMAIN Settlements, NEW status, SaveSettlement(x, status)
        PROVE  UNCHANGED <<positions, cash, journal>>
    BY <2>2 DEF SaveSettlement
  <2>3. CASE StartReconciliation \/ \E n \in 0 .. Len(Exchange) : Reconcile(n)
    BY <2>3 DEF StartReconciliation, Reconcile, tables
  <2>4. CASE UNCHANGED vars
    BY <2>4 DEF vars, tables
  <2> QED
    BY <2>1, <2>2, <2>3, <2>4 DEF Next
<1>3. Spec /\ []NothingRounds => []StoreInv
  BY StoreInit, StoreNext, PTL DEF Spec
<1> QED
  BY <1>1, <1>2, <1>3, PTL DEF Spec, ImplementsLedger, Books!Spec

-----------------------------------------------------------------------------
(* Events                                                                  *)

\* A session that has events to persist has committed their entry; and entries stay.
EventsInv ==
    /\ EventsFollowTheJournal
    /\ DOMAIN pc = Sessions /\ DOMAIN result = Sessions
    /\ \A s \in Sessions : pc[s] = "events" => result[s].entry.id \in JournalIds

\* The end of a session, entries kept or added.
LEMMA ResetKeepsEvents ==
    ASSUME EventsInv, NEW s \in Sessions, Reset(s), JournalIds \subseteq JournalIds',
           EventsFollowTheJournal'
    PROVE  EventsInv'
BY DEF EventsInv, Reset

\* Every step keeps the invariant.
LEMMA EventsNext == EventsInv /\ [Next]_vars => EventsInv'
<1> SUFFICES ASSUME EventsInv, [Next]_vars PROVE EventsInv'
  OBVIOUS
<1>1. ASSUME UNCHANGED <<journal, canonical, outbox>>
      PROVE  JournalIds' = JournalIds /\ EventsFollowTheJournal'
  BY <1>1 DEF EventsInv, EventsFollowTheJournal, JournalIds
<1>2. ASSUME NEW s \in Sessions, NEW j \in Jobs, ReadPositions(s, j) PROVE EventsInv'
  <2>1. UNCHANGED <<journal, canonical, outbox, result>> /\ pc' = [pc EXCEPT ![s] = "read"]
    BY <1>2 DEF ReadPositions, tables
  <2> QED
    BY <1>1, <2>1 DEF EventsInv
<1>3. ASSUME NEW s \in Sessions, ApplyJob(s) PROVE EventsInv'
  <2>1. UNCHANGED <<journal, canonical, outbox>>
    BY <1>3 DEF ApplyJob, tables
  <2>2. CASE Reset(s)
    BY <1>1, <2>1, <2>2, ResetKeepsEvents
  <2>3. ASSUME NEW r, pc' = [pc EXCEPT ![s] = "write"], result' = [result EXCEPT ![s] = r]
        PROVE  EventsInv'
    BY <1>1, <2>1, <2>3 DEF EventsInv
  <2> QED
    BY <1>3, <2>2, <2>3 DEF ApplyJob
<1>4. ASSUME NEW s \in Sessions, Write(s) PROVE EventsInv'
  <2>1. UNCHANGED <<journal, canonical, outbox>>
    BY <1>4 DEF Write, tables
  <2>2. CASE Reset(s)
    BY <1>1, <2>1, <2>2, ResetKeepsEvents
  <2>3. CASE UNCHANGED <<pc, result>>
    BY <1>1, <2>1, <2>3 DEF EventsInv
  <2> QED
    BY <1>4, <2>2, <2>3 DEF Write
<1>5. ASSUME NEW s \in Sessions, Commit(s) PROVE EventsInv'
  <2>1. /\ UNCHANGED <<canonical, outbox>> /\ journal' = journal \cup {result[s].entry}
        /\ \/ pc' = [pc EXCEPT ![s] = "events"] /\ UNCHANGED result
           \/ Reset(s)
    BY <1>5 DEF Commit
  <2>2. JournalIds \subseteq JournalIds' /\ result[s].entry.id \in JournalIds'
    BY <2>1 DEF JournalIds
  <2>3. EventsFollowTheJournal'
    BY <2>1, <2>2 DEF EventsInv, EventsFollowTheJournal
  <2>4. CASE Reset(s)
    BY <2>2, <2>3, <2>4, ResetKeepsEvents
  <2>5. CASE pc' = [pc EXCEPT ![s] = "events"] /\ UNCHANGED result
    BY <2>2, <2>3, <2>5 DEF EventsInv
  <2> QED
    BY <2>1, <2>4, <2>5
<1>6. ASSUME NEW s \in Sessions, PersistEvents(s) PROVE EventsInv'
  <2>1. /\ Reset(s) /\ UNCHANGED journal /\ result[s].entry.id \in JournalIds
        /\ canonical' = canonical \cup {result[s].entry.id}
        /\ outbox' = outbox \cup {result[s].entry.id}
    BY <1>6 DEF PersistEvents, EventsInv
  <2>2. JournalIds' = JournalIds
    BY <2>1 DEF JournalIds
  <2>3. EventsFollowTheJournal'
    BY <2>1, <2>2 DEF EventsInv, EventsFollowTheJournal
  <2> QED
    BY <2>1, <2>2, <2>3, ResetKeepsEvents
<1>7. ASSUME NEW s \in Sessions, Fail(s) PROVE EventsInv'
  <2>1. Reset(s) /\ UNCHANGED <<journal, canonical, outbox>>
    BY <1>7 DEF Fail, tables
  <2> QED
    BY <1>1, <2>1, ResetKeepsEvents
<1>8. ASSUME UNCHANGED <<journal, canonical, outbox, pc, result>> PROVE EventsInv'
  BY <1>1, <1>8 DEF EventsInv
<1>9. ASSUME NEW x \in DOMAIN Settlements, NEW status, SaveSettlement(x, status)
      PROVE  EventsInv'
  BY <1>8, <1>9 DEF SaveSettlement, sessionVars
<1>10. ASSUME StartReconciliation \/ \E n \in 0 .. Len(Exchange) : Reconcile(n)
       PROVE  EventsInv'
  BY <1>8, <1>10 DEF StartReconciliation, Reconcile, tables, sessionVars
<1>11. CASE UNCHANGED vars
  BY <1>8, <1>11 DEF vars, tables, sessionVars
<1> QED
  BY <1>2, <1>3, <1>4, <1>5, <1>6, <1>7, <1>9, <1>10, <1>11 DEF Next

\* PortfolioEventWorkflow: an event is in the canonical store exactly when it is in the
\* outbox, and only for an entry that is committed, wherever a session fails.
THEOREM EventsAfterTheirEntries == Spec => []EventsFollowTheJournal
<1>1. Init => EventsInv
  BY DEF Init, EventsInv, EventsFollowTheJournal
<1>2. EventsInv => EventsFollowTheJournal
  BY DEF EventsInv
<1> QED
  BY <1>1, <1>2, EventsNext, PTL DEF Spec

-----------------------------------------------------------------------------
(* Profit and cash                                                         *)

\* The sum of an account over some of the entries of J is a sum of SumProofs.
LEMMA AccountSum ==
    ASSUME NEW J, NEW E \in SUBSET J, NEW account
    PROVE  SumAccount(E, account) = SumOver([e \in J |-> e.lines[account]], E)
<1> DEFINE F == [e \in J |-> e.lines[account]]
           value(e) == e.lines[account]
           H(h) == h = [s \in SUBSET E |->
                          IF s = {} THEN 0 ELSE value(Pick(s)) + h[s \ {Pick(s)}]]
<1>1. ASSUME NEW s \in SUBSET E, s # {}
      PROVE  F[Pick(s)] = value(Pick(s))
  BY <1>1, Picked
<1>2. ASSUME NEW h PROVE H(h) <=> IsSum(h, F, E)
  <2>1. ASSUME NEW s \in SUBSET E
        PROVE  (IF s = {} THEN 0 ELSE value(Pick(s)) + h[s \ {Pick(s)}])
                  = (IF s = {} THEN 0 ELSE F[Pick(s)] + h[s \ {Pick(s)}])
    BY <1>1
  <2> HIDE DEF value, F
  <2> QED
    BY <2>1, Zenon DEF IsSum
<1>3. (CHOOSE h : H(h)) = (CHOOSE h : IsSum(h, F, E))
  <2> HIDE DEF H
  <2> QED
    BY <1>2, Zenon
<1>4. SumAccount(E, account) = (CHOOSE h : H(h))[E]
  BY DEF SumAccount, MapThenSumSet, MapThenFoldSet, Pick
<1> QED
  BY <1>3, <1>4, SumUnfolded

\* What the balances gained is one, too.
Gained(balances) == SumOver([b \in Balances |-> balances[b].total - Opening[b].total], Balances)

LEMMA GainedSum ==
    ASSUME NEW balances, NEW entries
    PROVE  CashGained(balances, entries)
             = Gained(balances) + SumAccount(entries, "position_cost")
                 + SumAccount(entries, "balance_correction")
<1> DEFINE F == [b \in Balances |-> balances[b].total - Opening[b].total]
           value(b) == balances[b].total - Opening[b].total
           H(h) == h = [s \in SUBSET Balances |->
                          IF s = {} THEN 0 ELSE value(Pick(s)) + h[s \ {Pick(s)}]]
<1>1. ASSUME NEW s \in SUBSET Balances, s # {}
      PROVE  F[Pick(s)] = value(Pick(s))
  BY <1>1, Picked
<1>2. ASSUME NEW h PROVE H(h) <=> IsSum(h, F, Balances)
  <2>1. ASSUME NEW s \in SUBSET Balances
        PROVE  (IF s = {} THEN 0 ELSE value(Pick(s)) + h[s \ {Pick(s)}])
                  = (IF s = {} THEN 0 ELSE F[Pick(s)] + h[s \ {Pick(s)}])
    BY <1>1
  <2> HIDE DEF value, F
  <2> QED
    BY <2>1, Zenon DEF IsSum
<1>3. (CHOOSE h : H(h)) = (CHOOSE h : IsSum(h, F, Balances))
  <2> HIDE DEF H
  <2> QED
    BY <1>2, Zenon
<1>4. CashGained(balances, entries)
        = (CHOOSE h : H(h))[Balances] + SumAccount(entries, "position_cost")
            + SumAccount(entries, "balance_correction")
  BY DEF CashGained, MapThenSumSet, MapThenFoldSet, Pick
<1> QED
  BY <1>3, <1>4, SumUnfolded DEF Gained

\* Entries the sums are defined on.
EntriesOK(J) == IsFiniteSet(J) /\ \A e \in J : e.lines \in [Accounts -> Int]

\* The sum of an account over a part of the journal and over the rest.
LEMMA AccountSplit ==
    ASSUME NEW J, EntriesOK(J), NEW U \in SUBSET J, NEW a \in Accounts
    PROVE  /\ SumAccount(J, a) \in Int /\ SumAccount(U, a) \in Int /\ SumAccount(J \ U, a) \in Int
           /\ SumAccount(J, a) = SumAccount(U, a) + SumAccount(J \ U, a)
<1> DEFINE F == [e \in J |-> e.lines[a]]
<1>1. \A e \in J : F[e] \in Int
  BY DEF EntriesOK
<1>2. IsFiniteSet(J) /\ IsFiniteSet(U) /\ IsFiniteSet(J \ U)
  BY FS_Subset DEF EntriesOK
<1>3. /\ SumAccount(J, a) = SumOver(F, J) /\ SumAccount(U, a) = SumOver(F, U)
      /\ SumAccount(J \ U, a) = SumOver(F, J \ U)
  BY AccountSum
<1> HIDE DEF F
<1>4. SumOver(F, J) = SumOver(F, U) + SumOver(F, J \ U)
  BY <1>1, <1>2, SumSplit
<1>5. SumOver(F, J) \in Int /\ SumOver(F, U) \in Int /\ SumOver(F, J \ U) \in Int
  BY <1>1, <1>2, SumType
<1> QED
  BY <1>3, <1>4, <1>5

\* One more entry adds its line.
LEMMA AccountAdd ==
    ASSUME NEW J, NEW e, e \notin J, EntriesOK(J), e.lines \in [Accounts -> Int],
           NEW a \in Accounts
    PROVE  SumAccount(J \cup {e}, a) = SumAccount(J, a) + e.lines[a]
<1> DEFINE K == J \cup {e}
           F == [d \in K |-> d.lines[a]]
<1>1. \A d \in K : F[d] \in Int
  BY DEF EntriesOK
<1>2. F[e] = e.lines[a] /\ e.lines[a] \in Int
  OBVIOUS
<1>3. SumAccount(K, a) = SumOver(F, K) /\ SumAccount(J, a) = SumOver(F, J)
  BY AccountSum
<1>4. IsFiniteSet(J) /\ \A d \in J \cup {e} : F[d] \in Int
  BY <1>1 DEF EntriesOK
<1> HIDE DEF F
<1>5. SumOver(F, J \cup {e}) = F[e] + SumOver(F, J)
  BY <1>4, SumAdd
<1>6. SumOver(F, J) \in Int
  BY <1>4, SumType
<1> QED
  BY <1>2, <1>3, <1>5, <1>6

\* The PnL that the whole journal attributes.
TotalPnl(J) == -SumAccount(J, "realized_trading_pnl") - SumAccount(J, "fees_paid")
                 + -SumAccount(J, "rebates_received") + -SumAccount(J, "settlement_pnl")

\* Two adjacent periods attribute what the whole journal does: their ends are half open.
LEMMA PeriodsAddUp ==
    ASSUME NEW J, EntriesOK(J), \A e \in J : e.at \in 0 .. Horizon - 1, NEW t \in Int, 0 <= t
    PROVE  /\ AttributedPnl(J, 0, Horizon) = TotalPnl(J)
           /\ AttributedPnl(J, 0, t) + AttributedPnl(J, t, Horizon) = TotalPnl(J)
<1> DEFINE U == {e \in J : InPeriod(e, 0, t)}
<1>1. Horizon \in Int
  BY StoreAssumption DEF StoreAssumption
<1>2. {e \in J : InPeriod(e, 0, Horizon)} = J
  BY <1>1 DEF InPeriod
<1>3. {e \in J : InPeriod(e, t, Horizon)} = J \ U
  BY <1>1 DEF InPeriod
<1>4. U \in SUBSET J
  OBVIOUS
<1>5. /\ AttributedPnl(J, 0, Horizon) = TotalPnl(J)
      /\ AttributedPnl(J, 0, t) = TotalPnl(U)
      /\ AttributedPnl(J, t, Horizon) = TotalPnl(J \ U)
  BY <1>2, <1>3 DEF AttributedPnl, PnlAttribution, TotalPnl
<1> HIDE DEF U
<1>6. \A a \in {"realized_trading_pnl", "fees_paid", "rebates_received", "settlement_pnl"} :
        /\ SumAccount(J, a) \in Int /\ SumAccount(U, a) \in Int /\ SumAccount(J \ U, a) \in Int
        /\ SumAccount(J, a) = SumAccount(U, a) + SumAccount(J \ U, a)
  BY <1>4, AccountSplit DEF Accounts
<1>7. TotalPnl(U) + TotalPnl(J \ U) = TotalPnl(J)
  BY <1>6 DEF TotalPnl
<1> QED
  BY <1>5, <1>7

\* The entry of a job: it lies before the horizon, and moves its balance, or the two of a
\* transfer, by its cash lines.
EntryShape(j, e) ==
    /\ e.at \in 0 .. Horizon - 1
    /\ IF j.kind = "transfer" THEN e.lines["cash"] = 0 /\ j.source # j.target
       ELSE e.lines["outbound"] = 0 /\ e.lines["inbound"] = 0

\* Lines that are not named are 0.
LEMMA UnnamedLines ==
    ASSUME NEW id, NEW at, NEW lines
    PROVE  /\ Entry(id, at, lines).at = at
           /\ \A a \in Accounts \ DOMAIN lines : Entry(id, at, lines).lines[a] = 0
BY DEF Entry

\* A settlement that was accepted has the time of its record.
LEMMA SettledInTime ==
    ASSUME NEW id \in DOMAIN Settlements, SettlementRow(id).settled_at # None
    PROVE  SettlementRow(id).settled_at \in 0 .. Horizon - 1
<1>1. Settlements[id] \in SettlementRecords /\ Settlements[id].settled_at \in 1 .. Horizon - 1
  BY JobsAssumption, StoreAssumption DEF JobsAssumption, StoreAssumption
<1> DEFINE at == IF settlements[id] = "finalized" THEN None ELSE Settlements[id].settled_at
           x == [Settlements[id] EXCEPT !.status = settlements[id], !.settled_at = at]
<1>2. SettlementRow(id) = x
  BY DEF SettlementRow
<1> HIDE DEF at
<1>3. x.settled_at = at
  BY <1>1 DEF SettlementRecords
<1>4. at = Settlements[id].settled_at
  BY <1>2, <1>3 DEF at
<1>5. Horizon \in Int
  BY StoreAssumption DEF StoreAssumption
<1> HIDE DEF x
<1> QED
  BY <1>1, <1>2, <1>3, <1>4, <1>5

\* What a helper returns has an entry of this shape.
LEMMA OutcomeShape ==
    ASSUME NEW j \in Jobs, NEW view,
           NEW r, r = Outcome(j, view, Was(j), SettledRow(j), PreviousRow(j)),
           r.outcome = "applied"
    PROVE  EntryShape(j, r.entry)
<1>1. JobOK(j) /\ j.at \in 1 .. Horizon - 1 /\ Horizon \in Int
  BY JobFields, StoreAssumption DEF StoreAssumption
<1>2. CASE j.kind = "fill"
  <2>1. r = ApplyFillOnce(view, j)
    BY <1>2 DEF Outcome
  <2>2. PICK f, b : r = FillToCash(f, j, b) /\ \E p, x, y : f = FillOnce(p, j, x, y)
    BY <2>1 DEF ApplyFillOnce
  <2>3. f.outcome = "applied" /\ r.entry = f.entry
    BY <2>2 DEF FillToCash, Applied, Refused
  <2>4. PICK p : f = FillJournal(j, p)
    BY <2>2, <2>3 DEF FillOnce, Duplicate, Refused
  <2>5. r.entry = FillEntry(j, p)
    BY <2>3, <2>4 DEF FillJournal
  <2> QED
    BY <1>1, <1>2, <2>5, UnnamedLines DEF FillEntry, EntryShape, Accounts
<1>3. CASE j.kind \in {"fee", "rebate"}
  <2>1. \E e \in {FeeEntry(j), RebateEntry(j)} : r = ApplyCashEntryOnce(view, j, e)
    BY <1>3 DEF Outcome
  <2>2. r.entry \in {FeeEntry(j), RebateEntry(j)}
    BY <2>1 DEF ApplyCashEntryOnce, Once, Applied, Refused, Duplicate
  <2> QED
    BY <1>1, <1>3, <2>2, UnnamedLines DEF FeeEntry, RebateEntry, EntryShape, Accounts
<1>4. CASE j.kind = "transfer"
  <2>1. r = ApplyTransferOnce(view, j)
    BY <1>4 DEF Outcome
  <2>2. r.entry = TransferEntry(j) /\ j.source # j.target
    BY <2>1 DEF ApplyTransferOnce, TransferAccepted, Once, Applied, Refused, Duplicate
  <2> QED
    BY <1>1, <1>4, <2>2, UnnamedLines DEF TransferEntry, EntryShape, Accounts
<1>5. CASE j.kind = "observed"
  <2>1. r = ApplyBalanceCorrectionOnce(view, j)
    BY <1>5 DEF Outcome
  <2>2. \E b : r.entry = BalanceCorrectionEntry(b, j)
    BY <2>1 DEF ApplyBalanceCorrectionOnce, Once, Applied, Refused, Duplicate
  <2> QED
    BY <1>1, <1>5, <2>2, UnnamedLines DEF BalanceCorrectionEntry, EntryShape, Accounts
<1>6. CASE j.kind \in {"settlement", "correction"}
  <2> DEFINE x == SettlementRow(j.settlement)
  <2>1. j.settlement \in DOMAIN Settlements /\ SettledRow(j) = x
    BY <1>1, <1>6 DEF JobOK, SettledRow
  <2>2. x.settled_at # None => x.settled_at \in 0 .. Horizon - 1
    BY <2>1, SettledInTime
  <2> HIDE DEF x
  <2>3. /\ x.settled_at # None
        /\ \E id, a : r.entry = SettlementEntry(id, x.settled_at, a)
    <3>1. CASE j.kind = "settlement"
      <4>1. r = ApplySettlementOnce(view, j.contract, j.balance, x)
        BY <2>1, <3>1 DEF Outcome
      <4> QED
        BY <4>1 DEF ApplySettlementOnce, SettlementAccepted, Once, Applied, Refused, Duplicate
    <3>2. CASE j.kind = "correction"
      <4>1. r = ApplyCorrectionOnce(view, Was(j), j.contract, j.balance, PreviousRow(j), x)
        BY <2>1, <3>2 DEF Outcome
      <4> QED
        BY <4>1 DEF ApplyCorrectionOnce, CorrectionIdentity, SettlementAccepted,
                    CorrectionEntry, Once, Applied, Refused, Duplicate
    <3> QED
      BY <1>6, <3>1, <3>2
  <2> QED
    BY <1>1, <1>6, <2>2, <2>3, UnnamedLines DEF SettlementEntry, EntryShape, Accounts
<1> QED
  BY <1>1, <1>2, <1>3, <1>4, <1>5, <1>6 DEF JobOK

\* One, or for a transfer two, of the balances move.
LEMMA GainedMoves ==
    ASSUME NEW old \in [Balances -> CashRows], NEW new, NEW j \in Jobs, NEW e,
           e.lines \in [Accounts -> Int], EntryShape(j, e),
           \A b \in Balances : new[b].total = old[b].total + CashMove(j, e, b)
    PROVE  /\ Gained(old) \in Int
           /\ Gained(new) = Gained(old) + e.lines["cash"] + e.lines["outbound"]
                              + e.lines["inbound"]
<1> DEFINE F == [b \in Balances |-> old[b].total - Opening[b].total]
           G == [b \in Balances |-> new[b].total - Opening[b].total]
<1>1. IsFiniteSet(Balances) /\ \A b \in Balances : Opening[b].total \in Int
  BY StoreAssumption, BooksAssumption DEF StoreAssumption, BooksAssumption
<1>2. /\ e.lines["cash"] \in Int /\ e.lines["outbound"] \in Int /\ e.lines["inbound"] \in Int
  BY DEF Accounts
<1>3. \A b \in Balances : old[b].total \in Int /\ CashMove(j, e, b) \in Int
  BY <1>2 DEF CashRows, CashMove
<1>4. \A b \in Balances : F[b] \in Int /\ G[b] = F[b] + CashMove(j, e, b)
  BY <1>1, <1>3
<1>5. Gained(old) = SumOver(F, Balances) /\ Gained(new) = SumOver(G, Balances)
  BY DEF Gained
<1>6. JobOK(j)
  BY JobFields
<1>7. DOMAIN F = Balances
  OBVIOUS
<1> HIDE DEF F, G
<1>8. SumOver(F, Balances) \in Int
  BY <1>1, <1>4, SumType
<1>9. CASE j.kind # "transfer"
  <2>1. j.balance \in Balances /\ e.lines["outbound"] = 0 /\ e.lines["inbound"] = 0
    BY <1>6, <1>9 DEF JobOK, EntryShape
  <2>2. /\ G[j.balance] = F[j.balance] + e.lines["cash"]
        /\ \A b \in Balances \ {j.balance} : G[b] = F[b]
    BY <1>4, <1>9, <2>1 DEF CashMove
  <2>3. SumOver(G, Balances) = SumOver(F, Balances) + e.lines["cash"]
    BY <1>1, <1>2, <1>4, <2>1, <2>2, SumMoved
  <2> QED
    BY <1>2, <1>5, <1>8, <2>1, <2>3
<1>10. CASE j.kind = "transfer"
  <2>1. /\ j.source \in Balances /\ j.target \in Balances /\ j.source # j.target
        /\ e.lines["cash"] = 0
    BY <1>6, <1>10 DEF JobOK, EntryShape
  <2>2. /\ G[j.source] = F[j.source] + e.lines["outbound"]
        /\ G[j.target] = F[j.target] + e.lines["inbound"]
        /\ \A b \in Balances \ {j.source, j.target} : G[b] = F[b]
    BY <1>4, <1>10, <2>1 DEF CashMove
  <2> DEFINE M == [F EXCEPT ![j.source] = F[j.source] + e.lines["outbound"]]
  <2>3. /\ \A b \in Balances : M[b] \in Int
        /\ M[j.source] = F[j.source] + e.lines["outbound"]
        /\ \A b \in Balances \ {j.source} : M[b] = F[b]
    BY <1>2, <1>4, <1>7, <2>1
  <2>4. G[j.target] = M[j.target] + e.lines["inbound"]
        /\ \A b \in Balances \ {j.target} : G[b] = M[b]
    BY <2>1, <2>2, <2>3
  <2> HIDE DEF M
  <2>5. SumOver(M, Balances) = SumOver(F, Balances) + e.lines["outbound"]
    BY <1>1, <1>2, <1>4, <2>1, <2>3, SumMoved
  <2>6. SumOver(G, Balances) = SumOver(M, Balances) + e.lines["inbound"]
    BY <1>1, <1>2, <2>1, <2>3, <2>4, SumMoved
  <2> QED
    BY <1>2, <1>5, <1>8, <2>1, <2>5, <2>6
<1> QED
  BY <1>5, <1>8, <1>9, <1>10

\* What the balances gained is what the journal attributes, and stays so: whoever is about
\* to write has an entry that moves the balances by its own cash lines.
PnlInv ==
    /\ EntriesOK(journal) /\ \A e \in journal : e.at \in 0 .. Horizon - 1
    /\ TotalPnl(journal) = CashGained(cash, journal)
    /\ \A s \in Sessions : pc[s] = "write" => EntryShape(job[s], result[s].entry)

\* The books at the start.
LEMMA PnlInit == Init => PnlInv
<1> SUFFICES ASSUME Init PROVE PnlInv
  OBVIOUS
<1>1. cash = ExchangeBooks(Past).cash /\ journal = ExchangeBooks(Past).entries
  BY DEF Init
<1>2. /\ IsFiniteSet(journal) /\ \A e \in journal : e.at \in 0 .. Horizon - 1
      /\ AttributedPnl(journal, 0, Horizon) = CashGained(cash, journal)
  BY <1>1, BooksAssumption DEF BooksAssumption
<1>3. EntriesOK(journal)
  BY <1>1, <1>2, StartAssumption DEF StartAssumption, EntriesOK
<1>4. TotalPnl(journal) = CashGained(cash, journal)
  BY <1>2, <1>3, PeriodsAddUp
<1>5. \A s \in Sessions : pc[s] = "idle"
  BY DEF Init
<1> QED
  BY <1>2, <1>3, <1>4, <1>5 DEF PnlInv

\* A commit adds a balanced entry: what it takes from the balances it attributes.
LEMMA CommitExplains ==
    ASSUME StoreInv, PnlInv, NEW s \in Sessions, Commit(s)
    PROVE  /\ EntriesOK(journal') /\ \A e \in journal' : e.at \in 0 .. Horizon - 1
           /\ TotalPnl(journal') = CashGained(cash', journal')
<1>1. PICK r, j, e, J : r = result[s] /\ j = job[s] /\ e = r.entry /\ J = journal
  OBVIOUS
<1>2. /\ PendingOK(j, r) /\ e.id \notin JournalIds /\ journal' = J \cup {e}
      /\ j \in Jobs /\ e.lines \in [Accounts -> Int] /\ Balanced(e)
  <2>1. PendingOK(j, r) /\ e.id \notin JournalIds /\ journal' = J \cup {e}
    BY <1>1, CommitSaves
  <2> QED
    BY <1>1, <2>1 DEF PendingOK
<1>3. e \notin J /\ EntriesOK(J)
  BY <1>1, <1>2 DEF JournalIds, PnlInv
<1>4. EntryShape(j, e) /\ pc[s] = "write"
  BY <1>1 DEF Commit, PnlInv
<1>5. EntriesOK(journal') /\ \A d \in journal' : d.at \in 0 .. Horizon - 1
  <2>1. IsFiniteSet(journal')
    BY <1>2, <1>3, FS_AddElement DEF EntriesOK
  <2> QED
    BY <1>1, <1>2, <1>3, <1>4, <2>1 DEF EntriesOK, PnlInv, EntryShape
<1>6. \A a \in Accounts : /\ SumAccount(J \cup {e}, a) = SumAccount(J, a) + e.lines[a]
                          /\ SumAccount(J, a) \in Int /\ e.lines[a] \in Int
  <2> TAKE a \in Accounts
  <2>1. J \in SUBSET J
    OBVIOUS
  <2>2. SumAccount(J, a) \in Int
    BY <1>3, <2>1, AccountSplit
  <2> QED
    BY <1>2, <1>3, <2>2, AccountAdd
<1>7. PICK old, new : old = cash /\ new = cash'
  OBVIOUS
<1>8. /\ Gained(old) \in Int
      /\ Gained(new) = Gained(old) + e.lines["cash"] + e.lines["outbound"] + e.lines["inbound"]
  <2>1. \A b \in Balances : new[b].total = old[b].total + CashMove(j, e, b)
    BY <1>1, <1>7, CommitMovesCash
  <2>2. old \in [Balances -> CashRows]
    BY <1>7 DEF StoreInv, TablesOK, RowsOK
  <2> QED
    BY <1>2, <1>4, <2>1, <2>2, GainedMoves
<1>9. /\ CashGained(old, J) = Gained(old) + SumAccount(J, "position_cost")
                                + SumAccount(J, "balance_correction")
      /\ CashGained(new, J \cup {e})
           = Gained(new) + SumAccount(J \cup {e}, "position_cost")
               + SumAccount(J \cup {e}, "balance_correction")
  BY GainedSum
<1>10. TotalPnl(J) = CashGained(old, J)
  BY <1>1, <1>7 DEF PnlInv
<1>11. TotalPnl(J \cup {e}) = CashGained(new, J \cup {e})
  <2> DEFINE sum(a) == SumAccount(J, a)
             more(a) == SumAccount(J \cup {e}, a)
             line(a) == e.lines[a]
  <2>1. \A a \in Accounts : more(a) = sum(a) + line(a) /\ sum(a) \in Int /\ line(a) \in Int
    BY <1>6
  <2>2. line("cash") + line("outbound") + line("inbound") + line("position_cost")
          + line("realized_trading_pnl") + line("settlement_pnl") + line("fees_paid")
          + line("rebates_received") + line("balance_correction") = 0
    BY <1>2 DEF Balanced
  <2>3. /\ Gained(old) \in Int
        /\ Gained(new) = Gained(old) + line("cash") + line("outbound") + line("inbound")
    BY <1>8
  <2>4. -sum("realized_trading_pnl") - sum("fees_paid") + -sum("rebates_received")
          + -sum("settlement_pnl")
            = Gained(old) + sum("position_cost") + sum("balance_correction")
    BY <1>9, <1>10 DEF TotalPnl
  <2>5. /\ TotalPnl(J \cup {e}) = -more("realized_trading_pnl") - more("fees_paid")
                                    + -more("rebates_received") + -more("settlement_pnl")
        /\ CashGained(new, J \cup {e})
             = Gained(new) + more("position_cost") + more("balance_correction")
    BY <1>9 DEF TotalPnl
  <2> HIDE DEF sum, more, line
  <2>6. /\ line("cash") \in Int /\ line("outbound") \in Int /\ line("inbound") \in Int
        /\ \A a \in {"position_cost", "realized_trading_pnl", "settlement_pnl", "fees_paid",
                     "rebates_received", "balance_correction"} :
              more(a) = sum(a) + line(a) /\ sum(a) \in Int /\ line(a) \in Int
    BY <2>1 DEF Accounts
  <2> QED
    BY <2>2, <2>3, <2>4, <2>5, <2>6
<1> QED
  BY <1>2, <1>5, <1>7, <1>11

\* Every step keeps it.
LEMMA PnlNext == StoreInv /\ PnlInv /\ [Next]_vars => PnlInv'
<1> SUFFICES ASSUME StoreInv, PnlInv, [Next]_vars PROVE PnlInv'
  OBVIOUS
<1>0. /\ DOMAIN pc = Sessions /\ DOMAIN job = Sessions /\ DOMAIN result = Sessions
  BY DEF StoreInv, TablesOK
<1>1. ASSUME UNCHANGED <<cash, journal>>,
             \A t \in Sessions : pc'[t] = "write" => EntryShape(job'[t], result'[t].entry)
      PROVE  PnlInv'
  BY <1>1, Zenon DEF PnlInv
<1>2. ASSUME NEW s \in Sessions, Reset(s)
      PROVE  \A t \in Sessions : pc'[t] = "write" => EntryShape(job'[t], result'[t].entry)
  BY <1>0, <1>2 DEF Reset, PnlInv
<1>3. ASSUME NEW s \in Sessions, NEW j \in Jobs, ReadPositions(s, j) PROVE PnlInv'
  <2>1. \A t \in Sessions : pc'[t] = "write" => EntryShape(job'[t], result'[t].entry)
    BY <1>0, <1>3 DEF ReadPositions, PnlInv
  <2> QED
    BY <1>1, <1>3, <2>1 DEF ReadPositions, tables
<1>4. ASSUME NEW s \in Sessions, ApplyJob(s) PROVE PnlInv'
  <2> DEFINE j == job[s]
             view == [positions |-> seen[s], cash |-> cash, ids |-> JournalIds]
             r == Outcome(j, view, Was(j), SettledRow(j), PreviousRow(j))
  <2>1. \/ /\ r.outcome = "applied"
           /\ pc' = [pc EXCEPT ![s] = "write"]
           /\ result' = [result EXCEPT ![s] = r] /\ UNCHANGED job
        \/ Reset(s)
    BY <1>4 DEF ApplyJob, Was, SettledRow, PreviousRow
  <2>2. j \in Jobs /\ UNCHANGED <<cash, journal>>
    BY <1>4 DEF ApplyJob, StoreInv, SessionOK, ReadOK, tables
  <2>3. r.outcome = "applied" => EntryShape(j, r.entry)
    BY <2>2, OutcomeShape
  <2> HIDE DEF r
  <2>4. \A t \in Sessions : pc'[t] = "write" => EntryShape(job'[t], result'[t].entry)
    BY <1>0, <1>2, <2>1, <2>3 DEF PnlInv
  <2> QED
    BY <1>1, <2>2, <2>4
<1>5. ASSUME NEW s \in Sessions, Write(s) PROVE PnlInv'
  <2>1. \/ UNCHANGED <<pc, job, result>>
        \/ Reset(s)
    BY <1>5 DEF Write
  <2>2. \A t \in Sessions : pc'[t] = "write" => EntryShape(job'[t], result'[t].entry)
    BY <1>2, <2>1 DEF PnlInv
  <2> QED
    BY <1>1, <1>5, <2>2 DEF Write, tables
<1>6. ASSUME NEW s \in Sessions, Commit(s) PROVE PnlInv'
  <2>1. \/ pc' = [pc EXCEPT ![s] = "events"] /\ UNCHANGED <<job, result>>
        \/ Reset(s)
    BY <1>6 DEF Commit
  <2>2. \A t \in Sessions : pc'[t] = "write" => EntryShape(job'[t], result'[t].entry)
    BY <1>0, <1>2, <2>1 DEF PnlInv
  <2>3. /\ EntriesOK(journal') /\ \A e \in journal' : e.at \in 0 .. Horizon - 1
        /\ TotalPnl(journal') = CashGained(cash', journal')
    BY <1>6, CommitExplains
  <2> QED
    BY <2>2, <2>3, Zenon DEF PnlInv
<1>7. ASSUME NEW s \in Sessions, PersistEvents(s) \/ Fail(s) PROVE PnlInv'
  <2>1. Reset(s) /\ UNCHANGED <<cash, journal>>
    BY <1>7 DEF PersistEvents, Fail, tables
  <2> QED
    BY <1>1, <1>2, <2>1
<1>8. ASSUME UNCHANGED <<cash, journal, pc, job, result>> PROVE PnlInv'
  BY <1>8, Zenon DEF PnlInv
<1>9. ASSUME NEW x \in DOMAIN Settlements, NEW status, SaveSettlement(x, status) PROVE PnlInv'
  BY <1>8, <1>9 DEF SaveSettlement, sessionVars
<1>10. CASE StartReconciliation \/ \E n \in 0 .. Len(Exchange) : Reconcile(n)
  BY <1>8, <1>10 DEF StartReconciliation, Reconcile, tables, sessionVars
<1>11. CASE UNCHANGED vars
  BY <1>8, <1>11 DEF vars, tables, sessionVars
<1> QED
  BY <1>3, <1>4, <1>5, <1>6, <1>7, <1>9, <1>10, <1>11 DEF Next

\* build_journal_pnl_attribution explains the cash balances: whatever the projectors do, and
\* wherever the time line is cut in two, the attributed PnL of both periods is what the
\* balances gained, up to corrections to observed balances and to the cost still held.
THEOREM ProfitExplainsCash == Spec /\ []NothingRounds => []PnlIsCash
<1>1. PnlInv => PnlIsCash
  <2> SUFFICES ASSUME PnlInv, NEW e \in journal
               PROVE  AttributedPnl(journal, 0, e.at) + AttributedPnl(journal, e.at, Horizon)
                        = CashGained(cash, journal)
    BY DEF PnlIsCash
  <2>1. /\ EntriesOK(journal) /\ \A d \in journal : d.at \in 0 .. Horizon - 1
        /\ TotalPnl(journal) = CashGained(cash, journal)
    BY DEF PnlInv
  <2>2. PICK t : t = e.at
    OBVIOUS
  <2>3. t \in Int /\ 0 <= t
    BY <2>1, <2>2
  <2>4. AttributedPnl(journal, 0, t) + AttributedPnl(journal, t, Horizon) = TotalPnl(journal)
    BY <2>1, <2>3, PeriodsAddUp
  <2> QED
    BY <2>1, <2>2, <2>4
<1>2. Spec /\ []NothingRounds => []StoreInv
  BY StoreInit, StoreNext, PTL DEF Spec
<1> QED
  BY <1>1, <1>2, PnlInit, PnlNext, PTL DEF Spec

-----------------------------------------------------------------------------
(* Corrections                                                             *)

\* The amounts of a settlement row are those of its record.
LEMMA RowAmounts ==
    ASSUME NEW id \in DOMAIN Settlements, NEW p
    PROVE  /\ SettlementAccounting(p, SettlementRow(id)) = SettlementAccounting(p, Settlements[id])
           /\ SettlementRow(id).payout = Settlements[id].payout
<1>1. Settlements[id] \in SettlementRecords
  BY JobsAssumption DEF JobsAssumption
<1> DEFINE at == IF settlements[id] = "finalized" THEN None ELSE Settlements[id].settled_at
           x == [Settlements[id] EXCEPT !.status = settlements[id], !.settled_at = at]
<1>2. SettlementRow(id) = x
  BY DEF SettlementRow
<1> HIDE DEF at
<1>3. x.winners = Settlements[id].winners /\ x.payout = Settlements[id].payout
  BY <1>1 DEF SettlementRecords
<1> HIDE DEF x
<1> QED
  BY <1>2, <1>3 DEF SettlementAccounting

\* What a settlement posts.
LEMMA SettlementExplained ==
    ASSUME TablesOK, NEW j, NEW ps, ReadOK(j, ps), ExactJob(j, ps), NEW ids,
           j.kind = "settlement",
           NEW r, r = Outcome(j, [positions |-> ps, cash |-> cash, ids |-> ids],
                              Was(j), SettledRow(j), PreviousRow(j)),
           r.outcome = "applied"
    PROVE  Explained(j, r.entry, ps[j.contract])
<1> DEFINE x == SettlementRow(j.settlement)
           p == ps[j.contract]
           a == SettlementAccounting(p, x)
           view == [positions |-> ps, cash |-> cash, ids |-> ids]
           id == SettlementEntryId(j.contract, x)
           e == SettlementEntry(id, x.settled_at, a)
<1>1. j \in Jobs /\ JobOK(j)
  BY JobFields DEF ReadOK
<1>2. j.contract \in Contracts /\ j.settlement \in DOMAIN Settlements
  BY <1>1 DEF JobOK
<1>3. SettledRow(j) = x
  BY DEF SettledRow
<1>4. r = ApplySettlementOnce(view, j.contract, j.balance, x) /\ ExactSettlement(p, x)
  BY <1>3 DEF Outcome, ExactJob
<1>5. r.entry = e /\ p # None /\ p.average # None /\ x.payout # None
  BY <1>4 DEF ApplySettlementOnce, SettlementAccepted, Once, Applied, Refused, Duplicate
<1>6. p \in PositionRows /\ x.payout \in Int \cup {None} /\ ExactAmounts(p, x)
  BY <1>2, <1>4, <1>5, SettlementRowFields DEF ReadOK, ExactSettlement
<1>7. a = SettlementAccounting(p, Settlements[j.settlement])
  BY <1>2, RowAmounts
<1> HIDE DEF x, p, e, id
<1>8. a.cash \in Int /\ a.cost \in Int /\ a.pnl = a.cash - a.cost
  BY <1>5, <1>6, SettlementAmounts
<1> HIDE DEF a
<1>9. a.pnl \in Int
  BY <1>8
<1>10. e.lines["cash"] = a.cash /\ e.lines["settlement_pnl"] = -a.pnl
  BY <1>8, <1>9, SettlementEntryFields DEF e
<1>11. Explained(j, e, p)
  BY <1>5, <1>7, <1>8, <1>9, <1>10 DEF Explained
<1> QED
  BY <1>5, <1>11 DEF p

\* What a correction posts.
LEMMA CorrectionExplained ==
    ASSUME TablesOK, NEW j, NEW ps, ReadOK(j, ps), ExactJob(j, ps), NEW ids,
           j.kind = "correction",
           NEW r, r = Outcome(j, [positions |-> ps, cash |-> cash, ids |-> ids],
                              Was(j), SettledRow(j), PreviousRow(j)),
           r.outcome = "applied"
    PROVE  Explained(j, r.entry, original[SettledKey(j)])
<1> DEFINE x == SettlementRow(j.settlement)
           y == SettlementRow(j.previous)
           was == original[SettledKey(j)]
           new == SettlementAccounting(was, x)
           old == SettlementAccounting(was, y)
           a == Correction(was, y, x)
           view == [positions |-> ps, cash |-> cash, ids |-> ids]
           id == CorrectionEntryId(j.contract, y, x)
           e == SettlementEntry(id, x.settled_at, a)
<1>1. j \in Jobs /\ JobOK(j)
  BY JobFields DEF ReadOK
<1>2. /\ j.contract \in Contracts /\ j.settlement \in DOMAIN Settlements
      /\ j.previous \in DOMAIN Settlements
  BY <1>1 DEF JobOK
<1>3. SettledRow(j) = x /\ PreviousRow(j) = y /\ Was(j) = was
      /\ SettledKey(j) = <<j.contract, j.previous>>
  BY DEF SettledRow, PreviousRow, Was, SettledKey
<1>4. /\ r = ApplyCorrectionOnce(view, was, j.contract, j.balance, y, x)
      /\ ExactCorrection(ps[j.contract], was, y, x)
  BY <1>3 DEF Outcome, ExactJob
<1>5. /\ r.entry = e /\ was # None /\ was.average # None /\ x.payout # None
      /\ y.payout # None
  BY <1>4 DEF ApplyCorrectionOnce, CorrectionIdentity, SettlementAccepted, CorrectionEntry,
              Once, Applied, Refused, Duplicate
<1>6. /\ was \in PositionRows /\ ps[j.contract] # None
      /\ x.payout \in Int \cup {None} /\ y.payout \in Int \cup {None}
  BY <1>2, <1>3, <1>5, SettlementRowFields DEF ReadOK, TablesOK
<1>7. /\ ExactAmounts(was, y) /\ ExactAmounts(was, x)
      /\ Exact(new.cash - old.cash) /\ Exact(new.cost - old.cost) /\ Exact(new.pnl - old.pnl)
  BY <1>4, <1>5, <1>6 DEF ExactCorrection
<1>8. /\ a.cash = Decimal(new.cash - old.cash) /\ a.cost = Decimal(new.cost - old.cost)
      /\ a.pnl = Decimal(new.pnl - old.pnl)
  BY DEF Correction
<1>9. /\ new = SettlementAccounting(was, Settlements[j.settlement])
      /\ old = SettlementAccounting(was, Settlements[j.previous])
  BY <1>2, RowAmounts
<1> HIDE DEF x, y, was, e, id
<1>10. old.cash \in Int /\ old.cost \in Int /\ old.pnl = old.cash - old.cost
  BY <1>5, <1>6, <1>7, SettlementAmounts
<1>11. new.cash \in Int /\ new.cost \in Int /\ new.pnl = new.cash - new.cost
  BY <1>5, <1>6, <1>7, SettlementAmounts
<1> HIDE DEF a, old, new
<1>12. /\ a.cash = new.cash - old.cash /\ a.cost = new.cost - old.cost
       /\ a.pnl = new.pnl - old.pnl
       /\ a.cash \in Int /\ a.cost \in Int /\ a.pnl \in Int
       /\ new.pnl \in Int /\ old.pnl \in Int
  BY <1>7, <1>8, <1>10, <1>11 DEF Exact
<1>13. e.lines["cash"] = a.cash /\ e.lines["settlement_pnl"] = -a.pnl
  BY <1>12, SettlementEntryFields DEF e
<1>14. e.lines["cash"] = new.cash - old.cash /\ e.lines["settlement_pnl"] = old.pnl - new.pnl
  BY <1>12, <1>13
<1>15. Explained(j, e, was)
  BY <1>5, <1>9, <1>10, <1>11, <1>12, <1>14 DEF Explained
<1> QED
  BY <1>5, <1>15 DEF was

\* The position whose settlement a session is about to write, or whose settlement it
\* corrects.
Settling(j, p) == IF j.kind = "settlement" THEN p ELSE original[SettledKey(j)]

\* The entries of settlements and corrections, in the journal and on their way there.
CorrectionInv ==
    /\ EntriesOK(journal) /\ SettledOK(journal, original)
    /\ \A s \in Sessions : pc[s] = "write" /\ job[s].kind \in {"settlement", "correction"} =>
          Explained(job[s], result[s].entry, Settling(job[s], seen[s]))

\* The books at the start.
LEMMA CorrectionInit == Init => CorrectionInv
<1> SUFFICES ASSUME Init PROVE CorrectionInv
  OBVIOUS
<1>1. journal = ExchangeBooks(Past).entries /\ original = ExchangeBooks(Past).original
  BY DEF Init
<1>2. EntriesOK(journal)
  BY <1>1, StartAssumption, BooksAssumption DEF StartAssumption, BooksAssumption, EntriesOK
<1>3. SettledOK(journal, original)
  BY <1>1, SettledAssumption DEF SettledAssumption
<1>4. \A s \in Sessions : pc[s] = "idle"
  BY DEF Init
<1> QED
  BY <1>2, <1>3, <1>4 DEF CorrectionInv

\* The entry of a settlement is new only if the position it closes has not been settled.
LEMMA FirstSettlement ==
    ASSUME SettledOK(journal, original),
           original \in [Contracts \X DOMAIN Settlements -> PositionRows \cup {None}],
           NEW j \in Jobs, j.kind = "settlement", EntryId(j) \notin JournalIds
    PROVE  SettledKey(j) \in DOMAIN original /\ original[SettledKey(j)] = None
<1>1. SettledKey(j) \in DOMAIN original
  BY JobFields DEF JobOK, SettledKey
<1>2. ASSUME original[SettledKey(j)] # None PROVE FALSE
  <2>1. PICK k \in Jobs : /\ k.kind = "settlement" /\ SettledKey(k) = SettledKey(j)
                          /\ EntryId(k) \in {e.id : e \in journal}
    BY <1>1, <1>2 DEF SettledOK
  <2>2. k.contract = j.contract /\ k.settlement = j.settlement
    BY <2>1 DEF SettledKey
  <2>3. EntryId(k) = EntryId(j)
    BY <2>1, <2>2 DEF EntryId
  <2> QED
    BY <2>1, <2>3 DEF JournalIds
<1> QED
  BY <1>1, <1>2

\* A commit: its entry is explained, and only the position it settles, which no entry was
\* about yet, is new.
LEMMA CommitSettles ==
    ASSUME StoreInv, CorrectionInv, NEW s \in Sessions, Commit(s)
    PROVE  /\ EntriesOK(journal') /\ SettledOK(journal', original')
           /\ \A k \in DOMAIN original : original[k] # None => original'[k] = original[k]
<1>1. PICK j, e, J, was, now, p : /\ j = job[s] /\ e = result[s].entry /\ J = journal
                                  /\ was = original /\ now = original' /\ p = seen[s]
  OBVIOUS
<1>2. /\ PendingOK(j, result[s]) /\ e.id \notin JournalIds /\ journal' = J \cup {e}
      /\ pc[s] = "write"
  BY <1>1, CommitSaves DEF Commit
<1>3. j \in Jobs /\ e.id = EntryId(j) /\ e.lines \in [Accounts -> Int]
  BY <1>1, <1>2 DEF PendingOK
<1>4. /\ now = IF j.kind = "settlement" THEN [was EXCEPT ![SettledKey(j)] = p] ELSE was
      /\ was \in [Contracts \X DOMAIN Settlements -> PositionRows \cup {None}]
  BY <1>1 DEF Commit, SettledKey, StoreInv, TablesOK
<1>5. EntriesOK(J) /\ SettledOK(J, was) /\ J = journal /\ was = original
  BY <1>1 DEF CorrectionInv
<1>6. /\ \A d, f \in J : d.id = f.id => d = f
      /\ \A d \in J : \A k \in Jobs :
            k.kind \in {"settlement", "correction"} /\ d.id = EntryId(k) =>
               Explained(k, d, was[SettledKey(k)])
      /\ \A i \in DOMAIN was : was[i] # None =>
            \E k \in Jobs : /\ k.kind = "settlement" /\ SettledKey(k) = i
                            /\ EntryId(k) \in {d.id : d \in J}
  BY <1>5 DEF SettledOK
<1>7. EntriesOK(journal')
  <2>1. IsFiniteSet(J \cup {e})
    BY <1>5, FS_AddElement DEF EntriesOK
  <2> QED
    BY <1>2, <1>3, <1>5, <2>1 DEF EntriesOK
<1>8. j.kind = "settlement" => SettledKey(j) \in DOMAIN was /\ was[SettledKey(j)] = None
  <2>1. EntryId(j) \notin JournalIds
    BY <1>2, <1>3
  <2> QED
    BY <1>3, <1>4, <1>5, <2>1, FirstSettlement
<1>9. /\ DOMAIN now = DOMAIN was
      /\ \A k \in DOMAIN was : was[k] # None => now[k] = was[k]
      /\ j.kind = "settlement" => now[SettledKey(j)] = p
      /\ \A k \in DOMAIN was : now[k] # None =>
            was[k] # None \/ (j.kind = "settlement" /\ k = SettledKey(j))
  BY <1>4, <1>8
<1>10. \A d, f \in J \cup {e} : d.id = f.id => d = f
  BY <1>2, <1>5, <1>6 DEF JournalIds
<1>11. ASSUME NEW d \in J \cup {e}, NEW k \in Jobs, k.kind \in {"settlement", "correction"},
              d.id = EntryId(k)
       PROVE  Explained(k, d, now[SettledKey(k)])
  <2>1. SettledKey(k) \in DOMAIN was
    BY <1>4, <1>11, JobFields DEF JobOK, SettledKey
  <2>2. CASE d \in J
    <3>1. Explained(k, d, was[SettledKey(k)])
      BY <1>6, <1>11, <2>2
    <3>2. was[SettledKey(k)] # None
      BY <3>1 DEF Explained
    <3> QED
      BY <1>9, <2>1, <3>1, <3>2
  <2>3. CASE d = e
    <3>1. k = j
      BY <1>3, <1>11, <2>3, IdsAssumption DEF IdsAssumption
    <3>2. Explained(j, e, IF j.kind = "settlement" THEN p ELSE was[SettledKey(j)])
      BY <1>1, <1>2, <1>11, <3>1 DEF CorrectionInv, Settling
    <3>3. CASE j.kind = "settlement"
      BY <1>9, <2>3, <3>1, <3>2, <3>3
    <3>4. CASE j.kind # "settlement"
      BY <1>4, <2>3, <3>1, <3>2, <3>4
    <3> QED
      BY <3>3, <3>4
  <2> QED
    BY <2>2, <2>3
<1>12. ASSUME NEW i \in DOMAIN now, now[i] # None
       PROVE  \E k \in Jobs : /\ k.kind = "settlement" /\ SettledKey(k) = i
                              /\ EntryId(k) \in {d.id : d \in J \cup {e}}
  <2>1. CASE was[i] # None
    BY <1>6, <1>9, <1>12, <2>1
  <2>2. CASE j.kind = "settlement" /\ i = SettledKey(j)
    BY <1>3, <2>2
  <2> QED
    BY <1>9, <1>12, <2>1, <2>2
<1>13. SettledOK(J \cup {e}, now)
  BY <1>10, <1>11, <1>12 DEF SettledOK
<1> QED
  BY <1>1, <1>2, <1>7, <1>9, <1>13

\* Every step keeps it.
LEMMA CorrectionNext ==
    StoreInv /\ NothingRounds /\ CorrectionInv /\ [Next]_vars => CorrectionInv'
<1> SUFFICES ASSUME StoreInv, NothingRounds, CorrectionInv, [Next]_vars PROVE CorrectionInv'
  OBVIOUS
<1> DEFINE Writing(t) ==
             pc[t] = "write" /\ job[t].kind \in {"settlement", "correction"} =>
                Explained(job[t], result[t].entry, Settling(job[t], seen[t]))
           Kept(t) == /\ pc'[t] = pc[t] /\ job'[t] = job[t] /\ seen'[t] = seen[t]
                      /\ result'[t] = result[t]
<1>0. /\ DOMAIN pc = Sessions /\ DOMAIN job = Sessions /\ DOMAIN result = Sessions
      /\ DOMAIN seen = Sessions
  BY DEF StoreInv, TablesOK
<1>1. ASSUME UNCHANGED <<journal, original>>,
             \A t \in Sessions : Kept(t) \/ pc'[t] # "write" \/ Writing(t)'
      PROVE  CorrectionInv'
  <2>1. ASSUME NEW t \in Sessions PROVE Writing(t)'
    <3>1. ASSUME Kept(t) PROVE Writing(t)'
      <4>1. Writing(t)
        BY DEF CorrectionInv
      <4>2. \A j, p : Settling(j, p)' = Settling(j, p)
        BY <1>1 DEF Settling
      <4> QED
        BY <3>1, <4>1, <4>2
    <3> QED
      BY <1>1, <3>1
  <2>2. EntriesOK(journal)' /\ SettledOK(journal, original)'
    BY <1>1 DEF CorrectionInv
  <2> QED
    BY <2>1, <2>2 DEF CorrectionInv
<1>2. ASSUME NEW s \in Sessions, Reset(s)
      PROVE  \A t \in Sessions : Kept(t) \/ pc'[t] # "write"
  BY <1>0, <1>2 DEF Reset
<1>3. ASSUME NEW s \in Sessions, NEW j \in Jobs, ReadPositions(s, j) PROVE CorrectionInv'
  <2>1. \A t \in Sessions : Kept(t) \/ pc'[t] # "write"
    BY <1>0, <1>3 DEF ReadPositions
  <2> QED
    BY <1>1, <1>3, <2>1 DEF ReadPositions, tables
<1>4. ASSUME NEW s \in Sessions, ApplyJob(s) PROVE CorrectionInv'
  <2> DEFINE j == job[s]
             view == [positions |-> seen[s], cash |-> cash, ids |-> JournalIds]
             r == Outcome(j, view, Was(j), SettledRow(j), PreviousRow(j))
  <2>1. \/ /\ r.outcome = "applied"
           /\ pc' = [pc EXCEPT ![s] = "write"]
           /\ result' = [result EXCEPT ![s] = r] /\ UNCHANGED job
           /\ seen' = [seen EXCEPT ![s] = IF j.kind = "settlement" THEN @[j.contract] ELSE None]
        \/ Reset(s)
    BY <1>4 DEF ApplyJob, Was, SettledRow, PreviousRow
  <2>2. UNCHANGED <<journal, original>> /\ pc[s] = "read"
    BY <1>4 DEF ApplyJob, tables
  <2>3. CASE Reset(s)
    BY <1>1, <1>2, <2>2, <2>3
  <2>4. ASSUME r.outcome = "applied",
               pc' = [pc EXCEPT ![s] = "write"],
               result' = [result EXCEPT ![s] = r], UNCHANGED job,
               seen' = [seen EXCEPT ![s] = IF j.kind = "settlement" THEN @[j.contract] ELSE None]
        PROVE  CorrectionInv'
    <3>1. ReadOK(j, seen[s]) /\ ExactJob(j, seen[s]) /\ TablesOK
      BY <2>2 DEF StoreInv, SessionOK, NothingRounds
    <3>2. /\ j.kind = "settlement" => Explained(j, r.entry, seen[s][j.contract])
          /\ j.kind = "correction" => Explained(j, r.entry, original[SettledKey(j)])
      BY <2>4, <3>1, SettlementExplained, CorrectionExplained
    <3> HIDE DEF r
    <3>3. /\ job'[s] = j /\ result'[s] = r /\ original' = original
          /\ j.kind = "settlement" => seen'[s] = seen[s][j.contract]
      BY <1>0, <2>2, <2>4
    <3>4. j.kind \in {"settlement", "correction"} =>
             Explained(j, r.entry, Settling(j, seen'[s]))
      BY <3>2, <3>3 DEF Settling
    <3>5. Settling(job[s], seen[s])' = Settling(j, seen'[s])
      BY <3>3 DEF Settling
    <3>6. Writing(s)'
      <4> HIDE DEF j
      <4> QED
        BY <3>3, <3>4, <3>5
    <3>7. \A t \in Sessions \ {s} : Kept(t)
      BY <1>0, <2>4
    <3> QED
      BY <1>1, <2>2, <3>6, <3>7
  <2> QED
    BY <2>1, <2>3, <2>4
<1>5. ASSUME NEW s \in Sessions, Write(s) PROVE CorrectionInv'
  <2>1. \A t \in Sessions : Kept(t) \/ pc'[t] # "write"
    BY <1>2, <1>5 DEF Write
  <2> QED
    BY <1>1, <1>5, <2>1 DEF Write, tables
<1>6. ASSUME NEW s \in Sessions, Commit(s) PROVE CorrectionInv'
  <2>1. \A t \in Sessions : Kept(t) \/ pc'[t] # "write"
    BY <1>0, <1>2, <1>6 DEF Commit
  <2>2. /\ EntriesOK(journal') /\ SettledOK(journal', original')
        /\ \A k \in DOMAIN original : original[k] # None => original'[k] = original[k]
    BY <1>6, CommitSettles
  <2>3. ASSUME NEW t \in Sessions, Kept(t) PROVE Writing(t)'
    <3> SUFFICES ASSUME pc[t] = "write", job[t].kind \in {"settlement", "correction"}
                 PROVE  Explained(job[t], result[t].entry, Settling(job[t], seen[t])')
      BY <2>3
    <3>1. Explained(job[t], result[t].entry, Settling(job[t], seen[t])) /\ job[t] \in Jobs
      BY DEF CorrectionInv, StoreInv, SessionOK, PendingOK
    <3>2. Settling(job[t], seen[t]) # None
      BY <3>1 DEF Explained
    <3>3. SettledKey(job[t]) \in DOMAIN original
      BY <3>1, JobFields DEF JobOK, SettledKey, StoreInv, TablesOK
    <3>4. Settling(job[t], seen[t])' = Settling(job[t], seen[t])
      BY <2>2, <2>3, <3>2, <3>3 DEF Settling
    <3> QED
      BY <3>1, <3>4
  <2> QED
    BY <2>1, <2>2, <2>3 DEF CorrectionInv
<1>7. ASSUME NEW s \in Sessions, PersistEvents(s) \/ Fail(s) PROVE CorrectionInv'
  <2>1. Reset(s) /\ UNCHANGED <<journal, original>>
    BY <1>7 DEF PersistEvents, Fail, tables
  <2> QED
    BY <1>1, <1>2, <2>1
<1>8. ASSUME UNCHANGED <<journal, original, pc, job, seen, result>> PROVE CorrectionInv'
  BY <1>1, <1>8
<1>9. ASSUME NEW x \in DOMAIN Settlements, NEW status, SaveSettlement(x, status)
      PROVE  CorrectionInv'
  BY <1>8, <1>9 DEF SaveSettlement, sessionVars
<1>10. CASE StartReconciliation \/ \E n \in 0 .. Len(Exchange) : Reconcile(n)
  BY <1>8, <1>10 DEF StartReconciliation, Reconcile, tables, sessionVars
<1>11. CASE UNCHANGED vars
  BY <1>8, <1>11 DEF vars, tables, sessionVars
<1> QED
  BY <1>3, <1>4, <1>5, <1>6, <1>7, <1>9, <1>10, <1>11 DEF Next

\* The sum over the two entries that have these ids.
LEMMA TwoEntries ==
    ASSUME NEW J, EntriesOK(J), NEW d \in J, NEW e \in J, d # e, NEW a \in Accounts
    PROVE  SumAccount({d, e}, a) = d.lines[a] + e.lines[a]
<1>1. {} \in SUBSET J /\ EntriesOK({}) /\ EntriesOK({d})
  BY FS_EmptySet, FS_Singleton DEF EntriesOK
<1>2. d.lines \in [Accounts -> Int] /\ e.lines \in [Accounts -> Int]
  BY DEF EntriesOK
<1>3. SumAccount({}, a) = 0
  <2> DEFINE F == [f \in {} |-> f.lines[a]]
  <2>1. SumAccount({}, a) = SumOver(F, {})
    BY AccountSum
  <2> HIDE DEF F
  <2> QED
    BY <2>1, FS_EmptySet, SumStep
<1>4. SumAccount({} \cup {d}, a) = SumAccount({}, a) + d.lines[a]
  BY <1>1, <1>2, AccountAdd
<1>5. SumAccount({d} \cup {e}, a) = SumAccount({d}, a) + e.lines[a]
  BY <1>1, <1>2, AccountAdd
<1>6. SumAccount({d}, a) = SumAccount({}, a) + d.lines[a]
  <2>1. {} \cup {d} = {d}
    OBVIOUS
  <2> QED
    BY <1>4, <2>1
<1>7. SumAccount({d, e}, a) = SumAccount({d}, a) + e.lines[a]
  <2>1. {d} \cup {e} = {d, e}
    OBVIOUS
  <2> QED
    BY <1>5, <2>1
<1>8. d.lines[a] \in Int
  BY <1>2
<1> QED
  BY <1>3, <1>6, <1>7, <1>8

\* A correction replaces the outcome: whatever the projectors do, what was posted to settle
\* a position and, once, to correct that (apply_settlement_correction_once) adds up to what
\* the corrected settlement is worth.
THEOREM CorrectionsReplace == Spec /\ []NothingRounds => []CorrectionReplaces
<1>1. StoreInv /\ CorrectionInv => CorrectionReplaces
  <2> DEFINE Settled(j) == SettlementEntryId(j.contract, Settlements[j.previous])
             Posted(j) == {e \in journal : e.id \in {Settled(j), EntryId(j)}}
             Worth(j) == SettlementAccounting(original[<<j.contract, j.previous>>],
                                              Settlements[j.settlement])
             Replaced(j) == /\ -SumAccount(Posted(j), "settlement_pnl") = Worth(j).pnl
                            /\ SumAccount(Posted(j), "cash") = Worth(j).cash
  <2> SUFFICES ASSUME StoreInv, CorrectionInv, NEW j \in Jobs, j.kind = "correction",
                      EntryId(j) \in JournalIds
               PROVE  Replaced(j)
    BY DEF CorrectionReplaces
  <2>0. PICK sid, posted, now : sid = Settled(j) /\ posted = Posted(j) /\ now = Worth(j)
    OBVIOUS
  <2>1. EntriesOK(journal) /\ SettledOK(journal, original)
    BY DEF CorrectionInv
  <2>2. PICK e \in journal : e.id = EntryId(j)
    BY DEF JournalIds
  <2>3. PICK p : p = original[<<j.contract, j.previous>>]
    OBVIOUS
  <2>4. SettledKey(j) = <<j.contract, j.previous>>
    BY DEF SettledKey
  <2>5. Explained(j, e, p)
    BY <2>1, <2>2, <2>3, <2>4 DEF SettledOK
  <2>6. p # None /\ <<j.contract, j.previous>> \in DOMAIN original
    BY <2>5, JobFields DEF Explained, JobOK, StoreInv, TablesOK
  <2>7. PICK k \in Jobs : /\ k.kind = "settlement" /\ SettledKey(k) = <<j.contract, j.previous>>
                          /\ EntryId(k) \in {d.id : d \in journal}
    BY <2>1, <2>3, <2>6 DEF SettledOK
  <2>8. k.contract = j.contract /\ k.settlement = j.previous
    BY <2>7 DEF SettledKey
  <2>9. EntryId(k) = sid
    BY <2>0, <2>7, <2>8 DEF EntryId
  <2>10. PICK d \in journal : d.id = sid
    BY <2>7, <2>9
  <2>11. Explained(k, d, p)
    BY <2>1, <2>3, <2>7, <2>9, <2>10 DEF SettledOK
  <2>12. d # e
    BY <2>2, <2>7, <2>9, <2>10, IdsAssumption DEF IdsAssumption
  <2>13. posted = {d, e}
    BY <2>0, <2>1, <2>2, <2>10 DEF SettledOK
  <2>14. PICK was : was = SettlementAccounting(p, Settlements[j.previous])
    OBVIOUS
  <2>15. /\ was.cash \in Int /\ was.pnl \in Int /\ now.cash \in Int /\ now.pnl \in Int
         /\ e.lines["cash"] = now.cash - was.cash
         /\ e.lines["settlement_pnl"] = was.pnl - now.pnl
    BY <2>0, <2>3, <2>5, <2>14 DEF Explained
  <2>16. d.lines["cash"] = was.cash /\ d.lines["settlement_pnl"] = -was.pnl
    BY <2>7, <2>8, <2>11, <2>14 DEF Explained
  <2>17. /\ SumAccount(posted, "cash") = d.lines["cash"] + e.lines["cash"]
         /\ SumAccount(posted, "settlement_pnl")
              = d.lines["settlement_pnl"] + e.lines["settlement_pnl"]
    BY <2>1, <2>12, <2>13, TwoEntries DEF Accounts
  <2>18. -SumAccount(posted, "settlement_pnl") = now.pnl /\ SumAccount(posted, "cash") = now.cash
    BY <2>15, <2>16, <2>17
  <2> QED
    BY <2>0, <2>18
<1>2. Spec /\ []NothingRounds => []StoreInv
  BY StoreInit, StoreNext, PTL DEF Spec
<1> QED
  BY <1>1, <1>2, CorrectionInit, CorrectionNext, PTL DEF Spec

-----------------------------------------------------------------------------
(* Replays                                                                 *)

\* One more job of an order in a replay, and the function behind Replay.
OneMore(order, jobs, books, n) ==
    IF order[n] \in jobs THEN AfterJob(books, order[n]) ELSE books
IsReplay(g, order, jobs, n) ==
    g = [m \in 0 .. n |-> IF m = 0 THEN EmptyBooks ELSE OneMore(order, jobs, g[m - 1], m)]

\* There is one for every number of jobs.
LEMMA ReplayExists ==
    ASSUME NEW order, NEW jobs, NEW n \in Nat
    PROVE  \E g : IsReplay(g, order, jobs, n)
<1> DEFINE S == {k \in Nat : \E g : IsReplay(g, order, jobs, k)}
<1>1. 0 \in S
  <2> DEFINE g == [m \in 0 .. 0 |-> EmptyBooks]
  <2>1. IsReplay(g, order, jobs, 0)
    BY DEF IsReplay
  <2> QED
    BY <2>1
<1>2. ASSUME NEW k \in 0 .. n - 1, k \in S PROVE k + 1 \in S
  <2>1. PICK g : IsReplay(g, order, jobs, k)
    BY <1>2
  <2> DEFINE top == OneMore(order, jobs, g[k], k + 1)
             h == [m \in 0 .. k + 1 |-> IF m = k + 1 THEN top ELSE g[m]]
  <2>2. /\ \A m \in 0 .. k : h[m] = g[m]
        /\ h[k + 1] = top /\ DOMAIN h = 0 .. k + 1
    OBVIOUS
  <2>3. \A m \in 0 .. k : g[m] = IF m = 0 THEN EmptyBooks ELSE OneMore(order, jobs, g[m - 1], m)
    BY <2>1 DEF IsReplay
  <2>4. ASSUME NEW m \in 0 .. k + 1
        PROVE  h[m] = IF m = 0 THEN EmptyBooks ELSE OneMore(order, jobs, h[m - 1], m)
    <3> HIDE DEF h
    <3>1. CASE m = k + 1
      <4>1. k + 1 # 0 /\ (k + 1) - 1 = k /\ k \in 0 .. k
        OBVIOUS
      <4> QED
        BY <2>2, <3>1, <4>1
    <3>2. CASE m # k + 1
      <4>1. m \in 0 .. k /\ (m # 0 => m - 1 \in 0 .. k)
        BY <3>2
      <4> QED
        BY <2>2, <2>3, <4>1
    <3> QED
      BY <3>1, <3>2
  <2>5. h = [m \in 0 .. k + 1 |-> h[m]]
    OBVIOUS
  <2> HIDE DEF h
  <2>6. IsReplay(h, order, jobs, k + 1)
    BY <2>4, <2>5, Zenon DEF IsReplay
  <2> QED
    BY <2>6
<1> HIDE DEF S
<1>3. n \in S
  BY <1>1, <1>2, HoldsUpTo
<1> QED
  BY <1>3 DEF S

\* Those of two numbers of jobs agree as far as both go.
LEMMA ReplayUnique ==
    ASSUME NEW order, NEW jobs, NEW n \in Nat, NEW k \in Nat, NEW g, IsReplay(g, order, jobs, n),
           NEW h, IsReplay(h, order, jobs, k), k <= n
    PROVE  g[k] = h[k]
<1> DEFINE S == {m \in Nat : g[m] = h[m]}
<1>1. /\ \A m \in 0 .. n : g[m] = IF m = 0 THEN EmptyBooks ELSE OneMore(order, jobs, g[m - 1], m)
      /\ \A m \in 0 .. k : h[m] = IF m = 0 THEN EmptyBooks ELSE OneMore(order, jobs, h[m - 1], m)
  BY DEF IsReplay
<1>2. 0 \in S
  BY <1>1
<1>3. ASSUME NEW m \in 0 .. k - 1, m \in S PROVE m + 1 \in S
  <2>1. m + 1 \in 0 .. n /\ m + 1 \in 0 .. k /\ m + 1 # 0 /\ (m + 1) - 1 = m
    OBVIOUS
  <2>2. g[m + 1] = OneMore(order, jobs, g[m], m + 1) /\ h[m + 1] = OneMore(order, jobs, h[m], m + 1)
    BY <1>1, <2>1
  <2>3. g[m] = h[m]
    BY <1>3
  <2> QED
    BY <2>1, <2>2, <2>3
<1> HIDE DEF S
<1>4. k \in S
  BY <1>2, <1>3, HoldsUpTo
<1> QED
  BY <1>4 DEF S

\* A replay, job by job.
LEMMA ReplayStep ==
    ASSUME NEW order, NEW jobs
    PROVE  /\ Replay(order, jobs, 0) = EmptyBooks
           /\ \A n \in Nat :
                 Replay(order, jobs, n + 1) = OneMore(order, jobs, Replay(order, jobs, n), n + 1)
<1> DEFINE F(n) == CHOOSE g : IsReplay(g, order, jobs, n)
<1>1. \A n \in Nat : Replay(order, jobs, n) = F(n)[n]
  BY DEF Replay, IsReplay, OneMore
<1>2. \A n \in Nat : IsReplay(F(n), order, jobs, n)
  BY ReplayExists
<1> HIDE DEF F
<1>3. \A n \in Nat : \A m \in 0 .. n :
         F(n)[m] = IF m = 0 THEN EmptyBooks ELSE OneMore(order, jobs, F(n)[m - 1], m)
  BY <1>2 DEF IsReplay
<1>4. F(0)[0] = EmptyBooks
  BY <1>3
<1>5. ASSUME NEW n \in Nat
      PROVE  F(n + 1)[n + 1] = OneMore(order, jobs, F(n)[n], n + 1)
  <2>1. n + 1 \in Nat /\ n + 1 \in 0 .. n + 1 /\ n + 1 # 0 /\ (n + 1) - 1 = n /\ n <= n + 1
    OBVIOUS
  <2>2. F(n + 1)[n + 1] = OneMore(order, jobs, F(n + 1)[n], n + 1)
    BY <1>3, <2>1
  <2>3. F(n + 1)[n] = F(n)[n]
    BY <1>2, <2>1, ReplayUnique
  <2> QED
    BY <2>2, <2>3
<1> QED
  BY <1>1, <1>4, <1>5

-----------------------------------------------------------------------------
(* A helper looks only at the rows of its job                              *)

\* The settlement records of a job, and the helper call of a replay.
NowOf(j) == IF j.kind = "correction" \/ j.kind = "settlement" THEN Settlements[j.settlement]
            ELSE None
BeforeOf(j) == IF j.kind = "correction" THEN Settlements[j.previous] ELSE None
WasOf(j, settled) == IF j.kind = "correction" THEN settled[<<j.contract, j.previous>>] ELSE None
Call(books, j) == Outcome(j, books, WasOf(j, books.original), NowOf(j), BeforeOf(j))

KnownIds == {EntryId(j) : j \in Jobs}

\* The ids of fills tell their fills.
LEMMA FillKnown ==
    ASSUME NEW ids \in SUBSET KnownIds, NEW j \in Jobs, j.kind = "fill"
    PROVE  j.id \in {i[2] : i \in {k \in ids : k[1] = "fill"}} <=> EntryId(j) \in ids
<1>1. EntryId(j) = <<"fill", j.id>>
  BY DEF EntryId, FillEntryId
<1>2. ASSUME EntryId(j) \in ids PROVE j.id \in {i[2] : i \in {k \in ids : k[1] = "fill"}}
  BY <1>1, <1>2
<1>3. ASSUME NEW i \in ids, i[1] = "fill", i[2] = j.id PROVE EntryId(j) \in ids
  <2>1. PICK k \in Jobs : i = EntryId(k)
    BY DEF KnownIds
  <2>2. JobOK(k)
    BY JobFields
  <2>3. k.kind = "fill"
    <3>1. k.kind = "fee" => i[1] = "fee"
      BY <2>1 DEF EntryId, FeeEntry, Entry
    <3>2. k.kind = "rebate" => i[1] = "rebate"
      BY <2>1 DEF EntryId, RebateEntry, Entry
    <3>3. k.kind = "transfer" => i[1] = "transfer"
      BY <2>1 DEF EntryId, TransferEntry, Entry
    <3>4. k.kind = "observed" => i[1] = "balance_correction"
      BY <2>1 DEF EntryId, BalanceCorrectionId
    <3>5. k.kind = "settlement" => i[1] = "settlement"
      BY <2>1 DEF EntryId, SettlementEntryId
    <3>6. k.kind = "correction" => i[1] = "settlement_correction"
      BY <2>1 DEF EntryId, CorrectionEntryId
    <3> QED
      BY <1>3, <2>2, <3>1, <3>2, <3>3, <3>4, <3>5, <3>6 DEF JobOK
  <2>4. i = <<"fill", k.id>>
    BY <2>1, <2>3 DEF EntryId, FillEntryId
  <2> QED
    BY <1>1, <1>3, <2>4
<1> QED
  BY <1>2, <1>3

\* The result of a helper depends on the rows of its job and on whether the job is posted.
LEMMA OutcomeLocal ==
    ASSUME NEW j \in Jobs, NEW U, NEW V, NEW was,
           \A c \in PositionKeys(j) : U.positions[c] = V.positions[c],
           \A b \in CashKeys(j) : U.cash[b] = V.cash[b],
           U.ids \in SUBSET KnownIds, V.ids \in SUBSET KnownIds,
           EntryId(j) \in U.ids <=> EntryId(j) \in V.ids
    PROVE  Outcome(j, U, was, NowOf(j), BeforeOf(j)) = Outcome(j, V, was, NowOf(j), BeforeOf(j))
<1>1. JobOK(j)
  BY JobFields
<1>2. CASE j.kind = "fill"
  <2>1. U.positions[j.contract] = V.positions[j.contract] /\ U.cash[j.balance] = V.cash[j.balance]
    BY <1>2 DEF PositionKeys, CashKeys
  <2> DEFINE known(ids) == {i[2] : i \in {k \in ids : k[1] = "fill"}}
  <2>2. j.id \in known(U.ids) <=> j.id \in known(V.ids)
    BY <1>2, FillKnown
  <2>3. PICK p, b : p = U.positions[j.contract] /\ b = U.cash[j.balance]
    OBVIOUS
  <2>4. FillOnce(p, j, known(U.ids), b.currency) = FillOnce(p, j, known(V.ids), b.currency)
    BY <2>2 DEF FillOnce
  <2>5. /\ ApplyFillOnce(U, j) = FillToCash(FillOnce(p, j, known(U.ids), b.currency), j, b)
        /\ ApplyFillOnce(V, j) = FillToCash(FillOnce(p, j, known(V.ids), b.currency), j, b)
    BY <2>1, <2>3 DEF ApplyFillOnce
  <2> HIDE DEF known
  <2> QED
    BY <1>2, <2>4, <2>5 DEF Outcome
<1>3. CASE j.kind = "fee"
  <2>1. U.cash[j.balance] = V.cash[j.balance] /\ EntryId(j) = FeeEntry(j).id
    BY <1>3 DEF CashKeys, EntryId
  <2>2. ApplyCashEntryOnce(U, j, FeeEntry(j)) = ApplyCashEntryOnce(V, j, FeeEntry(j))
    BY <2>1, Zenon DEF ApplyCashEntryOnce, Once
  <2> QED
    BY <1>3, <2>2 DEF Outcome
<1>4. CASE j.kind = "rebate"
  <2>1. U.cash[j.balance] = V.cash[j.balance] /\ EntryId(j) = RebateEntry(j).id
    BY <1>4 DEF CashKeys, EntryId
  <2>2. ApplyCashEntryOnce(U, j, RebateEntry(j)) = ApplyCashEntryOnce(V, j, RebateEntry(j))
    BY <2>1, Zenon DEF ApplyCashEntryOnce, Once
  <2> QED
    BY <1>4, <2>2 DEF Outcome
<1>5. CASE j.kind = "transfer"
  <2>1. /\ U.cash[j.source] = V.cash[j.source] /\ U.cash[j.target] = V.cash[j.target]
        /\ EntryId(j) = TransferEntry(j).id
    BY <1>5 DEF CashKeys, EntryId
  <2>2. ApplyTransferOnce(U, j) = ApplyTransferOnce(V, j)
    BY <2>1, Zenon DEF ApplyTransferOnce, Once
  <2> QED
    BY <1>5, <2>2 DEF Outcome
<1>6. CASE j.kind = "observed"
  <2>1. U.cash[j.balance] = V.cash[j.balance]
    BY <1>6 DEF CashKeys
  <2>2. PICK b : b = U.cash[j.balance]
    OBVIOUS
  <2>3. EntryId(j) = BalanceCorrectionEntry(b, j).id
    BY <1>6 DEF EntryId, BalanceCorrectionEntry, Entry
  <2>4. ApplyBalanceCorrectionOnce(U, j) = ApplyBalanceCorrectionOnce(V, j)
    BY <2>1, <2>2, <2>3, Zenon DEF ApplyBalanceCorrectionOnce, Once
  <2> QED
    BY <1>6, <2>4 DEF Outcome
<1>7. CASE j.kind = "settlement"
  <2>1. /\ U.positions[j.contract] = V.positions[j.contract]
        /\ U.cash[j.balance] = V.cash[j.balance]
        /\ NowOf(j) = Settlements[j.settlement]
        /\ EntryId(j) = SettlementEntryId(j.contract, Settlements[j.settlement])
    BY <1>7 DEF PositionKeys, CashKeys, EntryId, NowOf
  <2>2. ApplySettlementOnce(U, j.contract, j.balance, Settlements[j.settlement])
          = ApplySettlementOnce(V, j.contract, j.balance, Settlements[j.settlement])
    BY <2>1, Zenon DEF ApplySettlementOnce, Once
  <2> QED
    BY <1>7, <2>1, <2>2 DEF Outcome
<1>8. CASE j.kind = "correction"
  <2>1. /\ U.positions[j.contract] = V.positions[j.contract]
        /\ U.cash[j.balance] = V.cash[j.balance]
        /\ NowOf(j) = Settlements[j.settlement] /\ BeforeOf(j) = Settlements[j.previous]
        /\ EntryId(j) = CorrectionEntryId(j.contract, Settlements[j.previous],
                                          Settlements[j.settlement])
    BY <1>8 DEF PositionKeys, CashKeys, EntryId, NowOf, BeforeOf
  <2>2. ApplyCorrectionOnce(U, was, j.contract, j.balance, Settlements[j.previous],
                            Settlements[j.settlement])
          = ApplyCorrectionOnce(V, was, j.contract, j.balance, Settlements[j.previous],
                                Settlements[j.settlement])
    BY <2>1, Zenon DEF ApplyCorrectionOnce, Once
  <2> QED
    BY <1>8, <2>1, <2>2 DEF Outcome
<1> QED
  BY <1>1, <1>2, <1>3, <1>4, <1>5, <1>6, <1>7, <1>8 DEF JobOK

\* What a helper is applied to is not newer than its job, and it saves the rows of the job.
LEMMA OutcomeRows ==
    ASSUME NEW j \in Jobs, NEW U, NEW was,
           NEW r, r = Outcome(j, U, was, NowOf(j), BeforeOf(j)), r.outcome = "applied"
    PROVE  /\ r.entry.id = EntryId(j) /\ r.entry.at = j.at
           /\ DOMAIN r.positions = PositionKeys(j) /\ DOMAIN r.cash = CashKeys(j)
           /\ \A c \in PositionKeys(j) : U.positions[c] # None => j.at >= U.positions[c].updated_at
           /\ \A b \in CashKeys(j) : /\ j.at >= U.cash[b].captured_at
                                     /\ \E a : r.cash[b] = ApplyToCash(U.cash[b], r.entry, a)
           /\ \A c \in PositionKeys(j) :
                 \/ /\ j.kind = "fill"
                    /\ \E w : r.positions[c] = FillProjection(
                          IF U.positions[c] = None THEN NoPosition ELSE U.positions[c],
                          j, w).position
                 \/ /\ j.kind # "fill"
                    /\ \E a : r.positions[c] = Closed(U.positions[c], a, NowOf(j))
<1>1. JobOK(j)
  BY JobFields
<1>2. CASE j.kind = "fill"
  <2>1. PICK p, b : p = U.positions[j.contract] /\ b = U.cash[j.balance]
    OBVIOUS
  <2>2. PICK f, x : r = FillToCash(f, j, b) /\ f = FillOnce(p, j, x, b.currency)
    BY <1>2, <2>1 DEF Outcome, ApplyFillOnce
  <2>3. /\ f.outcome = "applied" /\ CashAccepts(b, f.entry)
        /\ r = Applied(Row(j.contract, f.position),
                       Row(j.balance, ApplyToCash(b, f.entry, f.entry.lines["cash"])), f.entry)
    BY <2>2 DEF FillToCash, Applied, Refused
  <2>4. FillAccepted(p, j, b.currency) /\ f = FillJournal(j, ApplyFill(p, j))
    BY <2>2, <2>3 DEF FillOnce, Duplicate, Refused
  <2>5. f.entry = FillEntry(j, ApplyFill(p, j)) /\ f.position = ApplyFill(p, j).position
    BY <2>3, <2>4 DEF FillJournal
  <2>6. f.entry.id = EntryId(j) /\ f.entry.at = j.at
    BY <1>2, <2>5 DEF FillEntry, Entry, EntryId
  <2>7. p # None => j.at >= p.updated_at
    BY <2>4 DEF FillAccepted
  <2>8. j.at >= b.captured_at
    BY <2>3, <2>6 DEF CashAccepts
  <2>9. PositionKeys(j) = {j.contract} /\ CashKeys(j) = {j.balance}
    BY <1>2 DEF PositionKeys, CashKeys
  <2>10. \E w : f.position = FillProjection(IF p = None THEN NoPosition ELSE p, j, w).position
    BY <2>5 DEF ApplyFill
  <2>11. /\ r.entry = f.entry /\ r.positions = Row(j.contract, f.position)
         /\ r.cash = Row(j.balance, ApplyToCash(b, f.entry, f.entry.lines["cash"]))
    BY <2>3 DEF Applied
  <2>12. /\ DOMAIN r.positions = {j.contract} /\ r.positions[j.contract] = f.position
         /\ DOMAIN r.cash = {j.balance}
         /\ r.cash[j.balance] = ApplyToCash(b, r.entry, f.entry.lines["cash"])
    BY <2>11 DEF Row
  <2> QED
    BY <1>2, <2>1, <2>6, <2>7, <2>8, <2>9, <2>10, <2>11, <2>12
<1>3. CASE j.kind \in {"fee", "rebate", "observed"}
  <2>1. PICK b : b = U.cash[j.balance]
    OBVIOUS
  <2>2. PICK e : /\ e.id = EntryId(j) /\ e.at = j.at /\ CashAccepts(b, e)
                 /\ r = Applied(Nothing, Row(j.balance, ApplyToCash(b, e, e.lines["cash"])), e)
    <3>1. CASE j.kind = "fee"
      BY <2>1, <3>1 DEF Outcome, ApplyCashEntryOnce, Once, Refused, Duplicate, EntryId,
                        FeeEntry, Entry
    <3>2. CASE j.kind = "rebate"
      BY <2>1, <3>2 DEF Outcome, ApplyCashEntryOnce, Once, Refused, Duplicate, EntryId,
                        RebateEntry, Entry
    <3>3. CASE j.kind = "observed"
      BY <2>1, <3>3 DEF Outcome, ApplyBalanceCorrectionOnce, Once, Refused, Duplicate, EntryId,
                        BalanceCorrectionEntry, Entry
    <3> QED
      BY <1>3, <3>1, <3>2, <3>3
  <2>3. PositionKeys(j) = {} /\ CashKeys(j) = {j.balance}
    BY <1>3 DEF PositionKeys, CashKeys
  <2>4. /\ r.entry = e /\ DOMAIN r.positions = {} /\ DOMAIN r.cash = {j.balance}
        /\ r.cash[j.balance] = ApplyToCash(b, e, e.lines["cash"])
    BY <2>2 DEF Applied, Nothing, Row
  <2>5. /\ j.at >= U.cash[j.balance].captured_at
        /\ \E a : r.cash[j.balance] = ApplyToCash(U.cash[j.balance], r.entry, a)
    BY <2>1, <2>2, <2>4, Zenon DEF CashAccepts
  <2> QED
    BY <2>2, <2>3, <2>4, <2>5, Zenon
<1>4. CASE j.kind = "transfer"
  <2> DEFINE e == TransferEntry(j)
             rows == [b \in {j.source, j.target} |->
                        IF b = j.source THEN ApplyToCash(U.cash[j.source], e, e.lines["outbound"])
                        ELSE ApplyToCash(U.cash[j.target], e, e.lines["inbound"])]
  <2>1. /\ CashAccepts(U.cash[j.source], e) /\ CashAccepts(U.cash[j.target], e)
        /\ r = Applied(Nothing, rows, e)
    BY <1>4 DEF Outcome, ApplyTransferOnce, Once, Refused, Duplicate
  <2>2. e.id = EntryId(j) /\ e.at = j.at
    BY <1>4 DEF EntryId, TransferEntry, Entry
  <2> HIDE DEF e
  <2>3. PositionKeys(j) = {} /\ CashKeys(j) = {j.source, j.target}
    BY <1>4 DEF PositionKeys, CashKeys
  <2>4. r.entry = e /\ DOMAIN r.positions = {} /\ r.cash = rows
    BY <2>1 DEF Applied, Nothing
  <2>5. ASSUME NEW b \in {j.source, j.target}
        PROVE  /\ j.at >= U.cash[b].captured_at
               /\ \E a : r.cash[b] = ApplyToCash(U.cash[b], r.entry, a)
    <3>1. j.at >= U.cash[b].captured_at
      BY <2>1, <2>2 DEF CashAccepts
    <3>2. rows[b] = ApplyToCash(U.cash[b], e, IF b = j.source THEN e.lines["outbound"]
                                              ELSE e.lines["inbound"])
      OBVIOUS
    <3> HIDE DEF rows
    <3> QED
      BY <2>4, <3>1, <3>2
  <2>6. DOMAIN r.cash = {j.source, j.target}
    BY <2>4
  <2> HIDE DEF rows
  <2> QED
    BY <2>2, <2>3, <2>4, <2>5, <2>6, Zenon
<1>5. CASE j.kind \in {"settlement", "correction"}
  <2> DEFINE x == Settlements[j.settlement]
  <2>1. PICK p, b : p = U.positions[j.contract] /\ b = U.cash[j.balance]
    OBVIOUS
  <2>2. j.at = x.settled_at /\ NowOf(j) = x
    BY <1>5, OrderAssumption DEF OrderAssumption, NowOf
  <2>3. PICK e, a, m : /\ e.id = EntryId(j) /\ e.at = x.settled_at /\ CashAccepts(b, e)
                       /\ x.settled_at >= p.updated_at
                       /\ r = Applied(Row(j.contract, Closed(p, a, x)),
                                      Row(j.balance, ApplyToCash(b, e, m)), e)
    <3>1. CASE j.kind = "settlement"
      BY <2>1, <2>2, <3>1 DEF Outcome, ApplySettlementOnce, Once, Refused, Duplicate, EntryId,
                              SettlementEntry, Entry
    <3>2. CASE j.kind = "correction"
      BY <2>1, <2>2, <3>2 DEF Outcome, ApplyCorrectionOnce, Once, Refused, Duplicate, EntryId,
                              CorrectionEntry, SettlementEntry, Entry, BeforeOf
    <3> QED
      BY <1>5, <3>1, <3>2
  <2>5. PositionKeys(j) = {j.contract} /\ CashKeys(j) = {j.balance}
    BY <1>5 DEF PositionKeys, CashKeys
  <2>6. /\ r.entry = e /\ DOMAIN r.positions = {j.contract} /\ DOMAIN r.cash = {j.balance}
        /\ r.cash[j.balance] = ApplyToCash(b, e, m)
        /\ r.positions[j.contract] = Closed(p, a, x)
    BY <2>3 DEF Applied, Row
  <2> HIDE DEF x
  <2> QED
    BY <1>5, <2>1, <2>2, <2>3, <2>5, <2>6 DEF CashAccepts
<1> QED
  BY <1>1, <1>2, <1>3, <1>4, <1>5 DEF JobOK

-----------------------------------------------------------------------------
(* Jobs that share no row commute                                          *)

\* The tables of books, and the ids of their entries.
Shape(B) ==
    /\ DOMAIN B.positions = Contracts /\ DOMAIN B.cash = DOMAIN Opening
    /\ DOMAIN B.original = Contracts \X DOMAIN Settlements
    /\ B.ids = {e.id : e \in B.entries} /\ B.ids \in SUBSET KnownIds

\* A result for job j.
IsResult(r, j) ==
    r.outcome = "applied" => /\ DOMAIN r.positions = PositionKeys(j) /\ DOMAIN r.cash = CashKeys(j)
                             /\ r.entry.id = EntryId(j)

\* Two jobs have no row in common.
Apart(j, k) == PositionKeys(j) \cap PositionKeys(k) = {} /\ CashKeys(j) \cap CashKeys(k) = {}

\* Two books have the same rows for job j.
Agree(A, B, j) ==
    /\ \A c \in PositionKeys(j) : /\ A.positions[c] = B.positions[c]
                                  /\ \A x \in DOMAIN Settlements :
                                        A.original[<<c, x>>] = B.original[<<c, x>>]
    /\ \A b \in CashKeys(j) : A.cash[b] = B.cash[b]

LEMMA CallIsResult ==
    ASSUME NEW B, NEW j \in Jobs
    PROVE  IsResult(Call(B, j), j) /\ AfterJob(B, j) = AfterResult(B, j, Call(B, j))
<1>1. IsResult(Call(B, j), j)
  BY OutcomeRows DEF IsResult, Call
<1>2. AfterJob(B, j) = AfterResult(B, j, Call(B, j))
  BY DEF AfterJob, Call, WasOf, NowOf, BeforeOf
<1> QED
  BY <1>1, <1>2

\* The rows of a job lie in the tables.
LEMMA KeysOfJob ==
    ASSUME NEW j \in Jobs
    PROVE  /\ PositionKeys(j) \subseteq Contracts /\ CashKeys(j) \subseteq Balances
           /\ j.kind = "settlement" => /\ PositionKeys(j) = {j.contract}
                                       /\ j.settlement \in DOMAIN Settlements
           /\ j.kind = "correction" => /\ PositionKeys(j) = {j.contract}
                                       /\ j.previous \in DOMAIN Settlements
BY JobFields DEF JobOK, PositionKeys, CashKeys

\* Books that have the same rows for a job call its helper alike.
LEMMA AgreeCall ==
    ASSUME NEW A, NEW B, Shape(A), Shape(B), NEW j \in Jobs, Agree(A, B, j),
           EntryId(j) \in A.ids <=> EntryId(j) \in B.ids
    PROVE  Call(A, j) = Call(B, j)
<1>1. WasOf(j, A.original) = WasOf(j, B.original)
  BY KeysOfJob DEF WasOf, Agree
<1>2. Outcome(j, A, WasOf(j, A.original), NowOf(j), BeforeOf(j))
        = Outcome(j, B, WasOf(j, A.original), NowOf(j), BeforeOf(j))
  BY OutcomeLocal DEF Agree, Shape
<1> QED
  BY <1>1, <1>2 DEF Call

\* A result changes the rows of its job and no other.
LEMMA AfterShape ==
    ASSUME NEW B, Shape(B), NEW j \in Jobs, NEW r, IsResult(r, j),
           NEW A, A = AfterResult(B, j, r)
    PROVE  /\ Shape(A) /\ B.ids \subseteq A.ids /\ A.ids \subseteq B.ids \cup {EntryId(j)}
           /\ DOMAIN Opening = Balances => \A k \in Jobs : Apart(j, k) => Agree(A, B, k)
<1>1. CASE r.outcome # "applied"
  <2>1. A = B
    BY <1>1 DEF AfterResult
  <2> QED
    BY <2>1 DEF Agree
<1>2. CASE r.outcome = "applied"
  <2>1. /\ A.positions = Saved(r.positions, B.positions)
        /\ A.cash = Saved(Counted(r.cash), B.cash)
        /\ A.entries = B.entries \cup {r.entry} /\ A.ids = B.ids \cup {r.entry.id}
        /\ A.original = IF j.kind = "settlement"
                        THEN [B.original EXCEPT ![<<j.contract, j.settlement>>] =
                                B.positions[j.contract]]
                        ELSE B.original
    BY <1>2 DEF AfterResult
  <2>2. /\ DOMAIN r.positions = PositionKeys(j) /\ DOMAIN r.cash = CashKeys(j)
        /\ r.entry.id = EntryId(j)
    BY <1>2 DEF IsResult
  <2>3. DOMAIN A.positions = DOMAIN B.positions /\ DOMAIN A.cash = DOMAIN B.cash
    BY <2>1 DEF Saved
  <2>4. DOMAIN A.original = DOMAIN B.original
    BY <2>1
  <2>5. A.ids = {e.id : e \in A.entries} /\ A.ids \in SUBSET KnownIds
    <3>1. B.ids = {e.id : e \in B.entries} /\ B.ids \in SUBSET KnownIds
      BY DEF Shape
    <3>2. PICK E, d, I, K : E = B.entries /\ d = r.entry /\ I = B.ids /\ K = KnownIds
      OBVIOUS
    <3>3. d.id \in K
      BY <2>2, <3>2 DEF KnownIds
    <3>4. I = {e.id : e \in E} /\ I \in SUBSET K
      BY <3>1, <3>2
    <3>5. I \cup {d.id} = {e.id : e \in E \cup {d}} /\ I \cup {d.id} \in SUBSET K
      BY <3>3, <3>4
    <3> QED
      BY <2>1, <3>2, <3>5
  <2>6. Shape(A)
    BY <2>3, <2>4, <2>5 DEF Shape
  <2>7. ASSUME DOMAIN Opening = Balances, NEW k \in Jobs, Apart(j, k) PROVE Agree(A, B, k)
    <3>1. /\ PositionKeys(k) \subseteq Contracts /\ CashKeys(k) \subseteq Balances
          /\ j.kind = "settlement" => PositionKeys(j) = {j.contract}
      BY KeysOfJob
    <3>2. ASSUME NEW c \in PositionKeys(k) PROVE A.positions[c] = B.positions[c]
      BY <2>1, <2>2, <2>7, <3>1 DEF Shape, Saved, Apart
    <3>3. ASSUME NEW b \in CashKeys(k) PROVE A.cash[b] = B.cash[b]
      BY <2>1, <2>2, <2>7, <3>1 DEF Shape, Saved, Counted, Apart
    <3>4. ASSUME NEW c \in PositionKeys(k), NEW x \in DOMAIN Settlements
          PROVE  A.original[<<c, x>>] = B.original[<<c, x>>]
      <4>1. <<c, x>> \in DOMAIN B.original
        BY <3>1 DEF Shape
      <4>2. j.kind = "settlement" => <<c, x>> # <<j.contract, j.settlement>>
        BY <2>7, <3>1 DEF Apart
      <4> QED
        BY <2>1, <4>1, <4>2
    <3> QED
      BY <3>2, <3>3, <3>4 DEF Agree
  <2> QED
    BY <2>1, <2>2, <2>6, <2>7
<1> QED
  BY <1>1, <1>2

\* The results of jobs that share no row may be saved in either order.
LEMMA Commutes ==
    ASSUME NEW B, Shape(B), NEW j \in Jobs, NEW k \in Jobs, Apart(j, k),
           NEW r, IsResult(r, j), NEW q, IsResult(q, k)
    PROVE  AfterResult(AfterResult(B, j, r), k, q) = AfterResult(AfterResult(B, k, q), j, r)
<1>1. CASE r.outcome # "applied" \/ q.outcome # "applied"
  BY <1>1 DEF AfterResult
<1>2. CASE r.outcome = "applied" /\ q.outcome = "applied"
  <2>1. PICK C, D, E, F : /\ C = AfterResult(B, j, r) /\ D = AfterResult(C, k, q)
                          /\ E = AfterResult(B, k, q) /\ F = AfterResult(E, j, r)
    OBVIOUS
  <2>2. /\ D = [positions |-> D.positions, cash |-> D.cash, entries |-> D.entries,
                ids |-> D.ids, original |-> D.original]
        /\ F = [positions |-> F.positions, cash |-> F.cash, entries |-> F.entries,
                ids |-> F.ids, original |-> F.original]
    BY <1>2, <2>1 DEF AfterResult
  <2>3. /\ DOMAIN r.positions = PositionKeys(j) /\ DOMAIN r.cash = CashKeys(j)
        /\ DOMAIN q.positions = PositionKeys(k) /\ DOMAIN q.cash = CashKeys(k)
        /\ j.kind = "settlement" => /\ PositionKeys(j) = {j.contract} /\ j.contract \in Contracts
                                    /\ j.settlement \in DOMAIN Settlements
        /\ k.kind = "settlement" => /\ PositionKeys(k) = {k.contract} /\ k.contract \in Contracts
                                    /\ k.settlement \in DOMAIN Settlements
    BY <1>2, KeysOfJob DEF IsResult
  <2>4. /\ C.positions = Saved(r.positions, B.positions) /\ C.cash = Saved(Counted(r.cash), B.cash)
        /\ E.positions = Saved(q.positions, B.positions) /\ E.cash = Saved(Counted(q.cash), B.cash)
        /\ D.positions = Saved(q.positions, C.positions) /\ D.cash = Saved(Counted(q.cash), C.cash)
        /\ F.positions = Saved(r.positions, E.positions) /\ F.cash = Saved(Counted(r.cash), E.cash)
    BY <1>2, <2>1 DEF AfterResult
  <2>5. D.entries = F.entries /\ D.ids = F.ids
    <3>1. /\ C.entries = B.entries \cup {r.entry} /\ C.ids = B.ids \cup {r.entry.id}
          /\ E.entries = B.entries \cup {q.entry} /\ E.ids = B.ids \cup {q.entry.id}
          /\ D.entries = C.entries \cup {q.entry} /\ D.ids = C.ids \cup {q.entry.id}
          /\ F.entries = E.entries \cup {r.entry} /\ F.ids = E.ids \cup {r.entry.id}
      BY <1>2, <2>1 DEF AfterResult
    <3> QED
      BY <3>1
  <2>6. ASSUME NEW f, NEW g, NEW table, DOMAIN f \cap DOMAIN g = {}
        PROVE  Saved(f, Saved(g, table)) = Saved(g, Saved(f, table))
    BY <2>6 DEF Saved
  <2>7. D.positions = F.positions
    BY <2>3, <2>4, <2>6 DEF Apart
  <2>8. D.cash = F.cash
    <3>1. DOMAIN Counted(r.cash) \cap DOMAIN Counted(q.cash) = {}
      BY <2>3 DEF Apart, Counted
    <3> QED
      BY <2>4, <2>6, <3>1
  <2>9. D.original = F.original
    <3>1. PICK O : O = B.original
      OBVIOUS
    <3>2. /\ C.original = IF j.kind = "settlement"
                          THEN [O EXCEPT ![<<j.contract, j.settlement>>] = B.positions[j.contract]]
                          ELSE O
          /\ E.original = IF k.kind = "settlement"
                          THEN [O EXCEPT ![<<k.contract, k.settlement>>] = B.positions[k.contract]]
                          ELSE O
          /\ D.original = IF k.kind = "settlement"
                          THEN [C.original EXCEPT ![<<k.contract, k.settlement>>] =
                                  C.positions[k.contract]]
                          ELSE C.original
          /\ F.original = IF j.kind = "settlement"
                          THEN [E.original EXCEPT ![<<j.contract, j.settlement>>] =
                                  E.positions[j.contract]]
                          ELSE E.original
      BY <1>2, <2>1, <3>1 DEF AfterResult
    <3>3. j.kind = "settlement" => E.positions[j.contract] = B.positions[j.contract]
      BY <2>3, <2>4 DEF Apart, Saved, Shape
    <3>4. k.kind = "settlement" => C.positions[k.contract] = B.positions[k.contract]
      BY <2>3, <2>4 DEF Apart, Saved, Shape
    <3>5. CASE j.kind = "settlement" /\ k.kind = "settlement"
      <4>1. PICK m, n, u, v : /\ m = <<j.contract, j.settlement>>
                              /\ n = <<k.contract, k.settlement>>
                              /\ u = B.positions[j.contract] /\ v = B.positions[k.contract]
        OBVIOUS
      <4>2. m # n
        BY <2>3, <3>5, <4>1 DEF Apart
      <4>3. /\ D.original = [[O EXCEPT ![m] = u] EXCEPT ![n] = v]
            /\ F.original = [[O EXCEPT ![n] = v] EXCEPT ![m] = u]
        BY <3>2, <3>3, <3>4, <3>5, <4>1
      <4>4. [[O EXCEPT ![m] = u] EXCEPT ![n] = v] = [[O EXCEPT ![n] = v] EXCEPT ![m] = u]
        BY <4>2
      <4> QED
        BY <4>3, <4>4
    <3>6. CASE ~(j.kind = "settlement" /\ k.kind = "settlement")
      BY <3>2, <3>3, <3>4, <3>6
    <3> QED
      BY <3>5, <3>6
  <2> QED
    BY <2>1, <2>2, <2>5, <2>7, <2>8, <2>9
<1> QED
  BY <1>1, <1>2

-----------------------------------------------------------------------------
(* One more job in a replay                                                *)

\* The jobs at the exchange.
LEMMA ExchangeJobs ==
    /\ Len(Exchange) \in Nat /\ DOMAIN Exchange = 1 .. Len(Exchange)
    /\ \A n \in 1 .. Len(Exchange) : Exchange[n] \in Jobs
    /\ \A m, n \in 1 .. Len(Exchange) : m # n => Exchange[m] # Exchange[n]
    /\ \A m, n \in 1 .. Len(Exchange) : m < n => Exchange[m].at <= Exchange[n].at
<1>1. Exchange \in Seq(Jobs)
  BY OrderAssumption DEF OrderAssumption
<1>2. Len(Exchange) \in Nat /\ DOMAIN Exchange = 1 .. Len(Exchange)
  BY <1>1
<1>3. \A n \in 1 .. Len(Exchange) : Exchange[n] \in Jobs
  BY <1>2 DEF Jobs
<1>4. \A m, n \in 1 .. Len(Exchange) :
         m < n => Exchange[m] # Exchange[n] /\ Exchange[m].at <= Exchange[n].at
  BY <1>2, StoreAssumption DEF StoreAssumption
<1>5. ASSUME NEW m \in 1 .. Len(Exchange), NEW n \in 1 .. Len(Exchange), m # n
      PROVE  Exchange[m] # Exchange[n]
  <2>1. m < n \/ n < m
    BY <1>5
  <2> QED
    BY <1>4, <2>1
<1> QED
  BY <1>2, <1>3, <1>4, <1>5

\* There are as many jobs as places.
LEMMA JobsFinite == IsFiniteSet(Jobs) /\ Cardinality(Jobs) = Len(Exchange)
<1> DEFINE D == 1 .. Len(Exchange)
           M == [n \in D |-> Exchange[n]]
<1>1. /\ Len(Exchange) \in Nat /\ DOMAIN Exchange = D
      /\ \A m, n \in D : m # n => Exchange[m] # Exchange[n]
  BY ExchangeJobs
<1>2. IsFiniteSet(D) /\ Cardinality(D) = Len(Exchange)
  BY <1>1, FS_Interval
<1>3. M \in Surjection(D, Jobs) /\ M \in Injection(D, Jobs)
  BY <1>1 DEF Surjection, Injection, IsInjective, Jobs
<1> HIDE DEF D, M
<1> QED
  BY <1>2, <1>3, FS_Surjection

\* The orders by instant, as facts: each job has a place of its own, and the places have the
\* instants that they have in the exchange's order.
IsOrder(order) ==
    /\ order \in [1 .. Len(Exchange) -> Jobs]
    /\ \A n \in 1 .. Len(Exchange) : order[n].at = Exchange[n].at
    /\ \A m, n \in 1 .. Len(Exchange) : order[m] = order[n] => m = n

LEMMA ExchangeIsOrder == IsOrder(Exchange)
<1>1. Exchange \in [1 .. Len(Exchange) -> Jobs]
  BY OrderAssumption DEF OrderAssumption
<1> QED
  BY <1>1, ExchangeJobs DEF IsOrder

LEMMA OrderIsListed ==
    ASSUME NEW order, IsOrder(order)
    PROVE  order \in Orders
<1> DEFINE D == DOMAIN Exchange
           places == {n \in D : Exchange[n] \in Tied}
           f == [n \in places |-> order[n]]
<1>1. D = 1 .. Len(Exchange) /\ \A n \in D : Exchange[n] \in Jobs
  BY ExchangeJobs
<1>2. ASSUME NEW n \in D PROVE order[n] = Exchange[n] \/ (n \in places /\ order[n] \in Tied)
  BY <1>1 DEF IsOrder, Tied
<1>3. ASSUME NEW n \in places PROVE order[n] \in Tied
  BY <1>2
<1>4. /\ f \in [places -> Tied]
      /\ \A n \in places : f[n].at = Exchange[n].at
      /\ \A m, n \in places : f[m] = f[n] => m = n
  BY <1>1, <1>3 DEF IsOrder
<1>5. order = [n \in D |-> IF n \in places THEN f[n] ELSE Exchange[n]]
  <2>1. order = [n \in D |-> order[n]]
    BY <1>1 DEF IsOrder
  <2> QED
    BY <1>2, <2>1
<1> QED
  BY <1>4, <1>5, Zenon DEF Orders

\* Places that are not later have instants that are not later, and every job has a place.
LEMMA OrderPlaces ==
    ASSUME NEW order, IsOrder(order)
    PROVE  /\ \A m, n \in 1 .. Len(Exchange) : m < n => order[m].at <= order[n].at
           /\ \A j \in Jobs : \E i \in 1 .. Len(Exchange) : order[i] = j
<1>1. \A m, n \in 1 .. Len(Exchange) : m < n => order[m].at <= order[n].at
  BY ExchangeJobs DEF IsOrder
<1>2. order \in Injection(1 .. Len(Exchange), Jobs)
  BY DEF IsOrder, Injection, IsInjective
<1>3. Cardinality(1 .. Len(Exchange)) = Len(Exchange)
  BY ExchangeJobs, FS_Interval
<1>4. order \in Surjection(1 .. Len(Exchange), Jobs)
  BY <1>2, <1>3, JobsFinite, FS_Injection
<1> QED
  BY <1>1, <1>4 DEF Surjection

\* The ids of those of the first n jobs that are in a set.
IdsUpTo(order, jobs, n) == {EntryId(order[m]) : m \in {i \in 1 .. n : order[i] \in jobs}}

\* The books of a replay.
LEMMA ReplayShape ==
    ASSUME NEW order, IsOrder(order), NEW jobs
    PROVE  \A n \in 0 .. Len(Exchange) :
              /\ Shape(Replay(order, jobs, n))
              /\ Replay(order, jobs, n).ids \subseteq IdsUpTo(order, jobs, n)
<1> DEFINE R(n) == Replay(order, jobs, n)
           S == {n \in Nat : Shape(R(n)) /\ R(n).ids \subseteq IdsUpTo(order, jobs, n)}
<1>0. Len(Exchange) \in Nat /\ \A n \in 1 .. Len(Exchange) : order[n] \in Jobs
  BY ExchangeJobs DEF IsOrder
<1>1. 0 \in S
  <2>1. R(0) = EmptyBooks
    BY ReplayStep
  <2>2. Shape(EmptyBooks) /\ EmptyBooks.ids = {}
    BY DEF Shape, EmptyBooks
  <2> HIDE DEF R
  <2> QED
    BY <2>1, <2>2
<1>2. ASSUME NEW n \in 0 .. Len(Exchange) - 1, n \in S PROVE n + 1 \in S
  <2>0. n \in Nat /\ n + 1 \in Nat /\ n + 1 \in 1 .. Len(Exchange)
    BY <1>0
  <2>1. R(n + 1) = OneMore(order, jobs, R(n), n + 1) /\ order[n + 1] \in Jobs
    BY <1>0, <2>0, ReplayStep
  <2> HIDE DEF R
  <2>2. Shape(R(n)) /\ R(n).ids \subseteq IdsUpTo(order, jobs, n)
    BY <1>2
  <2>3. IdsUpTo(order, jobs, n) \subseteq IdsUpTo(order, jobs, n + 1)
    BY DEF IdsUpTo
  <2>4. CASE order[n + 1] \in jobs
    <3>1. PICK j, r : j = order[n + 1] /\ r = Call(R(n), j)
      OBVIOUS
    <3>2. R(n + 1) = AfterResult(R(n), j, r) /\ IsResult(r, j)
      BY <2>1, <2>4, <3>1, CallIsResult DEF OneMore
    <3>3. Shape(R(n + 1)) /\ R(n + 1).ids \subseteq R(n).ids \cup {EntryId(j)}
      BY <2>1, <2>2, <3>1, <3>2, AfterShape
    <3>4. EntryId(j) \in IdsUpTo(order, jobs, n + 1)
      BY <2>4, <3>1 DEF IdsUpTo
    <3> QED
      BY <2>2, <2>3, <3>3, <3>4
  <2>5. CASE order[n + 1] \notin jobs
    <3>1. R(n + 1) = R(n)
      BY <2>1, <2>5 DEF OneMore
    <3> QED
      BY <2>2, <2>3, <3>1
  <2> QED
    BY <2>4, <2>5
<1> HIDE DEF S
<1>3. \A n \in 0 .. Len(Exchange) : n \in S
  BY <1>0, <1>1, <1>2, HoldsUpTo
<1> QED
  BY <1>3 DEF S

\* The cash rows at the start are those of the balances.
LEMMA OpeningDomain == DOMAIN Opening = Balances
<1>1. Past \in 0 .. Len(Exchange)
  BY StoreAssumption DEF StoreAssumption
<1>2. Shape(ExchangeBooks(Past))
  BY <1>1, ReplayShape, ExchangeIsOrder DEF ExchangeBooks
<1>3. DOMAIN ExchangeBooks(Past).cash = Balances
  BY StartAssumption DEF StartAssumption, RowsOK
<1> QED
  BY <1>2, <1>3 DEF Shape

\* A replay does not look at jobs that it does not reach.
LEMMA ReplaySame ==
    ASSUME NEW order, NEW P, NEW Q, NEW n \in 0 .. Len(Exchange),
           \A m \in 1 .. n : order[m] \in P <=> order[m] \in Q
    PROVE  Replay(order, P, n) = Replay(order, Q, n)
<1> DEFINE S == {m \in Nat : Replay(order, P, m) = Replay(order, Q, m)}
<1>0. n \in Nat /\ n \in 0 .. n /\ 0 \in Nat
  BY ExchangeJobs
<1>1. 0 \in S
  BY ReplayStep
<1>2. ASSUME NEW m \in 0 .. n - 1, m \in S PROVE m + 1 \in S
  <2>0. m \in Nat
    BY <1>0
  <2>1. /\ Replay(order, P, m + 1) = OneMore(order, P, Replay(order, P, m), m + 1)
        /\ Replay(order, Q, m + 1) = OneMore(order, Q, Replay(order, Q, m), m + 1)
    BY <2>0, ReplayStep
  <2>2. Replay(order, P, m) = Replay(order, Q, m) /\ m + 1 \in 1 .. n /\ m + 1 \in Nat
    BY <1>0, <1>2
  <2> QED
    BY <2>1, <2>2 DEF OneMore
<1> HIDE DEF S
<1>3. n \in S
  BY <1>0, <1>1, <1>2, HoldsUpTo
<1> QED
  BY <1>3 DEF S

\* A job is posted after jobs that come later at the exchange but share no row with it: the
\* replay that has it, too, is the old one with its result saved at the end.
LEMMA ReplayAdds ==
    ASSUME NEW order, IsOrder(order),
           NEW P \in SUBSET Jobs, NEW i \in 1 .. Len(Exchange), order[i] \notin P,
           \A m \in i + 1 .. Len(Exchange) : order[m] \in P => Apart(order[i], order[m])
    PROVE  Replay(order, P \cup {order[i]}, Len(Exchange))
             = AfterJob(Replay(order, P, Len(Exchange)), order[i])
<1>1. PICK j, Q, N : j = order[i] /\ Q = P \cup {j} /\ N = Len(Exchange)
  OBVIOUS
<1>2. /\ N \in Nat /\ i \in 1 .. N /\ j \in Jobs /\ j \notin P
      /\ \A n \in 1 .. N : order[n] \in Jobs /\ (n # i => order[n] # j)
  BY <1>1, ExchangeJobs DEF IsOrder
<1> DEFINE R(n) == Replay(order, P, n)
           T(n) == Replay(order, Q, n)
<1>3. \A n \in 0 .. N - 1 : /\ R(n + 1) = OneMore(order, P, R(n), n + 1)
                            /\ T(n + 1) = OneMore(order, Q, T(n), n + 1)
  <2>1. \A n \in 0 .. N - 1 : n \in Nat
    BY <1>2
  <2> QED
    BY <2>1, ReplayStep
<1>4. \A n \in 0 .. N : Shape(R(n)) /\ Shape(T(n)) /\ EntryId(j) \notin R(n).ids
  <2>1. \A n \in 0 .. N : Shape(R(n)) /\ Shape(T(n)) /\ R(n).ids \subseteq IdsUpTo(order, P, n)
    BY <1>1, ReplayShape
  <2>2. ASSUME NEW n \in 0 .. N PROVE EntryId(j) \notin IdsUpTo(order, P, n)
    <3>1. ASSUME NEW m \in 1 .. n, order[m] \in P PROVE EntryId(order[m]) # EntryId(j)
      BY <1>2, <3>1, IdsAssumption DEF IdsAssumption
    <3> QED
      BY <3>1 DEF IdsUpTo
  <2> QED
    BY <2>1, <2>2
<1>5. R(i - 1) = T(i - 1)
  <2>1. i - 1 \in 0 .. Len(Exchange) /\ \A m \in 1 .. i - 1 : m \in 1 .. N /\ m # i
    BY <1>1, <1>2
  <2>2. \A m \in 1 .. i - 1 : order[m] \in P <=> order[m] \in Q
    BY <1>1, <1>2, <2>1
  <2> QED
    BY <2>1, <2>2, ReplaySame
<1> HIDE DEF R, T
<1>6. \A n \in i - 1 .. N : Agree(R(n), R(i - 1), j)
  <2> DEFINE S == {n \in Nat : Agree(R(n), R(i - 1), j)}
  <2>1. i - 1 \in Nat /\ i - 1 \in S
    BY <1>2 DEF Agree
  <2>2. ASSUME NEW n \in i - 1 .. N - 1, n \in S PROVE n + 1 \in S
    <3>1. /\ n \in 0 .. N - 1 /\ n \in 0 .. N /\ n + 1 \in 1 .. N /\ n + 1 \in Nat
          /\ n + 1 # i => n + 1 \in i + 1 .. N
      BY <1>2
    <3>2. R(n + 1) = OneMore(order, P, R(n), n + 1) /\ Shape(R(n)) /\ Agree(R(n), R(i - 1), j)
      BY <1>3, <1>4, <2>2, <3>1
    <3>3. CASE order[n + 1] \in P
      <4>1. PICK k, q : k = order[n + 1] /\ q = Call(R(n), k)
        OBVIOUS
      <4>2. k \in Jobs /\ n + 1 # i
        BY <1>1, <1>2, <3>1, <3>3, <4>1
      <4>3. Apart(j, k)
        BY <1>1, <3>1, <3>3, <4>1, <4>2
      <4>4. Apart(k, j)
        BY <4>3 DEF Apart
      <4>5. R(n + 1) = AfterResult(R(n), k, q) /\ IsResult(q, k)
        BY <3>2, <3>3, <4>1, <4>2, CallIsResult DEF OneMore
      <4>6. Agree(R(n + 1), R(n), j)
        BY <1>2, <3>2, <4>2, <4>4, <4>5, AfterShape, OpeningDomain
      <4>7. Agree(R(n + 1), R(i - 1), j)
        BY <3>2, <4>6 DEF Agree
      <4> QED
        BY <3>1, <4>7
    <3>4. CASE order[n + 1] \notin P
      BY <3>1, <3>2, <3>4 DEF OneMore
    <3> QED
      BY <3>3, <3>4
  <2> HIDE DEF S
  <2>3. \A n \in i - 1 .. N : n \in S
    BY <1>2, <2>1, <2>2, HoldsUpTo
  <2> QED
    BY <2>3 DEF S
<1>7. PICK r : r = Call(R(N), j)
  OBVIOUS
<1>8. r = Call(R(i - 1), j) /\ IsResult(r, j)
  <2>1. i - 1 \in 0 .. N /\ N \in 0 .. N /\ N \in i - 1 .. N
    BY <1>2
  <2>2. Call(R(N), j) = Call(R(i - 1), j)
    BY <1>2, <1>4, <1>6, <2>1, AgreeCall
  <2> QED
    BY <1>2, <1>7, <2>2, CallIsResult
<1>9. \A n \in i .. N : T(n) = AfterResult(R(n), j, r)
  <2> DEFINE S == {n \in Nat : T(n) = AfterResult(R(n), j, r)}
  <2>1. i \in S
    <3>1. i - 1 \in 0 .. N - 1 /\ (i - 1) + 1 = i /\ i \in Nat
      BY <1>2
    <3>2. R(i) = OneMore(order, P, R(i - 1), i) /\ T(i) = OneMore(order, Q, T(i - 1), i)
      BY <1>3, <3>1
    <3>3. R(i) = R(i - 1)
      BY <3>2 DEF OneMore
    <3>4. T(i) = AfterJob(R(i - 1), j)
      BY <1>1, <1>5, <3>2 DEF OneMore
    <3> QED
      BY <1>2, <1>8, <3>1, <3>3, <3>4, CallIsResult
  <2>2. ASSUME NEW n \in i .. N - 1, n \in S PROVE n + 1 \in S
    <3>1. /\ n \in 0 .. N - 1 /\ n \in 0 .. N /\ n + 1 \in 1 .. N /\ n + 1 \in Nat
          /\ n + 1 # i /\ n + 1 \in i + 1 .. N
      BY <1>2
    <3>2. /\ R(n + 1) = OneMore(order, P, R(n), n + 1) /\ T(n + 1) = OneMore(order, Q, T(n), n + 1)
          /\ Shape(R(n)) /\ Shape(T(n)) /\ T(n) = AfterResult(R(n), j, r)
      BY <1>3, <1>4, <2>2, <3>1
    <3>3. PICK k : k = order[n + 1]
      OBVIOUS
    <3>4. k \in Jobs /\ k # j /\ (k \in P <=> k \in Q)
      BY <1>1, <1>2, <3>1, <3>3
    <3>5. CASE k \in P
      <4>1. Apart(j, k)
        BY <1>1, <3>1, <3>3, <3>5
      <4>2. Agree(T(n), R(n), k)
        BY <1>2, <1>8, <3>2, <3>4, <4>1, AfterShape, OpeningDomain
      <4>3. EntryId(k) \in T(n).ids <=> EntryId(k) \in R(n).ids
        <5>1. EntryId(k) # EntryId(j)
          BY <1>2, <3>4, IdsAssumption DEF IdsAssumption
        <5>2. R(n).ids \subseteq T(n).ids /\ T(n).ids \subseteq R(n).ids \cup {EntryId(j)}
          BY <1>2, <1>8, <3>2, AfterShape
        <5> QED
          BY <5>1, <5>2
      <4>4. PICK q : q = Call(R(n), k)
        OBVIOUS
      <4>5. q = Call(T(n), k) /\ IsResult(q, k)
        BY <3>2, <3>4, <4>2, <4>3, <4>4, AgreeCall, CallIsResult
      <4>6. /\ T(n + 1) = AfterResult(AfterResult(R(n), j, r), k, q)
            /\ R(n + 1) = AfterResult(R(n), k, q)
        BY <3>2, <3>3, <3>4, <3>5, <4>4, <4>5, CallIsResult DEF OneMore
      <4>7. T(n + 1) = AfterResult(R(n + 1), j, r)
        BY <1>2, <1>8, <3>2, <3>4, <4>1, <4>5, <4>6, Commutes
      <4> QED
        BY <3>1, <4>7
    <3>6. CASE k \notin P
      BY <3>1, <3>2, <3>3, <3>4, <3>6 DEF OneMore
    <3> QED
      BY <3>5, <3>6
  <2> HIDE DEF S
  <2>3. i \in Nat /\ N \in Nat
    BY <1>2
  <2>4. \A n \in i .. N : n \in S
    BY <2>1, <2>2, <2>3, HoldsUpTo
  <2> QED
    BY <2>4 DEF S
<1>10. T(N) = AfterJob(R(N), j)
  BY <1>2, <1>7, <1>9, CallIsResult
<1> QED
  BY <1>1, <1>10 DEF R, T

-----------------------------------------------------------------------------
(* Jobs of one instant                                                     *)

\* The order in which job i comes in place k, and those between one place earlier.
Moved(order, i, k) ==
    [n \in 1 .. Len(Exchange) |-> IF n = k THEN order[i]
                                  ELSE IF n \in i .. k - 1 THEN order[n + 1] ELSE order[n]]

\* It is one if the jobs are of one instant.
LEMMA MovedIsOrder ==
    ASSUME NEW order, IsOrder(order), NEW i \in 1 .. Len(Exchange), NEW k \in i .. Len(Exchange),
           order[k].at = order[i].at
    PROVE  IsOrder(Moved(order, i, k))
<1>1. PICK N, q : N = Len(Exchange) /\ q = Moved(order, i, k)
  OBVIOUS
<1>2. /\ N \in Nat /\ i \in 1 .. N /\ k \in i .. N /\ k \in 1 .. N
      /\ \A n \in i .. k - 1 : n + 1 \in 1 .. N /\ n \in 1 .. N
  BY <1>1, ExchangeJobs
<1> DEFINE from(n) == IF n = k THEN i ELSE IF n \in i .. k - 1 THEN n + 1 ELSE n
<1>3. ASSUME NEW n \in 1 .. N PROVE from(n) \in 1 .. N /\ q[n] = order[from(n)]
  BY <1>1, <1>2 DEF Moved
<1>4. ASSUME NEW m \in 1 .. N, NEW n \in 1 .. N, from(m) = from(n) PROVE m = n
  BY <1>2, <1>4
<1>5. ASSUME NEW n \in 1 .. N PROVE order[from(n)].at = order[n].at
  <2>1. \A m \in 1 .. N : order[m].at \in Int
    BY <1>1, JobFields DEF IsOrder
  <2>2. \A m, l \in 1 .. N : m < l => order[m].at <= order[l].at
    BY <1>1, OrderPlaces
  <2>3. ASSUME NEW m \in i .. k PROVE order[m].at = order[i].at
    <3>1. m \in 1 .. N /\ (m = i \/ i < m) /\ (m = k \/ m < k)
      BY <1>2
    <3>2. order[i].at <= order[m].at /\ order[m].at <= order[k].at
      BY <1>2, <2>1, <2>2, <3>1
    <3> QED
      BY <1>2, <2>1, <3>1, <3>2
  <2>4. from(n) = n \/ (n \in i .. k /\ from(n) \in i .. k)
    BY <1>2
  <2> HIDE DEF from
  <2> QED
    BY <2>3, <2>4
<1> HIDE DEF from
<1>6. q \in [1 .. N -> Jobs]
  <2>1. q = [n \in 1 .. N |-> q[n]]
    BY <1>1 DEF Moved
  <2>2. \A n \in 1 .. N : q[n] \in Jobs
    BY <1>1, <1>3 DEF IsOrder
  <2> QED
    BY <2>1, <2>2
<1>7. \A n \in 1 .. N : q[n].at = Exchange[n].at
  BY <1>1, <1>3, <1>5 DEF IsOrder
<1>8. ASSUME NEW m \in 1 .. N, NEW n \in 1 .. N, q[m] = q[n] PROVE m = n
  BY <1>1, <1>3, <1>4, <1>8 DEF IsOrder
<1> QED
  BY <1>1, <1>6, <1>7, <1>8 DEF IsOrder

\* A replay does not see where a job stands that is not in its set.
LEMMA MovedReplay ==
    ASSUME NEW order, IsOrder(order), NEW P, NEW i \in 1 .. Len(Exchange),
           NEW k \in i .. Len(Exchange), order[i] \notin P
    PROVE  Replay(Moved(order, i, k), P, Len(Exchange)) = Replay(order, P, Len(Exchange))
<1>1. PICK N, q : N = Len(Exchange) /\ q = Moved(order, i, k)
  OBVIOUS
<1> DEFINE R(n) == Replay(order, P, n)
           T(n) == Replay(q, P, n)
<1>2. N \in Nat /\ i \in Nat /\ k \in Nat /\ 1 <= i /\ i <= k /\ k <= N /\ i - 1 \in Nat
  BY <1>1, ExchangeJobs
<1>3. /\ q[k] = order[i]
      /\ \A n \in i .. k - 1 : q[n] = order[n + 1]
      /\ \A n \in 1 .. N : n < i \/ n > k => q[n] = order[n]
  BY <1>1, <1>2 DEF Moved
<1>4. /\ R(0) = T(0)
      /\ \A n \in Nat : /\ R(n + 1) = OneMore(order, P, R(n), n + 1)
                        /\ T(n + 1) = OneMore(q, P, T(n), n + 1)
  BY ReplayStep
<1> HIDE DEF R, T
<1>5. T(i - 1) = R(i - 1)
  <2> DEFINE S == {n \in Nat : T(n) = R(n)}
  <2>1. 0 \in S
    BY <1>4
  <2>2. ASSUME NEW n \in 0 .. (i - 1) - 1, n \in S PROVE n + 1 \in S
    <3>1. n \in Nat /\ n + 1 \in Nat /\ q[n + 1] = order[n + 1]
      BY <1>2, <1>3
    <3> QED
      BY <1>4, <2>2, <3>1 DEF OneMore
  <2> HIDE DEF S
  <2>3. \A n \in 0 .. i - 1 : n \in S
    BY <1>2, <2>1, <2>2, HoldsUpTo
  <2> QED
    BY <1>2, <2>3 DEF S
<1>6. T(k - 1) = R(k)
  <2> DEFINE S == {n \in Nat : n >= i /\ T(n - 1) = R(n)}
  <2>1. i \in S
    <3>1. (i - 1) + 1 = i
      BY <1>2
    <3>2. R(i) = OneMore(order, P, R(i - 1), i)
      BY <1>2, <1>4, <3>1
    <3> QED
      BY <1>2, <1>5, <3>2 DEF OneMore
  <2>2. ASSUME NEW n \in i .. k - 1, n \in S PROVE n + 1 \in S
    <3>1. n - 1 \in Nat /\ n \in Nat /\ (n - 1) + 1 = n /\ (n + 1) - 1 = n /\ n + 1 \in Nat
          /\ n + 1 >= i /\ q[n] = order[n + 1]
      BY <1>2, <1>3
    <3>2. T(n) = OneMore(q, P, T(n - 1), n) /\ R(n + 1) = OneMore(order, P, R(n), n + 1)
      BY <1>4, <3>1
    <3>3. T(n) = R(n + 1)
      BY <2>2, <3>1, <3>2 DEF OneMore
    <3> QED
      BY <3>1, <3>3
  <2> HIDE DEF S
  <2>3. \A n \in i .. k : n \in S
    BY <1>2, <2>1, <2>2, HoldsUpTo
  <2> QED
    BY <1>2, <2>3 DEF S
<1>7. T(N) = R(N)
  <2> DEFINE S == {n \in Nat : T(n) = R(n)}
  <2>1. k \in S
    <3>1. k - 1 \in Nat /\ (k - 1) + 1 = k
      BY <1>2
    <3>2. T(k) = OneMore(q, P, T(k - 1), k)
      BY <1>4, <3>1
    <3> QED
      BY <1>2, <1>3, <1>6, <3>2 DEF OneMore
  <2>2. ASSUME NEW n \in k .. N - 1, n \in S PROVE n + 1 \in S
    <3>1. n \in Nat /\ n + 1 \in Nat /\ q[n + 1] = order[n + 1]
      BY <1>2, <1>3
    <3> QED
      BY <1>4, <2>2, <3>1 DEF OneMore
  <2> HIDE DEF S
  <2>3. \A n \in k .. N : n \in S
    BY <1>2, <2>1, <2>2, HoldsUpTo
  <2> QED
    BY <1>2, <2>3 DEF S
<1> QED
  BY <1>1, <1>7 DEF R, T

\* The last place of an instant.
LEMMA LastOfInstant ==
    ASSUME NEW order, IsOrder(order), NEW i \in 1 .. Len(Exchange)
    PROVE  \E k \in i .. Len(Exchange) :
              /\ order[k].at = order[i].at
              /\ \A m \in k + 1 .. Len(Exchange) : order[m].at > order[i].at
<1>1. PICK N, t : N = Len(Exchange) /\ t = order[i].at
  OBVIOUS
<1>2. /\ N \in Nat /\ i \in 1 .. N /\ t \in Int
      /\ \A m \in 1 .. N : order[m].at \in Int
      /\ \A m, n \in 1 .. N : m < n => order[m].at <= order[n].at
  BY <1>1, ExchangeJobs, OrderPlaces, JobFields DEF IsOrder
<1> DEFINE S == {n \in Nat : order[n].at = t}
<1>3. i \in S
  BY <1>1, <1>2
<1>4. CASE \A n \in i .. N - 1 : n \in S => n + 1 \in S
  <2>0. i \in Nat
    BY <1>2
  <2> HIDE DEF S
  <2>1. \A n \in i .. N : n \in S
    BY <1>2, <1>3, <1>4, <2>0, HoldsUpTo
  <2>2. N \in i .. N /\ N + 1 .. N = {}
    BY <1>2
  <2> QED
    BY <1>1, <2>1, <2>2 DEF S
<1>5. CASE \E n \in i .. N - 1 : n \in S /\ n + 1 \notin S
  <2>1. PICK k \in i .. N - 1 : k \in S /\ k + 1 \notin S
    BY <1>5
  <2>2. k \in i .. N /\ k \in 1 .. N /\ k + 1 \in 1 .. N /\ k < k + 1 /\ k + 1 \in Nat
    BY <1>2
  <2>3. order[k].at = t /\ order[k + 1].at > t
    BY <1>2, <2>1, <2>2
  <2>4. ASSUME NEW m \in k + 1 .. N PROVE order[m].at > t
    <3>1. m \in 1 .. N /\ (m = k + 1 \/ k + 1 < m)
      BY <1>2, <2>2
    <3>2. m = k + 1 \/ order[k + 1].at <= order[m].at
      BY <1>2, <2>2, <3>1
    <3> QED
      BY <1>2, <2>2, <2>3, <3>1, <3>2
  <2> HIDE DEF S
  <2> QED
    BY <1>1, <2>2, <2>3, <2>4
<1> QED
  BY <1>4, <1>5

\* A job that is about to be posted may stand behind the jobs of its instant.
LEMMA TiesPosted ==
    ASSUME NEW order, IsOrder(order), NEW P, NEW j \in Jobs, j \notin P
    PROVE  \E last \in 1 .. Len(Exchange) : \E later :
              /\ IsOrder(later) /\ later[last] = j
              /\ Replay(later, P, Len(Exchange)) = Replay(order, P, Len(Exchange))
              /\ \A m \in last + 1 .. Len(Exchange) : later[m].at > j.at
<1>1. PICK i \in 1 .. Len(Exchange) : order[i] = j
  BY OrderPlaces
<1>2. PICK k \in i .. Len(Exchange) :
         /\ order[k].at = order[i].at
         /\ \A m \in k + 1 .. Len(Exchange) : order[m].at > order[i].at
  BY LastOfInstant
<1>3. PICK later : later = Moved(order, i, k)
  OBVIOUS
<1>4. IsOrder(later) /\ Replay(later, P, Len(Exchange)) = Replay(order, P, Len(Exchange))
  BY <1>1, <1>2, <1>3, MovedIsOrder, MovedReplay
<1>5. k \in 1 .. Len(Exchange)
  BY ExchangeJobs
<1>6. later[k] = j /\ \A m \in k + 1 .. Len(Exchange) : later[m] = order[m]
  BY <1>1, <1>3, <1>5 DEF Moved
<1> QED
  BY <1>1, <1>2, <1>4, <1>5, <1>6

\* Ids stay.
LEMMA ReplayGrows ==
    ASSUME NEW jobs, NEW m \in 0 .. Len(Exchange), NEW n \in m .. Len(Exchange)
    PROVE  Replay(Exchange, jobs, m).ids \subseteq Replay(Exchange, jobs, n).ids
<1> DEFINE R(k) == Replay(Exchange, jobs, k)
           S == {k \in Nat : R(m).ids \subseteq R(k).ids}
<1>0. m \in Nat /\ n \in Nat /\ n \in m .. n
  BY ExchangeJobs
<1>1. m \in S
  BY <1>0
<1>2. ASSUME NEW k \in m .. n - 1, k \in S PROVE k + 1 \in S
  <2>1. /\ k \in Nat /\ k + 1 \in Nat /\ k \in 0 .. Len(Exchange)
        /\ k + 1 \in 1 .. Len(Exchange)
    BY <1>0, ExchangeJobs
  <2>2. R(k + 1) = OneMore(Exchange, jobs, R(k), k + 1) /\ Shape(R(k)) /\ Exchange[k + 1] \in Jobs
    BY <2>1, ReplayStep, ReplayShape, ExchangeJobs, ExchangeIsOrder
  <2>3. R(m).ids \subseteq R(k).ids
    BY <1>2
  <2> HIDE DEF R
  <2>4. R(k).ids \subseteq R(k + 1).ids
    <3>1. CASE Exchange[k + 1] \in jobs
      <4>1. PICK j, r : j = Exchange[k + 1] /\ r = Call(R(k), j)
        OBVIOUS
      <4>2. R(k + 1) = AfterResult(R(k), j, r) /\ IsResult(r, j)
        BY <2>2, <3>1, <4>1, CallIsResult DEF OneMore
      <4> QED
        BY <2>2, <4>1, <4>2, AfterShape
    <3>2. CASE Exchange[k + 1] \notin jobs
      BY <2>2, <3>2 DEF OneMore
    <3> QED
      BY <3>1, <3>2
  <2> QED
    BY <2>1, <2>3, <2>4
<1> HIDE DEF S
<1>3. n \in S
  BY <1>0, <1>1, <1>2, HoldsUpTo
<1> QED
  BY <1>3 DEF S

\* The books at the start are the replay of what is posted at the start.
LEMMA StartIsReplay ==
    ASSUME NEW P, P = {j \in Jobs : EntryId(j) \in ExchangeBooks(Past).ids}
    PROVE  Replay(Exchange, P, Len(Exchange)) = ExchangeBooks(Past)
<1>1. PICK N, n : N = Len(Exchange) /\ n = Past
  OBVIOUS
<1>2. /\ N \in Nat /\ n \in Nat /\ n \in 0 .. N /\ n \in 0 .. n /\ N \in n .. N
      /\ \A m \in 1 .. N : Exchange[m] \in Jobs
  BY <1>1, ExchangeJobs, StoreAssumption DEF StoreAssumption
<1> DEFINE R(m) == Replay(Exchange, Jobs, m)
           T(m) == Replay(Exchange, P, m)
<1>3. R(n) = ExchangeBooks(Past)
  BY <1>1 DEF ExchangeBooks
<1>4. \A m \in 0 .. N - 1 : /\ R(m + 1) = OneMore(Exchange, Jobs, R(m), m + 1)
                            /\ T(m + 1) = OneMore(Exchange, P, T(m), m + 1)
  <2>1. \A m \in 0 .. N - 1 : m \in Nat
    BY <1>2
  <2> QED
    BY <2>1, ReplayStep
<1>5. R(0) = T(0)
  BY ReplayStep
<1>6. \A m \in 0 .. n : R(m).ids \subseteq R(n).ids
  <2>1. ASSUME NEW m \in 0 .. n PROVE m \in 0 .. Len(Exchange) /\ n \in m .. Len(Exchange)
    BY <1>1, <1>2
  <2> QED
    BY <2>1, ReplayGrows
<1>7. R(n).ids \subseteq IdsUpTo(Exchange, Jobs, n)
  BY <1>1, <1>2, ReplayShape, ExchangeIsOrder
<1> HIDE DEF R, T
<1>8. R(n) = T(n)
  <2> DEFINE S == {m \in Nat : R(m) = T(m)}
  <2>1. 0 \in S
    BY <1>5
  <2>2. ASSUME NEW m \in 0 .. n - 1, m \in S PROVE m + 1 \in S
    <3>1. m \in 0 .. N - 1 /\ m + 1 \in 1 .. N /\ m + 1 \in 0 .. n /\ m + 1 \in Nat
      BY <1>2
    <3>2. PICK j, r : j = Exchange[m + 1] /\ r = Call(R(m), j)
      OBVIOUS
    <3>3. j \in Jobs /\ R(m) = T(m)
      BY <1>2, <2>2, <3>1, <3>2
    <3>4. R(m + 1) = AfterResult(R(m), j, r) /\ IsResult(r, j)
      BY <1>4, <3>1, <3>2, <3>3, CallIsResult DEF OneMore
    <3>5. CASE j \in P
      <4>1. T(m + 1) = AfterJob(R(m), j)
        BY <1>4, <3>1, <3>2, <3>3, <3>5 DEF OneMore
      <4> QED
        BY <3>1, <3>2, <3>3, <3>4, <4>1, CallIsResult
    <3>6. CASE j \notin P
      <4>1. EntryId(j) \notin R(m + 1).ids
        BY <1>3, <1>6, <3>1, <3>3, <3>6
      <4>2. r.outcome # "applied"
        BY <3>4, <4>1 DEF AfterResult, IsResult
      <4>3. R(m + 1) = R(m)
        BY <3>4, <4>2 DEF AfterResult
      <4>4. T(m + 1) = T(m)
        BY <1>4, <3>1, <3>2, <3>6 DEF OneMore
      <4> QED
        BY <3>1, <3>3, <4>3, <4>4
    <3> QED
      BY <3>5, <3>6
  <2> HIDE DEF S
  <2>3. n \in S
    BY <1>2, <2>1, <2>2, HoldsUpTo
  <2> QED
    BY <2>3 DEF S
<1>9. T(N) = T(n)
  <2> DEFINE S == {m \in Nat : T(m) = T(n)}
  <2>1. n \in S
    BY <1>2
  <2>2. ASSUME NEW m \in n .. N - 1, m \in S PROVE m + 1 \in S
    <3>1. m \in 0 .. N - 1 /\ m + 1 \in 1 .. N /\ m + 1 \in Nat /\ m + 1 > n
      BY <1>2
    <3>2. EntryId(Exchange[m + 1]) \notin IdsUpTo(Exchange, Jobs, n)
      <4>1. ASSUME NEW i \in 1 .. n PROVE EntryId(Exchange[i]) # EntryId(Exchange[m + 1])
        <5>1. i \in 1 .. N /\ i # m + 1
          BY <1>2, <3>1
        <5>2. Exchange[i] # Exchange[m + 1] /\ Exchange[i] \in Jobs /\ Exchange[m + 1] \in Jobs
          BY <1>1, <1>2, <3>1, <5>1, ExchangeJobs
        <5> QED
          BY <5>2, IdsAssumption DEF IdsAssumption
      <4> QED
        BY <4>1 DEF IdsUpTo
    <3>3. Exchange[m + 1] \notin P
      BY <1>3, <1>7, <3>2
    <3>4. T(m + 1) = T(m) /\ T(m) = T(n)
      BY <1>4, <2>2, <3>1, <3>3 DEF OneMore
    <3> QED
      BY <3>1, <3>4
  <2> HIDE DEF S
  <2>3. N \in S
    BY <1>2, <2>1, <2>2, HoldsUpTo
  <2> QED
    BY <2>3 DEF S
<1> QED
  BY <1>1, <1>3, <1>8, <1>9 DEF T

-----------------------------------------------------------------------------
(* The tables are a replay                                                 *)

Posted == {j \in Jobs : EntryId(j) \in JournalIds}

\* The tables are those of the replay of what is posted, in an order by instant.
TablesAre(order, jobs) ==
    \E books \in {Replay(order, jobs, Len(Exchange))} :
        /\ books.positions = positions /\ books.cash = cash
        /\ books.entries = journal /\ books.original = original
TablesReplay == \E order : IsOrder(order) /\ TablesAre(order, Posted)

\* What a session is about to write was computed from the rows that are there, as far as
\* they still have the versions it was computed from.
ComputedFrom(j, r, p, ps, cs, ids) ==
    /\ r = Outcome(j, [positions |-> ps, cash |-> cs, ids |-> ids],
                   WasOf(j, original), NowOf(j), BeforeOf(j))
    /\ ids \subseteq JournalIds
    /\ \A c \in PositionKeys(j) :
          /\ ps[c] \in PositionRows \cup {None} /\ (j.kind # "fill" => ps[c] # None)
          /\ VersionOf(ps[c]) <= VersionOf(positions[c])
          /\ VersionOf(ps[c]) = VersionOf(positions[c]) => ps[c] = positions[c]
          /\ r.positions[c].version = VersionOf(ps[c]) + 1
    /\ \A b \in CashKeys(j) :
          /\ cs[b] \in CashRows /\ cs[b].version <= cash[b].version
          /\ cs[b].version = cash[b].version => cs[b] = cash[b]
          /\ r.cash[b].version = cs[b].version
    /\ j.kind = "settlement" => p = ps[j.contract]
    /\ j.kind = "correction" => original[<<j.contract, j.previous>>] # None
Computed(j, r, p) == \E ps, cs, ids : ComputedFrom(j, r, p, ps, cs, ids)

\* A settlement row has a status that was saved.
RowStatusOK ==
    \A x \in DOMAIN Settlements :
        settlements[x] \in {None} \cup (IF Settlements[x].status = "corrected" THEN {"corrected"}
                                        ELSE {"finalized", "settled"})

ProjectionInv ==
    /\ TablesReplay /\ RowStatusOK /\ DOMAIN settlements = DOMAIN Settlements
    /\ RowsFollow(positions, cash, JournalIds)
    /\ \A s \in Sessions : pc[s] = "write" => Computed(job[s], result[s], seen[s])

\* The start.
LEMMA ProjectionInit == Init => ProjectionInv
<1> SUFFICES ASSUME Init PROVE ProjectionInv
  OBVIOUS
<1>1. PICK books : books = ExchangeBooks(Past)
  OBVIOUS
<1>2. /\ positions = books.positions /\ cash = books.cash /\ journal = books.entries
      /\ original = books.original
  BY <1>1 DEF Init
<1>3. Shape(books)
  BY <1>1, ReplayShape, ExchangeIsOrder, StoreAssumption DEF ExchangeBooks, StoreAssumption
<1>4. JournalIds = books.ids
  BY <1>2, <1>3 DEF Shape, JournalIds
<1>5. Replay(Exchange, Posted, Len(Exchange)) = books
  BY <1>1, <1>4, StartIsReplay DEF Posted
<1>6. TablesReplay
  BY <1>2, <1>5, ExchangeIsOrder DEF TablesReplay, TablesAre
<1>7. RowStatusOK /\ DOMAIN settlements = DOMAIN Settlements
  BY DEF Init, RowStatusOK
<1>8. RowsFollow(positions, cash, JournalIds)
  BY <1>1, <1>2, <1>4, OrderAssumption DEF OrderAssumption
<1>9. \A s \in Sessions : pc[s] = "idle"
  BY DEF Init
<1> QED
  BY <1>6, <1>7, <1>8, <1>9 DEF ProjectionInv

\* A settlement row that a helper accepts is the record.
LEMMA RowIsRecord ==
    ASSUME RowStatusOK, NEW x \in DOMAIN Settlements,
           SettlementRow(x).status \in {"settled", "corrected"}
    PROVE  SettlementRow(x) = Settlements[x]
<1>1. Settlements[x] \in SettlementRecords
  BY JobsAssumption DEF JobsAssumption
<1>2. PICK S, st, at : /\ S = Settlements[x] /\ st = settlements[x]
                       /\ at = IF settlements[x] = "finalized" THEN None
                               ELSE Settlements[x].settled_at
  OBVIOUS
<1>3. SettlementRow(x) = [S EXCEPT !.status = st, !.settled_at = at]
  BY <1>2 DEF SettlementRow
<1>4. S \in SettlementRecords
  BY <1>1, <1>2
<1>5. [S EXCEPT !.status = st, !.settled_at = at].status = st
  BY <1>4 DEF SettlementRecords
<1>6. st \in {"settled", "corrected"}
  BY <1>3, <1>5
<1>7. st = S.status
  BY <1>2, <1>6, OrderAssumption DEF OrderAssumption, RowStatusOK
<1>8. at = S.settled_at
  BY <1>2, <1>6
<1>9. [S EXCEPT !.status = S.status, !.settled_at = S.settled_at] = S
  BY <1>4 DEF SettlementRecords
<1> QED
  BY <1>2, <1>3, <1>7, <1>8, <1>9

\* What a helper returns for a session is what it returns for the records.
LEMMA OutcomeOfRecords ==
    ASSUME RowStatusOK, NEW j \in Jobs, NEW view,
           NEW r, r = Outcome(j, view, Was(j), SettledRow(j), PreviousRow(j)),
           r.outcome = "applied"
    PROVE  r = Outcome(j, view, WasOf(j, original), NowOf(j), BeforeOf(j))
<1>1. JobOK(j)
  BY JobFields
<1>2. Was(j) = WasOf(j, original)
  BY DEF Was, WasOf
<1>3. CASE j.kind = "settlement"
  <2>1. PICK x : x = SettlementRow(j.settlement)
    OBVIOUS
  <2>2. SettledRow(j) = x /\ r = ApplySettlementOnce(view, j.contract, j.balance, x)
    BY <1>3, <2>1 DEF SettledRow, Outcome
  <2>3. x.status = "settled"
    BY <2>2 DEF ApplySettlementOnce, SettlementAccepted, Once, Refused, Duplicate
  <2>4. x = Settlements[j.settlement]
    BY <1>1, <1>3, <2>1, <2>3, RowIsRecord DEF JobOK
  <2>5. SettledRow(j) = NowOf(j) /\ PreviousRow(j) = BeforeOf(j)
    BY <1>3, <2>2, <2>4 DEF NowOf, BeforeOf, PreviousRow
  <2> QED
    BY <1>2, <2>5
<1>4. CASE j.kind = "correction"
  <2>1. PICK x, y, was : /\ x = SettlementRow(j.settlement) /\ y = SettlementRow(j.previous)
                         /\ was = Was(j)
    OBVIOUS
  <2>2. /\ SettledRow(j) = x /\ PreviousRow(j) = y
        /\ r = ApplyCorrectionOnce(view, was, j.contract, j.balance, y, x)
    BY <1>4, <2>1 DEF SettledRow, PreviousRow, Outcome
  <2>3. x.status = "corrected" /\ y.status = "settled"
    <3>0. r # Refused
      BY DEF Refused
    <3>1. CorrectionIdentity(was, view.positions[j.contract], y, x,
                             view.cash[j.balance].currency)
      BY <2>2, <3>0, Zenon DEF ApplyCorrectionOnce
    <3>2. CorrectionIdentity(was, view.positions[j.contract], y, x,
                             view.cash[j.balance].currency) =>
            x.status = "corrected" /\ y.status = "settled"
      BY DEF CorrectionIdentity, SettlementAccepted
    <3> QED
      BY <3>1, <3>2
  <2>4. x = Settlements[j.settlement] /\ y = Settlements[j.previous]
    BY <1>1, <1>4, <2>1, <2>3, RowIsRecord DEF JobOK
  <2>5. SettledRow(j) = NowOf(j) /\ PreviousRow(j) = BeforeOf(j)
    BY <1>4, <2>2, <2>4 DEF NowOf, BeforeOf
  <2> QED
    BY <1>2, <2>5
<1>5. CASE j.kind \notin {"settlement", "correction"}
  <2>1. SettledRow(j) = NowOf(j) /\ PreviousRow(j) = BeforeOf(j)
    BY <1>5 DEF SettledRow, PreviousRow, NowOf, BeforeOf
  <2> QED
    BY <1>2, <2>1
<1> QED
  BY <1>3, <1>4, <1>5

\* Calling the helper.
LEMMA ApplyComputes ==
    ASSUME TablesOK, RowStatusOK, NEW j, NEW ps, ReadOK(j, ps), ExactJob(j, ps),
           NEW r, r = Outcome(j, [positions |-> ps, cash |-> cash, ids |-> JournalIds],
                              Was(j), SettledRow(j), PreviousRow(j)),
           r.outcome = "applied", NEW p, j.kind = "settlement" => p = ps[j.contract]
    PROVE  Computed(j, r, p)
<1>1. j \in Jobs /\ JobOK(j)
  BY JobFields DEF ReadOK
<1>2. PICK view : view = [positions |-> ps, cash |-> cash, ids |-> JournalIds]
  OBVIOUS
<1>3. r = Outcome(j, view, WasOf(j, original), NowOf(j), BeforeOf(j))
  BY <1>1, <1>2, OutcomeOfRecords
<1>4. Posts(r, j, ps, cash)
  BY OutcomePosts
<1>5. DOMAIN r.positions = PositionKeys(j) /\ DOMAIN r.cash = CashKeys(j)
  BY <1>1, <1>3, OutcomeRows
<1>6. PositionKeys(j) \subseteq Contracts /\ CashKeys(j) \subseteq Balances
  BY <1>1, KeysOfJob
<1>7. ASSUME NEW c \in PositionKeys(j)
      PROVE  /\ ps[c] \in PositionRows \cup {None} /\ (j.kind # "fill" => ps[c] # None)
             /\ VersionOf(ps[c]) <= VersionOf(positions[c])
             /\ VersionOf(ps[c]) = VersionOf(positions[c]) => ps[c] = positions[c]
             /\ r.positions[c].version = VersionOf(ps[c]) + 1
  <2>1. c \in Contracts /\ c \in DOMAIN r.positions
    BY <1>5, <1>6
  <2>2. j.kind \in {"fill", "settlement", "correction"} /\ c = j.contract
    BY <1>7 DEF PositionKeys
  <2> QED
    BY <1>4, <2>1, <2>2 DEF ReadOK, Posts
<1>8. ASSUME NEW b \in CashKeys(j)
      PROVE  /\ cash[b] \in CashRows /\ cash[b].version <= cash[b].version
             /\ r.cash[b].version = cash[b].version
  <2>1. b \in Balances /\ b \in DOMAIN r.cash
    BY <1>5, <1>6
  <2>2. cash[b] \in CashRows
    BY <2>1 DEF TablesOK, RowsOK
  <2>3. cash[b].version \in Int
    BY <2>2 DEF CashRows
  <2> QED
    BY <1>4, <2>1, <2>2, <2>3 DEF Posts
<1>9. j.kind = "correction" => original[<<j.contract, j.previous>>] # None
  BY DEF ReadOK
<1>10. ComputedFrom(j, r, p, ps, cash, JournalIds)
  BY <1>2, <1>3, <1>7, <1>8, <1>9 DEF ComputedFrom
<1> QED
  BY <1>10, Zenon DEF Computed

\* Rows that are saved have the next version, so that what was computed from the row before
\* does not follow from the new one.
LEMMA ComputedKept ==
    ASSUME NEW j \in Jobs, NEW r, NEW p, Computed(j, r, p), TablesOK,
           JournalIds \subseteq JournalIds',
           \A c \in Contracts : \/ positions'[c] = positions[c]
                                \/ VersionOf(positions'[c]) = VersionOf(positions[c]) + 1,
           \A b \in Balances : \/ cash'[b] = cash[b]
                               \/ cash'[b].version = cash[b].version + 1,
           \A k \in DOMAIN original : original[k] # None => original'[k] = original[k]
    PROVE  Computed(j, r, p)'
<1>0. PICK ps, cs, ids : ComputedFrom(j, r, p, ps, cs, ids)
  BY DEF Computed
<1>1. /\ r = Outcome(j, [positions |-> ps, cash |-> cs, ids |-> ids],
                     WasOf(j, original), NowOf(j), BeforeOf(j))
      /\ ids \subseteq JournalIds
      /\ \A c \in PositionKeys(j) :
            /\ ps[c] \in PositionRows \cup {None} /\ (j.kind # "fill" => ps[c] # None)
            /\ VersionOf(ps[c]) <= VersionOf(positions[c])
            /\ VersionOf(ps[c]) = VersionOf(positions[c]) => ps[c] = positions[c]
            /\ r.positions[c].version = VersionOf(ps[c]) + 1
      /\ \A b \in CashKeys(j) :
            /\ cs[b] \in CashRows /\ cs[b].version <= cash[b].version
            /\ cs[b].version = cash[b].version => cs[b] = cash[b]
            /\ r.cash[b].version = cs[b].version
      /\ j.kind = "settlement" => p = ps[j.contract]
      /\ j.kind = "correction" => original[<<j.contract, j.previous>>] # None
  BY <1>0 DEF ComputedFrom
<1>2. PositionKeys(j) \subseteq Contracts /\ CashKeys(j) \subseteq Balances
  BY KeysOfJob
<1>3. /\ WasOf(j, original') = WasOf(j, original)
      /\ j.kind = "correction" => original'[<<j.contract, j.previous>>] # None
  <2>1. j.kind = "correction" => <<j.contract, j.previous>> \in DOMAIN original
    BY <1>2, KeysOfJob DEF TablesOK
  <2> QED
    BY <1>1, <2>1 DEF WasOf
<1>4. ASSUME NEW c \in PositionKeys(j)
      PROVE  /\ VersionOf(ps[c]) <= VersionOf(positions'[c])
             /\ VersionOf(ps[c]) = VersionOf(positions'[c]) => ps[c] = positions'[c]
  <2>1. VersionOf(ps[c]) \in Int /\ VersionOf(positions[c]) \in Int
    BY <1>1, <1>2 DEF VersionOf, PositionRows, TablesOK, RowsOK
  <2>2. c \in Contracts
    BY <1>2
  <2>3. CASE positions'[c] = positions[c]
    BY <1>1, <2>3
  <2>4. CASE VersionOf(positions'[c]) = VersionOf(positions[c]) + 1
    <3>1. VersionOf(ps[c]) <= VersionOf(positions[c])
      BY <1>1
    <3> QED
      BY <2>1, <2>4, <3>1
  <2> QED
    BY <2>2, <2>3, <2>4
<1>5. ASSUME NEW b \in CashKeys(j)
      PROVE  /\ cs[b].version <= cash'[b].version
             /\ cs[b].version = cash'[b].version => cs[b] = cash'[b]
  <2>1. b \in Balances /\ cs[b].version \in Int /\ cash[b].version \in Int
    BY <1>1, <1>2 DEF CashRows, TablesOK, RowsOK
  <2>2. CASE cash'[b] = cash[b]
    BY <1>1, <2>2
  <2>3. CASE cash'[b].version = cash[b].version + 1
    <3>1. cs[b].version <= cash[b].version
      BY <1>1
    <3> QED
      BY <2>1, <2>3, <3>1
  <2> QED
    BY <2>1, <2>2, <2>3
<1>6. ids \subseteq JournalIds'
  BY <1>1
<1>7. ComputedFrom(j, r, p, ps, cs, ids)'
  BY <1>1, <1>3, <1>4, <1>5, <1>6 DEF ComputedFrom
<1> QED
  BY <1>7, Zenon DEF Computed

\* The rows that a commit saves are no older than its job.
LEMMA CommitFollows ==
    ASSUME TablesOK, NEW j \in Jobs, NEW r, PendingOK(j, r), NEW U, NEW was,
           r = Outcome(j, U, was, NowOf(j), BeforeOf(j)),
           \A c \in PositionKeys(j) : /\ U.positions[c] = positions[c]
                                      /\ j.kind # "fill" => positions[c] # None,
           \A b \in CashKeys(j) : U.cash[b] = cash[b]
    PROVE  /\ \A c \in PositionKeys(j) :
                 /\ r.positions[c] \in PositionRows /\ r.positions[c].updated_at >= j.at
                 /\ positions[c] # None => j.at >= positions[c].updated_at
           /\ \A b \in CashKeys(j) : /\ r.cash[b] \in CashRows /\ r.cash[b].captured_at = j.at
                                     /\ j.at >= cash[b].captured_at
<1>1. JobOK(j) /\ j.at \in Int /\ None \notin Int
  BY JobFields, StartAssumption DEF StartAssumption
<1>2. /\ PositionKeys(j) \subseteq Contracts /\ CashKeys(j) \subseteq Balances
      /\ r.outcome = "applied"
  BY KeysOfJob DEF PendingOK
<1>3. /\ r.entry.at = j.at
      /\ DOMAIN r.positions = PositionKeys(j) /\ DOMAIN r.cash = CashKeys(j)
      /\ \A c \in PositionKeys(j) : U.positions[c] # None => j.at >= U.positions[c].updated_at
      /\ \A b \in CashKeys(j) : /\ j.at >= U.cash[b].captured_at
                                /\ \E a : r.cash[b] = ApplyToCash(U.cash[b], r.entry, a)
      /\ \A c \in PositionKeys(j) :
            \/ /\ j.kind = "fill"
               /\ \E w : r.positions[c] = FillProjection(
                     IF U.positions[c] = None THEN NoPosition ELSE U.positions[c], j, w).position
            \/ /\ j.kind # "fill"
               /\ \E a : r.positions[c] = Closed(U.positions[c], a, NowOf(j))
  BY <1>2, OutcomeRows
<1>4. ASSUME NEW c \in PositionKeys(j)
      PROVE  /\ r.positions[c] \in PositionRows /\ r.positions[c].updated_at >= j.at
             /\ positions[c] # None => j.at >= positions[c].updated_at
  <2>1. PICK q, y : q = positions[c] /\ y = r.positions[c]
    OBVIOUS
  <2>2. y \in PositionRows /\ q \in PositionRows \cup {None}
    BY <1>2, <1>3, <2>1 DEF PendingOK, TablesOK, RowsOK
  <2>3. CASE j.kind = "fill"
    <3>1. PICK was1, w : /\ was1 = IF q = None THEN NoPosition ELSE q
                         /\ y = FillProjection(was1, j, w).position
      BY <1>3, <2>1, <2>3
    <3>2. was1.updated_at \in Int \/ was1.updated_at = None
      BY <2>2, <3>1 DEF NoPosition, PositionRows
    <3>3. y.updated_at = IF was1.updated_at = None \/ j.at > was1.updated_at THEN j.at
                         ELSE was1.updated_at
      BY <3>1 DEF FillProjection
    <3>4. y.updated_at >= j.at
      BY <1>1, <3>2, <3>3
    <3> QED
      BY <1>3, <2>1, <2>2, <3>4
  <2>4. CASE j.kind # "fill"
    <3>1. PICK a : y = Closed(q, a, NowOf(j))
      BY <1>3, <2>1, <2>4
    <3>2. q \in PositionRows
      BY <2>1, <2>2, <2>4
    <3>3. y.updated_at = NowOf(j).settled_at
      BY <3>1, <3>2 DEF Closed, PositionRows
    <3>4. NowOf(j).settled_at = j.at
      BY <1>1, <2>4, OrderAssumption DEF OrderAssumption, NowOf, PositionKeys
    <3>5. y.updated_at >= j.at
      BY <1>1, <3>3, <3>4
    <3> QED
      BY <1>3, <2>1, <2>2, <3>5
  <2> QED
    BY <2>3, <2>4
<1>5. ASSUME NEW b \in CashKeys(j)
      PROVE  /\ r.cash[b] \in CashRows /\ r.cash[b].captured_at = j.at
             /\ j.at >= cash[b].captured_at
  <2>1. PICK q, y, e : q = cash[b] /\ y = r.cash[b] /\ e = r.entry
    OBVIOUS
  <2>2. y \in CashRows /\ q \in CashRows
    BY <1>2, <1>3, <2>1 DEF PendingOK, TablesOK, RowsOK
  <2>3. PICK a : y = ApplyToCash(q, e, a)
    BY <1>3, <2>1
  <2>4. y.captured_at = e.at
    BY <2>2, <2>3 DEF ApplyToCash, CashRows
  <2> QED
    BY <1>3, <2>1, <2>2, <2>4
<1> QED
  BY <1>4, <1>5

\* A commit posts its job to rows that no later job was posted to: the tables are the replay
\* that has it, too, behind the jobs of its instant.
LEMMA CommitReplays ==
    ASSUME StoreInv, ProjectionInv, NEW s \in Sessions, Commit(s)
    PROVE  TablesReplay' /\ RowsFollow(positions, cash, JournalIds)'
<1>1. PICK j, r, p, N, was : /\ j = job[s] /\ r = result[s] /\ p = seen[s]
                             /\ N = Len(Exchange) /\ was = WasOf(j, original)
  OBVIOUS
<1>2. /\ PendingOK(j, r) /\ r.entry.id \notin JournalIds
      /\ \A c \in DOMAIN r.positions : r.positions[c].version = VersionOf(positions[c]) + 1
      /\ \A b \in DOMAIN r.cash : r.cash[b].version = cash[b].version
  BY <1>1, CommitSaves
<1>3. /\ positions' = Saved(r.positions, positions) /\ cash' = Saved(Counted(r.cash), cash)
      /\ journal' = journal \cup {r.entry} /\ pc[s] = "write"
      /\ original' = IF j.kind = "settlement"
                     THEN [original EXCEPT ![<<j.contract, j.settlement>>] = p] ELSE original
  BY <1>1 DEF Commit
<1>4. PICK ps, cs, ids : ComputedFrom(j, r, p, ps, cs, ids)
  BY <1>1, <1>3 DEF ProjectionInv, Computed
<1>5. PICK U : U = [positions |-> ps, cash |-> cs, ids |-> ids]
  OBVIOUS
<1>6. /\ U.positions = ps /\ U.cash = cs /\ U.ids = ids /\ ids \subseteq JournalIds
      /\ r = Outcome(j, U, was, NowOf(j), BeforeOf(j))
  BY <1>1, <1>4, <1>5 DEF ComputedFrom
<1>7. j \in Jobs /\ r.outcome = "applied" /\ EntryId(j) = r.entry.id /\ TablesOK
  BY <1>2 DEF PendingOK, StoreInv
<1>8. /\ PositionKeys(j) \subseteq Contracts /\ CashKeys(j) \subseteq Balances
      /\ DOMAIN r.positions = PositionKeys(j) /\ DOMAIN r.cash = CashKeys(j)
  BY <1>6, <1>7, KeysOfJob, OutcomeRows
<1>9. ASSUME NEW c \in PositionKeys(j)
      PROVE  ps[c] = positions[c] /\ (j.kind # "fill" => positions[c] # None)
  <2>1. /\ ps[c] \in PositionRows \cup {None} /\ (j.kind # "fill" => ps[c] # None)
        /\ VersionOf(ps[c]) = VersionOf(positions[c]) => ps[c] = positions[c]
        /\ r.positions[c].version = VersionOf(ps[c]) + 1
    BY <1>4 DEF ComputedFrom
  <2>2. positions[c] \in PositionRows \cup {None}
    BY <1>7, <1>8 DEF TablesOK, RowsOK
  <2>3. VersionOf(ps[c]) \in Int /\ VersionOf(positions[c]) \in Int
    BY <2>1, <2>2 DEF VersionOf, PositionRows
  <2>4. VersionOf(ps[c]) + 1 = VersionOf(positions[c]) + 1
    BY <1>2, <1>8, <2>1
  <2>5. VersionOf(ps[c]) = VersionOf(positions[c])
    BY <2>3, <2>4
  <2> QED
    BY <2>1, <2>5
<1>10. \A b \in CashKeys(j) : cs[b] = cash[b]
  BY <1>2, <1>4, <1>8 DEF ComputedFrom
<1>11. /\ \A c \in PositionKeys(j) :
             /\ r.positions[c] \in PositionRows /\ r.positions[c].updated_at >= j.at
             /\ positions[c] # None => j.at >= positions[c].updated_at
       /\ \A b \in CashKeys(j) : /\ r.cash[b] \in CashRows /\ r.cash[b].captured_at = j.at
                                 /\ j.at >= cash[b].captured_at
  BY <1>2, <1>6, <1>7, <1>9, <1>10, CommitFollows
<1>12. PICK order, P : IsOrder(order) /\ P = Posted /\ TablesAre(order, P)
  BY DEF ProjectionInv, TablesReplay
<1>13. PICK F : /\ F = Replay(order, P, N)
                /\ F.positions = positions /\ F.cash = cash /\ F.entries = journal
                /\ F.original = original
  BY <1>1, <1>12 DEF TablesAre
<1>14. Shape(F) /\ F.ids = JournalIds
  <2>1. N \in 0 .. Len(Exchange)
    BY <1>1, ExchangeJobs
  <2>2. Shape(F)
    BY <1>12, <1>13, <2>1, ReplayShape
  <2> QED
    BY <1>13, <2>2 DEF Shape, JournalIds
<1>15. Call(F, j) = r
  <2>1. /\ \A c \in PositionKeys(j) : U.positions[c] = F.positions[c]
        /\ \A b \in CashKeys(j) : U.cash[b] = F.cash[b]
    BY <1>6, <1>9, <1>10, <1>13
  <2>2. /\ U.ids \in SUBSET KnownIds /\ F.ids \in SUBSET KnownIds
        /\ EntryId(j) \notin U.ids /\ EntryId(j) \notin F.ids
    BY <1>2, <1>6, <1>7, <1>14 DEF Shape
  <2>3. Outcome(j, U, was, NowOf(j), BeforeOf(j)) = Outcome(j, F, was, NowOf(j), BeforeOf(j))
    BY <1>7, <2>1, <2>2, OutcomeLocal
  <2>4. was = WasOf(j, F.original)
    BY <1>1, <1>13
  <2> QED
    BY <1>6, <2>3, <2>4 DEF Call
<1>16. PICK last, later :
          /\ last \in 1 .. N /\ IsOrder(later) /\ later[last] = j /\ Replay(later, P, N) = F
          /\ \A m \in last + 1 .. N : later[m].at > j.at
  <2>1. j \notin P
    BY <1>2, <1>7, <1>12 DEF Posted
  <2>2. IsOrder(order) /\ j \in Jobs
    BY <1>7, <1>12
  <2>3. PICK last \in 1 .. Len(Exchange) : \E later :
           /\ IsOrder(later) /\ later[last] = j
           /\ Replay(later, P, Len(Exchange)) = Replay(order, P, Len(Exchange))
           /\ \A m \in last + 1 .. Len(Exchange) : later[m].at > j.at
    BY <2>1, <2>2, TiesPosted
  <2>4. PICK later :
           /\ IsOrder(later) /\ later[last] = j
           /\ Replay(later, P, Len(Exchange)) = Replay(order, P, Len(Exchange))
           /\ \A m \in last + 1 .. Len(Exchange) : later[m].at > j.at
    BY <2>3
  <2>5. last \in 1 .. N /\ Replay(later, P, N) = F
    BY <1>1, <1>13, <2>4
  <2> QED
    BY <1>1, <2>4, <2>5
<1>17. JournalIds' = JournalIds \cup {EntryId(j)}
  BY <1>3, <1>7 DEF JournalIds
<1>18. P \in SUBSET Jobs /\ j \notin P /\ Posted' = P \cup {j}
  <2>1. \A k \in Jobs : EntryId(k) = EntryId(j) => k = j
    BY <1>7, IdsAssumption DEF IdsAssumption
  <2> QED
    BY <1>2, <1>7, <1>12, <1>17, <2>1 DEF Posted
<1>19. ASSUME NEW m \in last + 1 .. N, later[m] \in P PROVE Apart(j, later[m])
  <2>1. PICK k : k = later[m]
    OBVIOUS
  <2>2. j.at < k.at /\ k \in Jobs /\ EntryId(k) \in JournalIds
    <3>1. k.at > j.at
      BY <1>16, <2>1
    <3>2. k \in Jobs /\ EntryId(k) \in JournalIds
      BY <1>12, <1>19, <2>1 DEF Posted
    <3> QED
      BY <1>7, <3>1, <3>2, JobFields
  <2>3. /\ \A c \in PositionKeys(k) : positions[c] # None /\ positions[c].updated_at >= k.at
        /\ \A b \in CashKeys(k) : cash[b].captured_at >= k.at
    BY <2>2 DEF ProjectionInv, RowsFollow
  <2>4. j.at \in Int /\ k.at \in Int
    BY <1>7, <2>2, JobFields
  <2>5. ASSUME NEW c \in PositionKeys(j), c \in PositionKeys(k) PROVE FALSE
    <3>1. positions[c] \in PositionRows
      BY <1>7, <1>8, <2>3, <2>5 DEF TablesOK, RowsOK
    <3>2. positions[c].updated_at \in Int
      BY <3>1 DEF PositionRows
    <3> QED
      BY <1>11, <2>2, <2>3, <2>4, <2>5, <3>2
  <2>6. ASSUME NEW b \in CashKeys(j), b \in CashKeys(k) PROVE FALSE
    <3>1. cash[b] \in CashRows
      BY <1>7, <1>8 DEF TablesOK, RowsOK
    <3>2. cash[b].captured_at \in Int
      BY <3>1 DEF CashRows
    <3> QED
      BY <1>11, <2>2, <2>3, <2>4, <2>6, <3>2
  <2> QED
    BY <2>1, <2>5, <2>6 DEF Apart
<1>20. Replay(later, P \cup {j}, N) = AfterResult(F, j, r)
  <2>1. Replay(later, P \cup {later[last]}, Len(Exchange))
          = AfterJob(Replay(later, P, Len(Exchange)), later[last])
    BY <1>1, <1>16, <1>18, <1>19, ReplayAdds
  <2>2. AfterJob(F, j) = AfterResult(F, j, r)
    BY <1>7, <1>15, CallIsResult
  <2> QED
    BY <1>1, <1>16, <2>1, <2>2
<1>21. PICK G : G = AfterResult(F, j, r)
  OBVIOUS
<1>22. /\ G.positions = positions' /\ G.cash = cash' /\ G.entries = journal'
       /\ G.original = original'
  <2>1. /\ G.positions = Saved(r.positions, F.positions)
        /\ G.cash = Saved(Counted(r.cash), F.cash)
        /\ G.entries = F.entries \cup {r.entry}
        /\ G.original = IF j.kind = "settlement"
                        THEN [F.original EXCEPT ![<<j.contract, j.settlement>>] =
                                F.positions[j.contract]]
                        ELSE F.original
    BY <1>7, <1>21 DEF AfterResult
  <2>2. j.kind = "settlement" => F.positions[j.contract] = p
    <3>1. j.kind = "settlement" => j.contract \in PositionKeys(j) /\ p = ps[j.contract]
      BY <1>4, <1>7, KeysOfJob DEF ComputedFrom
    <3> QED
      BY <1>9, <1>13, <3>1
  <2> QED
    BY <1>3, <1>13, <2>1, <2>2
<1>23. TablesReplay'
  <2>1. Replay(later, P \cup {j}, Len(Exchange)) = G
    BY <1>1, <1>20, <1>21
  <2>2. TablesAre(later, P \cup {j})'
    BY <1>22, <2>1 DEF TablesAre
  <2> QED
    BY <1>16, <1>18, <2>2 DEF TablesReplay
<1>24. RowsFollow(positions, cash, JournalIds)'
  <2>1. ASSUME NEW k \in Jobs, EntryId(k) \in JournalIds', NEW c \in PositionKeys(k)
        PROVE  positions'[c] # None /\ positions'[c].updated_at >= k.at
    <3>1. c \in Contracts /\ j.at \in Int /\ k.at \in Int /\ None \notin PositionRows
      BY <1>7, KeysOfJob, JobFields, StartAssumption DEF StartAssumption
    <3>2. /\ EntryId(k) = EntryId(j) => k = j
          /\ EntryId(k) \in JournalIds => positions[c] # None /\ positions[c].updated_at >= k.at
      BY <1>7, IdsAssumption DEF IdsAssumption, ProjectionInv, RowsFollow
    <3>3. DOMAIN positions = Contracts /\ positions[c] \in PositionRows \cup {None}
      BY <1>7, <3>1 DEF TablesOK, RowsOK
    <3>4. CASE c \in PositionKeys(j)
      <4>1. PICK y, q : y = r.positions[c] /\ q = positions[c]
        OBVIOUS
      <4>2. positions'[c] = y
        BY <1>3, <1>8, <3>1, <3>3, <3>4, <4>1 DEF Saved
      <4>3. y \in PositionRows /\ y.updated_at >= j.at /\ (q # None => j.at >= q.updated_at)
        BY <1>11, <3>4, <4>1
      <4>4. y.updated_at \in Int /\ (q # None => q.updated_at \in Int)
        BY <3>3, <4>1, <4>3 DEF PositionRows
      <4>5. k = j \/ (q # None /\ q.updated_at >= k.at)
        BY <1>17, <2>1, <3>2, <4>1
      <4> QED
        BY <3>1, <4>2, <4>3, <4>4, <4>5
    <3>5. CASE c \notin PositionKeys(j)
      <4>1. positions'[c] = positions[c] /\ k # j
        BY <1>3, <1>8, <2>1, <3>1, <3>3, <3>5 DEF Saved
      <4> QED
        BY <1>17, <2>1, <3>2, <4>1
    <3> QED
      BY <3>4, <3>5
  <2>2. ASSUME NEW k \in Jobs, EntryId(k) \in JournalIds', NEW b \in CashKeys(k)
        PROVE  cash'[b].captured_at >= k.at
    <3>1. b \in Balances /\ j.at \in Int /\ k.at \in Int
      BY <1>7, KeysOfJob, JobFields
    <3>2. /\ EntryId(k) = EntryId(j) => k = j
          /\ EntryId(k) \in JournalIds => cash[b].captured_at >= k.at
      BY <1>7, IdsAssumption DEF IdsAssumption, ProjectionInv, RowsFollow
    <3>3. DOMAIN cash = Balances /\ cash[b] \in CashRows
      BY <1>7, <3>1 DEF TablesOK, RowsOK
    <3>4. CASE b \in CashKeys(j)
      <4>1. PICK y, q : y = r.cash[b] /\ q = cash[b]
        OBVIOUS
      <4>2. cash'[b] = [y EXCEPT !.version = @ + 1]
        BY <1>3, <1>8, <3>1, <3>3, <3>4, <4>1 DEF Saved, Counted
      <4>3. y \in CashRows /\ y.captured_at = j.at /\ j.at >= q.captured_at
        BY <1>11, <3>4, <4>1
      <4>4. cash'[b].captured_at = j.at /\ q.captured_at \in Int
        BY <3>3, <4>1, <4>2, <4>3 DEF CashRows
      <4>5. k = j \/ q.captured_at >= k.at
        BY <1>17, <2>2, <3>2, <4>1
      <4> QED
        BY <3>1, <4>3, <4>4, <4>5
    <3>5. CASE b \notin CashKeys(j)
      <4>1. cash'[b] = cash[b] /\ k # j
        BY <1>3, <1>8, <2>2, <3>1, <3>3, <3>5 DEF Saved, Counted
      <4> QED
        BY <1>17, <2>2, <3>2, <4>1
    <3> QED
      BY <3>4, <3>5
  <2> QED
    BY <2>1, <2>2 DEF RowsFollow
<1> QED
  BY <1>23, <1>24

\* A session computes from rows that it has read; a commit of another one makes those old
\* that it saves.
LEMMA ProjectionNext ==
    StoreInv /\ NothingRounds /\ CorrectionInv /\ ProjectionInv /\ [Next]_vars => ProjectionInv'
<1> SUFFICES ASSUME StoreInv, NothingRounds, CorrectionInv, ProjectionInv, [Next]_vars
             PROVE  ProjectionInv'
  OBVIOUS
<1> DEFINE Kept(t) == /\ pc'[t] = pc[t] /\ job'[t] = job[t] /\ seen'[t] = seen[t]
                      /\ result'[t] = result[t]
           Writing(t) == pc[t] = "write" => Computed(job[t], result[t], seen[t])
<1>0. /\ DOMAIN pc = Sessions /\ DOMAIN job = Sessions /\ DOMAIN result = Sessions
      /\ DOMAIN seen = Sessions
  BY DEF StoreInv, TablesOK
<1>1. ASSUME UNCHANGED <<positions, cash, journal, original>>,
             RowStatusOK', DOMAIN settlements' = DOMAIN Settlements,
             \A t \in Sessions : Kept(t) \/ pc'[t] # "write" \/ Writing(t)'
      PROVE  ProjectionInv'
  <2>1. JournalIds' = JournalIds
    BY <1>1 DEF JournalIds
  <2>2. TablesReplay' /\ RowsFollow(positions, cash, JournalIds)'
    <3>1. Posted' = Posted
      BY <2>1 DEF Posted
    <3>2. TablesReplay'
      BY <1>1, <3>1 DEF ProjectionInv, TablesReplay, TablesAre
    <3>3. RowsFollow(positions, cash, JournalIds)'
      BY <1>1, <2>1 DEF ProjectionInv, RowsFollow
    <3> QED
      BY <3>2, <3>3
  <2>3. ASSUME NEW t \in Sessions, Kept(t) PROVE Writing(t)'
    <3>1. PICK j, r, p : j = job[t] /\ r = result[t] /\ p = seen[t]
      OBVIOUS
    <3>2. pc[t] = "write" => Computed(j, r, p)
      BY <3>1 DEF ProjectionInv
    <3>3. ASSUME NEW ps, NEW cs, NEW ids, ComputedFrom(j, r, p, ps, cs, ids)
          PROVE  ComputedFrom(j, r, p, ps, cs, ids)'
      BY <1>1, <2>1, <3>3 DEF ComputedFrom
    <3>4. Computed(j, r, p) => Computed(j, r, p)'
      BY <3>3, Zenon DEF Computed
    <3>5. j = job'[t] /\ r = result'[t] /\ p = seen'[t] /\ pc'[t] = pc[t]
      BY <2>3, <3>1
    <3> QED
      BY <3>2, <3>4, <3>5, Zenon
  <2>4. \A t \in Sessions : Writing(t)'
    BY <1>1, <2>3
  <2> QED
    BY <1>1, <2>2, <2>4 DEF ProjectionInv
<1>2. ASSUME NEW s \in Sessions, Reset(s)
      PROVE  \A t \in Sessions : Kept(t) \/ pc'[t] # "write"
  BY <1>0, <1>2 DEF Reset
<1>3. ASSUME UNCHANGED settlements
      PROVE  RowStatusOK' /\ DOMAIN settlements' = DOMAIN Settlements
  BY <1>3 DEF ProjectionInv, RowStatusOK
<1>4. ASSUME NEW s \in Sessions, NEW j \in Jobs, ReadPositions(s, j) PROVE ProjectionInv'
  <2>1. \A t \in Sessions : Kept(t) \/ pc'[t] # "write"
    BY <1>0, <1>4 DEF ReadPositions
  <2> QED
    BY <1>1, <1>3, <1>4, <2>1 DEF ReadPositions, tables
<1>5. ASSUME NEW s \in Sessions, ApplyJob(s) PROVE ProjectionInv'
  <2> DEFINE j == job[s]
             view == [positions |-> seen[s], cash |-> cash, ids |-> JournalIds]
             r == Outcome(j, view, Was(j), SettledRow(j), PreviousRow(j))
  <2>1. \/ /\ r.outcome = "applied"
           /\ pc' = [pc EXCEPT ![s] = "write"]
           /\ result' = [result EXCEPT ![s] = r] /\ UNCHANGED job
           /\ seen' = [seen EXCEPT ![s] = IF j.kind = "settlement" THEN @[j.contract] ELSE None]
        \/ Reset(s)
    BY <1>5 DEF ApplyJob, Was, SettledRow, PreviousRow
  <2>2. UNCHANGED <<positions, cash, journal, original, settlements>> /\ pc[s] = "read"
    BY <1>5 DEF ApplyJob, tables
  <2>3. CASE Reset(s)
    BY <1>1, <1>2, <1>3, <2>2, <2>3
  <2>4. ASSUME r.outcome = "applied",
               pc' = [pc EXCEPT ![s] = "write"],
               result' = [result EXCEPT ![s] = r], UNCHANGED job,
               seen' = [seen EXCEPT ![s] = IF j.kind = "settlement" THEN @[j.contract] ELSE None]
        PROVE  ProjectionInv'
    <3>1. ReadOK(j, seen[s]) /\ ExactJob(j, seen[s]) /\ TablesOK /\ RowStatusOK
      BY <2>2 DEF StoreInv, SessionOK, NothingRounds, ProjectionInv
    <3>2. PICK i, ps, x, p : /\ i = j /\ ps = seen[s] /\ x = r
                             /\ p = IF j.kind = "settlement" THEN seen[s][j.contract] ELSE None
      OBVIOUS
    <3>3. Computed(i, x, p)
      BY <2>4, <3>1, <3>2, ApplyComputes
    <3> HIDE DEF r
    <3>4. i = job'[s] /\ x = result'[s] /\ p = seen'[s]
      BY <1>0, <2>4, <3>2
    <3>5. JournalIds' = JournalIds
      BY <2>2 DEF JournalIds
    <3>6. ASSUME NEW qs, NEW cs, NEW ids, ComputedFrom(i, x, p, qs, cs, ids)
          PROVE  ComputedFrom(i, x, p, qs, cs, ids)'
      BY <2>2, <3>5, <3>6 DEF ComputedFrom
    <3>7. Computed(i, x, p)'
      BY <3>3, <3>6, Zenon DEF Computed
    <3>8. Writing(s)'
      BY <3>4, <3>7, Zenon
    <3>9. \A t \in Sessions \ {s} : Kept(t)
      BY <1>0, <2>4
    <3> QED
      BY <1>1, <1>3, <2>2, <3>8, <3>9
  <2> QED
    BY <2>1, <2>3, <2>4
<1>6. ASSUME NEW s \in Sessions, Write(s) PROVE ProjectionInv'
  <2>1. \A t \in Sessions : Kept(t) \/ pc'[t] # "write"
    BY <1>2, <1>6 DEF Write
  <2> QED
    BY <1>1, <1>3, <1>6, <2>1 DEF Write, tables
<1>7. ASSUME NEW s \in Sessions, Commit(s) PROVE ProjectionInv'
  <2>1. \A t \in Sessions : Kept(t) \/ pc'[t] # "write"
    BY <1>0, <1>2, <1>7 DEF Commit
  <2>2. TablesReplay' /\ RowsFollow(positions, cash, JournalIds)'
    BY <1>7, CommitReplays
  <2>3. RowStatusOK' /\ DOMAIN settlements' = DOMAIN Settlements
    BY <1>3, <1>7 DEF Commit
  <2>4. PICK y : y = result[s]
    OBVIOUS
  <2>5. /\ journal' = journal \cup {y.entry}
        /\ \A c \in DOMAIN y.positions : /\ positions'[c] = y.positions[c]
                                         /\ y.positions[c].version = VersionOf(positions[c]) + 1
                                         /\ y.positions[c] \in PositionRows
        /\ \A c \in Contracts \ DOMAIN y.positions : positions'[c] = positions[c]
        /\ \A b \in DOMAIN y.cash : cash'[b].version = cash[b].version + 1
        /\ \A b \in Balances \ DOMAIN y.cash : cash'[b] = cash[b]
    <3>1. PendingOK(job[s], y)
      BY <1>7, <2>4, CommitSaves
    <3>2. \A c \in DOMAIN y.positions : y.positions[c] \in PositionRows
      BY <3>1 DEF PendingOK
    <3> QED
      BY <1>7, <2>4, <3>2, CommitSaves
  <2>6. \A c \in Contracts : \/ positions'[c] = positions[c]
                             \/ VersionOf(positions'[c]) = VersionOf(positions[c]) + 1
    BY <2>5, StartAssumption DEF StartAssumption, VersionOf
  <2>7. \A b \in Balances : cash'[b] = cash[b] \/ cash'[b].version = cash[b].version + 1
    BY <2>5
  <2>8. JournalIds \subseteq JournalIds'
    BY <2>5 DEF JournalIds
  <2>9. \A k \in DOMAIN original : original[k] # None => original'[k] = original[k]
    BY <1>7, CommitSettles
  <2>10. ASSUME NEW t \in Sessions, Kept(t) PROVE Writing(t)'
    <3>1. PICK j, r, p : j = job[t] /\ r = result[t] /\ p = seen[t]
      OBVIOUS
    <3>2. pc[t] = "write" => Computed(j, r, p) /\ j \in Jobs /\ TablesOK
      BY <3>1 DEF ProjectionInv, StoreInv, SessionOK, PendingOK
    <3>3. pc[t] = "write" => Computed(j, r, p)'
      BY <2>6, <2>7, <2>8, <2>9, <3>2, ComputedKept
    <3>4. j = job'[t] /\ r = result'[t] /\ p = seen'[t] /\ pc'[t] = pc[t]
      BY <2>10, <3>1
    <3> QED
      BY <3>3, <3>4, Zenon
  <2>11. \A t \in Sessions : Writing(t)'
    BY <2>1, <2>10
  <2> QED
    BY <2>2, <2>3, <2>11 DEF ProjectionInv
<1>8. ASSUME NEW s \in Sessions, PersistEvents(s) \/ Fail(s) PROVE ProjectionInv'
  <2>1. Reset(s) /\ UNCHANGED <<positions, cash, journal, original, settlements>>
    BY <1>8 DEF PersistEvents, Fail, tables
  <2> QED
    BY <1>1, <1>2, <1>3, <2>1
<1>9. ASSUME NEW x \in DOMAIN Settlements, NEW status, SaveSettlement(x, status)
      PROVE  ProjectionInv'
  <2>1. /\ status \in IF Settlements[x].status = "corrected" THEN {"corrected"}
                      ELSE {"finalized", "settled"}
        /\ settlements' = [settlements EXCEPT ![x] = status]
        /\ UNCHANGED <<positions, cash, journal, original, pc, job, seen, result>>
    BY <1>9 DEF SaveSettlement, sessionVars
  <2>2. RowStatusOK /\ DOMAIN settlements = DOMAIN Settlements
    BY DEF ProjectionInv
  <2>3. DOMAIN settlements' = DOMAIN Settlements
    BY <2>1, <2>2
  <2>4. RowStatusOK'
    BY <2>1, <2>2 DEF RowStatusOK
  <2> QED
    BY <1>1, <2>1, <2>3, <2>4
<1>10. ASSUME UNCHANGED <<positions, cash, journal, original, settlements, pc, job, seen, result>>
       PROVE  ProjectionInv'
  BY <1>1, <1>3, <1>10
<1>11. CASE StartReconciliation \/ \E n \in 0 .. Len(Exchange) : Reconcile(n)
  BY <1>10, <1>11 DEF StartReconciliation, Reconcile, tables, sessionVars
<1>12. CASE UNCHANGED vars
  BY <1>10, <1>12 DEF vars, tables, sessionVars
<1> QED
  BY <1>4, <1>5, <1>6, <1>7, <1>8, <1>9, <1>11, <1>12 DEF Next

\* ProjectionIsReplay: however deliveries interleave, fail, repeat and overtake one another,
\* positions, balances and journal are what the posted jobs make of the opening books in an
\* order by instant, jobs of one instant in some order (the proof takes the one in which
\* they were posted), as long as the decimal context rounds nothing.
THEOREM ProjectionsReplay == Spec /\ []NothingRounds => []ProjectionIsReplay
<1>1. ProjectionInv => ProjectionIsReplay
  BY OrderIsListed DEF ProjectionInv, TablesReplay, TablesAre, ProjectionIsReplay, Posted
<1> QED
  BY <1>1, StoreInit, StoreNext, CorrectionInit, CorrectionNext, ProjectionInit,
     ProjectionNext, PTL DEF Spec

-----------------------------------------------------------------------------
(* The cost of positions                                                   *)

\* Rounding moves a quotient by less than one.
LEMMA HalfEvenNear ==
    ASSUME NEW n \in Nat, NEW d \in Nat \ {0}
    PROVE  /\ HalfEven(n, d) \in Nat
           /\ HalfEven(n, d) * d <= n + d /\ n <= HalfEven(n, d) * d + d
<1> DEFINE q == n \div d
           r == n % d
<1>1. q \in Nat /\ r \in 0 .. d - 1 /\ n = d * q + r
  OBVIOUS
<1>2. HalfEven(n, d) = q \/ HalfEven(n, d) = q + 1
  BY DEF HalfEven
<1>3. HalfEven(n, d) = q + 1 => 2 * r >= d
  BY <1>1 DEF HalfEven
<1> HIDE DEF q, r
<1>4. q * d = d * q /\ (q + 1) * d = d * q + d /\ d * q \in Nat
  BY <1>1
<1> QED
  BY <1>1, <1>2, <1>3, <1>4

\* The same for a Decimal division.
LEMMA QuotientNear ==
    ASSUME NEW x \in Int, NEW q \in Nat \ {0}
    PROVE  Quotient(x, q) * q <= x + q /\ x <= Quotient(x, q) * q + q
<1>1. PICK n, h : n = Magnitude(x) /\ h = HalfEven(n, q)
  OBVIOUS
<1>2. n \in Nat /\ (x >= 0 => n = x) /\ (x < 0 => n = -x)
  BY <1>1 DEF Magnitude
<1>3. h \in Nat /\ h * q <= n + q /\ n <= h * q + q
  BY <1>1, <1>2, HalfEvenNear
<1>4. Quotient(x, q) = Sign(x) * h
  BY <1>1 DEF Quotient
<1>5. PICK y : y = h * q
  OBVIOUS
<1>6. y \in Int
  BY <1>3, <1>5
<1>7. CASE x > 0
  <2>1. Quotient(x, q) = h
    BY <1>3, <1>4, <1>7 DEF Sign
  <2> QED
    BY <1>2, <1>3, <1>7, <2>1
<1>8. CASE x = 0
  <2>1. Quotient(x, q) = 0
    BY <1>3, <1>4, <1>8 DEF Sign
  <2> QED
    BY <1>8, <2>1
<1>9. CASE x < 0
  <2>1. Quotient(x, q) = -h /\ (-h) * q = -y
    BY <1>3, <1>4, <1>5, <1>9 DEF Sign
  <2> QED
    BY <1>2, <1>3, <1>5, <1>6, <1>9, <2>1
<1> QED
  BY <1>7, <1>8, <1>9

\* The sign of a product can be taken out of it.
LEMMA SignedProduct ==
    ASSUME NEW d \in {1, -1}, NEW m \in Int, NEW a \in Int
    PROVE  /\ (d * m) * a = d * (m * a) /\ m * a \in Int /\ d * m \in Int
           /\ (-(d * m)) * a = -(d * (m * a)) /\ d * (m * a) \in Int
<1>1. PICK y : y = m * a
  OBVIOUS
<1>2. y \in Int
  BY <1>1
<1>3. CASE d = 1
  <2>1. d * m = m /\ d * y = y /\ (-m) * a = -y
    BY <1>1, <1>2, <1>3
  <2> QED
    BY <1>1, <1>2, <2>1
<1>4. CASE d = -1
  <2>1. d * m = -m /\ d * y = -y /\ (-m) * a = -y /\ -(-m) = m
    BY <1>1, <1>2, <1>4
  <2> QED
    BY <1>1, <1>2, <2>1
<1> QED
  BY <1>3, <1>4

\* The cost that a fill books is what it changes the cost of the position by, up to the
\* rounding of a new average.
LEMMA FillCost ==
    ASSUME NEW j \in Jobs, j.kind = "fill", NEW p,
           p = NoPosition \/ p \in PositionRows, (p.quantity = 0) = (p.average = None),
           NEW w, w = ApplyWeightedAverageFill(p.quantity, p.average, j),
           Exact(j.quantity * j.price), Exact(w.opened * j.price),
           p.quantity # 0 => /\ Exact(Magnitude(p.quantity) * p.average)
                             /\ Exact(Magnitude(p.quantity) * p.average + j.quantity * j.price)
                             /\ Exact(w.closed * p.average),
           NEW x, x = Direction(j) * w.closed_cost + Direction(j) * w.opened_notional,
           NEW old, old = IF p.quantity = 0 THEN 0 ELSE p.quantity * p.average,
           NEW new, new = IF w.quantity = 0 THEN 0 ELSE w.quantity * w.average
    PROVE  /\ x \in Int /\ old \in Int /\ new \in Int /\ w.quantity \in Int
           /\ Magnitude(x + old - new) <= Magnitude(w.quantity)
           /\ Magnitude(w.quantity) <= Magnitude(p.quantity) + j.quantity
<1>1. PICK q, avg, d, f, price, m :
        /\ q = p.quantity /\ avg = p.average /\ d = Direction(j) /\ f = j.quantity
        /\ price = j.price /\ m = Magnitude(q)
  OBVIOUS
<1>2. /\ f \in Nat \ {0} /\ price \in Nat /\ d \in {1, -1} /\ q \in Int
      /\ q # 0 => avg \in Int
  BY <1>1, FillFields DEF NoPosition, PositionRows
<1> DEFINE reduces == q # 0 /\ Sign(q) # d
<1>3. PICK closed, opened, projected :
        /\ closed = IF reduces THEN Least(m, f) ELSE 0
        /\ opened = f - closed /\ projected = q + d * f
  OBVIOUS
<1>4. /\ w.quantity = projected /\ w.closed = closed /\ w.opened = opened
      /\ w.average = IF projected = 0 THEN None
                     ELSE IF q = 0 THEN price
                     ELSE IF ~reduces THEN WeightedAverage(m, avg, f, price)
                     ELSE IF Sign(projected) = Sign(q) THEN avg ELSE price
      /\ w.closed_cost = IF reduces THEN Decimal(closed * avg) ELSE 0
      /\ w.opened_notional = Decimal(opened * price)
  BY <1>1, <1>3 DEF ApplyWeightedAverageFill
<1>5. m \in Nat /\ (q >= 0 => m = q) /\ (q < 0 => m = -q)
  BY <1>1, <1>2 DEF Magnitude
<1>6. /\ w.opened_notional = opened * price
      /\ q # 0 => /\ Decimal(closed * avg) = closed * avg
                  /\ WeightedAverage(m, avg, f, price) = Quotient(m * avg + f * price, m + f)
  BY <1>1, <1>4 DEF Exact, WeightedAverage
<1>7. /\ x = d * w.closed_cost + d * w.opened_notional
      /\ old = IF q = 0 THEN 0 ELSE q * avg
      /\ new = IF projected = 0 THEN 0 ELSE projected * w.average
  BY <1>1, <1>4
<1>8. SUFFICES /\ x \in Int /\ old \in Int /\ new \in Int /\ projected \in Int
               /\ Magnitude(x + old - new) <= Magnitude(projected)
               /\ Magnitude(projected) <= m + f
  BY <1>1, <1>4
<1>9. ASSUME NEW y \in Int, NEW z \in Int, y = z \/ y = -z PROVE Magnitude(y) = Magnitude(z)
  BY <1>9 DEF Magnitude
<1>10. Magnitude(0) = 0 /\ \A z \in Int : Magnitude(z) >= 0
  BY DEF Magnitude
<1>11. CASE q = 0
  <2>1. closed = 0 /\ opened = f /\ m = 0
    BY <1>2, <1>3, <1>5, <1>11
  <2>2. projected = d * f /\ d * f # 0 /\ d * f \in Int /\ (d * f = f \/ d * f = -f)
    BY <1>2, <1>3, <1>11
  <2>3. w.average = price /\ w.closed_cost = 0 /\ w.opened_notional = f * price
    BY <1>3, <1>4, <1>6, <1>11, <2>1, <2>2
  <2>4. (d * f) * price = d * (f * price) /\ d * (f * price) \in Int
    BY <1>2, SignedProduct
  <2>5. PICK z : z = d * (f * price)
    OBVIOUS
  <2>6. x = z /\ old = 0 /\ new = z /\ z \in Int
    <3>1. x = d * 0 + d * (f * price)
      BY <1>7, <2>3
    <3> QED
      BY <1>2, <1>7, <1>11, <2>2, <2>3, <2>4, <2>5, <3>1
  <2>7. x + old - new = 0
    BY <2>6
  <2>8. Magnitude(projected) = f
    BY <1>2, <2>2 DEF Magnitude
  <2> QED
    BY <1>2, <1>10, <2>1, <2>2, <2>6, <2>7, <2>8
<1>12. CASE q # 0 /\ Sign(q) = d
  <2>1. closed = 0 /\ opened = f /\ ~reduces
    BY <1>2, <1>3, <1>12
  <2>2. q = d * m /\ m # 0
    BY <1>2, <1>5, <1>12 DEF Sign
  <2>3. PICK n : n = m + f
    OBVIOUS
  <2>4. n \in Nat \ {0} /\ projected = d * n /\ projected # 0 /\ projected \in Int
        /\ Magnitude(projected) = n
    BY <1>2, <1>3, <1>5, <2>2, <2>3 DEF Magnitude
  <2>5. PICK H, F, W : H = m * avg /\ F = f * price /\ W = Quotient(H + F, n)
    OBVIOUS
  <2>6. H \in Int /\ F \in Int /\ H + F \in Int /\ avg \in Int
    BY <1>2, <1>5, <1>12, <2>5
  <2>7. W \in Int /\ W * n <= H + F + n /\ H + F <= W * n + n
    BY <2>4, <2>5, <2>6, QuotientType, QuotientNear
  <2>8. w.average = W /\ w.closed_cost = 0 /\ w.opened_notional = F
    BY <1>4, <1>6, <1>12, <2>1, <2>3, <2>4, <2>5
  <2>9. PICK Y : Y = n * W
    OBVIOUS
  <2>10. Y \in Int /\ Y <= H + F + n /\ H + F <= Y + n
    BY <2>4, <2>7, <2>9
  <2>11. x = d * F /\ old = d * H /\ new = d * Y
    <3>1. x = d * 0 + d * F
      BY <1>7, <2>8
    <3>2. (d * m) * avg = d * (m * avg) /\ (d * n) * W = d * (n * W)
      BY <1>2, <1>5, <2>4, <2>6, <2>7, SignedProduct
    <3> QED
      BY <1>2, <1>7, <1>12, <2>2, <2>4, <2>5, <2>6, <2>8, <2>9, <3>1, <3>2
  <2>12. x \in Int /\ old \in Int /\ new \in Int /\ x + old - new = d * (F + H - Y)
    BY <1>2, <2>6, <2>10, <2>11
  <2>13. Magnitude(d * (F + H - Y)) <= n
    BY <1>2, <2>4, <2>6, <2>10 DEF Magnitude
  <2> QED
    BY <2>3, <2>4, <2>12, <2>13
<1>13. CASE q # 0 /\ Sign(q) # d
  <2>1. reduces /\ q = -(d * m) /\ m # 0 /\ avg \in Int
    BY <1>2, <1>3, <1>5, <1>13 DEF Sign
  <2>2. PICK H : H = m * avg
    OBVIOUS
  <2>3. old = -(d * H) /\ H \in Int /\ d * H \in Int
    BY <1>2, <1>5, <1>7, <1>13, <2>1, <2>2, SignedProduct
  <2>4. CASE f < m
    <3>1. closed = f /\ opened = 0
      BY <1>2, <1>3, <1>5, <2>1, <2>4 DEF Least
    <3>2. PICK n, F : n = m - f /\ F = f * avg
      OBVIOUS
    <3>3. n \in Nat \ {0} /\ projected = -(d * n) /\ projected # 0 /\ projected \in Int
          /\ Sign(projected) = Sign(q)
      BY <1>2, <1>3, <1>5, <2>1, <2>4, <3>2 DEF Sign
    <3>4. F \in Int /\ n * avg = H - F
      BY <1>2, <1>5, <2>1, <2>2, <3>2
    <3>5. w.average = avg /\ w.closed_cost = F /\ w.opened_notional = 0
      <4>1. 0 * price = 0
        BY <1>2
      <4> QED
        BY <1>4, <1>6, <1>13, <2>1, <3>1, <3>2, <3>3, <4>1
    <3>6. new = -(d * (H - F))
      BY <1>2, <1>7, <2>1, <3>3, <3>4, <3>5, SignedProduct
    <3>7. x = d * F + d * 0
      BY <1>7, <3>5
    <3>8. x \in Int /\ new \in Int /\ x + old - new = 0
      <4>1. CASE d = 1
        BY <2>3, <3>4, <3>6, <3>7, <4>1
      <4>2. CASE d = -1
        BY <2>3, <3>4, <3>6, <3>7, <4>2
      <4> QED
        BY <1>2, <4>1, <4>2
    <3>9. Magnitude(projected) = n /\ n <= m + f
      BY <1>2, <1>5, <3>2, <3>3 DEF Magnitude
    <3> QED
      BY <1>10, <2>3, <3>3, <3>8, <3>9
  <2>5. CASE f >= m
    <3>1. closed = m /\ opened = f - m
      BY <1>2, <1>3, <1>5, <2>1, <2>5 DEF Least
    <3>2. PICK n, F : n = f - m /\ F = n * price
      OBVIOUS
    <3>3. n \in Nat /\ projected = d * n /\ projected \in Int /\ (projected = 0 <=> n = 0)
      BY <1>2, <1>3, <1>5, <2>1, <2>5, <3>2
    <3>4. F \in Int /\ (n = 0 => F = 0)
      BY <1>2, <3>2, <3>3
    <3>5. w.closed_cost = H /\ w.opened_notional = F
      BY <1>4, <1>6, <1>13, <2>1, <2>2, <3>1, <3>2
    <3>6. n # 0 => w.average = price
      <4>1. n # 0 => Sign(projected) # Sign(q)
        BY <1>2, <1>13, <3>3 DEF Sign
      <4> QED
        BY <1>4, <1>13, <2>1, <3>3, <4>1
    <3>7. new = d * F
      <4>1. CASE n = 0
        BY <1>2, <1>7, <3>3, <3>4, <4>1
      <4>2. CASE n # 0
        BY <1>2, <1>7, <3>2, <3>3, <3>6, <4>2, SignedProduct
      <4> QED
        BY <4>1, <4>2
    <3>8. x = d * H + d * F
      BY <1>7, <3>5
    <3>9. x \in Int /\ new \in Int /\ x + old - new = 0
      BY <1>2, <2>3, <3>4, <3>7, <3>8
    <3>10. Magnitude(projected) = n /\ n <= m + f
      BY <1>2, <1>5, <3>2, <3>3 DEF Magnitude
    <3> QED
      BY <1>10, <2>3, <3>3, <3>9, <3>10
  <2> QED
    BY <1>2, <1>5, <2>4, <2>5
<1> QED
  BY <1>11, <1>12, <1>13

QuantityOf(p) == IF p = None THEN 0 ELSE p.quantity

\* What the position_cost line of entry e leaves unexplained of the change from position old
\* to new: the rounding of an average, if job j is a fill.
CostStep(j, e, old, new) ==
    /\ Magnitude(e.lines["position_cost"] + CostOf(old) - CostOf(new))
         <= IF j.kind = "fill" THEN Magnitude(new.quantity) ELSE 0
    /\ Magnitude(new.quantity)
         <= Magnitude(QuantityOf(old)) + IF j.kind = "fill" THEN j.quantity ELSE 0

\* Fills.
LEMMA FillCosts ==
    ASSUME NEW j \in Jobs, j.kind = "fill", NEW ps, NEW cs, RowsOK(ps, cs), NEW ids,
           ExactFill(ps[j.contract], j),
           NEW r, r = ApplyFillOnce([positions |-> ps, cash |-> cs, ids |-> ids], j),
           r.outcome = "applied"
    PROVE  CostStep(j, r.entry, ps[j.contract], r.positions[j.contract])
<1> DEFINE p == IF ps[j.contract] = None THEN NoPosition ELSE ps[j.contract]
           b == cs[j.balance]
           w == ApplyWeightedAverageFill(p.quantity, p.average, j)
           projection == FillProjection(p, j, w)
           row == projection.position
           e == FillEntry(j, projection)
           x == Direction(j) * w.closed_cost + Direction(j) * w.opened_notional
           old == IF p.quantity = 0 THEN 0 ELSE p.quantity * p.average
           new == IF w.quantity = 0 THEN 0 ELSE w.quantity * w.average
<1>1. j.contract \in Contracts
  BY FillFields
<1>2. r = Applied(Row(j.contract, row),
                  Row(j.balance, ApplyToCash(b, e, e.lines["cash"])), e)
  BY DEF ApplyFillOnce, FillToCash, FillOnce, FillJournal, ApplyFill, Refused, Duplicate
<1>3. /\ p = NoPosition \/ p \in PositionRows
      /\ (p.quantity = 0) = (p.average = None)
      /\ p.quantity = QuantityOf(ps[j.contract]) /\ old = CostOf(ps[j.contract])
  <2>1. CASE ps[j.contract] = None
    BY <2>1 DEF NoPosition, QuantityOf, CostOf
  <2>2. CASE ps[j.contract] # None
    BY <1>1, <2>2 DEF RowsOK, QuantityOf, CostOf
  <2> QED
    BY <2>1, <2>2
<1>4. /\ Exact(j.quantity * j.price) /\ Exact(w.opened * j.price)
      /\ p.quantity # 0 => /\ Exact(Magnitude(p.quantity) * p.average)
                           /\ Exact(Magnitude(p.quantity) * p.average + j.quantity * j.price)
                           /\ Exact(w.closed * p.average)
  BY DEF ExactFill
<1> HIDE DEF p, b
<1>5. /\ x \in Int /\ old \in Int /\ new \in Int /\ w.quantity \in Int
      /\ Magnitude(x + old - new) <= Magnitude(w.quantity)
      /\ Magnitude(w.quantity) <= Magnitude(p.quantity) + j.quantity
  BY <1>3, <1>4, FillCost
<1> HIDE DEF w
<1>6. row.quantity = w.quantity /\ row.average = w.average /\ projection.trade = w
  BY DEF FillProjection
<1> HIDE DEF row
<1>7. e.lines["position_cost"] = x
  BY <1>6 DEF FillEntry, Entry, Accounts
<1> HIDE DEF e, x, old, new
<1>8. r.entry = e /\ r.positions[j.contract] = row
  BY <1>2 DEF Applied, Row
<1>9. row # None
  <2>1. Posts(r, j, ps, cs)
    BY FillPosts
  <2>2. row \in PositionRows
    BY <1>2, <1>8, <2>1 DEF Posts, Applied, Row
  <2> QED
    BY <2>2, StartAssumption DEF StartAssumption
<1>10. CostOf(row) = new
  BY <1>6, <1>9 DEF CostOf, new
<1> QED
  BY <1>3, <1>5, <1>6, <1>7, <1>8, <1>10 DEF CostStep

\* The line of a settlement or a correction.
LEMMA CostLine ==
    ASSUME NEW id, NEW at, NEW a, a.cost \in Int
    PROVE  /\ SettlementEntry(id, at, a).lines["position_cost"] = -a.cost
           /\ a.cost = 0 => SettlementEntry(id, at, a).lines["position_cost"] = 0
<1> DEFINE x == a.cash
           y == -a.cost
           z == -a.pnl
           lines == [cash |-> x, position_cost |-> y, settlement_pnl |-> z]
<1>1. SettlementEntry(id, at, a).lines
        = [k \in Accounts |-> IF k \in DOMAIN lines THEN lines[k] ELSE 0]
  BY DEF SettlementEntry, Entry
<1> HIDE DEF x, y, z
<1>2. SettlementEntry(id, at, a).lines["position_cost"] = y
  BY <1>1 DEF Accounts
<1>3. PICK i \in Int : i = a.cost
  OBVIOUS
<1>4. y = -i /\ y \in Int
  BY <1>3 DEF y
<1>5. y \in Int /\ y + i = 0
  BY <1>4
<1>6. a.cost = 0 => y = 0
  BY <1>3, <1>5
<1> QED
  BY <1>2, <1>6 DEF y

\* A flat position costs nothing.
LEMMA FlatCost ==
    ASSUME NEW p \in PositionRows, NEW pnl, NEW x
    PROVE  Closed(p, pnl, x).quantity = 0 /\ CostOf(Closed(p, pnl, x)) = 0
<1>1. Closed(p, pnl, x).quantity = 0
  BY DEF Closed, PositionRows
<1> QED
  BY <1>1 DEF CostOf

\* Settlements.
LEMMA SettlementCosts ==
    ASSUME NEW j \in Jobs, j.kind = "settlement", NEW ps, NEW cs, RowsOK(ps, cs), NEW ids,
           NEW x, x.payout \in Int \cup {None}, ExactSettlement(ps[j.contract], x),
           NEW r, r = ApplySettlementOnce([positions |-> ps, cash |-> cs, ids |-> ids],
                                          j.contract, j.balance, x),
           r.outcome = "applied"
    PROVE  CostStep(j, r.entry, ps[j.contract], r.positions[j.contract])
<1>0. PICK p, b, a, id : /\ p = ps[j.contract] /\ b = cs[j.balance]
                         /\ a = SettlementAccounting(p, x) /\ id = SettlementEntryId(j.contract, x)
  OBVIOUS
<1> DEFINE e == SettlementEntry(id, x.settled_at, a)
           row == Closed(p, a.pnl, x)
<1>1. j.contract \in Contracts
  BY JobFields DEF JobOK
<1>2. /\ r = Applied(Row(j.contract, row), Row(j.balance, ApplyToCash(b, e, a.cash)), e)
      /\ SettlementAccepted(p, x, "settled", b.currency)
  BY <1>0 DEF ApplySettlementOnce, Once, Refused, Duplicate
<1>3. p # None /\ p.average # None /\ p.quantity # 0 /\ x.payout # None
  BY <1>2 DEF SettlementAccepted
<1>4. p \in PositionRows
  BY <1>0, <1>1, <1>3 DEF RowsOK
<1>5. PICK y : y = p.quantity * p.average
  OBVIOUS
<1>6. y \in Int /\ a.cost = y
  <2>1. p.quantity \in Int /\ p.average \in Int
    BY <1>3, <1>4 DEF PositionRows
  <2>2. Exact(y)
    BY <1>0, <1>3, <1>5 DEF ExactSettlement, ExactAmounts
  <2>3. a.cost = Decimal(y)
    BY <1>0, <1>5 DEF SettlementAccounting
  <2> QED
    BY <1>5, <2>1, <2>2, <2>3 DEF Exact
<1>7. e.lines["position_cost"] = -y
  BY <1>6, CostLine
<1>8. row.quantity = 0 /\ CostOf(row) = 0 /\ CostOf(p) = y
  BY <1>3, <1>4, <1>5, FlatCost DEF CostOf
<1>9. r.entry = e /\ r.positions[j.contract] = row
  BY <1>2 DEF Applied, Row
<1> HIDE DEF e, row
<1>10. e.lines["position_cost"] + CostOf(p) - CostOf(row) = 0
  BY <1>6, <1>7, <1>8
<1>11. Magnitude(0) = 0 /\ Magnitude(QuantityOf(p)) >= 0 /\ Magnitude(QuantityOf(p)) \in Int
  BY <1>3, <1>4 DEF Magnitude, QuantityOf, PositionRows
<1> QED
  BY <1>0, <1>8, <1>9, <1>10, <1>11 DEF CostStep

\* Corrections: both outcomes are of the same position.
LEMMA CorrectionCosts ==
    ASSUME NEW j \in Jobs, j.kind = "correction", NEW ps, NEW cs, RowsOK(ps, cs), NEW ids,
           NEW x, x.payout \in Int \cup {None}, NEW y, y.payout \in Int \cup {None},
           NEW was \in PositionRows, ExactCorrection(ps[j.contract], was, y, x),
           ps[j.contract] # None,
           NEW r, r = ApplyCorrectionOnce([positions |-> ps, cash |-> cs, ids |-> ids], was,
                                          j.contract, j.balance, y, x),
           r.outcome = "applied"
    PROVE  CostStep(j, r.entry, ps[j.contract], r.positions[j.contract])
<1>0. PICK p, b, a, id : /\ p = ps[j.contract] /\ b = cs[j.balance]
                         /\ a = Correction(was, y, x) /\ id = CorrectionEntryId(j.contract, y, x)
  OBVIOUS
<1> DEFINE e == CorrectionEntry(id, x.settled_at, a)
           row == Closed(p, a.pnl, x)
<1>1. j.contract \in Contracts
  BY JobFields DEF JobOK
<1>2. /\ r = Applied(Row(j.contract, row),
                     Row(j.balance, ApplyToCash(b, e, e.lines["cash"])), e)
      /\ CorrectionIdentity(was, p, y, x, b.currency)
  BY <1>0 DEF ApplyCorrectionOnce, Once, Refused, Duplicate
<1>3. /\ was.average # None /\ x.payout # None /\ y.payout # None /\ was # None
      /\ p.quantity = 0
  BY <1>2 DEF CorrectionIdentity, SettlementAccepted
<1>4. p \in PositionRows
  BY <1>0, <1>1 DEF RowsOK
<1>5. PICK z : z = Decimal(was.quantity * was.average)
  OBVIOUS
<1>6. a.cost = 0
  <2>1. /\ ExactAmounts(was, x)
        /\ Exact(SettlementAccounting(was, x).cost - SettlementAccounting(was, y).cost)
    BY <1>0, <1>3 DEF ExactCorrection
  <2>2. SettlementAccounting(was, x).cost = z /\ SettlementAccounting(was, y).cost = z
    BY <1>5 DEF SettlementAccounting
  <2>3. z \in Int
    <3>1. was.quantity * was.average \in Int
      BY <1>3 DEF PositionRows
    <3>2. Exact(was.quantity * was.average)
      BY <1>3, <2>1 DEF ExactAmounts
    <3> QED
      BY <1>5, <3>1, <3>2 DEF Exact
  <2>4. a.cost = Decimal(SettlementAccounting(was, x).cost - SettlementAccounting(was, y).cost)
    BY <1>0 DEF Correction
  <2>5. z - z = 0
    BY <2>3
  <2> QED
    BY <2>1, <2>2, <2>4, <2>5 DEF Exact
<1>7. e.lines["position_cost"] = 0
  BY <1>6, CostLine DEF CorrectionEntry
<1>8. row.quantity = 0 /\ CostOf(row) = 0 /\ CostOf(p) = 0
  BY <1>3, <1>4, FlatCost DEF CostOf
<1>9. r.entry = e /\ r.positions[j.contract] = row
  BY <1>2 DEF Applied, Row
<1> HIDE DEF e, row
<1>10. e.lines["position_cost"] + CostOf(p) - CostOf(row) = 0
  BY <1>7, <1>8
<1>11. Magnitude(0) = 0 /\ Magnitude(QuantityOf(p)) >= 0 /\ Magnitude(QuantityOf(p)) \in Int
  BY <1>4 DEF Magnitude, QuantityOf, PositionRows
<1> QED
  BY <1>0, <1>8, <1>9, <1>10, <1>11 DEF CostStep

\* The jobs that touch no position.
LEMMA OtherCosts ==
    ASSUME NEW j \in Jobs, j.kind \in {"fee", "rebate", "transfer", "observed"}, NEW view,
           NEW r, r = Outcome(j, view, Was(j), SettledRow(j), PreviousRow(j)),
           r.outcome = "applied"
    PROVE  DOMAIN r.positions = {} /\ r.entry.lines["position_cost"] = 0
<1>1. CASE j.kind \in {"fee", "rebate"}
  <2>1. \E e \in {FeeEntry(j), RebateEntry(j)} : r = ApplyCashEntryOnce(view, j, e)
    BY <1>1 DEF Outcome
  <2>2. r.entry \in {FeeEntry(j), RebateEntry(j)} /\ r.positions = Nothing
    BY <2>1 DEF ApplyCashEntryOnce, Once, Applied, Refused, Duplicate
  <2> QED
    BY <2>2, UnnamedLines DEF FeeEntry, RebateEntry, Accounts, Nothing
<1>2. CASE j.kind = "transfer"
  <2>1. r = ApplyTransferOnce(view, j)
    BY <1>2 DEF Outcome
  <2>2. r.entry = TransferEntry(j) /\ r.positions = Nothing
    BY <2>1 DEF ApplyTransferOnce, Once, Applied, Refused, Duplicate
  <2> QED
    BY <2>2, UnnamedLines DEF TransferEntry, Accounts, Nothing
<1>3. CASE j.kind = "observed"
  <2>1. r = ApplyBalanceCorrectionOnce(view, j)
    BY <1>3 DEF Outcome
  <2>2. (\E b : r.entry = BalanceCorrectionEntry(b, j)) /\ r.positions = Nothing
    BY <2>1 DEF ApplyBalanceCorrectionOnce, Once, Applied, Refused, Duplicate
  <2> QED
    BY <2>2, UnnamedLines DEF BalanceCorrectionEntry, Accounts, Nothing
<1> QED
  BY <1>1, <1>2, <1>3

\* What the helper of a job returns explains the cost of the position it was applied to.
LEMMA OutcomeCosts ==
    ASSUME TablesOK, NEW j, NEW ps, ReadOK(j, ps), ExactJob(j, ps), NEW ids,
           NEW r, r = Outcome(j, [positions |-> ps, cash |-> cash, ids |-> ids],
                              Was(j), SettledRow(j), PreviousRow(j)),
           r.outcome = "applied"
    PROVE  /\ \A c \in DOMAIN r.positions : CostStep(j, r.entry, ps[c], r.positions[c])
           /\ DOMAIN r.positions = {} => j.kind # "fill" /\ r.entry.lines["position_cost"] = 0
<1> DEFINE view == [positions |-> ps, cash |-> cash, ids |-> ids]
<1>1. j \in Jobs /\ JobOK(j)
  BY JobFields DEF ReadOK
<1>2. RowsOK(ps, cash)
  BY DEF TablesOK, RowsOK, ReadOK
<1>3. CASE j.kind \in {"fee", "rebate", "transfer", "observed"}
  BY <1>1, <1>3, OtherCosts
<1>4. ASSUME j.kind \in {"fill", "settlement", "correction"}
      PROVE  DOMAIN r.positions = {j.contract}
  <2>1. \E row, cs, e : r = Applied(Row(j.contract, row), cs, e)
    <3>1. CASE j.kind = "fill"
      BY <3>1 DEF Outcome, ApplyFillOnce, FillToCash, FillOnce, FillJournal, Refused, Duplicate
    <3>2. CASE j.kind = "settlement"
      BY <3>2 DEF Outcome, ApplySettlementOnce, Once, Refused, Duplicate
    <3>3. CASE j.kind = "correction"
      BY <3>3 DEF Outcome, ApplyCorrectionOnce, Once, Refused, Duplicate
    <3> QED
      BY <1>4, <3>1, <3>2, <3>3
  <2> QED
    BY <2>1 DEF Applied, Row
<1>5. CASE j.kind = "fill"
  <2>1. r = ApplyFillOnce(view, j) /\ ExactFill(ps[j.contract], j)
    BY <1>5 DEF Outcome, ExactJob
  <2>2. CostStep(j, r.entry, ps[j.contract], r.positions[j.contract])
    BY <1>1, <1>2, <1>5, <2>1, FillCosts
  <2> QED
    BY <1>4, <1>5, <2>2
<1>6. CASE j.kind = "settlement"
  <2> DEFINE x == SettlementRow(j.settlement)
  <2>1. SettledRow(j) = x
    BY <1>6 DEF SettledRow
  <2>2. /\ r = ApplySettlementOnce(view, j.contract, j.balance, x)
        /\ ExactSettlement(ps[j.contract], x)
    BY <1>6, <2>1 DEF Outcome, ExactJob
  <2>3. x.payout \in Int \cup {None}
    BY <1>1, <1>6, SettlementRowFields DEF JobOK
  <2> HIDE DEF x
  <2>4. CostStep(j, r.entry, ps[j.contract], r.positions[j.contract])
    BY <1>1, <1>2, <1>6, <2>2, <2>3, SettlementCosts
  <2> QED
    BY <1>4, <1>6, <2>4
<1>7. CASE j.kind = "correction"
  <2> DEFINE x == SettlementRow(j.settlement)
             y == SettlementRow(j.previous)
             was == original[<<j.contract, j.previous>>]
  <2>1. SettledRow(j) = x /\ PreviousRow(j) = y /\ Was(j) = was
    BY <1>7 DEF SettledRow, PreviousRow, Was
  <2>2. /\ r = ApplyCorrectionOnce(view, was, j.contract, j.balance, y, x)
        /\ ExactCorrection(ps[j.contract], was, y, x)
    BY <1>7, <2>1 DEF Outcome, ExactJob
  <2>3. x.payout \in Int \cup {None} /\ y.payout \in Int \cup {None}
    BY <1>1, <1>7, SettlementRowFields DEF JobOK
  <2>4. was \in PositionRows /\ ps[j.contract] # None
    BY <1>1, <1>7 DEF ReadOK, JobOK, TablesOK
  <2> HIDE DEF x, y, was
  <2>5. CostStep(j, r.entry, ps[j.contract], r.positions[j.contract])
    BY <1>1, <1>2, <1>7, <2>2, <2>3, <2>4, CorrectionCosts
  <2> QED
    BY <1>4, <1>7, <2>5
<1> QED
  BY <1>1, <1>3, <1>5, <1>6, <1>7 DEF JobOK

-----------------------------------------------------------------------------
(* The cost all positions carry                                            *)

\* It is a sum of SumProofs.
LEMMA CarriedSum ==
    ASSUME NEW table
    PROVE  CarriedCost(table) = SumOver([c \in Contracts |-> CostOf(table[c])], Contracts)
<1> DEFINE F == [c \in Contracts |-> CostOf(table[c])]
           value(c) == CostOf(table[c])
           H(h) == h = [s \in SUBSET Contracts |->
                          IF s = {} THEN 0 ELSE value(Pick(s)) + h[s \ {Pick(s)}]]
<1>1. ASSUME NEW s \in SUBSET Contracts, s # {}
      PROVE  F[Pick(s)] = value(Pick(s))
  BY <1>1, Picked
<1>2. ASSUME NEW h PROVE H(h) <=> IsSum(h, F, Contracts)
  <2>1. ASSUME NEW s \in SUBSET Contracts
        PROVE  (IF s = {} THEN 0 ELSE value(Pick(s)) + h[s \ {Pick(s)}])
                  = (IF s = {} THEN 0 ELSE F[Pick(s)] + h[s \ {Pick(s)}])
    BY <1>1
  <2> HIDE DEF value, F
  <2> QED
    BY <2>1, Zenon DEF IsSum
<1>3. (CHOOSE h : H(h)) = (CHOOSE h : IsSum(h, F, Contracts))
  <2> HIDE DEF H
  <2> QED
    BY <1>2, Zenon
<1>4. CarriedCost(table) = (CHOOSE h : H(h))[Contracts]
  BY DEF CarriedCost, MapThenSumSet, MapThenFoldSet, Pick
<1> QED
  BY <1>3, <1>4, SumUnfolded

\* The position of one contract changes, or none.
LEMMA CarriedMoves ==
    ASSUME NEW old, NEW new, \A k \in Contracts : CostOf(old[k]) \in Int
    PROVE  /\ CarriedCost(old) \in Int
           /\ (\A k \in Contracts : new[k] = old[k]) => CarriedCost(new) = CarriedCost(old)
           /\ \A c \in Contracts :
                 CostOf(new[c]) \in Int /\ (\A k \in Contracts \ {c} : new[k] = old[k]) =>
                    CarriedCost(new) = CarriedCost(old) + (CostOf(new[c]) - CostOf(old[c]))
<1> DEFINE F == [k \in Contracts |-> CostOf(old[k])]
           G == [k \in Contracts |-> CostOf(new[k])]
<1>1. IsFiniteSet(Contracts)
  BY StoreAssumption DEF StoreAssumption
<1>2. CarriedCost(old) = SumOver(F, Contracts) /\ CarriedCost(new) = SumOver(G, Contracts)
  BY CarriedSum
<1>3. \A k \in Contracts : F[k] = CostOf(old[k]) /\ G[k] = CostOf(new[k]) /\ F[k] \in Int
  OBVIOUS
<1> HIDE DEF F, G
<1>4. SumOver(F, Contracts) \in Int
  BY <1>1, <1>3, SumType
<1>5. ASSUME \A k \in Contracts : new[k] = old[k] PROVE CarriedCost(new) = CarriedCost(old)
  <2>1. \A k \in Contracts : F[k] = G[k]
    BY <1>3, <1>5
  <2> QED
    BY <1>1, <1>2, <2>1, SumEqual
<1>6. ASSUME NEW c \in Contracts, CostOf(new[c]) \in Int,
             \A k \in Contracts \ {c} : new[k] = old[k]
      PROVE  CarriedCost(new) = CarriedCost(old) + (CostOf(new[c]) - CostOf(old[c]))
  <2>1. PICK amount : amount = CostOf(new[c]) - CostOf(old[c])
    OBVIOUS
  <2>2. amount \in Int /\ G[c] = F[c] + amount /\ \A k \in Contracts \ {c} : G[k] = F[k]
    BY <1>3, <1>6, <2>1
  <2>3. SumOver(G, Contracts) = SumOver(F, Contracts) + amount
    BY <1>1, <1>3, <2>2, SumMoved
  <2> QED
    BY <1>2, <2>1, <2>3
<1> QED
  BY <1>2, <1>4, <1>5, <1>6

\* The volume of fills is one, too.
LEMMA VolumeSum ==
    ASSUME NEW ids
    PROVE  Volume(ids) = SumOver([j \in Jobs |-> j.quantity], PostedFills(ids))
<1> DEFINE F == [j \in Jobs |-> j.quantity]
           S == PostedFills(ids)
           value(j) == j.quantity
           H(h) == h = [s \in SUBSET S |->
                          IF s = {} THEN 0 ELSE value(Pick(s)) + h[s \ {Pick(s)}]]
<1>0. S \subseteq Jobs
  BY DEF PostedFills
<1>4. Volume(ids) = (CHOOSE h : H(h))[S]
  BY DEF Volume, MapThenSumSet, MapThenFoldSet, Pick
<1> HIDE DEF S
<1>1. ASSUME NEW s \in SUBSET S, s # {}
      PROVE  F[Pick(s)] = value(Pick(s))
  BY <1>0, <1>1, Picked
<1>2. ASSUME NEW h PROVE H(h) <=> IsSum(h, F, S)
  <2>1. ASSUME NEW s \in SUBSET S
        PROVE  (IF s = {} THEN 0 ELSE value(Pick(s)) + h[s \ {Pick(s)}])
                  = (IF s = {} THEN 0 ELSE F[Pick(s)] + h[s \ {Pick(s)}])
    BY <1>1
  <2> HIDE DEF value, F
  <2> QED
    BY <2>1, Zenon DEF IsSum
<1>3. (CHOOSE h : H(h)) = (CHOOSE h : IsSum(h, F, S))
  <2> HIDE DEF H
  <2> QED
    BY <1>2, Zenon
<1> QED
  BY <1>3, <1>4, SumUnfolded DEF S

\* One more job: a fill adds its quantity to the volume, and to the drift at least the new
\* volume.
LEMMA DriftGrows ==
    ASSUME NEW ids, NEW j \in Jobs, EntryId(j) \notin ids, NEW more, more = ids \cup {EntryId(j)}
    PROVE  /\ Volume(ids) \in Nat /\ Drift(ids) \in Nat /\ Drift(more) \in Nat
           /\ j.kind = "fill" => /\ Volume(more) = Volume(ids) + j.quantity
                                 /\ Drift(more) >= Drift(ids) + Volume(more)
           /\ j.kind # "fill" => Volume(more) = Volume(ids) /\ Drift(more) = Drift(ids)
<1> DEFINE F == [k \in Jobs |-> k.quantity]
<1>1. PICK A, B : A = PostedFills(ids) /\ B = PostedFills(more)
  OBVIOUS
<1>2. /\ A \subseteq Jobs /\ j \notin A
      /\ B = IF j.kind = "fill" THEN A \cup {j} ELSE A
  BY <1>1, IdsAssumption DEF PostedFills, IdsAssumption
<1>3. IsFiniteSet(A) /\ Cardinality(A) \in Nat
  BY <1>2, JobsFinite, FS_Subset, FS_CardinalityType
<1>4. \A k \in A : F[k] \in Nat
  BY <1>1, FillFields DEF PostedFills
<1>5. Volume(ids) = SumOver(F, A) /\ Volume(more) = SumOver(F, B)
  BY <1>1, VolumeSum
<1>6. j.kind = "fill" => F[j] = j.quantity /\ F[j] \in Nat
  BY FillFields
<1> HIDE DEF F
<1>7. SumOver(F, A) \in Nat
  BY <1>3, <1>4, SumType
<1>8. PICK n, v : n = Cardinality(A) /\ v = Volume(ids)
  OBVIOUS
<1>9. n \in Nat /\ v \in Nat /\ Drift(ids) = n * v /\ n * v \in Nat
  BY <1>1, <1>3, <1>5, <1>7, <1>8 DEF Drift
<1>10. CASE j.kind = "fill"
  <2>1. PICK f : f = j.quantity
    OBVIOUS
  <2>2. f \in Nat /\ Volume(more) = v + f
    <3>1. SumOver(F, A \cup {j}) = F[j] + SumOver(F, A)
      BY <1>2, <1>3, <1>4, <1>6, <1>10, SumAdd
    <3> QED
      BY <1>2, <1>5, <1>6, <1>7, <1>8, <1>10, <2>1, <3>1
  <2>3. Cardinality(B) = n + 1
    BY <1>2, <1>3, <1>8, <1>10, FS_AddElement
  <2>4. Drift(more) = (n + 1) * (v + f)
    BY <1>1, <2>2, <2>3 DEF Drift
  <2>5. (n + 1) * (v + f) = n * v + n * f + (v + f) /\ n * f \in Nat
    BY <1>9, <2>2
  <2>6. PICK x, y : x = n * v /\ y = n * f
    OBVIOUS
  <2> QED
    BY <1>8, <1>9, <1>10, <2>1, <2>2, <2>4, <2>5, <2>6
<1>11. CASE j.kind # "fill"
  <2>1. Drift(more) = Drift(ids) /\ Volume(more) = Volume(ids)
    BY <1>1, <1>2, <1>5, <1>11 DEF Drift
  <2> QED
    BY <1>8, <1>9, <1>11, <2>1
<1> QED
  BY <1>10, <1>11

-----------------------------------------------------------------------------
(* The cost the journal books is the one the positions carry               *)

\* What a session is about to write explains the cost of the position that is there, if that
\* still has the version it was computed from.
CostPending(j, r) ==
    /\ \A c \in DOMAIN r.positions :
          r.positions[c].version = VersionOf(positions[c]) + 1 =>
             CostStep(j, r.entry, positions[c], r.positions[c])
    /\ DOMAIN r.positions = {} => j.kind # "fill" /\ r.entry.lines["position_cost"] = 0

CostInv ==
    /\ EntriesOK(journal) /\ CostFollows(positions, journal)
    /\ \A s \in Sessions : pc[s] = "write" => CostPending(job[s], result[s])

\* The books at the start.
LEMMA CostInit == Init => CostInv
<1> SUFFICES ASSUME Init PROVE CostInv
  OBVIOUS
<1>1. journal = ExchangeBooks(Past).entries /\ positions = ExchangeBooks(Past).positions
  BY DEF Init
<1>2. EntriesOK(journal)
  BY <1>1, StartAssumption, BooksAssumption DEF StartAssumption, BooksAssumption, EntriesOK
<1>3. CostFollows(positions, journal)
  BY <1>1, BooksAssumption DEF BooksAssumption
<1>4. \A s \in Sessions : pc[s] = "idle"
  BY DEF Init
<1> QED
  BY <1>2, <1>3, <1>4 DEF CostInv

\* The cost of a row is an integer.
LEMMA CostType ==
    ASSUME NEW p \in PositionRows \cup {None}, p # None => (p.quantity = 0) = (p.average = None)
    PROVE  CostOf(p) \in Int /\ (p # None => p.quantity \in Int /\ Magnitude(p.quantity) \in Nat)
<1>1. CASE p = None
  BY <1>1 DEF CostOf
<1>2. CASE p # None
  <2>1. p.quantity \in Int /\ (p.quantity # 0 => p.average \in Int)
    BY <1>2 DEF PositionRows
  <2>2. p.quantity # 0 => p.quantity * p.average \in Int
    BY <2>1
  <2> QED
    BY <1>2, <2>1, <2>2 DEF CostOf, Magnitude
<1> QED
  BY <1>1, <1>2

\* A commit adds its line to the cost booked and its change to the cost carried.
LEMMA CommitCarries ==
    ASSUME StoreInv, CostInv, NEW s \in Sessions, Commit(s)
    PROVE  EntriesOK(journal') /\ CostFollows(positions', journal')
<1>1. PICK r, j, e, J, old, new, ids, more :
        /\ r = result[s] /\ j = job[s] /\ e = r.entry /\ J = journal
        /\ old = positions /\ new = positions'
        /\ ids = {d.id : d \in J} /\ more = {d.id : d \in J \cup {e}}
  OBVIOUS
<1>2. /\ PendingOK(j, r) /\ e.id \notin ids /\ journal' = J \cup {e} /\ pc[s] = "write"
      /\ \A c \in DOMAIN r.positions : /\ new[c] = r.positions[c]
                                       /\ r.positions[c].version = VersionOf(old[c]) + 1
      /\ \A c \in Contracts \ DOMAIN r.positions : new[c] = old[c]
  BY <1>1, CommitSaves DEF Commit, JournalIds
<1>3. /\ j \in Jobs /\ e.id = EntryId(j) /\ e.lines \in [Accounts -> Int]
      /\ DOMAIN r.positions \subseteq Contracts
      /\ \A c \in DOMAIN r.positions :
            /\ r.positions[c] \in PositionRows /\ DOMAIN r.positions = {c}
            /\ (r.positions[c].quantity = 0) = (r.positions[c].average = None)
  BY <1>1, <1>2 DEF PendingOK
<1>4. /\ EntriesOK(J) /\ CostFollows(old, J) /\ e \notin J
      /\ \A c \in DOMAIN r.positions : CostStep(j, e, old[c], new[c])
      /\ DOMAIN r.positions = {} => j.kind # "fill" /\ e.lines["position_cost"] = 0
  BY <1>1, <1>2 DEF CostInv, CostPending
<1>5. \A c \in Contracts : /\ CostOf(old[c]) \in Int
                           /\ old[c] # None => Magnitude(old[c].quantity) \in Nat
  BY <1>1, CostType DEF StoreInv, TablesOK, RowsOK
<1>6. EntriesOK(J \cup {e})
  <2>1. IsFiniteSet(J \cup {e})
    BY <1>4, FS_AddElement DEF EntriesOK
  <2> QED
    BY <1>3, <1>4, <2>1 DEF EntriesOK
<1>7. PICK x, x2, y, y2, l :
        /\ x = SumAccount(J, "position_cost") /\ x2 = SumAccount(J \cup {e}, "position_cost")
        /\ y = CarriedCost(old) /\ y2 = CarriedCost(new) /\ l = e.lines["position_cost"]
  OBVIOUS
<1>8. x2 = x + l /\ x \in Int /\ l \in Int
  <2>1. "position_cost" \in Accounts /\ J \in SUBSET J
    BY DEF Accounts
  <2>2. SumAccount(J, "position_cost") \in Int
    BY <1>4, <2>1, AccountSplit
  <2>3. SumAccount(J \cup {e}, "position_cost")
          = SumAccount(J, "position_cost") + e.lines["position_cost"]
    <3>1. e \notin J /\ EntriesOK(J) /\ e.lines \in [Accounts -> Int]
      BY <1>3, <1>4
    <3>2. \A a \in Accounts : SumAccount(J \cup {e}, a) = SumAccount(J, a) + e.lines[a]
      BY <3>1, AccountAdd, Zenon
    <3> QED
      BY <2>1, <3>2
  <2> QED
    BY <1>3, <1>7, <2>1, <2>2, <2>3
<1>9. /\ Magnitude(x - y) <= Drift(ids)
      /\ \A c \in Contracts : old[c] # None => Magnitude(old[c].quantity) <= Volume(ids)
  BY <1>1, <1>4, <1>7 DEF CostFollows
<1>10. /\ Volume(ids) \in Nat /\ Drift(ids) \in Nat /\ Drift(more) \in Nat
       /\ j.kind = "fill" => /\ Volume(more) = Volume(ids) + j.quantity
                             /\ Drift(more) >= Drift(ids) + Volume(more)
       /\ j.kind # "fill" => Volume(more) = Volume(ids) /\ Drift(more) = Drift(ids)
  <2>1. more = ids \cup {EntryId(j)} /\ EntryId(j) \notin ids
    BY <1>1, <1>2, <1>3
  <2> QED
    BY <1>3, <2>1, DriftGrows
<1>11. y \in Int
  BY <1>5, <1>7, CarriedMoves
<1>12. SUFFICES /\ Magnitude(x2 - y2) <= Drift(more)
                /\ \A c \in Contracts : new[c] # None => Magnitude(new[c].quantity) <= Volume(more)
  <2>1. CostFollows(new, J \cup {e})
    BY <1>1, <1>7, <1>12 DEF CostFollows
  <2> QED
    BY <1>1, <1>2, <1>6, <2>1
<1>13. j.kind = "fill" => j.quantity \in Nat
  BY <1>3, FillFields
<1>14. CASE DOMAIN r.positions = {}
  <2>1. \A c \in Contracts : new[c] = old[c]
    BY <1>2, <1>14
  <2>2. y2 = y
    BY <1>5, <1>7, <2>1, CarriedMoves
  <2>3. j.kind # "fill" /\ l = 0
    BY <1>4, <1>7, <1>14
  <2>4. x2 = x
    BY <1>8, <2>3
  <2> QED
    BY <1>9, <1>10, <2>1, <2>2, <2>3, <2>4
<1>15. CASE DOMAIN r.positions # {}
  <2>1. PICK c \in Contracts : DOMAIN r.positions = {c}
    BY <1>3, <1>15
  <2>2. PICK p, q : p = old[c] /\ q = new[c]
    OBVIOUS
  <2>3. q \in PositionRows /\ (q.quantity = 0) = (q.average = None) /\ q # None
    BY <1>2, <1>3, <2>1, <2>2, StartAssumption DEF StartAssumption
  <2>4. CostStep(j, e, p, q) /\ \A k \in Contracts \ {c} : new[k] = old[k]
    BY <1>2, <1>4, <2>1, <2>2
  <2>5. CostOf(q) \in Int /\ q.quantity \in Int /\ Magnitude(q.quantity) \in Nat
    BY <2>3, CostType
  <2>6. CostOf(p) \in Int
    BY <1>5, <2>2
  <2>7. y2 = y + (CostOf(q) - CostOf(p))
    BY <1>5, <1>7, <2>2, <2>4, <2>5, CarriedMoves
  <2>8. Magnitude(QuantityOf(p)) \in Nat /\ Magnitude(QuantityOf(p)) <= Volume(ids)
    <3>1. Magnitude(0) = 0
      BY DEF Magnitude
    <3> QED
      BY <1>5, <1>9, <1>10, <2>2, <3>1 DEF QuantityOf
  <2>9. PICK f, m, k : /\ f = IF j.kind = "fill" THEN j.quantity ELSE 0
                       /\ m = Magnitude(q.quantity)
                       /\ k = l + CostOf(p) - CostOf(q)
    OBVIOUS
  <2>10. /\ f \in Nat /\ m \in Nat /\ k \in Int /\ m <= Magnitude(QuantityOf(p)) + f
         /\ Magnitude(k) <= IF j.kind = "fill" THEN m ELSE 0
    BY <1>7, <1>8, <1>13, <2>4, <2>5, <2>6, <2>9 DEF CostStep
  <2>11. m <= Volume(ids) + f /\ Volume(more) = Volume(ids) + f
    BY <1>10, <1>13, <2>8, <2>9, <2>10
  <2>12. x2 - y2 = (x - y) + k
    BY <1>8, <1>11, <2>5, <2>6, <2>7, <2>9
  <2>13. Magnitude(x2 - y2) <= Magnitude(x - y) + Magnitude(k)
    <3>1. x - y \in Int /\ k \in Int
      BY <1>8, <1>11, <2>10
    <3>2. \A a, b \in Int : Magnitude(a + b) <= Magnitude(a) + Magnitude(b)
      BY DEF Magnitude
    <3> QED
      BY <2>12, <3>1, <3>2
  <2>14. Magnitude(x - y) \in Nat /\ Magnitude(k) \in Nat /\ Magnitude(x2 - y2) \in Nat
    <3>1. x - y \in Int /\ k \in Int /\ x2 - y2 \in Int
      BY <1>8, <1>11, <2>10, <2>12
    <3> QED
      BY <3>1 DEF Magnitude
  <2>15. Magnitude(x2 - y2) <= Drift(more)
    <3>1. CASE j.kind = "fill"
      BY <1>9, <1>10, <2>10, <2>11, <2>13, <2>14, <3>1
    <3>2. CASE j.kind # "fill"
      BY <1>9, <1>10, <2>10, <2>13, <2>14, <3>2
    <3> QED
      BY <3>1, <3>2
  <2>16. ASSUME NEW i \in Contracts, new[i] # None
         PROVE  Magnitude(new[i].quantity) <= Volume(more)
    <3>1. CASE i = c
      BY <2>2, <2>9, <2>11, <3>1
    <3>2. CASE i # c
      BY <1>5, <1>9, <1>10, <2>4, <2>10, <2>11, <2>16, <3>2
    <3> QED
      BY <3>1, <3>2
  <2> QED
    BY <2>15, <2>16
<1> QED
  BY <1>14, <1>15

\* A commit of another session: a row that it saves has a version of its own.
LEMMA CommitKeepsCost ==
    ASSUME StoreInv, NEW s \in Sessions, Commit(s), NEW j, NEW x, PendingOK(j, x),
           CostPending(j, x)
    PROVE  CostPending(j, x)'
<1>1. PICK r : r = result[s]
  OBVIOUS
<1>2. /\ PendingOK(job[s], r)
      /\ \A c \in DOMAIN r.positions :
            /\ positions'[c] = r.positions[c]
            /\ r.positions[c].version = VersionOf(positions[c]) + 1
      /\ \A c \in Contracts \ DOMAIN r.positions : positions'[c] = positions[c]
  BY <1>1, CommitSaves
<1>3. ASSUME NEW c \in DOMAIN x.positions, x.positions[c].version = VersionOf(positions'[c]) + 1
      PROVE  CostStep(j, x.entry, positions'[c], x.positions[c])
  <2>1. c \in Contracts /\ x.positions[c].version <= VersionOf(positions[c]) + 1
    BY <1>3 DEF PendingOK
  <2>2. VersionOf(positions[c]) \in Int
    BY <2>1 DEF StoreInv, TablesOK, RowsOK, VersionOf, PositionRows
  <2>3. CASE c \in DOMAIN r.positions
    <3>1. positions'[c] \in PositionRows /\ positions'[c].version = VersionOf(positions[c]) + 1
      BY <1>2, <2>3 DEF PendingOK
    <3>2. VersionOf(positions'[c]) = VersionOf(positions[c]) + 1
      BY <3>1, StartAssumption DEF VersionOf, StartAssumption
    <3> QED
      BY <1>3, <2>1, <2>2, <3>2
  <2>4. CASE c \notin DOMAIN r.positions
    BY <1>2, <1>3, <2>1, <2>4 DEF CostPending
  <2> QED
    BY <2>3, <2>4
<1> QED
  BY <1>3 DEF CostPending

\* What a helper computed from the positions that a session has read.
LEMMA ApplyCosts ==
    ASSUME StoreInv, NothingRounds, NEW s \in Sessions, pc[s] = "read", NEW j, j = job[s],
           NEW r, r = Outcome(j, [positions |-> seen[s], cash |-> cash, ids |-> JournalIds],
                              Was(j), SettledRow(j), PreviousRow(j)),
           r.outcome = "applied"
    PROVE  CostPending(j, r)
<1>1. PICK ps : ps = seen[s]
  OBVIOUS
<1>2. ReadOK(j, ps) /\ ExactJob(j, ps) /\ TablesOK
  BY <1>1 DEF StoreInv, SessionOK, NothingRounds
<1>3. r = Outcome(j, [positions |-> ps, cash |-> cash, ids |-> JournalIds],
                  Was(j), SettledRow(j), PreviousRow(j))
  BY <1>1
<1>4. Posts(r, j, ps, cash)
  BY <1>2, <1>3, OutcomePosts
<1>5. /\ \A c \in DOMAIN r.positions : CostStep(j, r.entry, ps[c], r.positions[c])
      /\ DOMAIN r.positions = {} => j.kind # "fill" /\ r.entry.lines["position_cost"] = 0
  BY <1>2, <1>3, OutcomeCosts
<1>6. ASSUME NEW c \in DOMAIN r.positions, r.positions[c].version = VersionOf(positions[c]) + 1
      PROVE  CostStep(j, r.entry, positions[c], r.positions[c])
  <2>1. c \in Contracts /\ r.positions[c].version = VersionOf(ps[c]) + 1
    BY <1>4, <1>6 DEF Posts
  <2>2. VersionOf(ps[c]) \in Int /\ VersionOf(positions[c]) \in Int
    BY <1>2, <2>1 DEF TablesOK, RowsOK, ReadOK, VersionOf, PositionRows
  <2>3. VersionOf(ps[c]) = VersionOf(positions[c])
    BY <1>6, <2>1, <2>2
  <2>4. ps[c] = positions[c]
    BY <1>2, <2>1, <2>3 DEF ReadOK
  <2> QED
    BY <1>5, <1>6, <2>4
<1> QED
  BY <1>5, <1>6 DEF CostPending

\* Every step keeps it.
LEMMA CostNext == StoreInv /\ NothingRounds /\ CostInv /\ [Next]_vars => CostInv'
<1> SUFFICES ASSUME StoreInv, NothingRounds, CostInv, [Next]_vars PROVE CostInv'
  OBVIOUS
<1> DEFINE Writing(t) == pc[t] = "write" => CostPending(job[t], result[t])
           Kept(t) == pc'[t] = pc[t] /\ job'[t] = job[t] /\ result'[t] = result[t]
<1>0. DOMAIN pc = Sessions /\ DOMAIN job = Sessions /\ DOMAIN result = Sessions
  BY DEF StoreInv, TablesOK
<1>1. ASSUME UNCHANGED <<journal, positions>>,
             \A t \in Sessions : Kept(t) \/ pc'[t] # "write" \/ Writing(t)'
      PROVE  CostInv'
  <2>1. ASSUME NEW t \in Sessions PROVE Writing(t)'
    <3>1. ASSUME Kept(t) PROVE Writing(t)'
      <4>1. Writing(t)
        BY DEF CostInv
      <4>2. \A j, r : CostPending(j, r)' = CostPending(j, r)
        BY <1>1 DEF CostPending
      <4> QED
        BY <3>1, <4>1, <4>2
    <3> QED
      BY <1>1, <3>1
  <2>2. EntriesOK(journal)' /\ CostFollows(positions, journal)'
    BY <1>1 DEF CostInv
  <2> QED
    BY <2>1, <2>2 DEF CostInv
<1>2. ASSUME NEW s \in Sessions, Reset(s)
      PROVE  \A t \in Sessions : Kept(t) \/ pc'[t] # "write"
  BY <1>0, <1>2 DEF Reset
<1>3. ASSUME NEW s \in Sessions, NEW j \in Jobs, ReadPositions(s, j) PROVE CostInv'
  <2>1. \A t \in Sessions : Kept(t) \/ pc'[t] # "write"
    BY <1>0, <1>3 DEF ReadPositions
  <2> QED
    BY <1>1, <1>3, <2>1 DEF ReadPositions, tables
<1>4. ASSUME NEW s \in Sessions, ApplyJob(s) PROVE CostInv'
  <2> DEFINE j == job[s]
             view == [positions |-> seen[s], cash |-> cash, ids |-> JournalIds]
             r == Outcome(j, view, Was(j), SettledRow(j), PreviousRow(j))
  <2>1. \/ /\ r.outcome = "applied"
           /\ pc' = [pc EXCEPT ![s] = "write"]
           /\ result' = [result EXCEPT ![s] = r] /\ UNCHANGED job
        \/ Reset(s)
    BY <1>4 DEF ApplyJob, Was, SettledRow, PreviousRow
  <2>2. UNCHANGED <<journal, positions>> /\ pc[s] = "read"
    BY <1>4 DEF ApplyJob, tables
  <2>3. CASE Reset(s)
    BY <1>1, <1>2, <2>2, <2>3
  <2>4. ASSUME r.outcome = "applied", pc' = [pc EXCEPT ![s] = "write"],
               result' = [result EXCEPT ![s] = r], UNCHANGED job
        PROVE  CostInv'
    <3>1. CostPending(j, r)
      BY <2>2, <2>4, ApplyCosts
    <3> HIDE DEF r
    <3>2. PICK k, x : k = j /\ x = r
      OBVIOUS
    <3>3. job'[s] = k /\ result'[s] = x /\ \A t \in Sessions \ {s} : Kept(t)
      BY <1>0, <2>4, <3>2
    <3>4. CostPending(k, x)'
      BY <2>2, <3>1, <3>2 DEF CostPending
    <3>5. Writing(s)'
      BY <3>3, <3>4
    <3> QED
      BY <1>1, <2>2, <3>3, <3>5
  <2> QED
    BY <2>1, <2>3, <2>4
<1>5. ASSUME NEW s \in Sessions, Write(s) PROVE CostInv'
  <2>1. \A t \in Sessions : Kept(t) \/ pc'[t] # "write"
    BY <1>2, <1>5 DEF Write
  <2> QED
    BY <1>1, <1>5, <2>1 DEF Write, tables
<1>6. ASSUME NEW s \in Sessions, Commit(s) PROVE CostInv'
  <2>1. \A t \in Sessions : Kept(t) \/ pc'[t] # "write"
    BY <1>0, <1>2, <1>6 DEF Commit
  <2>2. EntriesOK(journal') /\ CostFollows(positions', journal')
    BY <1>6, CommitCarries
  <2>3. ASSUME NEW t \in Sessions, Kept(t) PROVE Writing(t)'
    <3> SUFFICES ASSUME pc[t] = "write" PROVE CostPending(job[t], result[t])'
      BY <2>3
    <3>1. PICK k, x : k = job[t] /\ x = result[t] /\ k = job'[t] /\ x = result'[t]
      BY <2>3
    <3>2. CostPending(k, x) /\ PendingOK(k, x)
      BY <3>1 DEF CostInv, StoreInv, SessionOK
    <3>3. CostPending(k, x)'
      BY <1>6, <3>2, CommitKeepsCost
    <3> QED
      BY <3>1, <3>3
  <2> QED
    BY <2>1, <2>2, <2>3 DEF CostInv
<1>7. ASSUME NEW s \in Sessions, PersistEvents(s) \/ Fail(s) PROVE CostInv'
  <2>1. Reset(s) /\ UNCHANGED <<journal, positions>>
    BY <1>7 DEF PersistEvents, Fail, tables
  <2> QED
    BY <1>1, <1>2, <2>1
<1>8. ASSUME UNCHANGED <<journal, positions, pc, job, result>> PROVE CostInv'
  BY <1>1, <1>8
<1>9. ASSUME NEW x \in DOMAIN Settlements, NEW status, SaveSettlement(x, status) PROVE CostInv'
  BY <1>8, <1>9 DEF SaveSettlement, sessionVars
<1>10. CASE StartReconciliation \/ \E n \in 0 .. Len(Exchange) : Reconcile(n)
  BY <1>8, <1>10 DEF StartReconciliation, Reconcile, tables, sessionVars
<1>11. CASE UNCHANGED vars
  BY <1>8, <1>11 DEF vars, tables, sessionVars
<1> QED
  BY <1>3, <1>4, <1>5, <1>6, <1>7, <1>9, <1>10, <1>11 DEF Next

\* build_journal_pnl_attribution and the weighted averages of positions.py together: the
\* attributed PnL explains what the balances gained up to the cost still held, and that cost
\* is the one the positions carry, the rounding of averages apart.
THEOREM CostExplainsCash == Spec /\ []NothingRounds => []PnlExplainsCash
<1>1. Spec /\ []NothingRounds => []PnlIsCash
  BY ProfitExplainsCash
<1>2. Spec /\ []NothingRounds => []StoreInv
  BY StoreInit, StoreNext, PTL DEF Spec
<1>3. CostInv => CostIsCarried
  BY DEF CostInv, CostIsCarried
<1>4. PnlIsCash /\ CostIsCarried => PnlExplainsCash
  BY DEF PnlExplainsCash
<1>5. Spec /\ []NothingRounds => []CostInv
  BY <1>2, CostInit, CostNext, PTL DEF Spec
<1> QED
  BY <1>1, <1>3, <1>4, <1>5, PTL
=============================================================================
