--------------------------- MODULE PortfolioStore ---------------------------
(***************************************************************************)
(* The portfolio tables under concurrent projectors.                       *)
(*                                                                         *)
(* A projector opens a SqlAlchemyPortfolioUnitOfWork, reads the rows its   *)
(* job needs, calls one apply_*_once helper (PortfolioAccounting), writes  *)
(* the entry and the projections through the repositories and commits; the *)
(* events of the change go through PortfolioEventWorkflow afterwards, in a *)
(* unit of work of their own.  The repository has the helpers, the         *)
(* repositories and the workflow; the projector that strings them together *)
(* is external, and reads and writes in any order they allow.              *)
(*                                                                         *)
(* Jobs come from an exchange: at least once, in any order, any number of  *)
(* times.  Transactions are READ COMMITTED: a write waits for a row that   *)
(* another transaction has written, and then sees the committed row.       *)
(***************************************************************************)
EXTENDS PortfolioAccounting, FiniteSets, Sequences

CONSTANTS
    Sessions,        \* projectors, one unit of work each
    Contracts, Balances,
    Opening,         \* the cash rows at the start
    Exchange,        \* the jobs in the order in which they happened at the exchange, several
                     \* perhaps at one instant
    Past,            \* how many of them are posted at the start
    Deliverable,     \* the jobs that are delivered, some of them posted already
    Announced,       \* the jobs whose caller persists events
    Settlements,     \* settlement records by id, as they are when settled
    Horizon,         \* an instant after every job
    MaxReconciliations \* bound: completed reconciliations

VARIABLES
    positions,       \* table positions, by contract, None: no row
    cash,            \* table cash_balances, by balance
    journal,         \* tables journal_entries and journal_lines
    settlements,     \* table settlements: status by id, None: no row
    canonical,       \* table canonical_events, by the entry they announce
    outbox,          \* table outbox_messages, likewise
    pc,              \* where a session is
    job,             \* what it works on
    seen,            \* the positions it has read; then the one it settles
    result,          \* what the helper returned
    written,         \* the rows its transaction has written
    original,        \* (caller) the position that a settlement closed, by contract and
                     \* settlement
    recon,           \* the reconciliation under way: the positions it has read
    gate             \* the completed reconciliations, the last one last

tables == <<positions, cash, journal, settlements, canonical, outbox>>
sessionVars == <<pc, job, seen, result, written>>
vars == <<tables, sessionVars, original, recon, gate>>

Jobs == {Exchange[n] : n \in DOMAIN Exchange}
JournalIds == {e.id : e \in journal}

ASSUME StoreAssumption ==
    /\ \A b \in Balances : BalanceIdentity(Opening[b])
    /\ Horizon \in Nat /\ \A j \in Jobs : j.at \in 1 .. Horizon - 1
    /\ \A m, n \in DOMAIN Exchange :
          m < n => Exchange[m] # Exchange[n] /\ Exchange[m].at <= Exchange[n].at
    /\ Past \in 0 .. Len(Exchange) /\ Deliverable \subseteq Jobs /\ Announced \subseteq Jobs
    /\ \A x \in DOMAIN Settlements : Settlements[x].settled_at \in 1 .. Horizon - 1
    /\ IsFiniteSet(Contracts) /\ IsFiniteSet(Balances) /\ "pnl" \notin Balances

\* The fields of the schemas a job is built from: Fill, Fee, Rebate, Transfer, the observed
\* CashBalance, Settlement.
JobOK(j) ==
    /\ j.kind \in {"fill", "fee", "rebate", "transfer", "observed", "settlement", "correction"}
    /\ j.kind \in {"fill", "settlement", "correction"} => j.contract \in Contracts
    /\ IF j.kind = "transfer" THEN j.source \in Balances /\ j.target \in Balances
       ELSE j.balance \in Balances
    /\ j.kind = "fill" =>
          /\ j.side \in {"buy", "sell"} /\ j.quantity \in Nat \ {0} /\ j.price \in Nat
          /\ j.fee \in Int \cup {None} /\ j.rebate \in Int \cup {None}
    /\ j.kind \in {"fee", "rebate", "transfer"} => j.amount \in Int
    /\ j.kind = "observed" => j.available \in Int /\ j.total \in Int
    /\ j.kind \in {"settlement", "correction"} => j.settlement \in DOMAIN Settlements
    /\ j.kind = "correction" => j.previous \in DOMAIN Settlements

SettlementRecords ==
    [id : STRING, status : STRING, settled_at : Int, payout : Int \cup {None},
     currency : STRING, winners : SUBSET STRING, corrects : STRING \cup {None}]

ASSUME JobsAssumption ==
    /\ \A j \in Jobs : JobOK(j)
    /\ Settlements \in [DOMAIN Settlements -> SettlementRecords]

-----------------------------------------------------------------------------
(* What a helper returns for a job                                         *)

\* settlement_from_row: a record that is not settled has no settlement time.
SettlementRow(id) ==
    [Settlements[id] EXCEPT !.status = settlements[id],
                            !.settled_at = IF settlements[id] = "finalized" THEN None ELSE @]

\* The journal id of a job.
EntryId(j) ==
    CASE j.kind = "fill" -> FillEntryId(j)
      [] j.kind = "fee" -> FeeEntry(j).id
      [] j.kind = "rebate" -> RebateEntry(j).id
      [] j.kind = "transfer" -> TransferEntry(j).id
      [] j.kind = "observed" -> BalanceCorrectionId(j)
      [] j.kind = "settlement" -> SettlementEntryId(j.contract, Settlements[j.settlement])
      [] j.kind = "correction" ->
           CorrectionEntryId(j.contract, Settlements[j.previous], Settlements[j.settlement])

ASSUME IdsAssumption == \A j, k \in Jobs : EntryId(j) = EntryId(k) => j = k

\* The helper call for a job, on what the session has seen; s and p are the settlement rows
\* it has read.
Outcome(j, view, was, s, p) ==
    CASE j.kind = "fill" -> ApplyFillOnce(view, j)
      [] j.kind = "fee" -> ApplyCashEntryOnce(view, j, FeeEntry(j))
      [] j.kind = "rebate" -> ApplyCashEntryOnce(view, j, RebateEntry(j))
      [] j.kind = "transfer" -> ApplyTransferOnce(view, j)
      [] j.kind = "observed" -> ApplyBalanceCorrectionOnce(view, j)
      [] j.kind = "settlement" -> ApplySettlementOnce(view, j.contract, j.balance, s)
      [] j.kind = "correction" ->
           ApplyCorrectionOnce(view, was, j.contract, j.balance, p, s)

\* A correction needs the position that was settled and the one that is there now.
Callable(j) ==
    /\ j.kind \in {"settlement", "correction"} =>
          settlements[j.settlement] # None /\ positions[j.contract] # None
    /\ j.kind = "correction" => /\ settlements[j.previous] # None
                                /\ original[<<j.contract, j.previous>>] # None

-----------------------------------------------------------------------------
(* Books kept in an order of the jobs                                      *)

\* A table after some of its rows have been saved.
Saved(rows, table) ==
    [k \in DOMAIN table |-> IF k \in DOMAIN rows THEN rows[k] ELSE table[k]]

\* CashBalanceRepository.save counts the version of a balance.
Counted(rows) == [b \in DOMAIN rows |-> [rows[b] EXCEPT !.version = @ + 1]]

\* The books after a job with the result r.
AfterResult(was, j, r) ==
    IF r.outcome # "applied" THEN was
    ELSE [positions |-> Saved(r.positions, was.positions),
          cash |-> Saved(Counted(r.cash), was.cash),
          entries |-> was.entries \cup {r.entry},
          ids |-> was.ids \cup {r.entry.id},
          original |-> IF j.kind = "settlement"
                       THEN [was.original EXCEPT ![<<j.contract, j.settlement>>] =
                               was.positions[j.contract]]
                       ELSE was.original]

\* The books after one more job, whose helper has the rows at hand.
AfterJob(was, j) ==
    LET corrects == j.kind = "correction"
    IN  AfterResult(was, j,
            Outcome(j, was, IF corrects THEN was.original[<<j.contract, j.previous>>] ELSE None,
                    IF corrects \/ j.kind = "settlement"
                    THEN Settlements[j.settlement] ELSE None,
                    IF corrects THEN Settlements[j.previous] ELSE None))

EmptyBooks == [positions |-> [c \in Contracts |-> None], cash |-> Opening, entries |-> {},
               ids |-> {}, original |-> [k \in Contracts \X DOMAIN Settlements |-> None]]

\* The books after those of the first n jobs of an order that are in a set.
Replay(order, jobs, n) ==
    LET books[m \in 0 .. n] ==
          IF m = 0 THEN EmptyBooks
          ELSE IF order[m] \in jobs THEN AfterJob(books[m - 1], order[m])
          ELSE books[m - 1]
    IN  books[n]

\* The exchange's own books after its first n jobs.
ExchangeBooks(n) == Replay(Exchange, Jobs, n)

PositionRows == [contract : Contracts, quantity : Int, average : Int \cup {None},
                 realized : Int, fees : Nat, rebates : Nat, opened_at : Int \cup {None},
                 updated_at : Int, version : Nat \ {0}]
CashRows == [currency : STRING, available : Int, reserved : Nat, total : Int,
             captured_at : Int, version : Nat]

\* What _validate_existing_position and CashBalance demand of rows: a position is flat
\* exactly when it has no average, and the balance identity holds.
RowsOK(ps, balances) ==
    /\ ps \in [Contracts -> PositionRows \cup {None}]
    /\ \A c \in Contracts : ps[c] # None => (ps[c].quantity = 0) = (ps[c].average = None)
    /\ balances \in [Balances -> CashRows]
    /\ \A b \in Balances : BalanceIdentity(balances[b])

ASSUME StartAssumption ==
    /\ None \notin Int \cup PositionRows
    /\ RowsOK(ExchangeBooks(Past).positions, ExchangeBooks(Past).cash)
    /\ \A e \in ExchangeBooks(Past).entries : e.lines \in [Accounts -> Int]
    /\ ExchangeBooks(Past).original \in [Contracts \X DOMAIN Settlements ->
                                           PositionRows \cup {None}]

-----------------------------------------------------------------------------
(* Rows and locks                                                          *)

\* The rows a result is written to.
RowsOf(r) ==
    {<<"journal", r.entry.id>>}
    \cup {<<"position", c>> : c \in DOMAIN r.positions}
    \cup {<<"cash", b>> : b \in DOMAIN r.cash}

\* The row a session writes next: its entry, the positions, the balances.
NextRow(s) ==
    LET left == RowsOf(result[s]) \ written[s]
        rank == [journal |-> 1, position |-> 2, cash |-> 3]
    IN  CHOOSE row \in left : \A other \in left : rank[row[1]] <= rank[other[1]]

\* A row another transaction has written and not yet committed.
Locked(s, row) == \E t \in Sessions \ {s} : row \in written[t]

\* JournalEntryRepository.add: the primary key.
JournalIsNew(id) == id \notin JournalIds

\* PositionRepository.add and save: the row is the one the result was computed from.
PositionIsCurrent(r, c) ==
    IF positions[c] = None THEN r.positions[c].version = 1
    ELSE positions[c].version + 1 = r.positions[c].version

\* Mutant of CashIsCurrent: cash is saved whatever its version.
CashUnchecked(r, b) == TRUE

\* CashBalanceRepository.save
CashIsCurrent(r, b) == cash[b].version = r.cash[b].version

Current(r, row) ==
    CASE row[1] = "journal" -> JournalIsNew(row[2])
      [] row[1] = "position" -> PositionIsCurrent(r, row[2])
      [] row[1] = "cash" -> CashIsCurrent(r, row[2])

-----------------------------------------------------------------------------
(* Initial state                                                           *)

Init ==
    /\ \E books \in {ExchangeBooks(Past)} :
          /\ positions = books.positions /\ cash = books.cash /\ journal = books.entries
          /\ original = books.original
    /\ settlements = [x \in DOMAIN Settlements |-> None]
    /\ canonical = {} /\ outbox = {}
    /\ pc = [s \in Sessions |-> "idle"]
    /\ job = [s \in Sessions |-> None]
    /\ seen = [s \in Sessions |-> None]
    /\ result = [s \in Sessions |-> None]
    /\ written = [s \in Sessions |-> {}]
    /\ recon = None
    /\ gate = <<>>

\* The session ends: nothing of it stays.
Reset(s) ==
    /\ pc' = [pc EXCEPT ![s] = "idle"]
    /\ job' = [job EXCEPT ![s] = None]
    /\ seen' = [seen EXCEPT ![s] = None]
    /\ result' = [result EXCEPT ![s] = None]
    /\ written' = [written EXCEPT ![s] = {}]

-----------------------------------------------------------------------------
(* Projectors                                                              *)

\* A delivery, the first or another one: the session reads the positions.
ReadPositions(s, j) ==
    /\ pc[s] = "idle" /\ j \in Deliverable
    /\ Callable(j)
    /\ pc' = [pc EXCEPT ![s] = "read"]
    /\ job' = [job EXCEPT ![s] = j]
    /\ seen' = [seen EXCEPT ![s] = positions]
    /\ UNCHANGED <<result, written, tables, original, recon, gate>>

\* It reads the balances and the journal and calls the helper.  A duplicate or a refusal
\* ends the session.
ApplyJob(s) ==
    /\ pc[s] = "read"
    /\ LET j == job[s]
           view == [positions |-> seen[s], cash |-> cash, ids |-> JournalIds]
           corrects == j.kind = "correction"
       IN  \E r \in {Outcome(j, view,
                             IF corrects THEN original[<<j.contract, j.previous>>] ELSE None,
                             IF corrects \/ j.kind = "settlement"
                             THEN SettlementRow(j.settlement) ELSE None,
                             IF corrects THEN SettlementRow(j.previous) ELSE None)} :
           \/ /\ r.outcome = "applied"
              /\ pc' = [pc EXCEPT ![s] = "write"]
              /\ result' = [result EXCEPT ![s] = r]
              /\ seen' = [seen EXCEPT ![s] =
                            IF j.kind = "settlement" THEN @[j.contract] ELSE None]
              /\ UNCHANGED <<job, written>>
           \/ r.outcome # "applied" /\ Reset(s)
    /\ UNCHANGED <<tables, original, recon, gate>>

\* Every call of the session has flushed.
AllWritten(s) == RowsOf(result[s]) \subseteq written[s]

\* One repository call: a row that is not current any more raises, and the unit of work
\* rolls back.
Write(s) ==
    /\ pc[s] = "write" /\ ~AllWritten(s)
    /\ ~Locked(s, NextRow(s))
    /\ \/ /\ Current(result[s], NextRow(s))
          /\ written' = [written EXCEPT ![s] = @ \cup {NextRow(s)}]
          /\ UNCHANGED <<pc, job, seen, result>>
       \/ ~Current(result[s], NextRow(s)) /\ Reset(s)
    /\ UNCHANGED <<tables, original, recon, gate>>

Commit(s) ==
    /\ pc[s] = "write" /\ AllWritten(s)
    /\ LET r == result[s]
       IN  /\ positions' = Saved(r.positions, positions)
           /\ cash' = Saved(Counted(r.cash), cash)
           /\ journal' = journal \cup {r.entry}
           /\ original' = IF job[s].kind = "settlement"
                          THEN [original EXCEPT ![<<job[s].contract, job[s].settlement>>] =
                                  seen[s]]
                          ELSE original
    /\ IF job[s] \in Announced
       THEN /\ pc' = [pc EXCEPT ![s] = "events"]
            /\ written' = [written EXCEPT ![s] = {}]
            /\ UNCHANGED <<job, seen, result>>
       ELSE Reset(s)
    /\ UNCHANGED <<settlements, canonical, outbox, recon, gate>>

\* Mutant of PersistEvents: two commits, and a failure between them.
PersistEventsTwice(s) ==
    /\ pc[s] = "events"
    /\ canonical' = canonical \cup {result[s].entry.id}
    /\ Reset(s)
    /\ UNCHANGED <<positions, cash, journal, settlements, outbox, original, recon, gate>>

\* PortfolioEventWorkflow.persist_events: both stores, one commit.
PersistEvents(s) ==
    /\ pc[s] = "events"
    /\ canonical' = canonical \cup {result[s].entry.id}
    /\ outbox' = outbox \cup {result[s].entry.id}
    /\ Reset(s)
    /\ UNCHANGED <<positions, cash, journal, settlements, original, recon, gate>>

\* A storage error, a deadlock the database breaks, a cancellation or a crash: the open
\* transaction rolls back.  Events not yet persisted are lost.
Fail(s) ==
    /\ pc[s] # "idle"
    /\ Reset(s)
    /\ UNCHANGED <<tables, original, recon, gate>>

-----------------------------------------------------------------------------
(* Settlements                                                             *)

\* SettlementRepository.add and save: the row takes the status that arrives, whichever it
\* had; a correction needs the row it corrects.
SaveSettlement(x, status) ==
    /\ status \in IF Settlements[x].status = "corrected" THEN {"corrected"}
                  ELSE {"finalized", "settled"}
    /\ Settlements[x].corrects # None => settlements[Settlements[x].corrects] # None
    /\ settlements' = [settlements EXCEPT ![x] = status]
    /\ UNCHANGED <<positions, cash, journal, canonical, outbox, sessionVars, original,
                   recon, gate>>

-----------------------------------------------------------------------------
(* Reconciliation                                                          *)

FillIds(ids) == {i \in ids : i[1] = "fill"}

\* A reconciliation reads the local positions, ...
StartReconciliation ==
    /\ recon = None /\ Len(gate) < MaxReconciliations
    /\ recon' = positions
    /\ UNCHANGED <<tables, sessionVars, original, gate>>

\* ... then the balances and the fills, compares them with what the exchange reports after
\* its first n jobs (no job arrives before it happens) and stores the result.
Reconcile(n) ==
    /\ recon # None
    /\ \A m \in DOMAIN Exchange : EntryId(Exchange[m]) \in JournalIds => m <= n
    /\ SnapshotAccepted(recon, cash, Horizon)
    /\ \E books \in {ExchangeBooks(n)} :
          LET external == [positions |-> books.positions, cash |-> books.cash,
                           fills |-> FillIds(books.ids)]
              local == [positions |-> recon, cash |-> cash, fills |-> FillIds(JournalIds)]
          IN  gate' = Append(gate,
                             [status |-> ReconciliationStatus(Mismatches(local, external)),
                              complete |-> books.ids \subseteq JournalIds])
    /\ recon' = None
    /\ UNCHANGED <<tables, sessionVars, original>>

-----------------------------------------------------------------------------
Next ==
    \/ \E s \in Sessions :
          \/ \E j \in Jobs : ReadPositions(s, j)
          \/ ApplyJob(s)
          \/ Write(s)
          \/ Commit(s)
          \/ PersistEvents(s)
          \/ Fail(s)
    \/ \E x \in DOMAIN Settlements :
          \E status \in {"finalized", "settled", "corrected"} : SaveSettlement(x, status)
    \/ StartReconciliation
    \/ \E n \in 0 .. Len(Exchange) : Reconcile(n)

Spec == Init /\ [][Next]_vars

-----------------------------------------------------------------------------
(* Properties                                                              *)

\* Every row is one the schemas accept, and a session that writes has a result.
TypeOK ==
    /\ RowsOK(positions, cash)
    /\ \A e \in journal : e.lines \in [Accounts -> Int]
    /\ pc \in [Sessions -> {"idle", "read", "write", "events"}]
    /\ \A s \in Sessions : pc[s] \in {"write", "events"} => result[s].outcome = "applied"

\* The books a journal entry moves: cash by balance, and the realised PnL of positions.
BookKeys == Balances \cup {"pnl"}
JobById == [i \in {EntryId(j) : j \in Jobs} |-> CHOOSE j \in Jobs : EntryId(j) = i]
JobOf(e) == JobById[e.id]
Moves(e) ==
    LET j == JobOf(e)
        moved(b) == IF j.kind = "transfer"
                    THEN IF b = j.source THEN e.lines["outbound"]
                         ELSE IF b = j.target THEN e.lines["inbound"] ELSE 0
                    ELSE IF b = j.balance THEN e.lines["cash"] ELSE 0
    IN  [k \in BookKeys |->
           IF k = "pnl" THEN -e.lines["realized_trading_pnl"] - e.lines["settlement_pnl"]
           ELSE moved(k)]

\* The realised PnL of a table of positions.
Realized(table) == LET realized(c) == IF table[c] = None THEN 0 ELSE table[c].realized
                   IN  MapThenSumSet(realized, Contracts)

Posting(e) == [id |-> e.id, total |-> IF Balanced(e) THEN 0 ELSE 1, moves |-> Moves(e)]

Books == INSTANCE Ledger WITH
    Keys <- BookKeys,
    Posted <- {Posting(e) : e \in ExchangeBooks(Past).entries},
    Opening <- [k \in BookKeys |-> IF k = "pnl" THEN Realized(ExchangeBooks(Past).positions)
                                  ELSE ExchangeBooks(Past).cash[k].total],
    entries <- {Posting(e) : e \in journal},
    book <- [k \in BookKeys |-> IF k = "pnl" THEN Realized(positions) ELSE cash[k].total]

\* docs/06_DATABASE.md 43: however the sessions of two projectors interleave, fail and
\* repeat deliveries, each job is posted once, by a balanced entry, and the cash balances
\* and the realised PnL move by that entry's lines in the same commit.
ImplementsLedger == Books!Spec

\* The rows that a job reads and writes.
PositionKeys(j) == IF j.kind \in {"fill", "settlement", "correction"} THEN {j.contract} ELSE {}
CashKeys(j) == IF j.kind = "transfer" THEN {j.source, j.target} ELSE {j.balance}

\* No row is older than a job that was posted to it.
RowsFollow(ps, balances, ids) ==
    \A j \in Jobs : EntryId(j) \in ids =>
        /\ \A c \in PositionKeys(j) : ps[c] # None /\ ps[c].updated_at >= j.at
        /\ \A b \in CashKeys(j) : balances[b].captured_at >= j.at

\* A settlement happens when its record says, and is settled by then; so it is at the start.
ASSUME OrderAssumption ==
    /\ Exchange \in Seq(Jobs) /\ None \notin {"finalized", "settled", "corrected"}
    /\ \A x \in DOMAIN Settlements : Settlements[x].status \in {"settled", "corrected"}
    /\ \A j \in Jobs : j.kind \in {"settlement", "correction"} =>
          j.at = Settlements[j.settlement].settled_at
    /\ RowsFollow(ExchangeBooks(Past).positions, ExchangeBooks(Past).cash,
                  ExchangeBooks(Past).ids)

\* The jobs that share their instant with another one.
Tied == {j \in Jobs : \E k \in Jobs \ {j} : k.at = j.at}

\* The orders that the instants of the jobs allow: the exchange's, and those that differ from
\* it in the places of jobs of one instant.
Orders ==
    LET places == {n \in DOMAIN Exchange : Exchange[n] \in Tied}
        order(f) == [n \in DOMAIN Exchange |-> IF n \in places THEN f[n] ELSE Exchange[n]]
    IN  {order(f) : f \in {g \in [places -> Tied] :
            /\ \A n \in places : g[n].at = Exchange[n].at
            /\ \A m, n \in places : g[m] = g[n] => m = n}}

\* docs/07_TESTING.md "duplicate fill does not change position twice" and the fill order
\* that apply_fill_to_position asks for: the rows are those of the posted jobs applied once
\* each in the order of their instants, in whatever order they were delivered.  Of jobs of
\* one instant any may come first (_validate_fill_order refuses a fill that is older than its
\* row and takes one of the same instant), and the rows are those of some order of them.
ProjectionIsReplay ==
    \E order \in Orders :
        \E replay \in {Replay(order, {j \in Jobs : EntryId(j) \in JournalIds}, Len(Exchange))} :
            replay.positions = positions /\ replay.cash = cash /\ replay.entries = journal

\* The cost positions carry (quantity times average).
CostOf(p) == IF p = None \/ p.quantity = 0 THEN 0 ELSE p.quantity * p.average
CarriedCost(table) == LET carried(c) == CostOf(table[c]) IN MapThenSumSet(carried, Contracts)

\* How far the roundings of the averages can have taken it from the amounts in the journal.
PostedFills(ids) == {j \in Jobs : j.kind = "fill" /\ EntryId(j) \in ids}
Volume(ids) == LET volume(j) == j.quantity IN MapThenSumSet(volume, PostedFills(ids))
Drift(ids) == Cardinality(PostedFills(ids)) * Volume(ids)
CostFollows(table, entries) ==
    \E ids \in {{e.id : e \in entries}} :
        /\ Magnitude(SumAccount(entries, "position_cost") - CarriedCost(table)) <= Drift(ids)
        /\ \A c \in Contracts : table[c] # None => Magnitude(table[c].quantity) <= Volume(ids)

\* build_journal_pnl_attribution of the entries of a period.
AttributedPnl(entries, from, to) ==
    PnlAttribution({e \in entries : InPeriod(e, from, to)}, from, to).total

\* What the cash balances gained, up to corrections to observed balances and to the cost
\* still held.
CashGained(balances, entries) ==
    LET gained(b) == balances[b].total - Opening[b].total
    IN  MapThenSumSet(gained, Balances) + SumAccount(entries, "position_cost")
          + SumAccount(entries, "balance_correction")

\* The books at the start are explained by the entries that were posted to them.
ASSUME BooksAssumption ==
    /\ \A b \in Balances : Opening[b].total \in Int
    /\ \E books \in {ExchangeBooks(Past)} :
        /\ IsFiniteSet(books.entries) /\ \A e \in books.entries : e.at \in 0 .. Horizon - 1
        /\ AttributedPnl(books.entries, 0, Horizon) = CashGained(books.cash, books.entries)
        /\ CostFollows(books.positions, books.entries)

\* build_journal_pnl_attribution: for every split of the time line into two periods the
\* attributed PnL of both is what the cash balances gained.
PnlIsCash ==
    \A t \in {e.at : e \in journal} :
        AttributedPnl(journal, 0, t) + AttributedPnl(journal, t, Horizon)
          = CashGained(cash, journal)

\* The cost still held, which the journal keeps as amounts and positions.py as an average,
\* is the one the positions carry, but for rounding; and no position is larger than what was
\* traded.
CostIsCarried == CostFollows(positions, journal)

\* Profit explains cash (build_journal_pnl_attribution, positions.py): what the balances
\* gained is the attributed PnL of any two periods that make up the time line, and the cost
\* not yet attributed is that of the positions.
PnlExplainsCash == PnlIsCash /\ CostIsCarried

\* The position that a settlement closed or a correction is about, and the entry for it: the
\* amounts of the settlement, or the difference that the correction makes.
SettledKey(j) == <<j.contract, IF j.kind = "settlement" THEN j.settlement ELSE j.previous>>
Explained(j, e, p) ==
    LET amounts(x) == SettlementAccounting(p, Settlements[x])
        now == amounts(j.settlement)
        before == amounts(j.previous)
    IN  /\ p # None /\ now.cash \in Int /\ now.pnl \in Int
        /\ j.kind = "settlement" => /\ e.lines["cash"] = now.cash
                                   /\ e.lines["settlement_pnl"] = -now.pnl
        /\ j.kind = "correction" => /\ before.cash \in Int /\ before.pnl \in Int
                                   /\ e.lines["cash"] = now.cash - before.cash
                                   /\ e.lines["settlement_pnl"] = before.pnl - now.pnl

\* The entries of settlements and corrections, and the positions that were settled.
SettledOK(entries, was) ==
    /\ \A d, e \in entries : d.id = e.id => d = e
    /\ \A e \in entries : \A j \in Jobs :
          j.kind \in {"settlement", "correction"} /\ e.id = EntryId(j) =>
             Explained(j, e, was[SettledKey(j)])
    /\ \A k \in DOMAIN was : was[k] # None =>
          \E j \in Jobs : /\ j.kind = "settlement" /\ SettledKey(j) = k
                          /\ EntryId(j) \in {e.id : e \in entries}

\* So it is at the start.
ASSUME SettledAssumption == SettledOK(ExchangeBooks(Past).entries, ExchangeBooks(Past).original)

\* A settlement that was corrected once leaves the PnL of the correction alone: what was
\* posted to settle a position and to correct that adds up to the outcome that now holds.
CorrectionReplaces ==
    \A j \in Jobs : j.kind = "correction" /\ EntryId(j) \in JournalIds =>
        LET corrections == {k \in Jobs : /\ k.kind = "correction" /\ k.contract = j.contract
                                         /\ k.previous = j.previous
                                         /\ EntryId(k) \in JournalIds}
            settlement == SettlementEntryId(j.contract, Settlements[j.previous])
            posted == {e \in journal : e.id \in {settlement, EntryId(j)}}
            outcome == SettlementAccounting(original[<<j.contract, j.previous>>],
                                            Settlements[j.settlement])
        IN  corrections = {j} =>
              /\ -SumAccount(posted, "settlement_pnl") = outcome.pnl
              /\ SumAccount(posted, "cash") = outcome.cash

\* PortfolioEventWorkflow: an event is announced only for an entry that is committed, and
\* is in the canonical store exactly when it is in the outbox, wherever a session fails.
EventsFollowTheJournal == canonical = outbox /\ outbox \subseteq JournalIds

\* docs/01_ARCHITECTURE.md, trading is gated on reconciliation: a reconciliation that reads
\* positions and balances while projectors commit reports health only if nothing that has
\* happened at the exchange was missing from the local books.
HealthyMeansComplete ==
    \A i \in DOMAIN gate : gate[i].status = "healthy" => gate[i].complete

=============================================================================
