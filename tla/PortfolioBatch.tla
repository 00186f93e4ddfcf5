--------------------------- MODULE PortfolioBatch ---------------------------
(***************************************************************************)
(* apply_fills_once in memory: a position is carried from batch to batch   *)
(* without going through the Numeric columns of the database, so that its  *)
(* average keeps every digit of the decimal context.                       *)
(***************************************************************************)
EXTENDS PortfolioAccounting, Sequences, SequencesExt

CONSTANTS
    Fills,           \* the fills of one contract
    Currency

VARIABLES
    position,        \* the position the caller carries, None: none yet
    applied,         \* applied_fill_ids
    entries,         \* the journal entries returned so far
    rejected         \* the fills that made a batch raise, with the reason

vars == <<position, applied, entries, rejected>>

\* _fill_order_key: exchange time, arrival time, fill id.
Earlier(f, g) ==
    \/ f.at < g.at
    \/ f.at = g.at /\ f.received < g.received
    \/ f.at = g.at /\ f.received = g.received /\ f.rank < g.rank

Carried == [position |-> position, applied |-> applied, entries |-> entries,
            raised |-> None]

\* One turn of the loop; nothing happens after a fill has raised.
ApplyNext(was, fill) ==
    LET r == FillOnce(was.position, fill, was.applied, Currency)
    IN  IF was.raised # None \/ r.outcome = "duplicate" THEN was
        ELSE IF r.outcome # "applied"
             THEN [was EXCEPT !.raised = [fill |-> fill, reason |-> r.outcome]]
        ELSE [was EXCEPT !.position = r.position, !.applied = @ \cup {fill.id},
                         !.entries = @ \cup {r.entry}]

Init ==
    /\ position = None
    /\ applied = {}
    /\ entries = {}
    /\ rejected = {}

\* A batch that raises returns nothing.
ApplyFillsOnce(batch) ==
    LET after == FoldLeft(ApplyNext, Carried, SetToSortSeq(batch, Earlier))
    IN  \/ /\ after.raised = None
           /\ position' = after.position
           /\ applied' = after.applied
           /\ entries' = after.entries
           /\ UNCHANGED rejected
        \/ /\ after.raised # None
           /\ rejected' = rejected \cup {after.raised}
           /\ UNCHANGED <<position, applied, entries>>

Next == \E batch \in SUBSET Fills : ApplyFillsOnce(batch)

Spec == Init /\ [][Next]_vars

\* A fill in exchange order has a projection that balances its journal entry: what
\* apply_fill_to_position computed is what _validate_projection_for_fill expects of it.
OrderedFillsAreJournaled == \A r \in rejected : r.reason # "mismatch"

=============================================================================
