------------------------------- MODULE Ledger -------------------------------
(***************************************************************************)
(* What the portfolio tables promise, without sessions, versions or locks: *)
(* a journal that only grows, by one balanced entry with a new identifier  *)
(* at a time, and books that move by exactly that entry's amounts, at the  *)
(* same instant.  PortfolioStore implements it.                            *)
(***************************************************************************)
EXTENDS Integers

CONSTANTS
    Keys,            \* the books that are kept
    Posted,          \* the entries posted at the start
    Opening          \* the amounts of the books then

VARIABLES
    entries,         \* posted entries: id, total of their lines, amount per book
    book             \* the amount of each book

Init ==
    /\ entries = Posted
    /\ book = Opening

Post ==
    \E e \in entries' \ entries :
        /\ entries' = entries \cup {e}
        /\ \A d \in entries : d.id # e.id
        /\ e.total = 0
        /\ book' = [k \in Keys |-> book[k] + e.moves[k]]

Spec == Init /\ [][Post]_<<entries, book>>

=============================================================================
