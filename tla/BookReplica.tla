---------------------------- MODULE BookReplica ----------------------------
(***************************************************************************)
(* What a market-data feed promises to the strategies behind it.  The      *)
(* exchange changes a book `made' times; the feed shows the book as it was *)
(* after `shown' of those changes, or shows nothing (None).  A shown book  *)
(* follows the exchange change by change, or is rebuilt from a snapshot    *)
(* that is at least as recent; it never goes back and never skips a        *)
(* change on the strength of a delta alone.                                *)
(***************************************************************************)
EXTENDS Integers

CONSTANT None

VARIABLES made, shown, rebuilt   \* rebuilt: the shown book came from a snapshot

vars == <<made, shown, rebuilt>>

Init == made = 0 /\ shown = None /\ rebuilt = FALSE

(* The exchange changes its book. *)
Change == made' = made + 1 /\ UNCHANGED <<shown, rebuilt>>

(* One change is applied to the shown book. *)
Follow ==
  /\ shown # None /\ shown < made
  /\ shown' = shown + 1
  /\ rebuilt' = FALSE
  /\ UNCHANGED made

(* A snapshot is shown. *)
Rebuild ==
  /\ \E n \in 0..made : (shown # None => n >= shown) /\ shown' = n
  /\ rebuilt' = TRUE
  /\ UNCHANGED made

(* The book is known to be wrong, or the connection is gone. *)
Withdraw == shown' = None /\ rebuilt' = FALSE /\ UNCHANGED made

Next == Change \/ Follow \/ Rebuild \/ Withdraw

Spec == Init /\ [][Next]_vars
=============================================================================
