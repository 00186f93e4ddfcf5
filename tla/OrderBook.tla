----------------------------- MODULE OrderBook -----------------------------
(***************************************************************************)
(* The order-book projection of simulation/order_book.py over the          *)
(* canonical schemas of schemas/market_data.py.  A book is the canonical   *)
(* snapshot: the contract it is of, its sequence (None for an exchange     *)
(* without sequences) and its two sides, bids from the highest price down  *)
(* and asks from the lowest up.  Prices are cents of the payout.           *)
(***************************************************************************)
EXTENDS Integers, Sequences, SequencesExt

CONSTANT None

(* OrderBookSnapshot.validate_book_ordering: a snapshot that is not sorted *)
(* strictly is refused by its own schema.                                  *)
StrictlySorted(bids, asks) ==
  /\ \A i \in 1..(Len(bids) - 1) : bids[i].price > bids[i + 1].price
  /\ \A i \in 1..(Len(asks) - 1) : asks[i].price < asks[i + 1].price

IsSequence(s) == Len(s) \in Nat /\ DOMAIN s = 1..Len(s)

(* OrderBookLevel and OrderBookSnapshot. *)
BookLevels == [price : Int, quantity : Nat]

Snapshots ==
  [contract : STRING, sequence : Int \cup {None}, bids : Seq(BookLevels), asks : Seq(BookLevels)]

IsBook(book) == book \in Snapshots /\ StrictlySorted(book.bids, book.asks)

(* _validate_snapshot, the first step of best_bid, best_ask and             *)
(* apply_order_book_delta: a snapshot marked invalid is refused.  The mark  *)
(* of a projected book is kept beside it; the books the adapters map are    *)
(* all marked valid.                                                        *)
SnapshotRefused(projected) == ~projected.is_valid

(* best_bid and best_ask of a snapshot that is not refused: whoever asks   *)
(* for the best level of a projected book asks SnapshotRefused before.     *)
best_bid(book) == IF book.bids = <<>> THEN None ELSE Head(book.bids)

best_ask(book) == IF book.asks = <<>> THEN None ELSE Head(book.asks)

(* is_crossed: locked or crossed, an ask at or below the best bid. *)
is_crossed(book) ==
  /\ book.bids # <<>> /\ book.asks # <<>>
  /\ best_ask(book).price - best_bid(book).price <= 0

(* _validate_lineage *)
SameLineage(book, delta) == book.contract = delta.contract

(* _validate_sequence: an unsequenced book takes unsequenced deltas only;  *)
(* a sequenced one takes the next sequence and nothing else.               *)
SequenceFollows(book, delta) ==
  /\ book.sequence = None =>
       delta.sequence = None /\ delta.previous_sequence = None
  /\ book.sequence # None =>
       /\ delta.sequence # None
       /\ delta.previous_sequence \in {None, book.sequence}
       /\ delta.sequence = book.sequence + 1
  /\ delta.previous_sequence # None /\ delta.sequence # None =>
       delta.sequence = delta.previous_sequence + 1

LevelsByPrice(levels) ==
  [p \in {levels[i].price : i \in DOMAIN levels} |->
     levels[CHOOSE i \in DOMAIN levels : levels[i].price = p].quantity]

(* A bug: a level of quantity zero stays unless it is deleted by name. *)
ApplyChangeByName(sides, change) ==
  LET target == sides[change.side]
  IN  [sides EXCEPT ![change.side] =
         IF change.action = "delete"
         THEN Restrict(target, DOMAIN target \ {change.price})
         ELSE [p \in DOMAIN target \cup {change.price} |->
                 IF p = change.price THEN change.quantity ELSE target[p]]]

(* _apply_change, on the two dictionaries by price. *)
ApplyChange(sides, change) ==
  LET target == sides[change.side]
  IN  [sides EXCEPT ![change.side] =
         IF change.action = "delete" \/ change.quantity = 0
         THEN Restrict(target, DOMAIN target \ {change.price})
         ELSE [p \in DOMAIN target \cup {change.price} |->
                 IF p = change.price THEN change.quantity ELSE target[p]]]

(* sorted() with the price as its key: the levels in another order.  In    *)
(* what order levels of the same price come does not matter: such a list   *)
(* is refused.                                                             *)
SortByPrice(levels, reverse) ==
  LET order == CHOOSE p \in [DOMAIN levels -> DOMAIN levels] :
                 /\ IsInjective(p)
                 /\ \A i, j \in DOMAIN levels : i < j =>
                      IF reverse THEN levels[p[i]].price >= levels[p[j]].price
                      ELSE levels[p[i]].price <= levels[p[j]].price
  IN  [i \in DOMAIN levels |-> levels[order[i]]]

(* sorted(): the numbers of a set from the smallest up. *)
Ascending(S) ==
  CHOOSE s \in [1..Cardinality(S) -> S] : \A m, n \in DOMAIN s : m < n => s[m] < s[n]

(* _sorted_levels *)
SortedLevels(by_price, reverse) ==
  LET prices == Ascending(DOMAIN by_price)
      Level(price) == [price |-> price, quantity |-> by_price[price]]
  IN  [i \in DOMAIN prices |->
         Level(prices[IF reverse THEN Cardinality(DOMAIN by_price) + 1 - i ELSE i])]

SortedBids(by_price) == SortedLevels(by_price, TRUE)

SortedAsks(by_price) == SortedLevels(by_price, FALSE)

(* apply_order_book_delta raises unless the delta can follow the book. *)
DeltaApplies(book, delta) == SameLineage(book, delta) /\ SequenceFollows(book, delta)

(* The two dictionaries after the first changes, for each number of them. *)
ChangedSides(book, changes) ==
  LET after[n \in 0..Len(changes)] ==
        IF n = 0 THEN [BUY |-> LevelsByPrice(book.bids), SELL |-> LevelsByPrice(book.asks)]
        ELSE ApplyChange(after[n - 1], changes[n])
  IN  after

apply_order_book_delta(book, delta) ==
  LET sides == ChangedSides(book, delta.changes)[Len(delta.changes)]
  IN  [contract |-> book.contract,
       sequence |-> IF delta.sequence # None THEN delta.sequence ELSE book.sequence,
       bids     |-> SortedBids(sides.BUY),
       asks     |-> SortedAsks(sides.SELL)]
=============================================================================
