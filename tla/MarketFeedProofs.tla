-------------------------- MODULE MarketFeedProofs --------------------------
(***************************************************************************)
(* Proofs about the market-data feed: its trades are the exchange's, its   *)
(* record of the Polymarket subscription is the exchange's, it is a        *)
(* replica of the exchange's book (it implements BookReplica), and the     *)
(* books it shows are the exchange's level for level, for every history of *)
(* the exchange and every number of faults.                                *)
(***************************************************************************)
EXTENDS MarketFeed, SequenceTheorems, FiniteSetTheorems, WellFoundedInduction, TLAPS

-----------------------------------------------------------------------------
(* The inductive invariant.                                                *)

Proper(w) == Len(w) \in Nat /\ w = [i \in 1..Len(w) |-> w[i]]

(* What is true of every frame in flight: a book frame tells of the past,   *)
(* and a Kalshi one says so in its sequence, if it has one; a trade frame   *)
(* tells of a trade there was.                                              *)
BookFrame(f) == f.kind \in {"book", "change"}

(* A book frame says what the exchange's book was when it was sent, a change *)
(* frame what the change was, to the tokens asked for.                       *)
Tells(f, v, h) ==
  LET raw == RawBooks(v, h)[f.at]
      u   == h.changes[f.at]
      m   == f.message
  IN  IF v = "kalshi"
      THEN /\ f.kind = "book" => m.yes = RawLevels(raw.yes) /\ m.no = RawLevels(raw.no)
           /\ f.kind = "change" =>
                /\ {"side", "price", "quantity", "action"} \subseteq DOMAIN m
                /\ m.side = u.side /\ m.price = u.price
                /\ m.quantity = u.quantity /\ m.action = u.action
      ELSE /\ f.kind = "book" => m.bids = RawLevels(raw.BUY) /\ m.asks = RawLevels(raw.SELL)
           /\ f.kind = "change" =>
                f.at # 0 /\ \E asked : m.price_changes = ChangesOf(u, asked)

FrameOK(f, v, h, n) ==
  /\ BookFrame(f) => /\ f.at \in 0..n
                     /\ Tells(f, v, h)
                     /\ v = "kalshi" => /\ DOMAIN f = {"kind", "at", "message"}
                                       /\ "sequence" \in DOMAIN f.message
                                       /\ f.message.sequence \in {f.at, None}
  /\ f.kind = "trade" =>
       /\ f.truth \in h.trades
       /\ f.message \in IF v = "kalshi" THEN KalshiRawTrades(f.truth)
                        ELSE PolymarketRawTrades(f.truth)

FramesOK(w, v, h, n) == Proper(w) /\ \A i \in 1..Len(w) : FrameOK(w[i], v, h, n)

WireOK == FramesOK(wire, venue, history, pos)

HistoryOK ==
  /\ venue \in Venues /\ history \in Histories[venue]
  /\ pos \in 0..Len(history.changes)

ServerOK == DOMAIN server = {"alive", "greeted", "subscribed", "pending", "tokens"}

BookOK ==
  /\ seen # None => seen \in 0..pos
  /\ book # None => seen # None
  /\ Kalshi => previous = seen

(* Polymarket's messages carry no sequence; the feed follows the book       *)
(* because frames arrive in order and none is missing.  Position 0 stands   *)
(* for the shown book, position i for the i-th frame in flight; T is the    *)
(* number of touching changes among the first n.                            *)
Relevant(f) == f.kind = "book" \/ (f.kind = "change" /\ DeltaMaps(f.message, Asset))

Rel(b, w, i) == IF i = 0 THEN b # None ELSE Relevant(w[i])

At(s, w, i) == IF i = 0 THEN s ELSE w[i].at

(* A relevant change is the next one after the relevant frame before it.    *)
Linked(T, b, s, w) ==
  \A i \in 1..Len(w) : w[i].kind = "change" /\ Relevant(w[i]) =>
    \A j \in 0..(i - 1) : Rel(b, w, j) =>
      \/ T[w[i].at] = T[At(s, w, j)] + 1
      \/ \E k \in (j + 1)..(i - 1) : Rel(b, w, k)

(* The last relevant frame leaves no change of the first n out.             *)
Complete(T, n, b, s, w) ==
  \A j \in 0..Len(w) : Rel(b, w, j) =>
    T[At(s, w, j)] = T[n] \/ \E k \in (j + 1)..Len(w) : Rel(b, w, k)

Ordered(s, w) ==
  \A i \in 1..Len(w) : BookFrame(w[i]) =>
    /\ s # None => s <= w[i].at
    /\ \A j \in 1..i : BookFrame(w[j]) => w[j].at <= w[i].at

Made == [n \in 0..Len(history.changes) |-> Touching(n)]

ChainOK ==
  Polymarket =>
    /\ Linked(Made, book, seen, wire)
    /\ Ordered(seen, wire)
    /\ server.alive /\ Asset \in server.tokens => Complete(Made, pos, book, seen, wire)

FeedInv == HistoryOK /\ WireOK /\ BookOK /\ ChainOK

(* The calls under way: at most one, and what it is about to store is what  *)
(* the exchange has been asked for.                                         *)
Sent == {u \in TokenUpdates : updates[u].state = "sent"}

TokensInv ==
  /\ updates = [u \in TokenUpdates |-> updates[u]]
  /\ Polymarket /\ phase = "stream" /\ server.alive /\ ~mixed =>
       /\ Sent = {} => tokens = server.tokens
       /\ \A u \in Sent : updates[u].result = server.tokens /\ Sent = {u}

-----------------------------------------------------------------------------
(* Sequences, and the subsequence of the changes asked for.                *)

\* Among natural numbers there is a least one.
LEMMA LeastNat ==
  ASSUME NEW S \in SUBSET Nat, S # {}
  PROVE  \E m \in S : \A n \in S : m <= n
<1> DEFINE R == OpToRel(<, Nat)
<1>1. \E m \in S : \A n \in S : ~ (<<n, m>> \in R)
  <2>1. IsWellFoundedOn(R, Nat)
    BY NatLessThanWellFounded
  <2> HIDE DEF R
  <2> QED
    BY <2>1, WFMin
<1>2. PICK m \in S : \A n \in S : ~ (<<n, m>> \in R)
  BY <1>1
<1>3. ASSUME NEW n \in S, n < m PROVE FALSE
  <2>1. <<n, m>> \in Nat \X Nat
    OBVIOUS
  <2>2. <<n, m>> \in R
    BY <1>3, <2>1 DEF OpToRel
  <2> QED
    BY <1>2, <2>2
<1>4. \A n \in S : m <= n
  BY <1>3
<1> QED
  BY <1>4

\* Proper is being a sequence, of whatever elements.
LEMMA ProperIsSeq ==
  /\ \A w, S : Proper(w) /\ (\A i \in 1..Len(w) : w[i] \in S) => w \in Seq(S)
  /\ \A S : \A w \in Seq(S) : Proper(w)
<1>1. ASSUME NEW w, NEW S, Proper(w), \A i \in 1..Len(w) : w[i] \in S PROVE w \in Seq(S)
  BY <1>1, SeqDef DEF Proper
<1>2. ASSUME NEW S, NEW w \in Seq(S) PROVE Proper(w)
  BY LenProperties DEF Proper
<1> QED
  BY <1>1, <1>2

\* The empty sequence.
LEMMA ProperEmpty == Proper(<<>>) /\ Len(<<>>) = 0
BY EmptySeq, ProperIsSeq

\* A frame is added at the end.
LEMMA ProperAppend ==
  ASSUME NEW w, Proper(w), NEW f
  PROVE  /\ Proper(Append(w, f))
         /\ Len(Append(w, f)) = Len(w) + 1
         /\ \A i \in 1..Len(w) : Append(w, f)[i] = w[i]
         /\ Append(w, f)[Len(w) + 1] = f
         /\ w \o <<f>> = Append(w, f)
<1> DEFINE S == {w[i] : i \in 1..Len(w)} \cup {f}
<1>1. w \in Seq(S) /\ f \in S
  BY ProperIsSeq
<1> HIDE DEF S
<1>2. /\ Append(w, f) \in Seq(S)
      /\ Len(Append(w, f)) = Len(w) + 1
      /\ \A i \in 1..Len(w) : Append(w, f)[i] = w[i]
      /\ Append(w, f)[Len(w) + 1] = f
  BY <1>1, AppendProperties
<1>3. w \o <<f>> = Append(w, f)
  BY <1>1, AppendIsConcat
<1> QED
  BY <1>2, <1>3, ProperIsSeq

\* Nothing is added, one frame or two.
LEMMA ProperConcat ==
  ASSUME NEW w, Proper(w), NEW f, NEW g
  PROVE  w \o <<>> = w /\ w \o <<f, g>> = Append(Append(w, f), g)
<1> DEFINE S == {w[i] : i \in 1..Len(w)} \cup {f, g}
<1>1. w \in Seq(S) /\ f \in S /\ g \in S
  BY ProperIsSeq
<1> HIDE DEF S
<1>2. w \o <<>> = w
  BY <1>1, ConcatEmptySeq
<1>3. w \o <<f, g>> = Append(Append(w, f), g)
  <2>1. <<f, g>> \in Seq(S) /\ Append(Append(w, f), g) \in Seq(S) /\ w \o <<f, g>> \in Seq(S)
    BY <1>1
  <2>2. Len(w \o <<f, g>>) = Len(Append(Append(w, f), g))
    BY <1>1
  <2>3. \A i \in 1..Len(w \o <<f, g>>) : (w \o <<f, g>>)[i] = Append(Append(w, f), g)[i]
    BY <1>1
  <2> QED
    BY <2>1, <2>2, <2>3, SeqEqual
<1> QED
  BY <1>2, <1>3

\* The first frame is taken off.
LEMMA ProperTail ==
  ASSUME NEW w, Proper(w), w # <<>>
  PROVE  /\ Proper(Tail(w))
         /\ Len(w) \in Nat \ {0}
         /\ Len(Tail(w)) = Len(w) - 1
         /\ Head(w) = w[1]
         /\ \A i \in 1..Len(Tail(w)) : Tail(w)[i] = w[i + 1]
<1> DEFINE S == {w[i] : i \in 1..Len(w)}
<1>1. w \in Seq(S)
  BY ProperIsSeq
<1> HIDE DEF S
<1>2. Len(w) \in Nat \ {0} /\ Head(w) = w[1]
  BY <1>1, EmptySeq
<1> QED
  BY <1>1, <1>2, ProperIsSeq, HeadTailProperties

\* A frame is taken out of the middle.
LEMMA ProperRemove ==
  ASSUME NEW w, Proper(w), NEW j \in 1..Len(w)
  PROVE  /\ Proper(RemoveAt(w, j))
         /\ \A i \in 1..Len(RemoveAt(w, j)) : \E k \in 1..Len(w) : RemoveAt(w, j)[i] = w[k]
<1> DEFINE S == {w[i] : i \in 1..Len(w)}
<1>1. w \in Seq(S)
  BY ProperIsSeq
<1>2. RemoveAt(w, j) \in Seq(S)
  <2> HIDE DEF S
  <2> QED
    BY <1>1 DEF RemoveAt
<1> DEFINE r == RemoveAt(w, j)
<1>3. \A i \in 1..Len(r) : r[i] \in S
  <2> HIDE DEF r, S
  <2> QED
    BY <1>2, ElementOfSeq DEF r
<1> QED
  BY <1>2, <1>3, ProperIsSeq

\* kept lists the changes asked for among the first i, for every i up to n.
IsKept(kept, changes, asked, n) ==
  kept = [i \in 0..n |->
            IF i = 0 THEN <<>>
            ELSE IF changes[i].asset_id \in asked THEN Append(kept[i - 1], changes[i])
            ELSE kept[i - 1]]

\* The recursive function behind ChangesOf.
LEMMA ChangesUnfolded ==
  ASSUME NEW changes, NEW asked
  PROVE  ChangesOf(changes, asked) =
           (CHOOSE h : IsKept(h, changes, asked, Len(changes)))[Len(changes)]
BY DEF ChangesOf, IsKept

\* It exists.
LEMMA KeptExists ==
  ASSUME NEW changes, NEW asked, NEW m \in Nat
  PROVE  \E h : IsKept(h, changes, asked, m)
<1> DEFINE Bad == {n \in Nat : ~ \E h : IsKept(h, changes, asked, n)}
<1> SUFFICES ASSUME Bad # {} PROVE FALSE
  OBVIOUS
<1>1. PICK n \in Bad : \A k \in Bad : n <= k
  <2>1. Bad \in SUBSET Nat
    OBVIOUS
  <2> HIDE DEF Bad
  <2> QED
    BY <2>1, LeastNat
<1>2. n \in Nat /\ ~ \E h : IsKept(h, changes, asked, n)
  OBVIOUS
<1>3. n # 0
  <2>1. IsKept([i \in 0..0 |-> <<>>], changes, asked, 0)
    BY DEF IsKept
  <2> QED
    BY <1>2, <2>1
<1>4. n - 1 \in Nat /\ n - 1 \notin Bad
  BY <1>1, <1>2, <1>3
<1>5. PICK g : IsKept(g, changes, asked, n - 1)
  BY <1>4
<1> DEFINE last == IF changes[n].asset_id \in asked THEN Append(g[n - 1], changes[n])
                   ELSE g[n - 1]
           h == [i \in 0..n |-> IF i = n THEN last ELSE g[i]]
<1>6. ASSUME NEW i \in 0..n
      PROVE  h[i] = IF i = 0 THEN <<>>
                    ELSE IF changes[i].asset_id \in asked THEN Append(h[i - 1], changes[i])
                    ELSE h[i - 1]
  <2>1. CASE i = n
    <3>1. h[i] = last /\ h[i - 1] = g[n - 1] /\ i # 0
      BY <1>2, <1>3, <2>1
    <3> QED
      BY <2>1, <3>1, Zenon
  <2>2. CASE i # n
    <3>1. i \in 0..(n - 1) /\ h[i] = g[i]
      BY <1>2, <2>2
    <3>2. i # 0 => h[i - 1] = g[i - 1]
      BY <1>2, <2>2
    <3>3. g[i] = IF i = 0 THEN <<>>
                 ELSE IF changes[i].asset_id \in asked THEN Append(g[i - 1], changes[i])
                 ELSE g[i - 1]
      <4> HIDE DEF h, last
      <4> QED
        BY <1>5, <3>1, Zenon DEF IsKept
    <3> HIDE DEF h, last
    <3> QED
      BY <3>1, <3>2, <3>3
  <2> QED
    BY <2>1, <2>2
<1>7. IsKept(h, changes, asked, n)
  <2>1. h = [i \in 0..n |-> h[i]]
    OBVIOUS
  <2> HIDE DEF h
  <2> QED
    BY <1>6, <2>1, Zenon DEF IsKept
<1> QED
  BY <1>2, <1>7

\* Of a message's changes those of the tokens asked for remain, all of them.
LEMMA ChangesOfToken ==
  ASSUME NEW changes, IsSequence(changes), NEW asked, NEW tok
  PROVE  (\E i \in DOMAIN ChangesOf(changes, asked) :
            ChangesOf(changes, asked)[i].asset_id = tok)
           <=> tok \in asked /\ \E i \in DOMAIN changes : changes[i].asset_id = tok
<1> DEFINE h == CHOOSE g : IsKept(g, changes, asked, Len(changes))
           Holds(s, n) == (\E i \in 1..Len(s) : s[i].asset_id = tok)
                      <=> tok \in asked /\ \E i \in 1..n : changes[i].asset_id = tok
           Good(n) == Proper(h[n]) /\ Holds(h[n], n)
           Bad == {n \in 0..Len(changes) : ~Good(n)}
<1>1. Len(changes) \in Nat /\ DOMAIN changes = 1..Len(changes)
  BY DEF IsSequence
<1>2. IsKept(h, changes, asked, Len(changes))
  BY <1>1, KeptExists
<1> HIDE DEF h
<1>3. Bad = {}
  <2> SUFFICES ASSUME Bad # {} PROVE FALSE
    OBVIOUS
  <2>1. PICK n \in Bad : \A k \in Bad : n <= k
    <3>1. Bad \in SUBSET Nat
      BY <1>1
    <3> HIDE DEF Bad
    <3> QED
      BY <3>1, LeastNat
  <2>2. n \in 0..Len(changes) /\ ~Good(n)
    OBVIOUS
  <2>3. h[n] = IF n = 0 THEN <<>>
               ELSE IF changes[n].asset_id \in asked THEN Append(h[n - 1], changes[n])
               ELSE h[n - 1]
    BY <1>2, <2>2, Zenon DEF IsKept
  <2>4. CASE n = 0
    <3>1. h[n] = <<>>
      BY <2>3, <2>4
    <3> QED
      BY <2>2, <2>4, <3>1, ProperEmpty
  <2>5. CASE n # 0
    <3>1. n - 1 \in 0..Len(changes) /\ n - 1 \notin Bad
      BY <1>1, <2>1, <2>2, <2>5
    <3>2. Good(n - 1)
      BY <3>1
    <3> DEFINE s == h[n - 1]
    <3>3. Proper(s) /\ Holds(s, n - 1)
      BY <3>2
    <3>4. \A i : i \in 1..n <=> i \in 1..(n - 1) \/ i = n
      BY <1>1, <2>2, <2>5
    <3>5. CASE changes[n].asset_id \in asked
      <4> DEFINE r == Append(s, changes[n])
      <4>1. h[n] = r
        BY <2>3, <2>5, <3>5
      <4>2. /\ Proper(r)
            /\ Len(r) = Len(s) + 1
            /\ \A i \in 1..Len(s) : r[i] = s[i]
            /\ r[Len(s) + 1] = changes[n]
        <5> HIDE DEF s
        <5> QED
          BY <3>3, ProperAppend
      <4> HIDE DEF r, s
      <4>3. \A i : i \in 1..Len(r) <=> i \in 1..Len(s) \/ i = Len(s) + 1
        BY <3>3, <4>2 DEF Proper
      <4>4. (\E i \in 1..Len(r) : r[i].asset_id = tok)
              <=> (\E i \in 1..Len(s) : s[i].asset_id = tok) \/ changes[n].asset_id = tok
        BY <4>2, <4>3
      <4>5. (\E i \in 1..n : changes[i].asset_id = tok)
              <=> (\E i \in 1..(n - 1) : changes[i].asset_id = tok)
                    \/ changes[n].asset_id = tok
        BY <3>4
      <4>6. Holds(r, n)
        BY <3>3, <3>5, <4>4, <4>5
      <4> QED
        BY <2>2, <4>1, <4>2, <4>6
    <3>6. CASE changes[n].asset_id \notin asked
      <4>1. h[n] = s
        BY <2>3, <2>5, <3>6
      <4>2. tok \in asked => changes[n].asset_id # tok
        BY <3>6
      <4> HIDE DEF s
      <4>3. Holds(s, n)
        BY <3>3, <3>4, <4>2
      <4> QED
        BY <2>2, <3>3, <4>1, <4>3
    <3> QED
      BY <3>5, <3>6
  <2> QED
    BY <2>4, <2>5
<1>4. Good(Len(changes))
  BY <1>1, <1>3
<1>5. ChangesOf(changes, asked) = h[Len(changes)]
  BY ChangesUnfolded DEF h
<1>6. DOMAIN ChangesOf(changes, asked) = 1..Len(ChangesOf(changes, asked))
  BY <1>4, <1>5 DEF Proper
<1> QED
  BY <1>1, <1>4, <1>5, <1>6

-----------------------------------------------------------------------------
(* The number of touching changes, and the chain of relevant frames.       *)

\* The count of touching changes starts at 0, is monotonic, and grows by one
\* with every touching change; at Kalshi every change is one.
LEMMA MadeCounts ==
  ASSUME HistoryOK
  PROVE  /\ DOMAIN Made = 0..Len(history.changes)
         /\ Len(history.changes) \in Nat
         /\ \A n \in 0..Len(history.changes) : Made[n] \in Nat /\ Made[n] = Touching(n)
         /\ Made[0] = 0
         /\ Kalshi => \A n \in 0..Len(history.changes) : Made[n] = n
         /\ \A m, n \in 0..Len(history.changes) : m <= n => Made[m] <= Made[n]
         /\ ~Kalshi => \A n \in 1..Len(history.changes) :
              Made[n] = IF Touches(history.changes[n]) THEN Made[n - 1] + 1 ELSE Made[n - 1]
<1> DEFINE L == Len(history.changes)
           C(n) == {i \in 1..n : Touches(history.changes[i])}
<1>1. L \in Nat
  BY HistoriesAssumption DEF HistoryOK, IsSequence
<1>2. ASSUME NEW n \in 0..L
      PROVE  Made[n] = IF Kalshi THEN n ELSE Cardinality(C(n))
  BY DEF Made, Touching
<1>3. ASSUME NEW n \in 0..L PROVE IsFiniteSet(C(n)) /\ Cardinality(C(n)) \in Nat
  <2>1. IsFiniteSet(1..n)
    BY <1>1, FS_Interval
  <2>2. C(n) \subseteq 1..n
    OBVIOUS
  <2> HIDE DEF C
  <2> QED
    BY <2>1, <2>2, FS_Subset, FS_CardinalityType
<1>4. Cardinality(C(0)) = 0
  <2>1. C(0) = {}
    OBVIOUS
  <2> HIDE DEF C
  <2> QED
    BY <2>1, FS_EmptySet
<1>5. ASSUME NEW m \in 0..L, NEW n \in 0..L, m <= n
      PROVE  Cardinality(C(m)) <= Cardinality(C(n))
  <2>1. C(m) \subseteq C(n)
    BY <1>1, <1>5
  <2> HIDE DEF C
  <2> QED
    BY <1>3, <2>1, FS_Subset
<1>6. ASSUME NEW n \in 1..L
      PROVE  Cardinality(C(n)) = IF Touches(history.changes[n]) THEN Cardinality(C(n - 1)) + 1
                                 ELSE Cardinality(C(n - 1))
  <2>0. n - 1 \in 0..L /\ n \notin C(n - 1) /\ \A i : i \in 1..n <=> i \in 1..(n - 1) \/ i = n
    BY <1>1
  <2>1. CASE Touches(history.changes[n])
    <3>1. C(n) = C(n - 1) \cup {n}
      BY <2>0, <2>1
    <3> HIDE DEF C
    <3> QED
      BY <1>3, <2>0, <2>1, <3>1, FS_AddElement
  <2>2. CASE ~Touches(history.changes[n])
    <3>1. C(n) = C(n - 1)
      BY <2>0, <2>2
    <3> HIDE DEF C
    <3> QED
      BY <2>2, <3>1
  <2> QED
    BY <2>1, <2>2
<1>7. DOMAIN Made = 0..L
  BY DEF Made
<1>8. \A n \in 0..L : Made[n] = Touching(n)
  BY DEF Made
<1>9. ASSUME NEW n \in 0..L PROVE Made[n] \in Nat
  <2>1. Made[n] = n \/ Made[n] = Cardinality(C(n))
    BY <1>2
  <2>2. n \in Nat
    BY <1>1
  <2>3. Cardinality(C(n)) \in Nat
    BY <1>3
  <2> HIDE DEF C
  <2> QED
    BY <2>1, <2>2, <2>3
<1>10. Made[0] = 0
  BY <1>1, <1>2, <1>4
<1>11. \A m, n \in 0..L : m <= n => Made[m] <= Made[n]
  <2> SUFFICES ASSUME NEW m \in 0..L, NEW n \in 0..L, m <= n PROVE Made[m] <= Made[n]
    OBVIOUS
  <2>1. Cardinality(C(m)) <= Cardinality(C(n))
    BY <1>5
  <2> HIDE DEF C
  <2> QED
    BY <1>2, <2>1
<1>12. ASSUME ~Kalshi, NEW n \in 1..L
       PROVE  Made[n] = IF Touches(history.changes[n]) THEN Made[n - 1] + 1 ELSE Made[n - 1]
  <2>1. n \in 0..L /\ n - 1 \in 0..L
    BY <1>1
  <2>2. Made[n] = Cardinality(C(n)) /\ Made[n - 1] = Cardinality(C(n - 1))
    <3> HIDE DEF C
    <3> QED
      BY <1>2, <1>12, <2>1
  <2> HIDE DEF C
  <2> QED
    BY <1>6, <2>2
<1> QED
  BY <1>1, <1>2, <1>7, <1>8, <1>9, <1>10, <1>11, <1>12

\* A frame joins the chain at its end: if it is a relevant change, it is the
\* one after the last relevant frame.
LEMMA LinkedAppend ==
  ASSUME NEW T, NEW b, NEW s, NEW w, Proper(w), NEW f, Linked(T, b, s, w),
         f.kind = "change" /\ Relevant(f) =>
           \A j \in 0..Len(w) : Rel(b, w, j) =>
             \/ T[f.at] = T[At(s, w, j)] + 1
             \/ \E k \in (j + 1)..Len(w) : Rel(b, w, k)
  PROVE  Linked(T, b, s, Append(w, f))
<1> DEFINE r == Append(w, f)
<1>1. /\ Proper(r)
      /\ Len(r) = Len(w) + 1
      /\ \A i \in 1..Len(w) : r[i] = w[i]
      /\ r[Len(w) + 1] = f
      /\ Len(w) \in Nat
  BY ProperAppend DEF Proper
<1> HIDE DEF r
<1>2. \A j \in 0..Len(w) : (Rel(b, r, j) <=> Rel(b, w, j)) /\ At(s, r, j) = At(s, w, j)
  BY <1>1 DEF Rel, At
<1> SUFFICES ASSUME NEW i \in 1..Len(r), r[i].kind = "change" /\ Relevant(r[i]),
                    NEW j \in 0..(i - 1), Rel(b, r, j),
                    ~ \E k \in (j + 1)..(i - 1) : Rel(b, r, k)
             PROVE  T[r[i].at] = T[At(s, r, j)] + 1
  BY DEF Linked, r
<1>3. j \in 0..Len(w) /\ Rel(b, w, j) /\ At(s, r, j) = At(s, w, j)
  BY <1>1, <1>2
<1>4. \A k \in (j + 1)..(i - 1) : k \in 0..Len(w) /\ ~Rel(b, w, k)
  BY <1>1, <1>2
<1>5. CASE i = Len(w) + 1
  <2>1. r[i] = f
    BY <1>1, <1>5
  <2>2. i - 1 = Len(w)
    BY <1>1, <1>5
  <2> QED
    BY <1>3, <1>4, <2>1, <2>2
<1>6. CASE i # Len(w) + 1
  <2>1. i \in 1..Len(w) /\ r[i] = w[i]
    BY <1>1, <1>6
  <2>2. T[w[i].at] = T[At(s, w, j)] + 1 \/ \E k \in (j + 1)..(i - 1) : Rel(b, w, k)
    BY <1>3, <2>1 DEF Linked
  <2> QED
    BY <1>3, <1>4, <2>1, <2>2
<1> QED
  BY <1>5, <1>6

\* A frame joins in order: it is at least as recent as what is before it.
LEMMA OrderedAppend ==
  ASSUME NEW s, NEW w, Proper(w), NEW f, Ordered(s, w),
         BookFrame(f) => /\ f.at \in Nat
                         /\ s # None => s <= f.at
                         /\ \A j \in 1..Len(w) : BookFrame(w[j]) => w[j].at <= f.at
  PROVE  Ordered(s, Append(w, f))
<1> DEFINE r == Append(w, f)
<1>1. /\ Len(r) = Len(w) + 1
      /\ \A i \in 1..Len(w) : r[i] = w[i]
      /\ r[Len(w) + 1] = f
      /\ Len(w) \in Nat
  BY ProperAppend DEF Proper
<1> HIDE DEF r
<1>2. ASSUME NEW i \in 1..Len(r), BookFrame(r[i])
      PROVE  /\ s # None => s <= r[i].at
             /\ \A j \in 1..i : BookFrame(r[j]) => r[j].at <= r[i].at
  <2>1. CASE i = Len(w) + 1
    <3>1. r[i] = f
      BY <1>1, <2>1
    <3>2. \A j \in 1..i : (j \in 1..Len(w) /\ r[j] = w[j]) \/ r[j] = f
      BY <1>1, <2>1
    <3>3. f.at <= f.at
      BY <1>2, <3>1
    <3> QED
      BY <1>2, <3>1, <3>2, <3>3
  <2>2. CASE i # Len(w) + 1
    <3>1. i \in 1..Len(w) /\ r[i] = w[i] /\ \A j \in 1..i : r[j] = w[j]
      BY <1>1, <2>2
    <3> QED
      BY <1>2, <3>1 DEF Ordered
  <2> QED
    BY <2>1, <2>2
<1> QED
  BY <1>2 DEF Ordered, r

\* The chain stays complete when a change does not touch the book or a frame
\* that tells of the last one is added.
LEMMA CompleteAppend ==
  ASSUME NEW T, NEW m, NEW n, NEW b, NEW s, NEW w, Proper(w), NEW f,
         Relevant(f) => T[f.at] = T[n],
         ~Relevant(f) => Complete(T, m, b, s, w) /\ T[m] = T[n]
  PROVE  Complete(T, n, b, s, Append(w, f))
<1> DEFINE r == Append(w, f)
<1>1. /\ Len(r) = Len(w) + 1
      /\ \A i \in 1..Len(w) : r[i] = w[i]
      /\ r[Len(w) + 1] = f
      /\ Len(w) \in Nat
  BY ProperAppend DEF Proper
<1> HIDE DEF r
<1>2. \A j \in 0..Len(w) : (Rel(b, r, j) <=> Rel(b, w, j)) /\ At(s, r, j) = At(s, w, j)
  BY <1>1 DEF Rel, At
<1>3. Len(w) + 1 # 0 /\ (Rel(b, r, Len(w) + 1) <=> Relevant(f)) /\ At(s, r, Len(w) + 1) = f.at
  BY <1>1 DEF Rel, At
<1> SUFFICES ASSUME NEW j \in 0..Len(r), Rel(b, r, j)
             PROVE  T[At(s, r, j)] = T[n] \/ \E k \in (j + 1)..Len(r) : Rel(b, r, k)
  BY DEF Complete, r
<1>4. CASE Relevant(f)
  <2>1. CASE j = Len(w) + 1
    BY <1>3, <1>4, <2>1
  <2>2. CASE j # Len(w) + 1
    <3>1. Len(w) + 1 \in (j + 1)..Len(r)
      BY <1>1, <2>2
    <3> QED
      BY <1>3, <1>4, <3>1
  <2> QED
    BY <2>1, <2>2
<1>5. CASE ~Relevant(f)
  <2>1. j \in 0..Len(w) /\ Rel(b, w, j) /\ At(s, r, j) = At(s, w, j)
    BY <1>1, <1>2, <1>3, <1>5
  <2>2. T[At(s, w, j)] = T[m] \/ \E k \in (j + 1)..Len(w) : Rel(b, w, k)
    BY <1>5, <2>1 DEF Complete
  <2>3. \A k \in (j + 1)..Len(w) : k \in (j + 1)..Len(r) /\ (Rel(b, r, k) <=> Rel(b, w, k))
    BY <1>1, <1>2
  <2> QED
    BY <1>5, <2>1, <2>2, <2>3
<1> QED
  BY <1>4, <1>5

\* Of a complete chain nothing is missing after a change that is no touching one.
LEMMA CompleteMoves ==
  ASSUME NEW T, NEW m, NEW n, NEW b, NEW s, NEW w, Complete(T, m, b, s, w), T[m] = T[n]
  PROVE  Complete(T, n, b, s, w)
BY DEF Complete

\* The first frame is taken off the chain: it becomes the shown book, or it is
\* not relevant, or no book is shown.
LEMMA ChainTail ==
  ASSUME NEW T, NEW n, NEW b, NEW s, NEW c, NEW t, NEW w, Proper(w), w # <<>>,
         \/ c = None
         \/ Relevant(w[1]) /\ t = w[1].at
         \/ ~Relevant(w[1]) /\ c = b /\ t = s
  PROVE  /\ Linked(T, b, s, w) => Linked(T, c, t, Tail(w))
         /\ Complete(T, n, b, s, w) => Complete(T, n, c, t, Tail(w))
<1> DEFINE r == Tail(w)
<1>1. /\ Len(w) \in Nat \ {0}
      /\ Len(r) = Len(w) - 1
      /\ \A i \in 1..Len(r) : r[i] = w[i + 1]
  BY ProperTail
<1> HIDE DEF r
(* Where a position of the shortened chain was. *)
<1> DEFINE was(i) == IF i = 0 /\ ~Relevant(w[1]) THEN 0 ELSE i + 1
<1>2. ASSUME NEW i \in 0..Len(r), Rel(c, r, i)
      PROVE  was(i) \in 0..Len(w) /\ Rel(b, w, was(i)) /\ At(t, r, i) = At(s, w, was(i))
  <2>1. CASE i = 0
    <3>1. c # None
      BY <1>2, <2>1 DEF Rel
    <3>2. CASE Relevant(w[1]) /\ t = w[1].at
      BY <1>1, <2>1, <3>2 DEF Rel, At
    <3>3. CASE ~Relevant(w[1]) /\ c = b /\ t = s
      BY <1>1, <2>1, <3>1, <3>3 DEF Rel, At
    <3> QED
      BY <3>1, <3>2, <3>3
  <2>2. CASE i # 0
    BY <1>1, <1>2, <2>2 DEF Rel, At
  <2> QED
    BY <2>1, <2>2
<1>3. ASSUME NEW i \in 0..Len(r), NEW k \in (was(i) + 1)..Len(w), Rel(b, w, k)
      PROVE  k - 1 \in (i + 1)..Len(r) /\ Rel(c, r, k - 1)
  <2>1. k # 0 /\ Relevant(w[k])
    BY <1>1, <1>3 DEF Rel
  <2>2. CASE i = 0 /\ ~Relevant(w[1])
    <3>1. k # 1 /\ k - 1 \in 1..Len(r)
      BY <1>1, <1>3, <2>1, <2>2
    <3> QED
      BY <1>1, <2>1, <2>2, <3>1 DEF Rel
  <2>3. CASE ~(i = 0 /\ ~Relevant(w[1]))
    <3>1. k - 1 \in (i + 1)..Len(r) /\ k - 1 # 0 /\ (k - 1) + 1 = k
      BY <1>1, <1>3, <2>3
    <3> QED
      BY <1>1, <2>1, <3>1 DEF Rel
  <2> QED
    BY <2>2, <2>3
<1>4. ASSUME Complete(T, n, b, s, w), NEW j \in 0..Len(r), Rel(c, r, j)
      PROVE  T[At(t, r, j)] = T[n] \/ \E k \in (j + 1)..Len(r) : Rel(c, r, k)
  <2>1. was(j) \in 0..Len(w) /\ Rel(b, w, was(j)) /\ At(t, r, j) = At(s, w, was(j))
    BY <1>2, <1>4
  <2> HIDE DEF was
  <2>2. T[At(s, w, was(j))] = T[n] \/ \E k \in (was(j) + 1)..Len(w) : Rel(b, w, k)
    BY <1>4, <2>1 DEF Complete
  <2> QED
    BY <1>3, <2>1, <2>2
<1>5. ASSUME Linked(T, b, s, w), NEW i \in 1..Len(r), r[i].kind = "change" /\ Relevant(r[i]),
             NEW j \in 0..(i - 1), Rel(c, r, j)
      PROVE  T[r[i].at] = T[At(t, r, j)] + 1 \/ \E k \in (j + 1)..(i - 1) : Rel(c, r, k)
  <2>1. j \in 0..Len(r)
    BY <1>1
  <2>2. was(j) \in 0..Len(w) /\ Rel(b, w, was(j)) /\ At(t, r, j) = At(s, w, was(j))
    BY <1>2, <1>5, <2>1
  <2>3. i + 1 \in 1..Len(w) /\ r[i] = w[i + 1] /\ was(j) \in 0..((i + 1) - 1)
    BY <1>1
  <2> HIDE DEF was
  <2>4. \/ T[w[i + 1].at] = T[At(s, w, was(j))] + 1
        \/ \E k \in (was(j) + 1)..((i + 1) - 1) : Rel(b, w, k)
    BY <1>5, <2>2, <2>3 DEF Linked
  <2>5. ASSUME NEW k \in (was(j) + 1)..((i + 1) - 1), Rel(b, w, k)
        PROVE  k - 1 \in (j + 1)..(i - 1) /\ Rel(c, r, k - 1)
    <3>1. k \in (was(j) + 1)..Len(w)
      BY <1>1, <2>2
    <3>2. k - 1 \in (j + 1)..Len(r) /\ Rel(c, r, k - 1)
      BY <1>3, <2>1, <2>5, <3>1
    <3> QED
      BY <1>1, <2>2, <3>2
  <2> QED
    BY <2>2, <2>3, <2>4, <2>5
<1>6. Complete(T, n, b, s, w) => Complete(T, n, c, t, r)
  <2> HIDE DEF was
  <2> QED
    BY <1>4 DEF Complete
<1>7. Linked(T, b, s, w) => Linked(T, c, t, r)
  <2> HIDE DEF was
  <2> QED
    BY <1>5 DEF Linked
<1> QED
  BY <1>6, <1>7 DEF r

\* What is left is in order, and not older than what is shown.
LEMMA OrderedTail ==
  ASSUME NEW s, NEW t, NEW w, Proper(w), w # <<>>, Ordered(s, w),
         t = None \/ t = s \/ (BookFrame(w[1]) /\ t = w[1].at)
  PROVE  Ordered(t, Tail(w))
<1> DEFINE r == Tail(w)
<1>1. /\ Len(w) \in Nat \ {0}
      /\ Len(r) = Len(w) - 1
      /\ \A i \in 1..Len(r) : r[i] = w[i + 1]
  BY ProperTail
<1> HIDE DEF r
<1>2. ASSUME NEW i \in 1..Len(r), BookFrame(r[i])
      PROVE  /\ t # None => t <= r[i].at
             /\ \A j \in 1..i : BookFrame(r[j]) => r[j].at <= r[i].at
  <2>1. i + 1 \in 1..Len(w) /\ r[i] = w[i + 1] /\ 1 \in 1..(i + 1)
        /\ \A j \in 1..i : j + 1 \in 1..(i + 1) /\ r[j] = w[j + 1]
    BY <1>1
  <2>2. /\ s # None => s <= w[i + 1].at
        /\ \A j \in 1..(i + 1) : BookFrame(w[j]) => w[j].at <= w[i + 1].at
    BY <1>2, <2>1 DEF Ordered
  <2> QED
    BY <2>1, <2>2
<1> QED
  BY <1>2 DEF Ordered, r

-----------------------------------------------------------------------------
(* Frames in flight.                                                       *)

\* A frame is added to the wire.
LEMMA FramesAppend ==
  ASSUME NEW w, NEW v, NEW h, NEW n, NEW f, FramesOK(w, v, h, n), FrameOK(f, v, h, n)
  PROVE  FramesOK(Append(w, f), v, h, n)
<1>1. Proper(w)
  BY DEF FramesOK
<1>2. /\ Proper(Append(w, f))
      /\ Len(Append(w, f)) = Len(w) + 1
      /\ \A i \in 1..Len(w) : Append(w, f)[i] = w[i]
      /\ Append(w, f)[Len(w) + 1] = f
  BY <1>1, ProperAppend
<1>3. \A i \in 1..Len(Append(w, f)) : i \in 1..Len(w) \/ i = Len(w) + 1
  BY <1>1, <1>2 DEF Proper
<1> QED
  BY <1>2, <1>3 DEF FramesOK

\* What is true of the frames stays true as the exchange's book changes.
LEMMA FramesLater ==
  ASSUME NEW w, NEW v, NEW h, NEW n \in Nat, FramesOK(w, v, h, n)
  PROVE  FramesOK(w, v, h, n + 1)
BY DEF FramesOK, FrameOK

\* The first frame is received.
LEMMA FramesTail ==
  ASSUME NEW w, NEW v, NEW h, NEW n, FramesOK(w, v, h, n), w # <<>>
  PROVE  FramesOK(Tail(w), v, h, n) /\ FrameOK(w[1], v, h, n) /\ Head(w) = w[1]
<1>1. Proper(w)
  BY DEF FramesOK
<1>2. /\ Proper(Tail(w))
      /\ Len(w) \in Nat \ {0}
      /\ Len(Tail(w)) = Len(w) - 1
      /\ Head(w) = w[1]
      /\ \A i \in 1..Len(Tail(w)) : Tail(w)[i] = w[i + 1]
  BY <1>1, ProperTail
<1>3. 1 \in 1..Len(w) /\ \A i \in 1..Len(Tail(w)) : i + 1 \in 1..Len(w)
  BY <1>2
<1> QED
  BY <1>2, <1>3 DEF FramesOK

\* No frame is in flight.
LEMMA FramesEmpty == ASSUME NEW v, NEW h, NEW n PROVE FramesOK(<<>>, v, h, n)
BY ProperEmpty DEF FramesOK

\* A frame is lost.
LEMMA FramesRemove ==
  ASSUME NEW w, NEW v, NEW h, NEW n, FramesOK(w, v, h, n), NEW j \in 1..Len(w)
  PROVE  FramesOK(RemoveAt(w, j), v, h, n)
<1>1. Proper(w)
  BY DEF FramesOK
<1>2. /\ Proper(RemoveAt(w, j))
      /\ \A i \in 1..Len(RemoveAt(w, j)) : \E k \in 1..Len(w) : RemoveAt(w, j)[i] = w[k]
  BY <1>1, ProperRemove
<1> QED
  BY <1>2 DEF FramesOK

\* A frame is changed.
LEMMA FramesExcept ==
  ASSUME NEW w, NEW v, NEW h, NEW n, FramesOK(w, v, h, n), NEW j \in 1..Len(w), NEW f,
         FrameOK(f, v, h, n), NEW r,
         r = [i \in 1..Len(w) |-> IF i = j THEN f ELSE w[i]]
  PROVE  FramesOK(r, v, h, n)
<1> DEFINE S == {w[i] : i \in 1..Len(w)} \cup {f}
<1>1. Len(w) \in Nat /\ \A i \in 1..Len(w) : r[i] = IF i = j THEN f ELSE w[i]
  BY DEF Proper, FramesOK
<1>2. r \in [1..Len(w) -> S]
  BY <1>1
<1> HIDE DEF S
<1>3. r \in Seq(S)
  BY <1>1, <1>2, SeqDef
<1>4. Len(r) = Len(w)
  BY <1>1, <1>2, <1>3, LenProperties
<1>5. Proper(r)
  BY <1>3, ProperIsSeq
<1> QED
  BY <1>1, <1>4, <1>5 DEF FramesOK

-----------------------------------------------------------------------------
(* The kinds of steps, and the steps of a replica they are.                *)

\* The exchange and its history do not change.
SameExchange == venue' = venue /\ history' = history

\* The count of touching changes is of the history only.
LEMMA SameCounts == ASSUME SameExchange PROVE Made' = Made /\ (Kalshi' <=> Kalshi)
BY DEF SameExchange, Made, Touching, Kalshi

\* What the feed shows of the exchange's book, in terms of the counts.
LEMMA ShownCounts ==
  /\ HistoryOK /\ BookOK => /\ Touching(pos) = Made[pos]
                            /\ seen # None => Touching(seen) = Made[seen]
  /\ HistoryOK' /\ BookOK' => /\ Touching(pos)' = Made'[pos']
                              /\ seen' # None => Touching(seen)' = Made'[seen']
<1>1. ASSUME HistoryOK, BookOK
      PROVE  /\ Touching(pos) = Made[pos]
             /\ seen # None => Touching(seen) = Made[seen]
  <2>1. Len(history.changes) \in Nat
    BY <1>1, MadeCounts
  <2>2. pos \in 0..Len(history.changes) /\ (seen # None => seen \in 0..Len(history.changes))
    BY <1>1, <2>1 DEF HistoryOK, BookOK
  <2> QED
    BY <2>2 DEF Made
<1>2. ASSUME HistoryOK', BookOK'
      PROVE  /\ Touching(pos)' = Made'[pos']
             /\ seen' # None => Touching(seen)' = Made'[seen']
  <2>1. Len(history'.changes) \in Nat
    BY <1>2, HistoriesAssumption DEF HistoryOK, IsSequence
  <2>2. pos' \in 0..Len(history'.changes) /\ (seen' # None => seen' \in 0..Len(history'.changes))
    BY <1>2, <2>1 DEF HistoryOK, BookOK
  <2> QED
    BY <2>2 DEF Made, Touching, Kalshi
<1> QED
  BY <1>1, <1>2

\* The kinds of steps that leave the replica's promise intact: nothing it
\* speaks of changes, the exchange changes its book, the book is withdrawn, a
\* snapshot is shown that is not older, or the next change is applied.
Keeps     == pos' = pos /\ seen' = seen /\ rebuilt' = rebuilt
Changes   == pos' = pos + 1 /\ seen' = seen /\ rebuilt' = rebuilt
Withdraws == pos' = pos /\ seen' = None /\ rebuilt' = FALSE
Rebuilds  ==
  /\ pos' = pos /\ seen' \in 0..pos /\ rebuilt' = TRUE
  /\ seen # None => Made[seen] <= Made[seen']
Follows   ==
  /\ pos' = pos /\ seen' \in 0..pos /\ rebuilt' = FALSE
  /\ seen # None /\ Made[seen'] = Made[seen] + 1

Moves == SameExchange /\ (Keeps \/ Changes \/ Withdraws \/ Rebuilds \/ Follows)

\* Each of them is a step of the replica, or a stutter.
LEMMA MovesReplicate ==
  ASSUME FeedInv, FeedInv', Moves
  PROVE  [Replica!Next]_(Replica!vars)
<1> DEFINE L == Len(history.changes)
<1>1. SameExchange /\ Made' = Made /\ Len(history'.changes) = L
  BY SameCounts DEF Moves, SameExchange
<1>2. /\ L \in Nat
      /\ \A n \in 0..L : Made[n] \in Nat
      /\ \A m, n \in 0..L : m <= n => Made[m] <= Made[n]
      /\ ~Kalshi => \A n \in 1..L :
           Made[n] = IF Touches(history.changes[n]) THEN Made[n - 1] + 1 ELSE Made[n - 1]
      /\ Kalshi => \A n \in 0..L : Made[n] = n
  BY MadeCounts DEF FeedInv
<1>3. /\ pos \in 0..L /\ pos' \in 0..L
      /\ seen # None => seen \in 0..pos
      /\ seen' # None => seen' \in 0..pos'
  BY <1>1 DEF FeedInv, HistoryOK, BookOK
<1>4. /\ Touching(pos) = Made[pos] /\ Touching(pos)' = Made[pos']
      /\ seen # None => Touching(seen) = Made[seen]
      /\ seen' # None => Touching(seen)' = Made[seen']
  BY <1>1, ShownCounts DEF FeedInv
<1>5. Made[pos] \in Nat /\ Made[pos'] \in Nat /\ None \notin Int
      /\ (seen # None => Made[seen] \in Nat /\ Made[seen] <= Made[pos])
      /\ (seen' # None => Made[seen'] \in Nat /\ Made[seen'] <= Made[pos'])
  BY <1>2, <1>3, FeedAssumption
<1>6. CASE Keeps
  BY <1>4, <1>6 DEF Keeps, Replica!vars
<1>7. CASE Changes
  <2>1. Made[pos'] = Made[pos] \/ Made[pos'] = Made[pos] + 1
    <3>1. pos' \in 1..L /\ pos' - 1 = pos
      BY <1>2, <1>3, <1>7 DEF Changes
    <3> QED
      BY <1>2, <1>3, <1>7, <3>1 DEF Changes
  <2> QED
    BY <1>4, <1>7, <2>1 DEF Changes, Replica!vars, Replica!Next, Replica!Change
<1>8. CASE Withdraws
  BY <1>4, <1>8 DEF Withdraws, Replica!Next, Replica!Withdraw
<1>9. CASE Rebuilds
  <2>1. seen' # None /\ Made[seen'] \in 0..Made[pos] /\ Made[pos'] = Made[pos]
    BY <1>2, <1>3, <1>5, <1>9 DEF Rebuilds
  <2> QED
    BY <1>4, <1>5, <1>9, <2>1 DEF Rebuilds, Replica!Next, Replica!Rebuild
<1>10. CASE Follows
  <2>1. seen' # None /\ Made[seen'] <= Made[pos] /\ Made[pos'] = Made[pos]
    BY <1>2, <1>3, <1>5, <1>10 DEF Follows
  <2> QED
    BY <1>4, <1>5, <1>10, <2>1 DEF Follows, Replica!Next, Replica!Follow
<1> QED
  BY <1>6, <1>7, <1>8, <1>9, <1>10 DEF Moves

-----------------------------------------------------------------------------
(* What a step has to do to keep the invariant, by what it does to the wire. *)

\* Nothing of the feed's data changes; the exchange may forget the client.
LEMMA QuietStep ==
  ASSUME FeedInv, SameExchange, pos' = pos, wire' = wire, book' = book, seen' = seen,
         previous' = previous,
         server' = server \/ ~server'.alive \/ Asset \notin server'.tokens
  PROVE  FeedInv'
<1>1. Made' = Made /\ (Kalshi' <=> Kalshi)
  BY SameCounts
<1>2. HistoryOK'
  BY DEF FeedInv, HistoryOK, SameExchange
<1>3. WireOK'
  BY DEF FeedInv, WireOK, SameExchange
<1>4. BookOK'
  BY <1>1 DEF FeedInv, BookOK
<1>5. ChainOK'
  BY <1>1 DEF FeedInv, ChainOK, Polymarket, SameExchange
<1> QED
  BY <1>2, <1>3, <1>4, <1>5 DEF FeedInv

\* A frame that is not about the book is added.
LEMMA AppendStep ==
  ASSUME FeedInv, SameExchange, pos' = pos, book' = book, seen' = seen, previous' = previous,
         server'.alive = server.alive, server'.tokens = server.tokens,
         NEW f, ~BookFrame(f), FrameOK(f, venue, history, pos), wire' = Append(wire, f)
  PROVE  FeedInv'
<1>1. Made' = Made /\ (Kalshi' <=> Kalshi)
  BY SameCounts
<1>2. HistoryOK'
  BY DEF FeedInv, HistoryOK, SameExchange
<1>3. WireOK'
  BY FramesAppend DEF FeedInv, WireOK, SameExchange
<1>4. BookOK'
  BY <1>1 DEF FeedInv, BookOK
<1>5. Proper(wire) /\ ~Relevant(f)
  BY DEF FeedInv, WireOK, FramesOK, BookFrame, Relevant
<1>6. ASSUME Polymarket'
      PROVE  /\ Linked(Made, book, seen, Append(wire, f))
             /\ Ordered(seen, Append(wire, f))
             /\ server.alive /\ Asset \in server.tokens
                  => Complete(Made, pos, book, seen, Append(wire, f))
  <2>1. /\ Linked(Made, book, seen, wire)
        /\ Ordered(seen, wire)
        /\ server.alive /\ Asset \in server.tokens => Complete(Made, pos, book, seen, wire)
    BY <1>6 DEF FeedInv, ChainOK, Polymarket, SameExchange
  <2>2. Linked(Made, book, seen, Append(wire, f))
    BY <1>5, <2>1, LinkedAppend
  <2>3. Ordered(seen, Append(wire, f))
    BY <1>5, <2>1, OrderedAppend
  <2>4. Complete(Made, pos, book, seen, wire) => Complete(Made, pos, book, seen, Append(wire, f))
    BY <1>5, CompleteAppend
  <2> QED
    BY <2>1, <2>2, <2>3, <2>4
<1>7. ChainOK'
  BY <1>1, <1>6 DEF ChainOK
<1> QED
  BY <1>2, <1>3, <1>4, <1>7 DEF FeedInv

\* The connection is gone, and with it the frames in flight.
LEMMA OfflineStep ==
  ASSUME FeedInv, SameExchange, pos' = pos, wire' = <<>>, ~server'.alive,
         \/ book' = book /\ seen' = seen /\ previous' = previous
         \/ book' = None /\ seen' = None /\ previous' = None
  PROVE  FeedInv'
<1>1. Made' = Made /\ (Kalshi' <=> Kalshi)
  BY SameCounts
<1>2. HistoryOK'
  BY DEF FeedInv, HistoryOK, SameExchange
<1>3. WireOK'
  BY FramesEmpty DEF WireOK
<1>4. BookOK'
  BY <1>1 DEF FeedInv, BookOK
<1>5. Linked(Made, book', seen', <<>>) /\ Ordered(seen', <<>>)
  BY ProperEmpty DEF Linked, Ordered
<1>6. ChainOK'
  BY <1>1, <1>5 DEF ChainOK
<1> QED
  BY <1>2, <1>3, <1>4, <1>6 DEF FeedInv

\* A frame is received that leaves the shown book as it is.
LEMMA TailStep ==
  ASSUME FeedInv, SameExchange, pos' = pos, book' = book, seen' = seen, previous' = previous,
         server' = server, wire # <<>>, wire' = Tail(wire),
         Polymarket => ~Relevant(wire[1]) \/ book = None
  PROVE  FeedInv'
<1>1. Made' = Made /\ (Kalshi' <=> Kalshi)
  BY SameCounts
<1>2. HistoryOK'
  BY DEF FeedInv, HistoryOK, SameExchange
<1>3. WireOK'
  BY FramesTail DEF FeedInv, WireOK, SameExchange
<1>4. BookOK'
  BY <1>1 DEF FeedInv, BookOK
<1>5. Proper(wire)
  BY DEF FeedInv, WireOK, FramesOK
<1>6. ASSUME Polymarket'
      PROVE  /\ Linked(Made, book, seen, Tail(wire))
             /\ Ordered(seen, Tail(wire))
             /\ server.alive /\ Asset \in server.tokens
                  => Complete(Made, pos, book, seen, Tail(wire))
  <2>1. /\ Linked(Made, book, seen, wire)
        /\ Ordered(seen, wire)
        /\ server.alive /\ Asset \in server.tokens => Complete(Made, pos, book, seen, wire)
        /\ ~Relevant(wire[1]) \/ book = None
    BY <1>6 DEF FeedInv, ChainOK, Polymarket, SameExchange
  <2>2. /\ Linked(Made, book, seen, wire) => Linked(Made, book, seen, Tail(wire))
        /\ Complete(Made, pos, book, seen, wire) => Complete(Made, pos, book, seen, Tail(wire))
    BY <1>5, <2>1, ChainTail
  <2>3. Ordered(seen, Tail(wire))
    BY <1>5, <2>1, OrderedTail
  <2> QED
    BY <2>1, <2>2, <2>3
<1>7. ChainOK'
  BY <1>1, <1>6 DEF ChainOK
<1> QED
  BY <1>2, <1>3, <1>4, <1>7 DEF FeedInv

\* Kalshi's wire may be disturbed in any way that keeps its frames.
LEMMA KalshiStep ==
  ASSUME FeedInv, Kalshi, SameExchange, pos' \in 0..Len(history.changes),
         FramesOK(wire', venue, history, pos'), BookOK'
  PROVE  FeedInv'
<1>1. Kalshi' /\ ~Polymarket'
  BY DEF Kalshi, Polymarket, SameExchange
<1> QED
  BY <1>1 DEF FeedInv, HistoryOK, WireOK, ChainOK, SameExchange

-----------------------------------------------------------------------------
(* The exchange's steps.                                                   *)

\* What is known of the state before a step.
LEMMA FeedFacts ==
  ASSUME FeedInv
  PROVE  /\ pos \in Nat
         /\ Proper(wire) /\ Len(wire) \in Nat
         /\ \A i \in 1..Len(wire) : BookFrame(wire[i]) => wire[i].at \in 0..pos
         /\ seen # None => seen \in 0..pos
         /\ FramesOK(wire, venue, history, pos)
         /\ venue \in {"kalshi", "polymarket"}
         /\ Polymarket <=> ~Kalshi
<1>1. Len(history.changes) \in Nat
  BY MadeCounts DEF FeedInv
<1>2. pos \in Nat
  BY <1>1 DEF FeedInv, HistoryOK
<1>3. venue \in {"kalshi", "polymarket"}
  BY FeedAssumption DEF FeedInv, HistoryOK
<1> QED
  BY <1>2, <1>3 DEF FeedInv, WireOK, FramesOK, FrameOK, Proper, BookOK, Kalshi, Polymarket

\* The exchange's book changes, and a subscriber is told.
LEMMA ExchangeChangesStep == FeedInv /\ ExchangeChanges => FeedInv' /\ Moves
<1> SUFFICES ASSUME FeedInv, ExchangeChanges PROVE FeedInv' /\ Moves
  OBVIOUS
<1> DEFINE L == Len(history.changes)
           f == DeltaFrame(pos + 1)
<1>1. /\ SameExchange /\ pos < L /\ pos' = pos + 1
      /\ book' = book /\ seen' = seen /\ previous' = previous /\ rebuilt' = rebuilt
      /\ server' = server
  BY DEF ExchangeChanges, SameExchange, exchange, local
<1>2. \/ wire' = wire /\ (server.alive /\ ~Kalshi => f.message.price_changes = <<>>)
      \/ wire' = wire \o <<f>> /\ server.alive
  BY DEF ExchangeChanges, Sends
<1>3. /\ pos \in Nat /\ L \in Nat /\ pos + 1 \in 0..L /\ pos \in 0..L /\ pos + 1 \in 1..L
      /\ Proper(wire) /\ FramesOK(wire, venue, history, pos)
      /\ Polymarket <=> ~Kalshi
  BY <1>1, FeedFacts, MadeCounts DEF FeedInv
<1>4. \/ wire' = wire /\ (server.alive /\ ~Kalshi => f.message.price_changes = <<>>)
      \/ wire' = Append(wire, f) /\ server.alive
  <2> HIDE DEF f
  <2> QED
    BY <1>2, <1>3, ProperAppend
<1>5. f.kind = "change" /\ f.at = pos + 1 /\ BookFrame(f)
  BY DEF DeltaFrame, DataFrame, BookFrame
<1>6. FrameOK(f, venue, history, pos + 1)
  <2>1. Kalshi => /\ DOMAIN f = {"kind", "at", "message"}
                  /\ "sequence" \in DOMAIN f.message
                  /\ f.message.sequence = pos + 1
    BY DEF DeltaFrame, DataFrame
  <2>2. Tells(f, venue, history)
    <3>1. Kalshi => /\ {"side", "price", "quantity", "action"} \subseteq DOMAIN f.message
                    /\ f.message.side = history.changes[pos + 1].side
                    /\ f.message.price = history.changes[pos + 1].price
                    /\ f.message.quantity = history.changes[pos + 1].quantity
                    /\ f.message.action = history.changes[pos + 1].action
      BY DEF DeltaFrame, DataFrame
    <3>2. ~Kalshi => f.message.price_changes = ChangesOf(history.changes[pos + 1], server.tokens)
      BY DEF DeltaFrame, DataFrame
    <3>3. pos + 1 # 0
      BY <1>3
    <3> HIDE DEF f
    <3> QED
      BY <1>5, <3>1, <3>2, <3>3 DEF Tells, Kalshi
  <2> HIDE DEF f
  <2> QED
    BY <1>3, <1>5, <2>1, <2>2 DEF FrameOK, Kalshi
<1>7. FramesOK(wire, venue, history, pos + 1)
  BY <1>3, FramesLater
<1> HIDE DEF f
<1>8. FramesOK(Append(wire, f), venue, history, pos + 1)
  BY <1>6, <1>7, FramesAppend
<1>9. HistoryOK'
  BY <1>1, <1>3 DEF FeedInv, HistoryOK, SameExchange
<1>10. WireOK'
  BY <1>1, <1>4, <1>7, <1>8 DEF WireOK, SameExchange
<1>11. BookOK'
  BY <1>1, <1>3, SameCounts DEF FeedInv, BookOK
<1>12. ASSUME ~Kalshi
       PROVE  /\ Linked(Made, book, seen, wire')
              /\ Ordered(seen, wire')
              /\ server.alive /\ Asset \in server.tokens
                   => Complete(Made, pos + 1, book, seen, wire')
  <2>1. /\ Linked(Made, book, seen, wire)
        /\ Ordered(seen, wire)
        /\ server.alive /\ Asset \in server.tokens => Complete(Made, pos, book, seen, wire)
    BY <1>3, <1>12 DEF FeedInv, ChainOK
  <2> DEFINE touches == Touches(history.changes[pos + 1])
  <2>2. Made[pos + 1] = IF touches THEN Made[pos] + 1 ELSE Made[pos]
    <3>1. (pos + 1) - 1 = pos
      BY <1>3
    <3> QED
      BY <1>3, <1>12, <3>1, MadeCounts DEF FeedInv
  <2>3. Relevant(f) <=> Asset \in server.tokens /\ touches
    <3>1. f.message.price_changes = ChangesOf(history.changes[pos + 1], server.tokens)
      BY <1>12 DEF f, DeltaFrame, DataFrame
    <3>2. IsSequence(history.changes[pos + 1])
      <4>1. IsSequence(history.changes) /\ venue = "polymarket"
        BY <1>3, <1>12, HistoriesAssumption DEF FeedInv, HistoryOK, Polymarket
      <4> QED
        BY <1>3, <4>1, HistoriesAssumption DEF FeedInv, HistoryOK, IsSequence
    <3>3. DeltaMaps(f.message, Asset) <=> Asset \in server.tokens /\ touches
      BY <3>1, <3>2, ChangesOfToken DEF DeltaMaps, Touches
    <3> QED
      BY <1>5, <3>3 DEF Relevant
  <2>4. f.message.price_changes = <<>> => ~Relevant(f)
    BY <1>5 DEF Relevant, DeltaMaps
  <2> HIDE DEF touches
  <2>5. CASE wire' = Append(wire, f) /\ server.alive
    <3>1. Linked(Made, book, seen, Append(wire, f))
      <4>1. ASSUME Relevant(f), NEW j \in 0..Len(wire), Rel(book, wire, j)
            PROVE  \/ Made[f.at] = Made[At(seen, wire, j)] + 1
                   \/ \E k \in (j + 1)..Len(wire) : Rel(book, wire, k)
        <5>1. Complete(Made, pos, book, seen, wire) /\ Made[f.at] = Made[pos] + 1
          BY <1>5, <2>1, <2>2, <2>3, <2>5, <4>1
        <5> QED
          BY <4>1, <5>1 DEF Complete
      <4> QED
        BY <1>3, <2>1, <4>1, LinkedAppend
    <3>2. Ordered(seen, Append(wire, f))
      <4>1. f.at \in Nat /\ (seen # None => seen <= f.at)
            /\ \A j \in 1..Len(wire) : BookFrame(wire[j]) => wire[j].at <= f.at
        BY <1>3, <1>5, FeedFacts
      <4> QED
        BY <1>3, <2>1, <4>1, OrderedAppend
    <3>3. Asset \in server.tokens => Complete(Made, pos + 1, book, seen, Append(wire, f))
      <4> SUFFICES ASSUME Asset \in server.tokens
                   PROVE  Complete(Made, pos + 1, book, seen, Append(wire, f))
        OBVIOUS
      <4>1. Complete(Made, pos, book, seen, wire)
        BY <2>1, <2>5
      <4>2. Relevant(f) => Made[f.at] = Made[pos + 1]
        BY <1>5
      <4>3. ~Relevant(f) => Made[pos] = Made[pos + 1]
        BY <2>2, <2>3
      <4> QED
        BY <1>3, <4>1, <4>2, <4>3, CompleteAppend
    <3> QED
      BY <2>5, <3>1, <3>2, <3>3
  <2>6. CASE wire' = wire /\ (server.alive => f.message.price_changes = <<>>)
    <3>1. server.alive /\ Asset \in server.tokens => Made[pos] = Made[pos + 1]
      BY <2>2, <2>3, <2>4, <2>6
    <3> QED
      BY <2>1, <2>6, <3>1, CompleteMoves
  <2> QED
    BY <1>4, <1>12, <2>5, <2>6
<1>13. ChainOK'
  <2>1. Made' = Made /\ (Polymarket' => ~Kalshi)
    BY <1>1, SameCounts DEF Kalshi, Polymarket, SameExchange
  <2> QED
    BY <1>1, <1>12, <2>1 DEF ChainOK
<1>14. Moves
  BY <1>1 DEF Moves, Changes
<1> QED
  BY <1>9, <1>10, <1>11, <1>13, <1>14 DEF FeedInv

\* A Kalshi frame that is not about the book is added.
LEMMA GreetingStep ==
  FeedInv /\ (ExchangeGreets \/ ExchangePings) => FeedInv' /\ Moves
<1> SUFFICES ASSUME FeedInv, ExchangeGreets \/ ExchangePings PROVE FeedInv' /\ Moves
  OBVIOUS
<1>1. /\ Kalshi /\ SameExchange /\ pos' = pos
      /\ book' = book /\ seen' = seen /\ previous' = previous /\ rebuilt' = rebuilt
      /\ wire' = wire \o <<HelloFrame>> \/ wire' = wire \o <<PingFrame>>
  BY DEF ExchangeGreets, ExchangePings, Sends, SameExchange, exchange, local
<1>2. /\ FrameOK(HelloFrame, venue, history, pos)
      /\ FrameOK(PingFrame, venue, history, pos)
  BY DEF FrameOK, HelloFrame, PingFrame, BookFrame
<1>3. PICK f : wire' = wire \o <<f>> /\ FrameOK(f, venue, history, pos)
  BY <1>1, <1>2
<1>4. FramesOK(wire', venue, history, pos)
  <2>1. wire' = Append(wire, f)
    BY <1>3, FeedFacts, ProperAppend
  <2> QED
    BY <1>3, <2>1, FeedFacts, FramesAppend
<1>5. FeedInv'
  <2>1. BookOK' /\ pos' \in 0..Len(history.changes)
    BY <1>1, SameCounts DEF FeedInv, BookOK, HistoryOK
  <2> QED
    BY <1>1, <1>4, <2>1, KalshiStep
<1> QED
  BY <1>1, <1>5 DEF Moves, Keeps

\* A subscribe request is answered with a snapshot.
LEMMA ExchangeAcknowledgesStep == FeedInv /\ ExchangeAcknowledges => FeedInv' /\ Moves
<1> SUFFICES ASSUME FeedInv, ExchangeAcknowledges PROVE FeedInv' /\ Moves
  OBVIOUS
<1> DEFINE a == AckFrame(server.pending)
           s == SnapshotFrame(pos)
<1>1. /\ Kalshi /\ SameExchange /\ pos' = pos
      /\ book' = book /\ seen' = seen /\ previous' = previous /\ rebuilt' = rebuilt
      /\ wire' = wire \o <<a, s>>
  BY DEF ExchangeAcknowledges, Sends, SameExchange, exchange, local
<1>2. FrameOK(a, venue, history, pos)
  BY DEF FrameOK, AckFrame, BookFrame
<1>3. FrameOK(s, venue, history, pos)
  <2>1. /\ s.kind = "book" /\ s.at = pos /\ DOMAIN s = {"kind", "at", "message"}
        /\ "sequence" \in DOMAIN s.message /\ s.message.sequence = pos
        /\ s.message.yes = RawLevels(RawBook(pos).yes)
        /\ s.message.no = RawLevels(RawBook(pos).no)
    BY <1>1 DEF SnapshotFrame, DataFrame
  <2> HIDE DEF s
  <2>2. Tells(s, venue, history)
    BY <1>1, <2>1 DEF Tells, RawBook, Kalshi
  <2> QED
    BY <2>1, <2>2, FeedFacts DEF FrameOK, BookFrame
<1> HIDE DEF a, s
<1>4. FramesOK(wire', venue, history, pos)
  <2>1. wire' = Append(Append(wire, a), s)
    BY <1>1, FeedFacts, ProperConcat
  <2>2. FramesOK(Append(wire, a), venue, history, pos)
    BY <1>2, FeedFacts, FramesAppend
  <2> QED
    BY <1>3, <2>1, <2>2, FramesAppend
<1>5. FeedInv'
  <2>1. BookOK' /\ pos' \in 0..Len(history.changes)
    BY <1>1, SameCounts DEF FeedInv, BookOK, HistoryOK
  <2> QED
    BY <1>1, <1>4, <2>1, KalshiStep
<1> QED
  BY <1>1, <1>5 DEF Moves, Keeps

\* A trade is reported.
LEMMA ExchangeTradesStep == FeedInv /\ ExchangeTrades => FeedInv' /\ Moves
<1> SUFFICES ASSUME FeedInv, ExchangeTrades PROVE FeedInv' /\ Moves
  OBVIOUS
<1>1. /\ SameExchange /\ pos' = pos /\ server' = server
      /\ book' = book /\ seen' = seen /\ previous' = previous /\ rebuilt' = rebuilt
  BY DEF ExchangeTrades, SameExchange, exchange, local
<1>2. PICK t \in history.trades : \E raw \in RawTrades(t) :
        wire' = wire \o <<[kind |-> "trade", truth |-> t, message |-> raw]>>
  BY DEF ExchangeTrades, Sends
<1>3. PICK raw \in RawTrades(t) :
        wire' = wire \o <<[kind |-> "trade", truth |-> t, message |-> raw]>>
  BY <1>2
<1> DEFINE f == [kind |-> "trade", truth |-> t, message |-> raw]
<1>4. ~BookFrame(f) /\ FrameOK(f, venue, history, pos)
  BY <1>2, <1>3 DEF BookFrame, FrameOK, RawTrades, Kalshi
<1>5. wire' = wire \o <<f>>
  BY <1>3
<1> HIDE DEF f
<1>6. wire' = Append(wire, f)
  BY <1>5, FeedFacts, ProperAppend
<1>7. FeedInv'
  BY <1>1, <1>4, <1>6, AppendStep
<1> QED
  BY <1>1, <1>7 DEF Moves, Keeps

-----------------------------------------------------------------------------
(* Faults.                                                                 *)

\* A Kalshi change is lost, repeated, or stripped of its sequence.
LEMMA KalshiFaultStep ==
  FeedInv /\ (ChangeIsLost \/ FrameIsRepeated \/ SequenceIsMissing) => FeedInv' /\ Moves
<1> SUFFICES ASSUME FeedInv, ChangeIsLost \/ FrameIsRepeated \/ SequenceIsMissing
             PROVE  FeedInv' /\ Moves
  OBVIOUS
<1>1. /\ Kalshi /\ SameExchange /\ pos' = pos
      /\ book' = book /\ seen' = seen /\ previous' = previous /\ rebuilt' = rebuilt
  BY DEF ChangeIsLost, FrameIsRepeated, SequenceIsMissing, SameExchange, exchange, local
<1>2. /\ DOMAIN wire = 1..Len(wire) /\ FramesOK(wire, venue, history, pos)
      /\ \A i \in 1..Len(wire) : FrameOK(wire[i], venue, history, pos)
  BY FeedFacts DEF Proper, FramesOK
<1>3. FramesOK(wire', venue, history, pos)
  <2>1. CASE ChangeIsLost
    BY <1>2, <2>1, FramesRemove DEF ChangeIsLost
  <2>2. CASE FrameIsRepeated
    BY <1>2, <2>2, FramesAppend DEF FrameIsRepeated
  <2>3. CASE SequenceIsMissing
    <3>1. PICK i \in 1..Len(wire) :
            wire[i].kind = "change" /\ wire' = [wire EXCEPT ![i].message.sequence = None]
      BY <1>2, <2>3 DEF SequenceIsMissing
    <3>2. PICK f : f = [wire[i] EXCEPT !.message = [wire[i].message EXCEPT !.sequence = None]]
      OBVIOUS
    <3>3. wire' = [k \in 1..Len(wire) |-> IF k = i THEN f ELSE wire[k]]
      BY <1>2, <3>1, <3>2
    <3>4. /\ DOMAIN wire[i] = {"kind", "at", "message"}
          /\ "sequence" \in DOMAIN wire[i].message
          /\ wire[i].at \in 0..pos
          /\ Tells(wire[i], venue, history)
      BY <1>1, <1>2, <3>1 DEF FrameOK, BookFrame, Kalshi
    <3>5. /\ DOMAIN f = {"kind", "at", "message"} /\ f.kind = "change" /\ f.at = wire[i].at
          /\ f.message = [wire[i].message EXCEPT !.sequence = None]
      BY <3>1, <3>2, <3>4
    <3>6. "sequence" \in DOMAIN f.message /\ f.message.sequence = None
      BY <3>4, <3>5
    <3>7. Tells(f, venue, history)
      <4>1. \A x \in {"side", "price", "quantity", "action"} : x \in DOMAIN wire[i].message =>
              x \in DOMAIN f.message /\ f.message[x] = wire[i].message[x]
        BY <3>4, <3>5
      <4> QED
        BY <1>1, <3>1, <3>4, <3>5, <4>1 DEF Tells, Kalshi
    <3>8. FrameOK(f, venue, history, pos)
      BY <3>4, <3>5, <3>6, <3>7 DEF FrameOK
    <3> QED
      BY <1>2, <3>3, <3>8, FramesExcept
  <2> QED
    BY <2>1, <2>2, <2>3
<1>4. FeedInv'
  <2>1. BookOK' /\ pos' \in 0..Len(history.changes)
    BY <1>1, SameCounts DEF FeedInv, BookOK, HistoryOK
  <2> QED
    BY <1>1, <1>3, <2>1, KalshiStep
<1> QED
  BY <1>1, <1>4 DEF Moves, Keeps

\* A frame nobody asked for arrives.
LEMMA StrayFrameStep == FeedInv /\ StrayFrame => FeedInv' /\ Moves
<1> SUFFICES ASSUME FeedInv, StrayFrame PROVE FeedInv' /\ Moves
  OBVIOUS
<1>1. /\ SameExchange /\ pos' = pos /\ server' = server
      /\ book' = book /\ seen' = seen /\ previous' = previous /\ rebuilt' = rebuilt
  BY DEF StrayFrame, SameExchange, exchange, local
<1>2. PICK k \in {"error", "malformed", "unsupported", "ping"} :
        wire' = Append(wire, [kind |-> k])
  BY DEF StrayFrame
<1>3. ~BookFrame([kind |-> k]) /\ FrameOK([kind |-> k], venue, history, pos)
  BY DEF BookFrame, FrameOK
<1>4. FeedInv'
  BY <1>1, <1>2, <1>3, AppendStep
<1> QED
  BY <1>1, <1>4 DEF Moves, Keeps

\* The connection dies and nobody is told.
LEMMA HalfOpenStep == FeedInv /\ HalfOpen => FeedInv' /\ Moves
<1> SUFFICES ASSUME FeedInv, HalfOpen PROVE FeedInv' /\ Moves
  OBVIOUS
<1>1. /\ SameExchange /\ pos' = pos /\ wire' = <<>> /\ ~server'.alive
      /\ book' = book /\ seen' = seen /\ previous' = previous /\ rebuilt' = rebuilt
  BY DEF HalfOpen, Offline, SameExchange, exchange, local
<1>2. FeedInv'
  BY <1>1, OfflineStep
<1> QED
  BY <1>1, <1>2 DEF Moves, Keeps

-----------------------------------------------------------------------------
(* The client's steps.                                                     *)

\* The loop gives the connection up.
LEMMA DisconnectsStep ==
  ASSUME FeedInv, SameExchange, pos' = pos, Disconnects
  PROVE  FeedInv' /\ Moves
<1>1. /\ wire' = <<>> /\ ~server'.alive /\ rebuilt' = FALSE
      /\ book' = None /\ seen' = None /\ previous' = None
  BY DEF Disconnects, Offline
<1>2. FeedInv'
  BY <1>1, OfflineStep
<1> QED
  BY <1>1, <1>2 DEF Moves, Withdraws

\* A frame that is not about the book is received.
LEMMA ReceivedStep ==
  ASSUME FeedInv, SameExchange, pos' = pos, book' = book, seen' = seen, previous' = previous,
         rebuilt' = rebuilt, server' = server, Received,
         Polymarket => Head(wire).kind \notin {"book", "change"}
  PROVE  FeedInv' /\ Moves
<1>1. wire # <<>> /\ wire' = Tail(wire)
  BY DEF Received
<1>2. Head(wire) = wire[1]
  BY <1>1, FeedFacts, FramesTail
<1>3. Polymarket => ~Relevant(wire[1])
  BY <1>2 DEF Relevant
<1>4. FeedInv'
  BY <1>1, <1>3, TailStep
<1> QED
  BY <1>4 DEF Moves, Keeps

\* What Polymarket's connection takes a frame for says what kind it is not.
LEMMA TakenKinds ==
  ASSUME FeedInv, Polymarket, NEW f
  PROVE  /\ Taken(f) # "hello" /\ Taken(f) # "ack"
         /\ Taken(f) \in {"heartbeat", "unsupported"} => f.kind \notin {"book", "change"}
<1>1. Taken(f) = PolymarketFrame(f)
  BY FeedFacts DEF Taken
<1>2. PolymarketFrame(f) \in {"heartbeat", "unsupported", "raises", "data"}
  BY DEF PolymarketFrame
<1>3. f.kind \in {"book", "change"} => PolymarketFrame(f) = "data"
  BY DEF PolymarketFrame
<1> QED
  BY <1>1, <1>2, <1>3

\* The handshake: a frame is what it has to be, or the loop starts over.
LEMMA HandshakeStep ==
  FeedInv /\ (ReceiveHello \/ SubscribeReceives \/ HandshakeTimesOut) => FeedInv' /\ Moves
<1> SUFFICES ASSUME FeedInv, ReceiveHello \/ SubscribeReceives \/ HandshakeTimesOut
             PROVE  FeedInv' /\ Moves
  OBVIOUS
<1>1. SameExchange /\ pos' = pos
  BY DEF ReceiveHello, SubscribeReceives, HandshakeTimesOut, SameExchange, exchange
<1>2. \/ Disconnects
      \/ /\ Received /\ server' = server /\ Taken(Head(wire)) \in {"hello", "ack"}
         /\ book' = book /\ seen' = seen /\ previous' = previous /\ rebuilt' = rebuilt
  BY DEF ReceiveHello, SubscribeReceives, HandshakeTimesOut
<1>3. CASE Disconnects
  BY <1>1, <1>3, DisconnectsStep
<1>4. CASE /\ Received /\ server' = server /\ Taken(Head(wire)) \in {"hello", "ack"}
           /\ book' = book /\ seen' = seen /\ previous' = previous /\ rebuilt' = rebuilt
  <2>1. ~Polymarket
    BY <1>4, TakenKinds
  <2> QED
    BY <1>1, <1>4, <2>1, ReceivedStep
<1> QED
  BY <1>2, <1>3, <1>4

\* Heartbeats and frames of no use.
LEMMA ReceiveOtherStep ==
  FeedInv /\ (ReceiveHeartbeat \/ ReceiveStray \/ HeartbeatMissed) => FeedInv' /\ Moves
<1> SUFFICES ASSUME FeedInv, ReceiveHeartbeat \/ ReceiveStray \/ HeartbeatMissed
             PROVE  FeedInv' /\ Moves
  OBVIOUS
<1>1. SameExchange /\ pos' = pos
  BY DEF ReceiveHeartbeat, ReceiveStray, HeartbeatMissed, SameExchange, exchange
<1>2. \/ Disconnects
      \/ /\ Received /\ server' = server /\ Taken(Head(wire)) \in {"heartbeat", "unsupported"}
         /\ book' = book /\ seen' = seen /\ previous' = previous /\ rebuilt' = rebuilt
  BY DEF ReceiveHeartbeat, ReceiveStray, HeartbeatMissed, local
<1>3. CASE Disconnects
  BY <1>1, <1>3, DisconnectsStep
<1>4. CASE /\ Received /\ server' = server
           /\ Taken(Head(wire)) \in {"heartbeat", "unsupported"}
           /\ book' = book /\ seen' = seen /\ previous' = previous /\ rebuilt' = rebuilt
  <2>1. Polymarket => Head(wire).kind \notin {"book", "change"}
    BY <1>4, TakenKinds
  <2> QED
    BY <1>1, <1>4, <2>1, ReceivedStep
<1> QED
  BY <1>2, <1>3, <1>4

\* A trade is received; the book is left alone, or the connection is given up.
LEMMA ReceiveTradeStep == FeedInv /\ ReceiveTrade => FeedInv' /\ Moves
<1> SUFFICES ASSUME FeedInv, ReceiveTrade PROVE FeedInv' /\ Moves
  OBVIOUS
<1>1. SameExchange /\ pos' = pos /\ Head(wire).kind = "trade"
  BY DEF ReceiveTrade, SameExchange, exchange
<1>2. \/ Disconnects
      \/ /\ Received /\ server' = server
         /\ book' = book /\ seen' = seen /\ previous' = previous /\ rebuilt' = rebuilt
  BY DEF ReceiveTrade, KalshiTradeFrame, PolymarketTradeFrame, local
<1>3. CASE Disconnects
  BY <1>1, <1>3, DisconnectsStep
<1>4. CASE /\ Received /\ server' = server
           /\ book' = book /\ seen' = seen /\ previous' = previous /\ rebuilt' = rebuilt
  BY <1>1, <1>4, ReceivedStep
<1> QED
  BY <1>2, <1>3, <1>4

\* Steps that leave the wire and the book alone.
LEMMA LocalStep ==
  FeedInv /\ (Connect \/ Tick \/ (\E u \in TokenUpdates : UpdateTokensStores(u)) \/ UNCHANGED vars)
    => FeedInv' /\ Moves
<1> SUFFICES ASSUME FeedInv,
                    \/ Connect
                    \/ Tick
                    \/ \E u \in TokenUpdates : UpdateTokensStores(u)
                    \/ UNCHANGED vars
             PROVE  FeedInv' /\ Moves
  OBVIOUS
<1>1. /\ SameExchange /\ pos' = pos /\ wire' = wire
      /\ book' = book /\ seen' = seen /\ previous' = previous /\ rebuilt' = rebuilt
  BY DEF Connect, Tick, UpdateTokensStores, vars, SameExchange, exchange, local
<1>2. server' = server \/ Asset \notin server'.tokens
  BY DEF Connect, Tick, UpdateTokensStores, vars, Offline
<1>3. FeedInv'
  BY <1>1, <1>2, QuietStep
<1> QED
  BY <1>1, <1>3 DEF Moves, Keeps

\* Kalshi's subscribe request.
LEMMA SubscribeSendsStep == FeedInv /\ SubscribeSends => FeedInv' /\ Moves
<1> SUFFICES ASSUME FeedInv, SubscribeSends PROVE FeedInv' /\ Moves
  OBVIOUS
<1>1. /\ Kalshi /\ SameExchange /\ pos' = pos /\ wire' = wire
      /\ book' = book /\ seen' = seen /\ previous' = previous /\ rebuilt' = rebuilt
  BY DEF SubscribeSends, SameExchange, exchange, local
<1>2. FeedInv'
  <2>1. BookOK' /\ pos' \in 0..Len(history.changes) /\ FramesOK(wire', venue, history, pos')
    BY <1>1, SameCounts DEF FeedInv, BookOK, HistoryOK, WireOK
  <2> QED
    BY <1>1, <2>1, KalshiStep
<1> QED
  BY <1>1, <1>2 DEF Moves, Keeps

\* Polymarket's PING.
LEMMA SendHeartbeatStep == FeedInv /\ SendHeartbeat => FeedInv' /\ Moves
<1> SUFFICES ASSUME FeedInv, SendHeartbeat PROVE FeedInv' /\ Moves
  OBVIOUS
<1>1. /\ SameExchange /\ pos' = pos /\ server' = server
      /\ book' = book /\ seen' = seen /\ previous' = previous /\ rebuilt' = rebuilt
      /\ wire' = wire \/ wire' = Append(wire, PongFrame)
  BY DEF SendHeartbeat, SameExchange, exchange, local
<1>2. ~BookFrame(PongFrame) /\ FrameOK(PongFrame, venue, history, pos)
  BY DEF BookFrame, FrameOK, PongFrame
<1>3. FeedInv'
  <2>1. CASE wire' = wire
    BY <1>1, <2>1, QuietStep
  <2>2. CASE wire' = Append(wire, PongFrame)
    BY <1>1, <1>2, <2>2, AppendStep
  <2> QED
    BY <1>1, <2>1, <2>2
<1> QED
  BY <1>1, <1>3 DEF Moves, Keeps

\* A Kalshi order-book frame: its sequence says whether it is the next one.
LEMMA KalshiBookStep ==
  ASSUME FeedInv, Kalshi, SameExchange, pos' = pos, wire # <<>>,
         Head(wire).kind \in {"book", "change"}, KalshiBookFrame(Head(wire))
  PROVE  FeedInv' /\ Moves
<1>1. PICK f : f = Head(wire)
  OBVIOUS
<1> DEFINE m == f.message
           status == OrderBookSequenceStatus(previous, m)
<1>2. /\ FramesOK(Tail(wire), venue, history, pos) /\ pos \in Nat
      /\ f.at \in 0..pos /\ m.sequence \in {f.at, None}
  <2>1. FrameOK(f, venue, history, pos)
    BY <1>1, FeedFacts, FramesTail
  <2> QED
    BY <1>1, <2>1, FeedFacts, FramesTail DEF FrameOK, BookFrame, Kalshi
<1>3. /\ previous = seen /\ (book # None => seen # None) /\ (seen # None => seen \in 0..pos)
      /\ pos \in 0..Len(history.changes)
  BY DEF FeedInv, BookOK, HistoryOK
<1>4. None \notin Int
  BY FeedAssumption
<1>5. \A n \in 0..pos : Made[n] = n
  <2>1. Len(history.changes) \in Nat /\ \A n \in 0..Len(history.changes) : Made[n] = n
    BY MadeCounts DEF FeedInv
  <2> QED
    BY <1>2, <1>3, <2>1
<1>6. status = "ok" => /\ m.sequence = f.at
                       /\ previous # None => f.at = previous + 1
  BY <1>2, <1>3, <1>4 DEF OrderBookSequenceStatus
<1>7. KalshiBookFrame(f)
  BY <1>1
<1>8. CASE Disconnects
  BY <1>8, DisconnectsStep
<1>9. CASE /\ status = "ok" /\ Received /\ Shows(book', f, TRUE) /\ previous' = m.sequence
  <2>1. /\ wire' = Tail(wire) /\ seen' = f.at /\ rebuilt' = TRUE /\ previous' = f.at
    BY <1>6, <1>9 DEF Received, Shows
  <2>2. BookOK' /\ pos' \in 0..Len(history.changes)
    BY <1>2, <1>3, <1>4, <2>1 DEF BookOK
  <2>3. FeedInv'
    BY <1>2, <2>1, <2>2, KalshiStep
  <2>4. Rebuilds
    BY <1>2, <1>3, <1>5, <1>6, <1>9, <2>1 DEF Rebuilds
  <2> QED
    BY <2>3, <2>4 DEF Moves
<1>10. CASE /\ status = "ok" /\ book # None /\ Received
            /\ Shows(book', f, FALSE) /\ previous' = m.sequence
  <2>1. /\ wire' = Tail(wire) /\ seen' = f.at /\ rebuilt' = FALSE /\ previous' = f.at
    BY <1>6, <1>10 DEF Received, Shows
  <2>2. BookOK' /\ pos' \in 0..Len(history.changes)
    BY <1>2, <1>3, <1>4, <2>1 DEF BookOK
  <2>3. FeedInv'
    BY <1>2, <2>1, <2>2, KalshiStep
  <2>4. Follows
    BY <1>2, <1>3, <1>5, <1>6, <1>10, <2>1 DEF Follows
  <2> QED
    BY <2>3, <2>4 DEF Moves
<1>11. CASE Received /\ UNCHANGED local /\ server' = server
  <2>1. /\ book' = book /\ seen' = seen /\ previous' = previous /\ rebuilt' = rebuilt
        /\ ~Polymarket
    BY <1>11, FeedFacts DEF local
  <2> QED
    BY <1>11, <2>1, ReceivedStep
<1>12. CASE /\ Received /\ book' = None /\ previous' = None /\ seen' = None /\ rebuilt' = FALSE
  <2>1. BookOK' /\ pos' \in 0..Len(history.changes) /\ FramesOK(wire', venue, history, pos')
    BY <1>2, <1>3, <1>12 DEF BookOK, Received
  <2>2. FeedInv'
    BY <2>1, KalshiStep
  <2> QED
    BY <1>12, <2>2 DEF Moves, Withdraws
<1>13. \/ Disconnects
       \/ status = "ok" /\ Received /\ Shows(book', f, TRUE) /\ previous' = m.sequence
       \/ /\ status = "ok" /\ book # None /\ Received
          /\ Shows(book', f, FALSE) /\ previous' = m.sequence
       \/ Received /\ UNCHANGED local /\ server' = server
       \/ Received /\ book' = None /\ previous' = None /\ seen' = None /\ rebuilt' = FALSE
  BY <1>7 DEF KalshiBookFrame, Shows
<1> QED
  BY <1>8, <1>9, <1>10, <1>11, <1>12, <1>13

\* A Polymarket book or change is shown: the first relevant frame becomes the book.
LEMMA ShownStep ==
  ASSUME FeedInv, Polymarket, SameExchange, pos' = pos, server' = server, wire # <<>>,
         wire' = Tail(wire), BookFrame(wire[1]), Relevant(wire[1]), seen' = wire[1].at
  PROVE  FeedInv'
<1>1. /\ Made' = Made /\ ~Kalshi' /\ Proper(wire) /\ None \notin Int
      /\ FramesOK(Tail(wire), venue, history, pos) /\ wire[1].at \in 0..pos
  BY SameCounts, FeedFacts, FramesTail, FeedAssumption DEF FrameOK
<1>2. HistoryOK'
  BY DEF FeedInv, HistoryOK, SameExchange
<1>3. WireOK'
  BY <1>1 DEF WireOK, SameExchange
<1>4. BookOK'
  BY <1>1 DEF BookOK
<1>5. /\ Linked(Made, book, seen, wire)
      /\ Ordered(seen, wire)
      /\ server.alive /\ Asset \in server.tokens => Complete(Made, pos, book, seen, wire)
  BY DEF FeedInv, ChainOK
<1>6. PICK b, s : b = book' /\ s = seen'
  OBVIOUS
<1>7. /\ Linked(Made, book, seen, wire) => Linked(Made, b, s, Tail(wire))
      /\ Complete(Made, pos, book, seen, wire) => Complete(Made, pos, b, s, Tail(wire))
  BY <1>1, <1>6, ChainTail
<1>8. Ordered(s, Tail(wire))
  BY <1>1, <1>5, <1>6, OrderedTail
<1>9. ChainOK'
  BY <1>1, <1>5, <1>6, <1>7, <1>8 DEF ChainOK
<1> QED
  BY <1>2, <1>3, <1>4, <1>9 DEF FeedInv

\* A Polymarket book or price_change frame.
LEMMA PolymarketBookStep ==
  ASSUME FeedInv, Polymarket, SameExchange, pos' = pos, wire # <<>>,
         Head(wire).kind \in {"book", "change"}, PolymarketBookFrame(Head(wire))
  PROVE  FeedInv' /\ Moves
<1> DEFINE f == wire[1]
<1>1. /\ Head(wire) = f /\ Proper(wire) /\ f.at \in 0..pos /\ BookFrame(f) /\ pos \in Nat
      /\ Len(wire) \in Nat \ {0}
  BY FeedFacts, FramesTail, ProperTail DEF FrameOK, BookFrame
<1>2. /\ PolymarketBookFrame(f) /\ wire' = Tail(wire) /\ server' = server /\ previous' = previous
  BY <1>1 DEF PolymarketBookFrame, Received
<1>3. /\ Linked(Made, book, seen, wire) /\ Ordered(seen, wire)
      /\ book # None => seen # None
      /\ seen # None => seen \in 0..pos
      /\ pos \in 0..Len(history.changes)
  BY DEF FeedInv, ChainOK, BookOK, HistoryOK
<1>4. \A m, n \in 0..pos : m <= n => Made[m] <= Made[n]
  <2>1. /\ Len(history.changes) \in Nat
        /\ \A m, n \in 0..Len(history.changes) : m <= n => Made[m] <= Made[n]
    BY MadeCounts DEF FeedInv
  <2> QED
    BY <1>1, <1>3, <2>1
<1>5. CASE f.kind = "book" /\ seen' = f.at /\ rebuilt' = TRUE
  <2>1. Relevant(f)
    BY <1>5 DEF Relevant
  <2>2. FeedInv'
    BY <1>1, <1>2, <1>5, <2>1, ShownStep
  <2>3. seen # None => seen <= f.at
    BY <1>1, <1>3 DEF Ordered
  <2>4. Rebuilds
    BY <1>1, <1>3, <1>4, <1>5, <2>3 DEF Rebuilds
  <2> QED
    BY <2>2, <2>4 DEF Moves
<1>6. CASE /\ f.kind = "change" /\ DeltaMaps(f.message, Asset) /\ book # None
           /\ seen' = f.at /\ rebuilt' = FALSE
  <2>1. Relevant(f)
    BY <1>6 DEF Relevant
  <2>2. FeedInv'
    BY <1>1, <1>2, <1>6, <2>1, ShownStep
  <2>3. Made[f.at] = Made[seen] + 1
    <3>1. Rel(book, wire, 0) /\ At(seen, wire, 0) = seen
      BY <1>6 DEF Rel, At
    <3>2. 1 \in 1..Len(wire) /\ 0 \in 0..(1 - 1) /\ \A k : k \notin (0 + 1)..(1 - 1)
      BY <1>1
    <3>3. \/ Made[wire[1].at] = Made[At(seen, wire, 0)] + 1
          \/ \E k \in (0 + 1)..(1 - 1) : Rel(book, wire, k)
      BY <1>3, <1>6, <2>1, <3>1, <3>2 DEF Linked
    <3> QED
      BY <3>1, <3>2, <3>3
  <2>4. Follows
    BY <1>1, <1>3, <1>6, <2>3 DEF Follows
  <2> QED
    BY <2>2, <2>4 DEF Moves
<1>7. CASE /\ f.kind = "change" /\ (~DeltaMaps(f.message, Asset) \/ book = None)
           /\ book' = book /\ seen' = seen /\ rebuilt' = rebuilt
  <2>1. ~Relevant(f) \/ book = None
    BY <1>7 DEF Relevant
  <2>2. FeedInv'
    BY <1>2, <1>7, <2>1, TailStep
  <2> QED
    BY <1>7, <2>2 DEF Moves, Keeps
<1>8. \/ f.kind = "book" /\ seen' = f.at /\ rebuilt' = TRUE
      \/ /\ f.kind = "change" /\ DeltaMaps(f.message, Asset) /\ book # None
         /\ seen' = f.at /\ rebuilt' = FALSE
      \/ /\ f.kind = "change" /\ (~DeltaMaps(f.message, Asset) \/ book = None)
         /\ book' = book /\ seen' = seen /\ rebuilt' = rebuilt
  BY <1>2 DEF PolymarketBookFrame, Shows
<1> QED
  BY <1>5, <1>6, <1>7, <1>8

\* A book frame is received.
LEMMA ReceiveBookFrameStep == FeedInv /\ ReceiveBookFrame => FeedInv' /\ Moves
<1> SUFFICES ASSUME FeedInv, ReceiveBookFrame PROVE FeedInv' /\ Moves
  OBVIOUS
<1>1. /\ SameExchange /\ pos' = pos /\ wire # <<>> /\ Head(wire).kind \in {"book", "change"}
      /\ IF Kalshi THEN KalshiBookFrame(Head(wire)) ELSE PolymarketBookFrame(Head(wire))
  BY DEF ReceiveBookFrame, SameExchange, exchange
<1>2. CASE Kalshi
  BY <1>1, <1>2, KalshiBookStep
<1>3. CASE ~Kalshi
  BY <1>1, <1>3, FeedFacts, PolymarketBookStep
<1> QED
  BY <1>2, <1>3

\* A token asked for anew is answered with its book.
LEMMA AskedStep ==
  ASSUME FeedInv, Polymarket, SameExchange, pos' = pos, book' = book, seen' = seen,
         previous' = previous, NEW asked, server'.alive => server.alive /\ server'.tokens = asked,
         wire' = wire \o BookOfNew(asked)
  PROVE  FeedInv'
<1> DEFINE f == SnapshotFrame(pos)
           new == server.alive /\ Asset \in asked \ server.tokens
<1>1. /\ Made' = Made /\ ~Kalshi /\ ~Kalshi' /\ Proper(wire) /\ pos \in Nat
      /\ FramesOK(wire, venue, history, pos)
  BY SameCounts, FeedFacts
<1>2. /\ f.kind = "book" /\ f.at = pos /\ BookFrame(f) /\ Relevant(f)
      /\ f.message.bids = RawLevels(RawBook(pos).BUY)
      /\ f.message.asks = RawLevels(RawBook(pos).SELL)
  BY <1>1 DEF SnapshotFrame, DataFrame, BookFrame, Relevant
<1>3. wire' = IF new THEN wire \o <<f>> ELSE wire \o <<>>
  BY DEF BookOfNew
<1> HIDE DEF f
<1>4. wire' = IF new THEN Append(wire, f) ELSE wire
  BY <1>1, <1>3, ProperAppend, ProperConcat, ZenonT(60)
<1>5. FrameOK(f, venue, history, pos)
  <2>1. Tells(f, venue, history)
    BY <1>1, <1>2 DEF Tells, RawBook, Kalshi
  <2> QED
    BY <1>1, <1>2, <2>1 DEF FrameOK, Kalshi
<1>6. HistoryOK'
  BY DEF FeedInv, HistoryOK, SameExchange
<1>7. WireOK'
  BY <1>1, <1>4, <1>5, FramesAppend DEF WireOK, SameExchange
<1>8. BookOK'
  BY <1>1 DEF FeedInv, BookOK
<1>9. /\ Linked(Made, book, seen, wire)
      /\ Ordered(seen, wire)
      /\ server.alive /\ Asset \in server.tokens => Complete(Made, pos, book, seen, wire)
  BY DEF FeedInv, ChainOK
<1>10. CASE new
  <2>1. Linked(Made, book, seen, Append(wire, f))
    BY <1>1, <1>2, <1>9, LinkedAppend
  <2>2. Ordered(seen, Append(wire, f))
    <3>1. f.at \in Nat /\ (seen # None => seen <= f.at)
          /\ \A j \in 1..Len(wire) : BookFrame(wire[j]) => wire[j].at <= f.at
      BY <1>1, <1>2, FeedFacts
    <3> QED
      BY <1>1, <1>9, <3>1, OrderedAppend
  <2>3. Complete(Made, pos, book, seen, Append(wire, f))
    BY <1>1, <1>2, CompleteAppend
  <2>4. ChainOK'
    BY <1>1, <1>4, <1>10, <2>1, <2>2, <2>3 DEF ChainOK
  <2> QED
    BY <1>6, <1>7, <1>8, <2>4 DEF FeedInv
<1>11. CASE ~new
  <2>1. ChainOK'
    BY <1>1, <1>4, <1>9, <1>11 DEF ChainOK
  <2> QED
    BY <1>6, <1>7, <1>8, <2>1 DEF FeedInv
<1> QED
  BY <1>10, <1>11

\* Polymarket's subscribe and update_tokens.
LEMMA SubscriptionStep ==
  FeedInv /\ ServerOK /\ (SubscribeTokens \/ \E u \in TokenUpdates : UpdateTokensSends(u))
    => FeedInv' /\ Moves
<1> SUFFICES ASSUME FeedInv, ServerOK,
                    SubscribeTokens \/ \E u \in TokenUpdates : UpdateTokensSends(u)
             PROVE  FeedInv' /\ Moves
  OBVIOUS
<1>1. /\ Polymarket /\ SameExchange /\ pos' = pos
      /\ book' = book /\ seen' = seen /\ previous' = previous /\ rebuilt' = rebuilt
  BY DEF SubscribeTokens, UpdateTokensSends, SameExchange, exchange, local
<1>2. CASE SubscribeTokens
  <2>1. PICK asked : /\ server' = [server EXCEPT !.tokens = IF server.alive THEN asked ELSE {}]
                     /\ wire' = wire \o BookOfNew(asked)
    BY <1>2 DEF SubscribeTokens
  <2>2. server'.alive => server.alive /\ server'.tokens = asked
    BY <2>1 DEF ServerOK
  <2>3. FeedInv'
    BY <1>1, <2>1, <2>2, AskedStep
  <2> QED
    BY <1>1, <2>3 DEF Moves, Keeps
<1>3. CASE \E u \in TokenUpdates : UpdateTokensSends(u)
  <2>1. \/ server' = server /\ wire' = wire
        \/ \E asked : /\ server.alive /\ server' = [server EXCEPT !.tokens = asked]
                      /\ wire' = wire \o BookOfNew(asked)
    BY <1>3 DEF UpdateTokensSends
  <2>2. CASE server' = server /\ wire' = wire
    <3>1. FeedInv'
      BY <1>1, <2>2, QuietStep
    <3> QED
      BY <1>1, <3>1 DEF Moves, Keeps
  <2>3. CASE \E asked : /\ server.alive /\ server' = [server EXCEPT !.tokens = asked]
                        /\ wire' = wire \o BookOfNew(asked)
    <3>1. PICK asked : /\ server.alive /\ server' = [server EXCEPT !.tokens = asked]
                       /\ wire' = wire \o BookOfNew(asked)
      BY <2>3
    <3>2. server'.tokens = asked
      BY <3>1 DEF ServerOK
    <3>3. FeedInv'
      BY <1>1, <3>1, <3>2, AskedStep
    <3> QED
      BY <1>1, <3>3 DEF Moves, Keeps
  <2> QED
    BY <2>1, <2>2, <2>3
<1> QED
  BY <1>2, <1>3

-----------------------------------------------------------------------------
(* The theorems.                                                           *)

\* The exchange's end of the connection keeps its fields.
LEMMA ServerNext == ServerOK /\ [Next]_vars => ServerOK'
<1> SUFFICES ASSUME ServerOK, [Next]_vars PROVE ServerOK'
  OBVIOUS
<1>1. \/ server' = server
      \/ server' = Offline
      \/ server' = [Offline EXCEPT !.alive = TRUE]
      \/ server' = [server EXCEPT !.greeted = TRUE]
      \/ server' = [server EXCEPT !.subscribed = TRUE, !.pending = None]
      \/ \E r : server' = [server EXCEPT !.pending = r]
      \/ \E a : server' = [server EXCEPT !.tokens = a]
  <2>1. CASE Exchange
    BY <2>1 DEF Exchange, ExchangeChanges, ExchangeGreets, ExchangeAcknowledges,
                ExchangePings, ExchangeTrades
  <2>2. CASE Faults
    BY <2>2 DEF Faults, ChangeIsLost, FrameIsRepeated, SequenceIsMissing, StrayFrame, HalfOpen
  <2>3. CASE ReceiveHello \/ SubscribeReceives \/ ReceiveHeartbeat \/ ReceiveStray
    BY <2>3 DEF ReceiveHello, SubscribeReceives, ReceiveHeartbeat, ReceiveStray, Disconnects
  <2>4. CASE ReceiveTrade
    BY <2>4 DEF ReceiveTrade, KalshiTradeFrame, PolymarketTradeFrame, Disconnects
  <2>5. CASE ReceiveBookFrame
    BY <2>5 DEF ReceiveBookFrame, KalshiBookFrame, PolymarketBookFrame, Disconnects
  <2>6. CASE Client
    BY <2>6 DEF Client, Connect, SubscribeSends, HandshakeTimesOut, HeartbeatMissed,
                SubscribeTokens, SendHeartbeat, Disconnects
  <2>7. CASE Updates
    BY <2>7 DEF Updates, UpdateTokensSends, UpdateTokensStores
  <2>8. CASE Tick \/ UNCHANGED vars
    BY <2>8 DEF Tick, vars
  <2> QED
    BY <2>1, <2>2, <2>3, <2>4, <2>5, <2>6, <2>7, <2>8 DEF Next, Receives
<1> QED
  BY <1>1 DEF ServerOK, Offline

\* The invariant holds at the start.
LEMMA FeedInit == Init => FeedInv /\ ServerOK
<1> SUFFICES ASSUME Init PROVE FeedInv /\ ServerOK
  OBVIOUS
<1>1. HistoryOK
  BY HistoriesAssumption DEF Init, HistoryOK, IsSequence
<1>2. WireOK
  BY FramesEmpty DEF Init, WireOK
<1>3. BookOK /\ ServerOK
  BY DEF Init, BookOK, ServerOK, Offline
<1>4. ChainOK
  <2>1. Linked(Made, book, seen, <<>>) /\ Ordered(seen, <<>>)
    BY ProperEmpty DEF Linked, Ordered
  <2> QED
    BY <2>1 DEF Init, ChainOK, Offline
<1> QED
  BY <1>1, <1>2, <1>3, <1>4 DEF FeedInv

\* Every step keeps the invariant, and is a step of one of the five kinds.
LEMMA FeedNext == FeedInv /\ ServerOK /\ [Next]_vars => FeedInv' /\ Moves
<1> SUFFICES ASSUME FeedInv, ServerOK, [Next]_vars PROVE FeedInv' /\ Moves
  OBVIOUS
<1>1. CASE Exchange
  BY <1>1, ExchangeChangesStep, GreetingStep, ExchangeAcknowledgesStep, ExchangeTradesStep
     DEF Exchange
<1>2. CASE Faults
  BY <1>2, KalshiFaultStep, StrayFrameStep, HalfOpenStep DEF Faults
<1>3. CASE Receives
  BY <1>3, HandshakeStep, ReceiveOtherStep, ReceiveTradeStep, ReceiveBookFrameStep DEF Receives
<1>4. CASE Client
  BY <1>4, LocalStep, SubscribeSendsStep, HandshakeStep, ReceiveOtherStep, SubscriptionStep,
     SendHeartbeatStep DEF Client
<1>5. CASE Updates
  BY <1>5, LocalStep, SubscriptionStep DEF Updates
<1>6. CASE Tick \/ UNCHANGED vars
  BY <1>6, LocalStep
<1> QED
  BY <1>1, <1>2, <1>3, <1>4, <1>5, <1>6 DEF Next

\* The invariant of every behaviour.
LEMMA FeedInductive == Spec => [](FeedInv /\ ServerOK)
<1>1. Init => FeedInv /\ ServerOK
  BY FeedInit
<1>2. FeedInv /\ ServerOK /\ [Next]_vars => (FeedInv /\ ServerOK)'
  BY FeedNext, ServerNext
<1> QED
  BY <1>1, <1>2, PTL DEF Spec

\* The feed is a replica of the exchange's book, whatever the exchange does to
\* its book, however many frames are lost, repeated or stripped of their
\* sequence, and however often the connection breaks or the subscription
\* changes: what it shows follows the exchange one change at a time, or is a
\* snapshot that is not older than what was shown, or is nothing.
THEOREM FeedIsAReplica == Spec => ImplementsReplica
<1>1. Init => Replica!Init
  <2> SUFFICES ASSUME Init PROVE Replica!Init
    OBVIOUS
  <2>1. HistoryOK /\ BookOK
    BY FeedInit DEF FeedInv
  <2>2. Touching(pos) = 0
    BY <2>1, ShownCounts, MadeCounts DEF Init
  <2> QED
    BY <2>2 DEF Init, Replica!Init
<1>2. FeedInv /\ ServerOK /\ [Next]_vars => [Replica!Next]_(Replica!vars)
  BY FeedNext, MovesReplicate
<1>3. Spec => [](FeedInv /\ ServerOK)
  BY FeedInductive
<1> QED
  BY <1>1, <1>2, <1>3, PTL DEF Spec, ImplementsReplica, Replica!Spec

\* A trade that a Kalshi frame carries is mapped to what the exchange traded,
\* from either of its prices.
LEMMA KalshiTradeMirrors ==
  ASSUME NEW t, t.yes \in Int, NEW m \in KalshiRawTrades(t), TradeOk(m), TakerSideKnown(m),
         NEW o \in {"yes", "no"}
  PROVE  LET c == map_kalshi_trade(m, o)
         IN  /\ c.price = IF c.outcome = "yes" THEN t.yes ELSE CentsPerContract - t.yes
             /\ c.aggressor = IF t.taker = None THEN None
                              ELSE IF t.taker = c.outcome THEN "BUY" ELSE "SELL"
<1>1. /\ m.yes_price \in {None, t.yes} /\ m.no_price \in {None, CentsPerContract - t.yes}
      /\ m.taker_side = t.taker
  BY FeedAssumption DEF KalshiRawTrades, TakerSideKnown
<1>2. None \notin Int /\ CentsPerContract \in Int
  BY FeedAssumption DEF CentsPerContract
<1>3. TradePrice(m, o) = IF o = "yes" THEN t.yes ELSE CentsPerContract - t.yes
  BY <1>1, <1>2 DEF TradePrice, TradeOk
<1>4. TradeAggressor(m, o) = IF t.taker = None THEN None
                             ELSE IF t.taker = o THEN "BUY" ELSE "SELL"
  BY <1>1 DEF TradeAggressor
<1> QED
  BY <1>3, <1>4 DEF map_kalshi_trade

\* A trade that a Polymarket frame carries with a size and a time is mapped to
\* what the exchange traded.
LEMMA PolymarketTradeMirrors ==
  ASSUME NEW t, NEW m \in PolymarketRawTrades(t), PolymarketTradeMaps(m, Asset)
  PROVE  LET c == map_polymarket_trade(m)
         IN  /\ c.price = t.price /\ c.quantity = t.size /\ c.aggressor = t.side
             /\ c.occurred_at = t.time
<1>1. /\ m.price = t.price /\ m.side = t.side /\ m.size \in {None, t.size}
      /\ m.timestamp \in {None, t.time} /\ m.match_time \in {None, t.time}
      /\ m.last_update \in {None, t.time}
  BY DEF PolymarketRawTrades
<1>2. PolymarketTradeTime(m) \in {None, t.time}
  BY <1>1 DEF PolymarketTradeTime
<1> QED
  BY <1>1, <1>2 DEF PolymarketTradeMaps, map_polymarket_trade

\* The last canonical trade is one of the exchange's, as the exchange traded it.
THEOREM TradesAreTheExchanges == Spec => []TradesMirror
<1>1. Init => TradesMirror
  BY DEF Init, TradesMirror
<1>2. FeedInv /\ TradesMirror /\ [Next]_vars => TradesMirror'
  <2> SUFFICES ASSUME FeedInv, TradesMirror, [Next]_vars PROVE TradesMirror'
    OBVIOUS
  <2>1. CASE trade' = trade /\ venue' = venue
    BY <2>1 DEF TradesMirror, Kalshi
  <2>2. CASE ReceiveTrade
    <3>1. venue' = venue /\ wire # <<>>
      BY <2>2 DEF ReceiveTrade, exchange
    <3>2. PICK f : f = Head(wire)
      OBVIOUS
    <3>3. /\ f.truth \in history.trades
          /\ f.message \in IF Kalshi THEN KalshiRawTrades(f.truth)
                           ELSE PolymarketRawTrades(f.truth)
      <4>1. FrameOK(f, venue, history, pos) /\ f.kind = "trade"
        BY <2>2, <3>1, <3>2, FeedFacts, FramesTail DEF ReceiveTrade
      <4> QED
        BY <4>1 DEF FrameOK, Kalshi
    <3>4. CASE Kalshi
      <4>1. KalshiTradeFrame(f)
        BY <2>2, <3>2, <3>4 DEF ReceiveTrade
      <4>2. f.truth.yes \in Int
        BY <3>3, <3>4, HistoriesAssumption DEF FeedInv, HistoryOK, Kalshi
      <4>3. CASE trade' = trade
        BY <2>1, <3>1, <4>3
      <4>4. CASE TradeOk(f.message) /\ TakerSideKnown(f.message) /\ \E o \in {"yes", "no"} :
              trade' = [truth |-> f.truth, mapped |-> map_kalshi_trade(f.message, o)]
        <5>1. PICK o \in {"yes", "no"} :
                trade' = [truth |-> f.truth, mapped |-> map_kalshi_trade(f.message, o)]
          BY <4>4
        <5>2. PICK c : c = map_kalshi_trade(f.message, o)
          OBVIOUS
        <5>3. /\ c.price = IF c.outcome = "yes" THEN f.truth.yes
                           ELSE CentsPerContract - f.truth.yes
              /\ c.aggressor = IF f.truth.taker = None THEN None
                               ELSE IF f.truth.taker = c.outcome THEN "BUY" ELSE "SELL"
          BY <3>3, <3>4, <4>2, <4>4, <5>2, KalshiTradeMirrors
        <5>4. trade'.truth = f.truth /\ trade'.mapped = c /\ Kalshi'
          BY <3>1, <3>4, <5>1, <5>2 DEF Kalshi
        <5> QED
          BY <5>3, <5>4 DEF TradesMirror
      <4> QED
        BY <4>1, <4>3, <4>4 DEF KalshiTradeFrame
    <3>5. CASE ~Kalshi
      <4>1. PolymarketTradeFrame(f)
        BY <2>2, <3>2, <3>5 DEF ReceiveTrade
      <4>2. CASE trade' = trade
        BY <2>1, <3>1, <4>2
      <4>3. CASE /\ PolymarketTradeMaps(f.message, Asset)
                 /\ trade' = [truth |-> f.truth, mapped |-> map_polymarket_trade(f.message)]
        <5>1. PICK c : c = map_polymarket_trade(f.message)
          OBVIOUS
        <5>2. /\ c.price = f.truth.price /\ c.quantity = f.truth.size
              /\ c.aggressor = f.truth.side /\ c.occurred_at = f.truth.time
          BY <3>3, <3>5, <4>3, <5>1, PolymarketTradeMirrors
        <5>3. trade'.truth = f.truth /\ trade'.mapped = c /\ ~Kalshi'
          BY <3>1, <3>5, <4>3, <5>1 DEF Kalshi
        <5> QED
          BY <5>2, <5>3 DEF TradesMirror
      <4> QED
        BY <4>1, <4>2, <4>3 DEF PolymarketTradeFrame
    <3> QED
      BY <3>4, <3>5
  <2>3. ReceiveTrade \/ (trade' = trade /\ venue' = venue)
    <3>1. CASE Exchange
      BY <3>1 DEF Exchange, ExchangeChanges, ExchangeGreets, ExchangeAcknowledges,
                  ExchangePings, ExchangeTrades, exchange
    <3>2. CASE Faults
      BY <3>2 DEF Faults, ChangeIsLost, FrameIsRepeated, SequenceIsMissing, StrayFrame,
                  HalfOpen, exchange
    <3>3. CASE Receives
      BY <3>3 DEF Receives, ReceiveHello, SubscribeReceives, ReceiveHeartbeat, ReceiveStray,
                  ReceiveBookFrame, exchange
    <3>4. CASE Client
      BY <3>4 DEF Client, Connect, SubscribeSends, HandshakeTimesOut, HeartbeatMissed,
                  SubscribeTokens, SendHeartbeat, exchange
    <3>5. CASE Updates
      BY <3>5 DEF Updates, UpdateTokensSends, UpdateTokensStores, exchange
    <3>6. CASE Tick \/ UNCHANGED vars
      BY <3>6 DEF Tick, vars, exchange
    <3> QED
      BY <3>1, <3>2, <3>3, <3>4, <3>5, <3>6 DEF Next
  <2> QED
    BY <2>1, <2>2, <2>3
<1>3. Spec => [](FeedInv /\ ServerOK)
  BY FeedInductive
<1> QED
  BY <1>1, <1>2, <1>3, PTL DEF Spec

\* Steps that touch no subscription: what the loop recorded stays as it was, and
\* so does the exchange's end, unless the stream is over.
LEMMA TokensQuiet ==
  ASSUME TokensInv, venue' = venue, tokens' = tokens, updates' = updates, mixed' = mixed,
         \/ ~Polymarket
         \/ phase' # "stream"
         \/ ~server'.alive
         \/ server' = server /\ phase' = phase
  PROVE  TokensInv'
BY DEF TokensInv, Sent, Polymarket

\* The tokens update_tokens() recorded are those the exchange was asked for,
\* when no call is under way, although calls fail and connections break, unless
\* calls overlapped or one was under way across a reconnect.
THEOREM SubscriptionIsTheExchanges == Spec => []SubscriptionsAgree
<1>1. Init => TokensInv
  BY DEF Init, TokensInv
<1>2. TokensInv /\ FeedInv /\ ServerOK /\ [Next]_vars => TokensInv'
  <2> SUFFICES ASSUME TokensInv, FeedInv, ServerOK, [Next]_vars PROVE TokensInv'
    OBVIOUS
  <2>0. Kalshi => ~Polymarket
    BY FeedFacts
  <2>1. CASE Exchange
    <3>1. /\ venue' = venue /\ tokens' = tokens /\ updates' = updates /\ mixed' = mixed
          /\ ~Polymarket \/ (server' = server /\ phase' = phase)
      BY <2>0, <2>1 DEF Exchange, ExchangeChanges, ExchangeGreets, ExchangeAcknowledges,
         ExchangePings, ExchangeTrades, exchange, local, token
    <3> QED
      BY <3>1, TokensQuiet
  <2>2. CASE Faults
    <3>1. /\ venue' = venue /\ tokens' = tokens /\ updates' = updates /\ mixed' = mixed
          /\ ~server'.alive \/ (server' = server /\ phase' = phase)
      BY <2>2 DEF Faults, ChangeIsLost, FrameIsRepeated, SequenceIsMissing, StrayFrame,
         HalfOpen, Offline, exchange, local, token
    <3> QED
      BY <3>1, TokensQuiet
  <2>3. CASE Receives
    <3>1. venue' = venue /\ tokens' = tokens /\ updates' = updates /\ mixed' = mixed
      BY <2>3 DEF Receives, ReceiveHello, SubscribeReceives, ReceiveHeartbeat, ReceiveStray,
         ReceiveTrade, ReceiveBookFrame, exchange, token
    <3>2. CASE ReceiveHello \/ ReceiveHeartbeat \/ ReceiveStray
      <4>1. phase' # "stream" \/ (server' = server /\ phase' = phase)
        BY <3>2 DEF ReceiveHello, ReceiveHeartbeat, ReceiveStray, Disconnects, local
      <4> QED
        BY <3>1, <4>1, TokensQuiet
    <3>3. CASE SubscribeReceives
      <4>1. phase' # "stream" \/ Taken(Head(wire)) = "ack"
        BY <3>3 DEF SubscribeReceives, Disconnects
      <4>2. phase' # "stream" \/ ~Polymarket
        BY <4>1, TakenKinds
      <4> QED
        BY <3>1, <4>2, TokensQuiet
    <3>4. CASE ReceiveTrade
      <4>1. phase' # "stream" \/ (server' = server /\ phase' = phase)
        BY <3>4 DEF ReceiveTrade, KalshiTradeFrame, PolymarketTradeFrame, Disconnects, local
      <4> QED
        BY <3>1, <4>1, TokensQuiet
    <3>5. CASE ReceiveBookFrame
      <4>1. ~Polymarket \/ (server' = server /\ phase' = phase)
        BY <2>0, <3>5 DEF ReceiveBookFrame, PolymarketBookFrame
      <4> QED
        BY <3>1, <4>1, TokensQuiet
    <3> QED
      BY <2>3, <3>2, <3>3, <3>4, <3>5 DEF Receives
  <2>4. CASE Connect \/ SubscribeSends \/ HandshakeTimesOut \/ HeartbeatMissed \/ SendHeartbeat
    <3>1. /\ venue' = venue /\ tokens' = tokens /\ updates' = updates /\ mixed' = mixed
          /\ phase' # "stream" \/ (server' = server /\ phase' = phase)
      BY <2>4 DEF Connect, SubscribeSends, HandshakeTimesOut, HeartbeatMissed, SendHeartbeat,
         Disconnects, exchange, local, token
    <3> QED
      BY <3>1, TokensQuiet
  <2>5. CASE SubscribeTokens
    <3>1. PICK asked : /\ tokens' = asked
                       /\ server' = [server EXCEPT !.tokens = IF server.alive THEN asked ELSE {}]
      BY <2>5 DEF SubscribeTokens
    <3>2. server'.alive => server'.tokens = tokens'
      BY <3>1 DEF ServerOK
    <3>3. updates' = updates /\ (mixed' <=> Sent # {})
      BY <2>5 DEF SubscribeTokens, Sent
    <3> QED
      BY <3>2, <3>3 DEF TokensInv, Sent
  <2>6. ASSUME NEW u \in TokenUpdates, UpdateTokensSends(u) PROVE TokensInv'
    <3>1. /\ venue' = venue /\ phase' = phase /\ tokens' = tokens
          /\ updates[u].state = "none"
      BY <2>6 DEF UpdateTokensSends, exchange, local
    <3>2. CASE /\ updates' = [updates EXCEPT ![u] =
                    [state |-> "sent", result |-> apply_update(tokens, UpdatePlan[u])]]
               /\ mixed' = (mixed \/ \E v \in TokenUpdates : updates[v].state = "sent")
               /\ server' = IF server.alive
                            THEN [server EXCEPT !.tokens =
                                    apply_update(server.tokens, UpdatePlan[u])]
                            ELSE server
      <4>1. /\ updates'[u].state = "sent"
            /\ updates'[u].result = apply_update(tokens, UpdatePlan[u])
            /\ \A v \in TokenUpdates : v # u => updates'[v] = updates[v]
            /\ updates' = [v \in TokenUpdates |-> updates'[v]]
        BY <3>2 DEF TokensInv
      <4>2. Sent' = Sent \cup {u}
        BY <4>1 DEF Sent
      <4>3. /\ server'.alive => server.alive
            /\ server'.alive => server'.tokens = apply_update(server.tokens, UpdatePlan[u])
        BY <3>2 DEF ServerOK
      <4>4. ASSUME Polymarket', phase' = "stream", server'.alive, ~mixed'
            PROVE  /\ Sent' = {u}
                   /\ updates'[u].result = server'.tokens
        <5>1. Sent = {} /\ ~mixed
          BY <3>2, <4>4 DEF Sent
        <5>2. tokens = server.tokens
          BY <3>1, <4>3, <4>4, <5>1 DEF TokensInv, Polymarket
        <5> QED
          BY <4>1, <4>2, <4>3, <4>4, <5>1, <5>2
      <4> QED
        BY <4>1, <4>4 DEF TokensInv
    <3>3. CASE /\ updates' = [updates EXCEPT ![u] =
                    [state |-> "failed", result |-> apply_update(tokens, UpdatePlan[u])]]
               /\ server' = server /\ mixed' = mixed
      <4>1. /\ updates'[u].state = "failed"
            /\ \A v \in TokenUpdates : v # u => updates'[v] = updates[v]
            /\ updates' = [v \in TokenUpdates |-> updates'[v]]
        BY <3>3 DEF TokensInv
      <4>2. Sent' = Sent /\ \A v \in Sent : updates'[v] = updates[v]
        BY <3>1, <4>1 DEF Sent
      <4> QED
        BY <3>1, <3>3, <4>1, <4>2 DEF TokensInv, Polymarket
    <3>4. \/ /\ updates' = [updates EXCEPT ![u] =
                  [state |-> "sent", result |-> apply_update(tokens, UpdatePlan[u])]]
             /\ mixed' = (mixed \/ \E v \in TokenUpdates : updates[v].state = "sent")
             /\ server' = IF server.alive
                          THEN [server EXCEPT !.tokens =
                                  apply_update(server.tokens, UpdatePlan[u])]
                          ELSE server
          \/ /\ updates' = [updates EXCEPT ![u] =
                  [state |-> "failed", result |-> apply_update(tokens, UpdatePlan[u])]]
             /\ server' = server /\ mixed' = mixed
      BY <2>6 DEF UpdateTokensSends
    <3> QED
      BY <3>2, <3>3, <3>4
  <2>7. ASSUME NEW u \in TokenUpdates, UpdateTokensStores(u) PROVE TokensInv'
    <3>1. /\ venue' = venue /\ phase' = phase /\ server' = server /\ mixed' = mixed
          /\ updates[u].state = "sent" /\ tokens' = updates[u].result
          /\ updates' = [updates EXCEPT ![u] = [state |-> "done", result |-> {}]]
      BY <2>7 DEF UpdateTokensStores, exchange, local
    <3>2. /\ updates'[u].state = "done"
          /\ \A v \in TokenUpdates : v # u => updates'[v] = updates[v]
          /\ updates' = [v \in TokenUpdates |-> updates'[v]]
      BY <3>1 DEF TokensInv
    <3>3. u \in Sent /\ Sent' = Sent \ {u}
      BY <3>1, <3>2 DEF Sent
    <3>4. ASSUME Polymarket', phase' = "stream", server'.alive, ~mixed'
          PROVE  Sent' = {} /\ tokens' = server'.tokens
      BY <3>1, <3>3, <3>4 DEF TokensInv, Polymarket
    <3> QED
      BY <3>2, <3>4 DEF TokensInv
  <2>8. CASE Tick \/ UNCHANGED vars
    <3>1. /\ venue' = venue /\ tokens' = tokens /\ updates' = updates /\ mixed' = mixed
          /\ server' = server /\ phase' = phase
      BY <2>8 DEF Tick, vars, exchange, local, token
    <3> QED
      BY <3>1, TokensQuiet
  <2> QED
    BY <2>1, <2>2, <2>3, <2>4, <2>5, <2>6, <2>7, <2>8 DEF Next, Client, Updates
<1>3. TokensInv => SubscriptionsAgree
  BY DEF TokensInv, SubscriptionsAgree, Sent
<1>4. Spec => [](FeedInv /\ ServerOK)
  BY FeedInductive
<1> QED
  BY <1>1, <1>2, <1>3, <1>4, PTL DEF Spec

-----------------------------------------------------------------------------
(* Lists of levels.                                                        *)

\* The numbers of a finite set, from the smallest up: all of them.
LEMMA AscendingOrder ==
  ASSUME NEW S \in SUBSET Int, IsFiniteSet(S)
  PROVE  /\ Cardinality(S) \in Nat
         /\ Ascending(S) \in [1..Cardinality(S) -> S]
         /\ \A m, n \in 1..Cardinality(S) : m < n => Ascending(S)[m] < Ascending(S)[n]
         /\ \A x \in S : \E n \in 1..Cardinality(S) : Ascending(S)[n] = x
<1> DEFINE k == Cardinality(S)
           B(x) == {y \in S : y < x}
           rank == [x \in S |-> Cardinality(B(x)) + 1]
<1>0. \A x \in S : x \in Int
  OBVIOUS
<1>1. k \in Nat
  BY FS_CardinalityType
<1>2. ASSUME NEW x \in S PROVE Cardinality(B(x)) \in 0..(k - 1) /\ IsFiniteSet(B(x))
  <2>1. B(x) \in SUBSET S /\ B(x) # S
    OBVIOUS
  <2> HIDE DEF B
  <2>2. IsFiniteSet(B(x)) /\ Cardinality(B(x)) <= k /\ Cardinality(B(x)) # k
    BY <2>1, FS_Subset
  <2>3. Cardinality(B(x)) \in Nat
    BY <2>2, FS_CardinalityType
  <2> QED
    BY <1>1, <2>2, <2>3
<1>3. ASSUME NEW x \in S, NEW y \in S, x < y PROVE rank[x] < rank[y]
  <2>1. B(x) \in SUBSET B(y) /\ x \in B(y) /\ x \notin B(x)
    <3>1. x \in Int /\ y \in Int /\ x < y
      BY <1>0, <1>3
    <3>2. \A z \in S : z < x => z < y
      <4> TAKE z \in S
      <4>1. z \in Int
        BY <1>0
      <4> QED
        BY <3>1, <4>1
    <3>3. \A z \in B(x) : z \in B(y)
      BY <3>2
    <3>4. x \in B(y) /\ x \notin B(x)
      BY <3>1
    <3> QED
      BY <3>3, <3>4
  <2>2. B(x) # B(y)
    BY <2>1
  <2>3. Cardinality(B(x)) <= Cardinality(B(y)) /\ Cardinality(B(x)) # Cardinality(B(y))
    <3> HIDE DEF B
    <3> QED
      BY <1>2, <2>1, <2>2, FS_Subset
  <2>4. Cardinality(B(x)) \in Nat /\ Cardinality(B(y)) \in Nat
    BY <1>2
  <2> HIDE DEF B
  <2> QED
    BY <2>3, <2>4
<1>4. rank \in [S -> 1..k]
  <2> HIDE DEF B
  <2>1. \A x \in S : Cardinality(B(x)) + 1 \in 1..k
    BY <1>1, <1>2
  <2> QED
    BY <2>1
<1> HIDE DEF rank, B
<1>5. \A x, y \in S : rank[x] = rank[y] => x = y
  <2> TAKE x, y \in S
  <2>1. rank[x] \in Int /\ rank[y] \in Int /\ x \in Int /\ y \in Int
    BY <1>1, <1>4
  <2> QED
    BY <1>3, <2>1
<1>6. rank \in Injection(S, 1..k)
  BY <1>4, <1>5 DEF Injection, IsInjective
<1>7. rank \in Surjection(S, 1..k)
  <2>1. IsFiniteSet(1..k) /\ Cardinality(1..k) = k
    <3>1. 1 \in Int /\ k \in Int
      BY <1>1
    <3>2. IsFiniteSet(1..k) /\ Cardinality(1..k) = IF 1 > k THEN 0 ELSE k - 1 + 1
      BY <3>1, FS_Interval
    <3> QED
      BY <1>1, <3>2
  <2> QED
    BY <1>6, <2>1, FS_Injection
<1> DEFINE f == [n \in 1..k |-> CHOOSE x \in S : rank[x] = n]
<1>8. \A n \in 1..k : f[n] \in S /\ rank[f[n]] = n
  BY <1>7 DEF Surjection
<1>9. f \in [1..k -> S]
  BY <1>8
<1>10. \A m, n \in 1..k : m < n => f[m] < f[n]
  <2> TAKE m, n \in 1..k
  <2> HAVE m < n
  <2>1. f[m] \in S /\ f[n] \in S /\ rank[f[m]] = m /\ rank[f[n]] = n
    BY <1>8
  <2> HIDE DEF f
  <2>2. ~(f[n] < f[m]) /\ f[n] # f[m]
    <3>1. f[m] \in S /\ f[n] \in S
      BY <2>1
    <3>2. f[n] < f[m] => n < m
      BY <1>3, <2>1, <3>1
    <3>3. f[n] = f[m] => n = m
      BY <2>1
    <3>4. m \in Int /\ n \in Int
      OBVIOUS
    <3> QED
      BY <3>2, <3>3, <3>4
  <2>3. f[m] \in Int /\ f[n] \in Int
    BY <1>0, <2>1
  <2> QED
    BY <2>2, <2>3
<1> DEFINE Up(s) == \A m, n \in DOMAIN s : m < n => s[m] < s[n]
<1>11. Ascending(S) \in [1..k -> S] /\ Up(Ascending(S))
  <2>1. Up(f)
    BY <1>9, <1>10
  <2> HIDE DEF f
  <2> QED
    BY <1>9, <2>1 DEF Ascending
<1> DEFINE a == Ascending(S)
<1>12. \A m, n \in 1..k : m < n => a[m] < a[n]
  BY <1>11
<1> HIDE DEF a
<1>13. a \in [1..k -> S]
  BY <1>11 DEF a
<1>14. a \in Injection(1..k, S)
  <2>1. \A m, n \in 1..k : a[m] = a[n] => m = n
    <3> TAKE m, n \in 1..k
    <3>1. a[m] \in S /\ a[n] \in S /\ m \in Int /\ n \in Int
      BY <1>13
    <3>2. a[m] \in Int /\ a[n] \in Int
      BY <1>0, <3>1
    <3> QED
      BY <1>12, <3>1, <3>2
  <2> QED
    BY <1>13, <2>1 DEF Injection, IsInjective
<1>15. a \in Surjection(1..k, S)
  <2>1. Cardinality(1..k) = k
    <3>1. 1 \in Int /\ k \in Int
      BY <1>1
    <3>2. Cardinality(1..k) = IF 1 > k THEN 0 ELSE k - 1 + 1
      BY <3>1, FS_Interval
    <3> QED
      BY <1>1, <3>2
  <2> QED
    BY <1>14, <2>1, FS_Injection
<1> QED
  BY <1>1, <1>12, <1>13, <1>15 DEF a, Surjection

\* levels lists the quantities f by price, from the highest or the lowest price on.
Lists(levels, f, reverse) ==
  /\ Proper(levels)
  /\ Levels(levels) = {[price |-> p, quantity |-> f[p]] : p \in DOMAIN f}
  /\ \A i, j \in DOMAIN levels : i < j =>
       IF reverse THEN levels[i].price > levels[j].price ELSE levels[i].price < levels[j].price

\* A level of a list, and a price on it.
LEMMA ListedLevel ==
  ASSUME NEW levels, NEW f, NEW r \in BOOLEAN, IsRawSide(f), Lists(levels, f, r)
  PROVE  /\ \A i \in DOMAIN levels :
              /\ levels[i].price \in DOMAIN f /\ levels[i].price \in Int
              /\ levels[i] = [price |-> levels[i].price, quantity |-> f[levels[i].price]]
         /\ \A p \in DOMAIN f : \E i \in DOMAIN levels :
              levels[i] = [price |-> p, quantity |-> f[p]]
         /\ \A i, j \in DOMAIN levels : levels[i].price = levels[j].price => i = j
<1>1. ASSUME NEW i \in DOMAIN levels
      PROVE  /\ levels[i].price \in DOMAIN f /\ levels[i].price \in Int
             /\ levels[i] = [price |-> levels[i].price, quantity |-> f[levels[i].price]]
  <2>1. levels[i] \in {[price |-> p, quantity |-> f[p]] : p \in DOMAIN f}
    BY DEF Lists, Levels
  <2>2. PICK p \in DOMAIN f : levels[i] = [price |-> p, quantity |-> f[p]]
    BY <2>1
  <2>3. levels[i].price = p /\ p \in Int
    BY <2>2 DEF IsRawSide
  <2> QED
    BY <2>2, <2>3
<1>2. ASSUME NEW p \in DOMAIN f
      PROVE  \E i \in DOMAIN levels : levels[i] = [price |-> p, quantity |-> f[p]]
  <2>1. [price |-> p, quantity |-> f[p]] \in Levels(levels)
    BY DEF Lists
  <2> QED
    BY <2>1 DEF Levels
<1>3. ASSUME NEW i \in DOMAIN levels, NEW j \in DOMAIN levels,
             levels[i].price = levels[j].price
      PROVE  i = j
  <2>1. i \in Int /\ j \in Int
    BY DEF Lists, Proper
  <2>2. levels[i].price \in Int /\ levels[j].price \in Int
    BY <1>1
  <2>3. ~(i < j) /\ ~(j < i)
    BY <1>3, <2>2 DEF Lists
  <2> QED
    BY <2>1, <2>3
<1> QED
  BY <1>1, <1>2, <1>3

\* The dictionary by price that apply_order_book_delta makes of a list is the one it lists.
LEMMA ListedByPrice ==
  ASSUME NEW levels, NEW f, NEW r \in BOOLEAN, IsRawSide(f), Lists(levels, f, r)
  PROVE  LevelsByPrice(levels) = f
<1> DEFINE P == {levels[i].price : i \in DOMAIN levels}
           at(p) == CHOOSE i \in DOMAIN levels : levels[i].price = p
<1>1. P = DOMAIN f
  <2>1. \A p \in P : p \in DOMAIN f
    BY ListedLevel
  <2>2. ASSUME NEW p \in DOMAIN f PROVE p \in P
    <3>1. PICK i \in DOMAIN levels : levels[i] = [price |-> p, quantity |-> f[p]]
      BY ListedLevel
    <3> QED
      BY <3>1
  <2> QED
    BY <2>1, <2>2
<1>2. ASSUME NEW p \in DOMAIN f PROVE levels[at(p)].quantity = f[p]
  <2>1. at(p) \in DOMAIN levels /\ levels[at(p)].price = p
    BY <1>1
  <2> HIDE DEF at
  <2>2. levels[at(p)] = [price |-> p, quantity |-> f[p]]
    BY <2>1, ListedLevel
  <2> QED
    BY <2>2
<1>3. LevelsByPrice(levels) = [p \in P |-> levels[at(p)].quantity]
  BY DEF LevelsByPrice
<1>4. f = [p \in DOMAIN f |-> f[p]]
  BY DEF IsRawSide
<1> HIDE DEF P, at
<1>5. [p \in P |-> levels[at(p)].quantity] = [p \in DOMAIN f |-> f[p]]
  BY <1>1, <1>2
<1> QED
  BY <1>3, <1>4, <1>5

\* A dictionary by price becomes a list of it.
LEMMA SortedList ==
  ASSUME NEW f, IsRawSide(f), NEW r \in BOOLEAN
  PROVE  Lists(SortedLevels(f, r), f, r)
<1> DEFINE S == DOMAIN f
           k == Cardinality(S)
           a == Ascending(S)
           Turn(i) == IF r THEN k + 1 - i ELSE i
           Level(p) == [price |-> p, quantity |-> f[p]]
           t == [i \in 1..k |-> Level(a[Turn(i)])]
<1>1. S \in SUBSET Int /\ IsFiniteSet(S)
  BY DEF IsRawSide
<1>2. /\ k \in Nat /\ a \in [1..k -> S]
      /\ \A m, n \in 1..k : m < n => a[m] < a[n]
      /\ \A x \in S : \E n \in 1..k : a[n] = x
  <2> HIDE DEF S
  <2> QED
    BY <1>1, AscendingOrder
<1>3. SortedLevels(f, r) = t
  <2>1. DOMAIN a = 1..k
    BY <1>2
  <2> QED
    BY <2>1 DEF SortedLevels
<1> HIDE DEF a, k, S
<1>4. \A i \in 1..k : Turn(i) \in 1..k /\ Turn(Turn(i)) = i
  BY <1>2
<1>5. ASSUME NEW i \in 1..k PROVE a[Turn(i)] \in S /\ a[Turn(i)] \in Int
  <2>1. Turn(i) \in 1..k
    BY <1>4
  <2> HIDE DEF Turn
  <2> QED
    BY <1>1, <1>2, <2>1
<1>6. \A i \in 1..k : t[i] = Level(a[Turn(i)]) /\ t[i].price = a[Turn(i)]
  <2> HIDE DEF Turn
  <2> QED
    OBVIOUS
<1>7. Proper(t) /\ DOMAIN t = 1..k
  BY <1>2 DEF Proper
<1>8. ASSUME NEW i \in 1..k, NEW j \in 1..k, i < j
      PROVE  IF r THEN t[i].price > t[j].price ELSE t[i].price < t[j].price
  <2>1. t[i].price = a[Turn(i)] /\ t[j].price = a[Turn(j)]
    BY <1>6
  <2>2. Turn(i) \in 1..k /\ Turn(j) \in 1..k
    BY <1>4
  <2>3. IF r THEN Turn(j) < Turn(i) ELSE Turn(i) < Turn(j)
    BY <1>2, <1>8
  <2>4. a[Turn(i)] \in Int /\ a[Turn(j)] \in Int
    BY <1>5
  <2> HIDE DEF Turn, t
  <2>5. r => a[Turn(j)] < a[Turn(i)]
    BY <1>2, <2>2, <2>3
  <2>6. ~r => a[Turn(i)] < a[Turn(j)]
    BY <1>2, <2>2, <2>3
  <2> QED
    BY <2>1, <2>4, <2>5, <2>6
<1>9. Levels(t) = {Level(p) : p \in DOMAIN f}
  <2>1. \A i \in 1..k : t[i] \in {Level(p) : p \in S}
    BY <1>5, <1>6
  <2>2. ASSUME NEW p \in S PROVE \E i \in 1..k : t[i] = Level(p)
    <3>1. PICK n \in 1..k : a[n] = p
      BY <1>2
    <3>2. Turn(n) \in 1..k /\ Turn(Turn(n)) = n
      BY <1>4
    <3>3. t[Turn(n)] = Level(a[Turn(Turn(n))])
      BY <1>6, <3>2
    <3> HIDE DEF Turn, t, Level
    <3> QED
      BY <3>1, <3>2, <3>3
  <2>3. Levels(t) = {t[i] : i \in 1..k}
    BY <1>7 DEF Levels
  <2> HIDE DEF t, Level
  <2> QED
    BY <2>1, <2>2, <2>3 DEF S
<1> HIDE DEF t
<1> QED
  BY <1>3, <1>7, <1>8, <1>9 DEF Lists

\* The levels of a raw message, which the exchange sends from the lowest price up.
LEMMA RawList ==
  ASSUME NEW f, IsRawSide(f)
  PROVE  Lists(RawLevels(f), f, FALSE)
<1>1. RawLevels(f) = SortedLevels(f, FALSE)
  BY DEF RawLevels, SortedLevels
<1> QED
  BY <1>1, SortedList

\* sorted() of a list is a list in the order asked for.
LEMMA SortedByPriceList ==
  ASSUME NEW levels, NEW f, IsRawSide(f), NEW a \in BOOLEAN, NEW b \in BOOLEAN,
         Lists(levels, f, a)
  PROVE  Lists(SortByPrice(levels, b), f, b)
<1> DEFINE n == Len(levels)
           Goes(p) == \A i, j \in DOMAIN levels : i < j =>
                        IF b THEN levels[p[i]].price >= levels[p[j]].price
                        ELSE levels[p[i]].price <= levels[p[j]].price
           turn == [i \in 1..n |-> IF a = b THEN i ELSE n + 1 - i]
           order == CHOOSE p \in [DOMAIN levels -> DOMAIN levels] : IsInjective(p) /\ Goes(p)
           t == [i \in DOMAIN levels |-> levels[order[i]]]
<1>1. n \in Nat /\ DOMAIN levels = 1..n
  BY DEF Lists, Proper
<1>2. /\ \A i \in 1..n : levels[i].price \in Int
      /\ \A i, j \in 1..n : levels[i].price = levels[j].price => i = j
      /\ \A i, j \in 1..n : i < j =>
           IF a THEN levels[i].price > levels[j].price ELSE levels[i].price < levels[j].price
  BY <1>1, ListedLevel DEF Lists
<1>3. turn \in [1..n -> 1..n] /\ IsInjective(turn)
  <2>1. turn \in [1..n -> 1..n]
    BY <1>1
  <2>2. \A i, j \in 1..n : turn[i] = turn[j] => i = j
    BY <1>1
  <2> QED
    BY <2>1, <2>2 DEF IsInjective
<1>4. Goes(turn)
  <2> SUFFICES ASSUME NEW i \in 1..n, NEW j \in 1..n, i < j
               PROVE  IF b THEN levels[turn[i]].price >= levels[turn[j]].price
                      ELSE levels[turn[i]].price <= levels[turn[j]].price
    BY <1>1
  <2>1. /\ turn[i] \in 1..n /\ turn[j] \in 1..n
        /\ IF a = b THEN turn[i] < turn[j] ELSE turn[j] < turn[i]
    BY <1>1
  <2>2. PICK x, y : x = turn[i] /\ y = turn[j]
    OBVIOUS
  <2>3. x \in 1..n /\ y \in 1..n /\ IF a = b THEN x < y ELSE y < x
    BY <2>1, <2>2
  <2>4. levels[x].price \in Int /\ levels[y].price \in Int
    BY <1>2, <2>3
  <2>5. IF b THEN levels[x].price >= levels[y].price ELSE levels[x].price <= levels[y].price
    BY <1>2, <2>3, <2>4
  <2> HIDE DEF turn
  <2> QED
    BY <2>2, <2>5
<1>5. order \in [1..n -> 1..n] /\ IsInjective(order) /\ Goes(order)
  <2> HIDE DEF turn, Goes
  <2> QED
    BY <1>1, <1>3, <1>4
<1>6. SortByPrice(levels, b) = t
  BY DEF SortByPrice
<1> HIDE DEF order
<1>7. order \in Surjection(1..n, 1..n)
  <2>1. order \in Injection(1..n, 1..n)
    BY <1>5 DEF Injection
  <2>2. IsFiniteSet(1..n)
    BY <1>1, FS_Interval
  <2> QED
    BY <2>1, <2>2, FS_Injection
<1>8. Proper(t) /\ DOMAIN t = 1..n /\ \A i \in 1..n : t[i] = levels[order[i]]
  BY <1>1 DEF Proper
<1>9. Levels(t) = Levels(levels)
  <2>1. \A i \in 1..n : \E j \in 1..n : order[j] = i
    BY <1>7 DEF Surjection
  <2>2. \A i \in 1..n : order[i] \in 1..n
    BY <1>5
  <2>3. Levels(t) = {t[i] : i \in 1..n} /\ Levels(levels) = {levels[i] : i \in 1..n}
    BY <1>1, <1>8 DEF Levels
  <2> HIDE DEF t
  <2>4. \A i \in 1..n : t[i] \in {levels[j] : j \in 1..n}
    BY <1>8, <2>2
  <2>5. \A i \in 1..n : levels[i] \in {t[j] : j \in 1..n}
    BY <1>8, <2>1
  <2> QED
    BY <2>3, <2>4, <2>5
<1>10. ASSUME NEW i \in 1..n, NEW j \in 1..n, i < j
       PROVE  IF b THEN t[i].price > t[j].price ELSE t[i].price < t[j].price
  <2>1. order[i] \in 1..n /\ order[j] \in 1..n /\ order[i] # order[j]
    BY <1>5, <1>10 DEF IsInjective
  <2>2. /\ levels[order[i]].price \in Int /\ levels[order[j]].price \in Int
        /\ levels[order[i]].price # levels[order[j]].price
    BY <1>2, <2>1
  <2>3. IF b THEN levels[order[i]].price >= levels[order[j]].price
        ELSE levels[order[i]].price <= levels[order[j]].price
    BY <1>1, <1>5, <1>10
  <2> HIDE DEF t
  <2> QED
    BY <1>8, <2>2, <2>3
<1> HIDE DEF t
<1> QED
  BY <1>6, <1>8, <1>9, <1>10 DEF Lists

\* What is bid for the other outcome, as asks.
Mirrored(f) == [p \in {YesAsk(q) : q \in DOMAIN f} |-> f[YesAsk(p)]]

\* The complement of a price, twice, is the price.
LEMMA MirroredSide ==
  ASSUME NEW f, IsRawSide(f)
  PROVE  /\ IsRawSide(Mirrored(f))
         /\ \A q \in Int : YesAsk(q) \in Int /\ YesAsk(YesAsk(q)) = q
         /\ \A q \in Int : YesAsk(q) \in DOMAIN Mirrored(f) <=> q \in DOMAIN f
         /\ \A q \in DOMAIN f : q \in Int /\ Mirrored(f)[YesAsk(q)] = f[q]
<1> DEFINE D == {YesAsk(q) : q \in DOMAIN f}
<1>1. \A q \in Int : YesAsk(q) \in Int /\ YesAsk(YesAsk(q)) = q
  BY DEF YesAsk, CentsPerContract
<1>2. DOMAIN f \subseteq Int /\ IsFiniteSet(DOMAIN f)
  BY DEF IsRawSide
<1>3. D \subseteq Int /\ DOMAIN Mirrored(f) = D
  BY <1>1, <1>2 DEF Mirrored
<1>4. IsFiniteSet(D)
  <2> DEFINE c == [q \in DOMAIN f |-> YesAsk(q)]
  <2>1. c \in Surjection(DOMAIN f, D)
    BY DEF Surjection
  <2> HIDE DEF c, D
  <2> QED
    BY <1>2, <2>1, FS_Surjection
<1>5. \A q \in Int : YesAsk(q) \in D <=> q \in DOMAIN f
  BY <1>1, <1>2
<1>6. \A q \in DOMAIN f : q \in Int /\ Mirrored(f)[YesAsk(q)] = f[q]
  <2> TAKE q \in DOMAIN f
  <2>1. q \in Int /\ YesAsk(q) \in D
    BY <1>2
  <2>2. Mirrored(f)[YesAsk(q)] = f[YesAsk(YesAsk(q))]
    BY <2>1 DEF Mirrored
  <2> QED
    BY <1>1, <2>1, <2>2
<1>7. Mirrored(f) = [p \in DOMAIN Mirrored(f) |-> Mirrored(f)[p]]
  BY DEF Mirrored
<1> HIDE DEF D
<1> QED
  BY <1>1, <1>3, <1>4, <1>5, <1>6, <1>7 DEF IsRawSide

\* _map_no_ask_levels, before it sorts.
LEMMA MirroredList ==
  ASSUME NEW levels, NEW f, IsRawSide(f), Lists(levels, f, FALSE), NEW t,
         t = [i \in DOMAIN levels |->
                [price |-> YesAsk(levels[i].price), quantity |-> levels[i].quantity]]
  PROVE  Lists(t, Mirrored(f), TRUE)
<1> DEFINE n == Len(levels)
           g == Mirrored(f)
<1>0. /\ \A i \in DOMAIN levels :
           /\ levels[i].price \in DOMAIN f /\ levels[i].price \in Int
           /\ levels[i] = [price |-> levels[i].price, quantity |-> f[levels[i].price]]
      /\ \A p \in DOMAIN f : \E i \in DOMAIN levels :
           levels[i] = [price |-> p, quantity |-> f[p]]
  <2>1. PICK r \in BOOLEAN : r = FALSE
    OBVIOUS
  <2>2. Lists(levels, f, r)
    BY <2>1, Zenon
  <2> QED
    BY <2>2, ListedLevel
<1>1. n \in Nat /\ DOMAIN levels = 1..n
  BY DEF Lists, Proper
<1>2. Proper(t) /\ DOMAIN t = 1..n
  BY <1>1 DEF Proper
<1>3. ASSUME NEW i \in 1..n
      PROVE  /\ levels[i].price \in DOMAIN f /\ levels[i].price \in Int
             /\ t[i] = [price |-> YesAsk(levels[i].price),
                        quantity |-> g[YesAsk(levels[i].price)]]
             /\ YesAsk(levels[i].price) \in DOMAIN g
             /\ t[i].price = YesAsk(levels[i].price)
  <2>1. /\ levels[i].price \in DOMAIN f /\ levels[i].price \in Int
        /\ levels[i] = [price |-> levels[i].price, quantity |-> f[levels[i].price]]
    BY <1>0, <1>1
  <2>2. t[i] = [price |-> YesAsk(levels[i].price), quantity |-> levels[i].quantity]
    BY <1>1
  <2>3. levels[i].quantity = f[levels[i].price]
    BY <2>1
  <2>4. g[YesAsk(levels[i].price)] = f[levels[i].price] /\ YesAsk(levels[i].price) \in DOMAIN g
    BY <2>1, MirroredSide
  <2> QED
    BY <2>1, <2>2, <2>3, <2>4
<1>4. ASSUME NEW p \in DOMAIN g PROVE \E i \in 1..n : t[i] = [price |-> p, quantity |-> g[p]]
  <2>1. PICK q \in DOMAIN f : p = YesAsk(q)
    BY DEF Mirrored
  <2>2. PICK i \in 1..n : levels[i] = [price |-> q, quantity |-> f[q]]
    BY <1>0, <1>1
  <2>3. levels[i].price = q
    BY <2>2
  <2> QED
    BY <1>3, <2>1, <2>3
<1>5. Levels(t) = {[price |-> p, quantity |-> g[p]] : p \in DOMAIN g}
  <2>1. Levels(t) = {t[i] : i \in 1..n}
    BY <1>2 DEF Levels
  <2> HIDE DEF g
  <2>2. \A i \in 1..n : t[i] \in {[price |-> p, quantity |-> g[p]] : p \in DOMAIN g}
    BY <1>3
  <2>3. \A p \in DOMAIN g : [price |-> p, quantity |-> g[p]] \in {t[i] : i \in 1..n}
    BY <1>4
  <2> QED
    BY <2>1, <2>2, <2>3
<1>6. ASSUME NEW i \in 1..n, NEW j \in 1..n, i < j PROVE t[i].price > t[j].price
  <2>1. levels[i].price < levels[j].price
    BY <1>1, <1>6 DEF Lists
  <2>2. levels[i].price \in Int /\ levels[j].price \in Int
    BY <1>3
  <2>3. YesAsk(levels[i].price) > YesAsk(levels[j].price)
    BY <2>1, <2>2 DEF YesAsk, CentsPerContract
  <2> QED
    BY <1>3, <2>3
<1> HIDE DEF g
<1> QED
  BY <1>2, <1>5, <1>6 DEF Lists, g

-----------------------------------------------------------------------------
(* A change of a b, on both sides of the wire.                          *)

\* w is what the loop of apply_order_book_delta leaves after each of the first m changes.
IsChanged(w, b, changes, m) ==
  w = [n \in 0..m |->
         IF n = 0 THEN [BUY |-> LevelsByPrice(b.bids), SELL |-> LevelsByPrice(b.asks)]
         ELSE ApplyChange(w[n - 1], changes[n])]

\* So is the loop over the changes of a delta.
LEMMA ChangedExists ==
  ASSUME NEW b, NEW changes, NEW m \in Nat
  PROVE  \E w : IsChanged(w, b, changes, m)
<1> DEFINE Bad == {k \in Nat : ~\E w : IsChanged(w, b, changes, k)}
<1> SUFFICES ASSUME Bad # {} PROVE FALSE
  OBVIOUS
<1>1. PICK k \in Bad : \A j \in Bad : k <= j
  <2>1. Bad \in SUBSET Nat
    OBVIOUS
  <2> HIDE DEF Bad
  <2> QED
    BY <2>1, LeastNat
<1>2. k \in Nat /\ ~\E w : IsChanged(w, b, changes, k)
  OBVIOUS
<1>3. CASE k = 0
  <2> DEFINE v == [n \in 0..0 |->
                    [BUY |-> LevelsByPrice(b.bids), SELL |-> LevelsByPrice(b.asks)]]
  <2>1. IsChanged(v, b, changes, 0)
    BY DEF IsChanged
  <2> QED
    BY <1>2, <1>3, <2>1
<1>4. CASE k # 0
  <2>1. k - 1 \in Nat /\ k - 1 \notin Bad
    BY <1>1, <1>2, <1>4
  <2>2. PICK w : IsChanged(w, b, changes, k - 1)
    BY <2>1
  <2> DEFINE top == ApplyChange(w[k - 1], changes[k])
             v == [n \in 0..k |-> IF n = k THEN top ELSE w[n]]
  <2>3. \A n \in 0..k : n # k => n \in 0..(k - 1) /\ (n # 0 => n - 1 \in 0..k /\ n - 1 # k)
    BY <1>2
  <2>4. k \in 0..k /\ k - 1 \in 0..k /\ k - 1 # k
    BY <1>2, <1>4
  <2>5. IsChanged(v, b, changes, k)
    <3>1. \A n \in 0..k : n # k => v[n] = w[n] /\ (n # 0 => v[n - 1] = w[n - 1])
      BY <2>3
    <3>2. v[k] = top /\ v[k - 1] = w[k - 1]
      BY <2>4
    <3>3. \A n \in 0..(k - 1) : w[n] =
            IF n = 0
            THEN [BUY |-> LevelsByPrice(b.bids), SELL |-> LevelsByPrice(b.asks)]
            ELSE ApplyChange(w[n - 1], changes[n])
      BY <2>2 DEF IsChanged
    <3>4. ASSUME NEW n \in 0..k
          PROVE  v[n] =
            IF n = 0
            THEN [BUY |-> LevelsByPrice(b.bids), SELL |-> LevelsByPrice(b.asks)]
            ELSE ApplyChange(v[n - 1], changes[n])
      <4> HIDE DEF v
      <4>1. CASE n = k
        BY <1>4, <3>2, <4>1
      <4>2. CASE n # k
        BY <2>3, <3>1, <3>3, <4>2
      <4> QED
        BY <4>1, <4>2
    <3>5. v = [n \in 0..k |-> v[n]]
      OBVIOUS
    <3> HIDE DEF v
    <3> QED
      BY <3>4, <3>5, Zenon DEF IsChanged
  <2> HIDE DEF v
  <2> QED
    BY <1>2, <2>5
<1> QED
  BY <1>3, <1>4

\* The two sides before and after each change.
LEMMA ChangedStep ==
  ASSUME NEW b, NEW changes, Len(changes) \in Nat
  PROVE  /\ ChangedSides(b, changes)[0] =
              [BUY |-> LevelsByPrice(b.bids), SELL |-> LevelsByPrice(b.asks)]
         /\ \A n \in 1..Len(changes) :
              ChangedSides(b, changes)[n] =
                ApplyChange(ChangedSides(b, changes)[n - 1], changes[n])
<1> DEFINE m == Len(changes)
           c == CHOOSE w : IsChanged(w, b, changes, m)
<1>1. IsChanged(c, b, changes, m)
  BY ChangedExists
<1>2. ChangedSides(b, changes) = c
  BY DEF ChangedSides, IsChanged
<1> HIDE DEF c
<1>3. 0 \in 0..m /\ \A n \in 1..m : n \in 0..m /\ n # 0
  OBVIOUS
<1>4. \A n \in 0..m : c[n] = IF n = 0
        THEN [BUY |-> LevelsByPrice(b.bids), SELL |-> LevelsByPrice(b.asks)]
        ELSE ApplyChange(c[n - 1], changes[n])
  BY <1>1 DEF IsChanged
<1> QED
  BY <1>2, <1>3, <1>4

\* What is left at the price of a change.
Left(change) == IF change.action = "delete" THEN 0 ELSE change.quantity

\* A change of a level leaves a side a side, also when seen from the other outcome.
LEMMA SetSide ==
  ASSUME NEW f, IsRawSide(f), NEW p \in Int, NEW q
  PROVE  /\ IsRawSide(SetLevel(f, p, q))
         /\ Mirrored(SetLevel(f, p, q)) = SetLevel(Mirrored(f), YesAsk(p), q)
<1> DEFINE g == SetLevel(f, p, q)
           D == IF q = 0 THEN DOMAIN f \ {p} ELSE DOMAIN f \cup {p}
<1>1. DOMAIN f \subseteq Int /\ IsFiniteSet(DOMAIN f)
  BY DEF IsRawSide
<1>2. /\ g = [x \in DOMAIN g |-> g[x]]
      /\ DOMAIN g = D
      /\ \A x \in D : g[x] = IF x = p THEN q ELSE f[x]
  BY DEF SetLevel, Restrict
<1>3. D \subseteq Int
  BY <1>1
<1>4. IsFiniteSet(D)
  <2>1. IsFiniteSet(DOMAIN f \cup {p})
    BY <1>1, FS_AddElement
  <2>2. D \subseteq DOMAIN f \cup {p}
    OBVIOUS
  <2> HIDE DEF D
  <2> QED
    BY <2>1, <2>2, FS_Subset
<1>5. IsRawSide(g)
  <2> HIDE DEF D, g
  <2> QED
    BY <1>2, <1>3, <1>4 DEF IsRawSide
<1> DEFINE m == Mirrored(f)
           s == SetLevel(m, YesAsk(p), q)
           E == IF q = 0 THEN DOMAIN m \ {YesAsk(p)} ELSE DOMAIN m \cup {YesAsk(p)}
<1>6. /\ s = [x \in E |-> s[x]]
      /\ \A x \in E : s[x] = IF x = YesAsk(p) THEN q ELSE m[x]
  BY DEF SetLevel, Restrict
<1>7. /\ \A x \in Int : YesAsk(x) \in Int /\ YesAsk(YesAsk(x)) = x
      /\ \A x \in Int : YesAsk(x) \in DOMAIN m <=> x \in DOMAIN f
      /\ \A x \in DOMAIN f : x \in Int /\ m[YesAsk(x)] = f[x]
      /\ DOMAIN m \subseteq Int
  BY MirroredSide DEF IsRawSide
<1> HIDE DEF m, g, s
<1>8. \A x \in Int : x \in E <=> YesAsk(x) \in D
  BY <1>7
<1>9. E \subseteq Int
  BY <1>7
<1> HIDE DEF D, E
<1>10. {YesAsk(x) : x \in D} = E
  <2>1. \A x \in D : YesAsk(x) \in E
    BY <1>3, <1>7, <1>8
  <2>2. \A x \in E : YesAsk(x) \in D /\ x = YesAsk(YesAsk(x))
    BY <1>7, <1>8, <1>9
  <2> QED
    BY <2>1, <2>2
<1>11. \A x \in E : s[x] = g[YesAsk(x)]
  <2> TAKE x \in E
  <2>1. x \in Int /\ YesAsk(x) \in D /\ YesAsk(x) \in Int /\ YesAsk(YesAsk(x)) = x
    BY <1>7, <1>8, <1>9
  <2>2. CASE YesAsk(x) = p
    BY <1>2, <1>6, <2>1, <2>2
  <2>3. CASE YesAsk(x) # p
    <3>1. x # YesAsk(p)
      BY <1>7, <2>1, <2>3
    <3>2. YesAsk(x) \in DOMAIN f
      BY <2>1, <2>3 DEF D
    <3>3. m[x] = f[YesAsk(x)]
      BY <1>7, <2>1, <3>2
    <3> QED
      BY <1>2, <1>6, <2>1, <2>3, <3>1, <3>3
  <2> QED
    BY <2>2, <2>3
<1>12. Mirrored(g) = [x \in E |-> g[YesAsk(x)]]
  <2>1. Mirrored(g) = [x \in {YesAsk(y) : y \in DOMAIN g} |-> g[YesAsk(x)]]
    BY DEF Mirrored
  <2> QED
    BY <1>2, <1>10, <2>1
<1>13. Mirrored(g) = s
  BY <1>6, <1>11, <1>12
<1> QED
  BY <1>5, <1>13 DEF g, s, m

\* A change applied to the two dictionaries.
LEMMA AppliedSides ==
  ASSUME NEW B, NEW S, NEW change, change.side \in {"BUY", "SELL"}
  PROVE  ApplyChange([BUY |-> B, SELL |-> S], change) =
           [BUY  |-> IF change.side = "BUY" THEN SetLevel(B, change.price, Left(change)) ELSE B,
            SELL |-> IF change.side = "SELL" THEN SetLevel(S, change.price, Left(change)) ELSE S]
<1>1. CASE change.side = "BUY"
  <2>1. ApplyChange([BUY |-> B, SELL |-> S], change)
          = [BUY |-> SetLevel(B, change.price, Left(change)), SELL |-> S]
    BY <1>1 DEF ApplyChange, SetLevel, Left
  <2> QED
    BY <1>1, <2>1
<1>2. CASE change.side = "SELL"
  <2>1. ApplyChange([BUY |-> B, SELL |-> S], change)
          = [BUY |-> B, SELL |-> SetLevel(S, change.price, Left(change))]
    BY <1>2 DEF ApplyChange, SetLevel, Left
  <2> QED
    BY <1>2, <2>1
<1> QED
  BY <1>1, <1>2

-----------------------------------------------------------------------------
(* The exchange's books, and the messages that tell of them.               *)

\* w is the exchange's book before and after each of the first m changes of a message.
IsMessage(w, raw, changes, m) ==
  w = [n \in 0..m |-> IF n = 0 THEN raw ELSE TokenChange(w[n - 1], changes[n])]

\* One change of the book at either exchange.
OneChange(v, raw, change) ==
  IF v = "kalshi" THEN KalshiChange(raw, change) ELSE MessageChange(raw, change)

\* The same of the changes of a history.
IsRawBooks(w, v, h, m) ==
  w = [n \in 0..m |-> IF n = 0 THEN h.opening ELSE OneChange(v, w[n - 1], h.changes[n])]

\* The recursive function behind MessageChange exists.
LEMMA MessageExists ==
  ASSUME NEW raw, NEW changes, NEW m \in Nat
  PROVE  \E w : IsMessage(w, raw, changes, m)
<1> DEFINE Bad == {k \in Nat : ~\E w : IsMessage(w, raw, changes, k)}
<1> SUFFICES ASSUME Bad # {} PROVE FALSE
  OBVIOUS
<1>1. PICK k \in Bad : \A j \in Bad : k <= j
  <2>1. Bad \in SUBSET Nat
    OBVIOUS
  <2> HIDE DEF Bad
  <2> QED
    BY <2>1, LeastNat
<1>2. k \in Nat /\ ~\E w : IsMessage(w, raw, changes, k)
  OBVIOUS
<1>3. CASE k = 0
  <2> DEFINE v == [n \in 0..0 |-> raw]
  <2>1. IsMessage(v, raw, changes, 0)
    BY DEF IsMessage
  <2> QED
    BY <1>2, <1>3, <2>1
<1>4. CASE k # 0
  <2>1. k - 1 \in Nat /\ k - 1 \notin Bad
    BY <1>1, <1>2, <1>4
  <2>2. PICK w : IsMessage(w, raw, changes, k - 1)
    BY <2>1
  <2> DEFINE top == TokenChange(w[k - 1], changes[k])
             v == [n \in 0..k |-> IF n = k THEN top ELSE w[n]]
  <2>3. \A n \in 0..k : n # k => n \in 0..(k - 1) /\ (n # 0 => n - 1 \in 0..k /\ n - 1 # k)
    BY <1>2
  <2>4. k \in 0..k /\ k - 1 \in 0..k /\ k - 1 # k
    BY <1>2, <1>4
  <2>5. IsMessage(v, raw, changes, k)
    <3>1. \A n \in 0..k : n # k => v[n] = w[n] /\ (n # 0 => v[n - 1] = w[n - 1])
      BY <2>3
    <3>2. v[k] = top /\ v[k - 1] = w[k - 1]
      BY <2>4
    <3>3. \A n \in 0..(k - 1) : w[n] = IF n = 0 THEN raw ELSE TokenChange(w[n - 1], changes[n])
      BY <2>2 DEF IsMessage
    <3>4. ASSUME NEW n \in 0..k
          PROVE  v[n] = IF n = 0 THEN raw ELSE TokenChange(v[n - 1], changes[n])
      <4> HIDE DEF v
      <4>1. CASE n = k
        BY <1>4, <3>2, <4>1
      <4>2. CASE n # k
        BY <2>3, <3>1, <3>3, <4>2
      <4> QED
        BY <4>1, <4>2
    <3>5. v = [n \in 0..k |-> v[n]]
      OBVIOUS
    <3> HIDE DEF v
    <3> QED
      BY <3>4, <3>5, Zenon DEF IsMessage
  <2> HIDE DEF v
  <2> QED
    BY <1>2, <2>5
<1> QED
  BY <1>3, <1>4

\* The recursive function behind RawBooks exists.
LEMMA BooksExists ==
  ASSUME NEW vn, NEW h, NEW m \in Nat
  PROVE  \E w : IsRawBooks(w, vn, h, m)
<1> DEFINE Bad == {k \in Nat : ~\E w : IsRawBooks(w, vn, h, k)}
<1> SUFFICES ASSUME Bad # {} PROVE FALSE
  OBVIOUS
<1>1. PICK k \in Bad : \A j \in Bad : k <= j
  <2>1. Bad \in SUBSET Nat
    OBVIOUS
  <2> HIDE DEF Bad
  <2> QED
    BY <2>1, LeastNat
<1>2. k \in Nat /\ ~\E w : IsRawBooks(w, vn, h, k)
  OBVIOUS
<1>3. CASE k = 0
  <2> DEFINE v == [n \in 0..0 |-> h.opening]
  <2>1. IsRawBooks(v, vn, h, 0)
    BY DEF IsRawBooks
  <2> QED
    BY <1>2, <1>3, <2>1
<1>4. CASE k # 0
  <2>1. k - 1 \in Nat /\ k - 1 \notin Bad
    BY <1>1, <1>2, <1>4
  <2>2. PICK w : IsRawBooks(w, vn, h, k - 1)
    BY <2>1
  <2> DEFINE top == OneChange(vn, w[k - 1], h.changes[k])
             v == [n \in 0..k |-> IF n = k THEN top ELSE w[n]]
  <2>3. \A n \in 0..k : n # k => n \in 0..(k - 1) /\ (n # 0 => n - 1 \in 0..k /\ n - 1 # k)
    BY <1>2
  <2>4. k \in 0..k /\ k - 1 \in 0..k /\ k - 1 # k
    BY <1>2, <1>4
  <2>5. IsRawBooks(v, vn, h, k)
    <3>1. \A n \in 0..k : n # k => v[n] = w[n] /\ (n # 0 => v[n - 1] = w[n - 1])
      BY <2>3
    <3>2. v[k] = top /\ v[k - 1] = w[k - 1]
      BY <2>4
    <3>3. \A n \in 0..(k - 1) :
            w[n] = IF n = 0 THEN h.opening ELSE OneChange(vn, w[n - 1], h.changes[n])
      BY <2>2 DEF IsRawBooks
    <3>4. ASSUME NEW n \in 0..k
          PROVE  v[n] = IF n = 0 THEN h.opening ELSE OneChange(vn, v[n - 1], h.changes[n])
      <4> HIDE DEF v
      <4>1. CASE n = k
        BY <1>4, <3>2, <4>1
      <4>2. CASE n # k
        BY <2>3, <3>1, <3>3, <4>2
      <4> QED
        BY <4>1, <4>2
    <3>5. v = [n \in 0..k |-> v[n]]
      OBVIOUS
    <3> HIDE DEF v
    <3> QED
      BY <3>4, <3>5, Zenon DEF IsRawBooks
  <2> HIDE DEF v
  <2> QED
    BY <1>2, <2>5
<1> QED
  BY <1>3, <1>4

\* The books before and after each change of a history.
LEMMA BooksStep ==
  ASSUME NEW v, NEW h, Len(h.changes) \in Nat
  PROVE  /\ RawBooks(v, h)[0] = h.opening
         /\ \A n \in 1..Len(h.changes) :
              RawBooks(v, h)[n] = OneChange(v, RawBooks(v, h)[n - 1], h.changes[n])
<1> DEFINE m == Len(h.changes)
           c == CHOOSE w : IsRawBooks(w, v, h, m)
<1>1. IsRawBooks(c, v, h, m)
  BY BooksExists
<1>2. RawBooks(v, h) = c
  BY DEF RawBooks, IsRawBooks, OneChange
<1> HIDE DEF c
<1>3. 0 \in 0..m /\ \A n \in 1..m : n \in 0..m /\ n # 0
  OBVIOUS
<1>4. \A n \in 0..m : c[n] = IF n = 0 THEN h.opening ELSE OneChange(v, c[n - 1], h.changes[n])
  BY <1>1 DEF IsRawBooks
<1> QED
  BY <1>2, <1>3, <1>4

\* The two sides of the exchange's book.
IsRawBook(v, raw) ==
  IF v = "kalshi"
  THEN {"yes", "no"} \subseteq DOMAIN raw /\ IsRawSide(raw.yes) /\ IsRawSide(raw.no)
  ELSE {"BUY", "SELL"} \subseteq DOMAIN raw /\ IsRawSide(raw.BUY) /\ IsRawSide(raw.SELL)

\* A change of a token, and a message of them, each on a side at a price.
IsTokenChange(c) == c.side \in {"BUY", "SELL"} /\ c.price \in Int

IsMessageOf(changes) ==
  IsSequence(changes) /\ \A i \in DOMAIN changes : IsTokenChange(changes[i])

\* A change of Kalshi's book.
LEMMA KalshiChangeSides ==
  ASSUME NEW raw, IsRawBook("kalshi", raw), NEW u, u.side \in {"yes", "no"}, u.price \in Int,
         NEW q, q = IF u.action = "delete" THEN 0 ELSE u.quantity
  PROVE  /\ IsRawBook("kalshi", KalshiChange(raw, u))
         /\ KalshiChange(raw, u).yes =
              IF u.side = "yes" THEN SetLevel(raw.yes, u.price, q) ELSE raw.yes
         /\ KalshiChange(raw, u).no =
              IF u.side = "no" THEN SetLevel(raw.no, u.price, q) ELSE raw.no
<1> DEFINE k == KalshiChange(raw, u)
<1>1. {"yes", "no"} \subseteq DOMAIN raw /\ IsRawSide(raw.yes) /\ IsRawSide(raw.no)
  BY DEF IsRawBook
<1>2. k = [raw EXCEPT ![u.side] = SetLevel(raw[u.side], u.price, q)]
  BY DEF KalshiChange
<1>3. CASE u.side = "yes"
  <2>1. /\ DOMAIN k = DOMAIN raw
        /\ k.yes = SetLevel(raw.yes, u.price, q) /\ k.no = raw.no
    BY <1>1, <1>2, <1>3
  <2>2. IsRawSide(SetLevel(raw.yes, u.price, q))
    BY <1>1, SetSide
  <2> HIDE DEF k
  <2> QED
    BY <1>1, <1>3, <2>1, <2>2 DEF IsRawBook, k
<1>4. CASE u.side = "no"
  <2>1. /\ DOMAIN k = DOMAIN raw
        /\ k.no = SetLevel(raw.no, u.price, q) /\ k.yes = raw.yes
    BY <1>1, <1>2, <1>4
  <2>2. IsRawSide(SetLevel(raw.no, u.price, q))
    BY <1>1, SetSide
  <2> HIDE DEF k
  <2> QED
    BY <1>1, <1>4, <2>1, <2>2 DEF IsRawBook, k
<1> QED
  BY <1>3, <1>4

\* A change of a token.
LEMMA TokenChangeSides ==
  ASSUME NEW raw, IsRawBook("polymarket", raw), NEW c, IsTokenChange(c)
  PROVE  /\ IsRawBook("polymarket", TokenChange(raw, c))
         /\ c.asset_id # Asset => TokenChange(raw, c) = raw
         /\ c.asset_id = Asset =>
              /\ TokenChange(raw, c).BUY =
                   IF c.side = "BUY" THEN SetLevel(raw.BUY, c.price, c.size) ELSE raw.BUY
              /\ TokenChange(raw, c).SELL =
                   IF c.side = "SELL" THEN SetLevel(raw.SELL, c.price, c.size) ELSE raw.SELL
<1> DEFINE k == TokenChange(raw, c)
<1>1. {"BUY", "SELL"} \subseteq DOMAIN raw /\ IsRawSide(raw.BUY) /\ IsRawSide(raw.SELL)
  BY DEF IsRawBook
<1>2. c.side \in {"BUY", "SELL"} /\ c.price \in Int
  BY DEF IsTokenChange
<1>3. CASE c.asset_id # Asset
  BY <1>3 DEF TokenChange
<1>4. CASE c.asset_id = Asset
  <2>1. k = [raw EXCEPT ![c.side] = SetLevel(raw[c.side], c.price, c.size)]
    BY <1>4 DEF TokenChange
  <2>2. CASE c.side = "BUY"
    <3>1. /\ DOMAIN k = DOMAIN raw
          /\ k.BUY = SetLevel(raw.BUY, c.price, c.size) /\ k.SELL = raw.SELL
      BY <1>1, <2>1, <2>2
    <3>2. IsRawSide(SetLevel(raw.BUY, c.price, c.size))
      BY <1>1, <1>2, SetSide
    <3> HIDE DEF k
    <3> QED
      BY <1>1, <1>4, <2>2, <3>1, <3>2 DEF IsRawBook, k
  <2>3. CASE c.side = "SELL"
    <3>1. /\ DOMAIN k = DOMAIN raw
          /\ k.SELL = SetLevel(raw.SELL, c.price, c.size) /\ k.BUY = raw.BUY
      BY <1>1, <2>1, <2>3
    <3>2. IsRawSide(SetLevel(raw.SELL, c.price, c.size))
      BY <1>1, <1>2, SetSide
    <3> HIDE DEF k
    <3> QED
      BY <1>1, <1>4, <2>3, <3>1, <3>2 DEF IsRawBook, k
  <2> QED
    BY <1>2, <2>2, <2>3
<1> QED
  BY <1>3, <1>4

\* The books before and after each change of a message.
LEMMA MessageSteps ==
  ASSUME NEW raw, IsRawBook("polymarket", raw), NEW changes, IsMessageOf(changes)
  PROVE  \E w : /\ w[0] = raw
                /\ \A n \in 1..Len(changes) : w[n] = TokenChange(w[n - 1], changes[n])
                /\ \A n \in 0..Len(changes) : IsRawBook("polymarket", w[n])
                /\ MessageChange(raw, changes) = w[Len(changes)]
<1> DEFINE m == Len(changes)
           c == CHOOSE w : IsMessage(w, raw, changes, m)
<1>0. m \in Nat /\ \A i \in 1..m : IsTokenChange(changes[i])
  BY DEF IsMessageOf, IsSequence
<1>1. IsMessage(c, raw, changes, m)
  BY <1>0, MessageExists
<1>2. MessageChange(raw, changes) = c[m]
  BY DEF MessageChange, IsMessage
<1> HIDE DEF c
<1>3. \A n \in 0..m : c[n] = IF n = 0 THEN raw ELSE TokenChange(c[n - 1], changes[n])
  BY <1>1 DEF IsMessage
<1>4. 0 \in 0..m /\ \A n \in 1..m : n \in 0..m /\ n # 0
  BY <1>0
<1>5. c[0] = raw /\ \A n \in 1..m : c[n] = TokenChange(c[n - 1], changes[n])
  BY <1>3, <1>4
<1> DEFINE Bad == {n \in 0..m : ~IsRawBook("polymarket", c[n])}
<1>6. Bad = {}
  <2> SUFFICES ASSUME Bad # {} PROVE FALSE
    OBVIOUS
  <2>1. PICK n \in Bad : \A k \in Bad : n <= k
    <3>1. Bad \in SUBSET Nat
      BY <1>0
    <3> HIDE DEF Bad
    <3> QED
      BY <3>1, LeastNat
  <2>2. n \in 0..m /\ ~IsRawBook("polymarket", c[n])
    OBVIOUS
  <2>3. n # 0
    BY <1>5, <2>2
  <2>4. n - 1 \in 0..m /\ n - 1 \notin Bad /\ n \in 1..m
    BY <1>0, <2>1, <2>2, <2>3
  <2>5. IsRawBook("polymarket", c[n - 1])
    BY <2>4
  <2> HIDE DEF Bad
  <2> QED
    BY <1>0, <1>5, <2>2, <2>4, <2>5, TokenChangeSides
<1>7. \A n \in 0..m : IsRawBook("polymarket", c[n])
  BY <1>6
<1> QED
  BY <1>2, <1>5, <1>7

\* A message leaves a book a book, and one that does not touch it leaves it alone.
LEMMA MessageKeeps ==
  ASSUME NEW raw, IsRawBook("polymarket", raw), NEW changes, IsMessageOf(changes)
  PROVE  /\ IsRawBook("polymarket", MessageChange(raw, changes))
         /\ ~Touches(changes) => MessageChange(raw, changes) = raw
<1> DEFINE m == Len(changes)
<1>1. m \in Nat /\ DOMAIN changes = 1..m /\ \A i \in 1..m : IsTokenChange(changes[i])
  BY DEF IsMessageOf, IsSequence
<1>2. PICK w : /\ w[0] = raw
               /\ \A n \in 1..m : w[n] = TokenChange(w[n - 1], changes[n])
               /\ \A n \in 0..m : IsRawBook("polymarket", w[n])
               /\ MessageChange(raw, changes) = w[m]
  BY MessageSteps
<1>3. ASSUME ~Touches(changes) PROVE w[m] = raw
  <2> DEFINE Bad == {n \in 0..m : w[n] # raw}
  <2>1. Bad = {}
    <3> SUFFICES ASSUME Bad # {} PROVE FALSE
      OBVIOUS
    <3>1. PICK n \in Bad : \A k \in Bad : n <= k
      <4>1. Bad \in SUBSET Nat
        BY <1>1
      <4> HIDE DEF Bad
      <4> QED
        BY <4>1, LeastNat
    <3>2. n \in 0..m /\ w[n] # raw
      OBVIOUS
    <3>3. n # 0
      BY <1>2, <3>2
    <3>4. n - 1 \in 0..m /\ n - 1 \notin Bad /\ n \in 1..m
      BY <1>1, <3>1, <3>2, <3>3
    <3>5. w[n - 1] = raw
      BY <3>4
    <3>6. changes[n].asset_id # Asset
      BY <1>1, <1>3, <3>4 DEF Touches
    <3> HIDE DEF Bad
    <3> QED
      BY <1>1, <1>2, <3>2, <3>4, <3>5, <3>6, TokenChangeSides
  <2>2. m \in 0..m
    BY <1>1
  <2> QED
    BY <2>1, <2>2
<1>4. m \in 0..m
  BY <1>1
<1> QED
  BY <1>2, <1>3, <1>4

\* What a history consists of.
LEMMA HistoryFacts ==
  ASSUME HistoryOK
  PROVE  /\ Len(history.changes) \in Nat /\ DOMAIN history.changes = 1..Len(history.changes)
         /\ venue \in {"kalshi", "polymarket"}
         /\ IsRawBook(venue, history.opening)
         /\ \A n \in 1..Len(history.changes) :
              IF venue = "kalshi"
              THEN history.changes[n].side \in {"yes", "no"} /\ history.changes[n].price \in Int
              ELSE IsMessageOf(history.changes[n])
<1>1. /\ venue \in Venues /\ history \in Histories[venue] /\ venue \in {"kalshi", "polymarket"}
  BY FeedAssumption DEF HistoryOK
<1>2. Len(history.changes) \in Nat /\ DOMAIN history.changes = 1..Len(history.changes)
  BY <1>1, HistoriesAssumption DEF IsSequence
<1>3. CASE venue = "kalshi"
  BY <1>1, <1>2, <1>3, HistoriesAssumption DEF IsRawBook
<1>4. CASE venue = "polymarket"
  BY <1>1, <1>2, <1>4, HistoriesAssumption DEF IsRawBook, IsMessageOf, IsTokenChange
<1> QED
  BY <1>1, <1>2, <1>3, <1>4

\* The exchange always has a book.
LEMMA BooksAreBooks ==
  ASSUME HistoryOK
  PROVE  \A n \in 0..Len(history.changes) : IsRawBook(venue, RawBooks(venue, history)[n])
<1> DEFINE L == Len(history.changes)
           w == RawBooks(venue, history)
           Bad == {n \in 0..L : ~IsRawBook(venue, w[n])}
<1>1. L \in Nat /\ venue \in {"kalshi", "polymarket"}
  BY HistoryFacts
<1>2. /\ w[0] = history.opening
      /\ \A n \in 1..L : w[n] = OneChange(venue, w[n - 1], history.changes[n])
  BY <1>1, BooksStep
<1> HIDE DEF w
<1> SUFFICES ASSUME Bad # {} PROVE FALSE
  BY DEF w
<1>3. PICK n \in Bad : \A k \in Bad : n <= k
  <2>1. Bad \in SUBSET Nat
    BY <1>1
  <2> HIDE DEF Bad
  <2> QED
    BY <2>1, LeastNat
<1>4. n \in 0..L /\ ~IsRawBook(venue, w[n])
  OBVIOUS
<1>5. n # 0
  BY <1>2, <1>4, HistoryFacts
<1>6. n - 1 \in 0..L /\ n - 1 \notin Bad /\ n \in 1..L
  BY <1>1, <1>3, <1>4, <1>5
<1>7. IsRawBook(venue, w[n - 1])
  BY <1>6
<1> HIDE DEF Bad
<1>8. w[n] = OneChange(venue, w[n - 1], history.changes[n])
  BY <1>2, <1>6
<1>9. CASE venue = "kalshi"
  <2>1. history.changes[n].side \in {"yes", "no"} /\ history.changes[n].price \in Int
    BY <1>6, <1>9, HistoryFacts
  <2>2. w[n] = KalshiChange(w[n - 1], history.changes[n])
    BY <1>8, <1>9 DEF OneChange
  <2> QED
    BY <1>4, <1>7, <1>9, <2>1, <2>2, KalshiChangeSides
<1>10. CASE venue = "polymarket"
  <2>1. IsMessageOf(history.changes[n])
    BY <1>6, <1>10, HistoryFacts
  <2>2. w[n] = MessageChange(w[n - 1], history.changes[n])
    BY <1>8, <1>10 DEF OneChange
  <2> QED
    BY <1>4, <1>7, <1>10, <2>1, <2>2, MessageKeeps
<1> QED
  BY <1>1, <1>9, <1>10

\* While no change touches the book, it stays what it is.
LEMMA BooksStay ==
  ASSUME HistoryOK, Polymarket, NEW a \in 0..Len(history.changes),
         NEW b \in 0..Len(history.changes), a <= b, Made[a] = Made[b]
  PROVE  RawBooks(venue, history)[b] = RawBooks(venue, history)[a]
<1> DEFINE L == Len(history.changes)
           w == RawBooks(venue, history)
           Bad == {n \in a..b : w[n] # w[a]}
<1>1. L \in Nat /\ venue = "polymarket" /\ ~Kalshi
  BY HistoryFacts DEF Polymarket, Kalshi
<1>2. \A n \in 1..L : w[n] = OneChange(venue, w[n - 1], history.changes[n])
  BY <1>1, BooksStep
<1>3. \A n \in 0..L : IsRawBook("polymarket", w[n])
  BY <1>1, BooksAreBooks
<1> HIDE DEF w
<1>4. b \in a..b
  BY <1>1
<1> SUFFICES ASSUME Bad # {} PROVE FALSE
  BY <1>4 DEF w
<1>5. PICK n \in Bad : \A k \in Bad : n <= k
  <2>1. Bad \in SUBSET Nat
    BY <1>1
  <2> HIDE DEF Bad
  <2> QED
    BY <2>1, LeastNat
<1>6. n \in a..b /\ w[n] # w[a]
  OBVIOUS
<1>7. /\ n # a /\ n \in 1..L /\ n - 1 \in a..b /\ n - 1 \notin Bad /\ n - 1 \in 0..L
      /\ a <= n - 1 /\ n <= b /\ n \in 0..L
  BY <1>1, <1>5, <1>6
<1>8. w[n - 1] = w[a]
  BY <1>7
<1> HIDE DEF Bad
<1>9. ~Touches(history.changes[n])
  <2>1. /\ Made[a] <= Made[n - 1] /\ Made[n] <= Made[b]
        /\ Made[a] \in Nat /\ Made[n - 1] \in Nat /\ Made[n] \in Nat
        /\ Made[n] = IF Touches(history.changes[n]) THEN Made[n - 1] + 1 ELSE Made[n - 1]
    BY <1>1, <1>7, MadeCounts
  <2> QED
    BY <2>1
<1>10. w[n] = MessageChange(w[n - 1], history.changes[n]) /\ IsMessageOf(history.changes[n])
  BY <1>1, <1>2, <1>7, HistoryFacts DEF OneChange
<1> QED
  BY <1>3, <1>6, <1>7, <1>8, <1>9, <1>10, MessageKeeps

\* h holds the changes asked for among the first n, for every n: it grows at its
\* end by the changes asked for and is otherwise left alone.
IsGrown(h, changes, asked) ==
  /\ ChangesOf(changes, asked) = h[Len(changes)]
  /\ Len(h[0]) = 0
  /\ \A n \in 0..Len(changes) :
       /\ Proper(h[n]) /\ Len(h[n]) <= Len(h[Len(changes)])
       /\ \A i \in 1..Len(h[n]) :
            h[Len(changes)][i] = h[n][i] /\ \E k \in 1..n : h[n][i] = changes[k]
  /\ \A n \in 1..Len(changes) :
       IF changes[n].asset_id \in asked
       THEN Len(h[n]) = Len(h[n - 1]) + 1 /\ h[n][Len(h[n])] = changes[n]
       ELSE h[n] = h[n - 1]

\* There is such a list.
LEMMA KeptSteps ==
  ASSUME NEW changes, IsSequence(changes), NEW asked
  PROVE  \E h : IsGrown(h, changes, asked)
<1> DEFINE m == Len(changes)
           h == CHOOSE g : IsKept(g, changes, asked, m)
           Prefix(a, b) == Len(h[a]) <= Len(h[b]) /\ \A i \in 1..Len(h[a]) : h[b][i] = h[a][i]
           Good(n) == /\ Proper(h[n])
                      /\ \A i \in 1..Len(h[n]) : \E k \in 1..n : h[n][i] = changes[k]
                      /\ \A a \in 0..n : Prefix(a, n)
           Bad == {n \in 0..m : ~Good(n)}
<1>1. m \in Nat
  BY DEF IsSequence
<1>2. IsKept(h, changes, asked, m)
  BY <1>1, KeptExists
<1>3. ChangesOf(changes, asked) = h[m]
  BY ChangesUnfolded
<1> HIDE DEF h
<1>4. ASSUME NEW n \in 0..m
      PROVE  h[n] = IF n = 0 THEN <<>>
                    ELSE IF changes[n].asset_id \in asked THEN Append(h[n - 1], changes[n])
                    ELSE h[n - 1]
  BY <1>2, Zenon DEF IsKept
<1>5. h[0] = <<>> /\ Len(h[0]) = 0 /\ Proper(h[0])
  <2>1. 0 \in 0..m
    BY <1>1
  <2>2. h[0] = <<>>
    BY <1>4, <2>1
  <2> QED
    BY <2>2, ProperEmpty
<1>6. ASSUME NEW n \in 1..m, Proper(h[n - 1])
      PROVE  IF changes[n].asset_id \in asked
             THEN /\ Proper(h[n]) /\ Len(h[n]) = Len(h[n - 1]) + 1
                  /\ h[n][Len(h[n])] = changes[n]
                  /\ \A i \in 1..Len(h[n - 1]) : h[n][i] = h[n - 1][i]
             ELSE h[n] = h[n - 1]
  <2>1. n \in 0..m /\ n # 0
    BY <1>1
  <2>2. h[n] = IF changes[n].asset_id \in asked THEN Append(h[n - 1], changes[n]) ELSE h[n - 1]
    BY <1>4, <2>1
  <2> QED
    BY <1>6, <2>2, ProperAppend
<1>7. Bad = {}
  <2> SUFFICES ASSUME Bad # {} PROVE FALSE
    OBVIOUS
  <2>1. PICK n \in Bad : \A k \in Bad : n <= k
    <3>1. Bad \in SUBSET Nat
      BY <1>1
    <3> HIDE DEF Bad
    <3> QED
      BY <3>1, LeastNat
  <2>2. n \in 0..m /\ ~Good(n)
    OBVIOUS
  <2>3. CASE n = 0
    <3>1. \A a \in 0..n : Prefix(a, n)
      <4>1. \A a \in 0..n : a = n
        BY <2>3
      <4>2. Len(h[n]) <= Len(h[n])
        BY <1>5, <2>3
      <4> QED
        BY <4>1, <4>2
    <3>2. \A i \in 1..Len(h[n]) : FALSE
      BY <1>5, <2>3
    <3> QED
      BY <1>5, <2>2, <2>3, <3>1, <3>2
  <2>4. CASE n # 0
    <3>1. n - 1 \in 0..m /\ n - 1 \notin Bad /\ n \in 1..m
      <4> HIDE DEF Bad
      <4> QED
        BY <1>1, <2>1, <2>2, <2>4
    <3>2. Good(n - 1)
      BY <3>1
    <3>3. Proper(h[n - 1]) /\ Len(h[n - 1]) \in Nat
      BY <3>2 DEF Proper
    <3>4. \A k : k \in 1..(n - 1) => k \in 1..n
      BY <2>2
    <3>5. n \in 1..n /\ \A a \in 0..n : a = n \/ a \in 0..(n - 1)
      BY <1>1, <2>2, <2>4
    <3>6. /\ Proper(h[n])
          /\ Len(h[n]) = Len(h[n - 1]) \/ Len(h[n]) = Len(h[n - 1]) + 1
          /\ \A i \in 1..Len(h[n - 1]) : h[n][i] = h[n - 1][i]
          /\ Len(h[n]) = Len(h[n - 1]) + 1 => h[n][Len(h[n])] = changes[n]
      <4>1. n \in 1..m /\ Proper(h[n - 1]) /\ Len(h[n - 1]) \in Nat
        BY <3>1, <3>3
      <4> HIDE DEF Bad, Good, Prefix, m
      <4>2. CASE changes[n].asset_id \in asked
        BY <1>6, <4>1, <4>2
      <4>3. CASE changes[n].asset_id \notin asked
        <5>1. h[n] = h[n - 1] /\ Len(h[n - 1]) # Len(h[n - 1]) + 1
          BY <1>6, <4>1, <4>3
        <5> QED
          BY <4>1, <5>1
      <4> QED
        BY <4>2, <4>3
    <3>7. Len(h[n]) \in Nat
      BY <3>6 DEF Proper
    <3>8. ASSUME NEW i \in 1..Len(h[n]) PROVE \E k \in 1..n : h[n][i] = changes[k]
      <4>1. i \in 1..Len(h[n - 1]) \/ (i = Len(h[n]) /\ Len(h[n]) = Len(h[n - 1]) + 1)
        BY <3>3, <3>6, <3>7
      <4> QED
        BY <3>2, <3>4, <3>5, <3>6, <4>1
    <3>9. ASSUME NEW a \in 0..n PROVE Prefix(a, n)
      <4>1. CASE a = n
        BY <3>7, <4>1
      <4>2. CASE a # n
        <5>1. Prefix(a, n - 1) /\ Proper(h[n - 1])
          BY <3>2, <3>5, <4>2
        <5>2. a \in 0..m /\ a \notin Bad
          BY <1>1, <2>1, <2>2, <4>2
        <5>3. Len(h[a]) \in Nat
          <6>1. Good(a)
            BY <5>2
          <6> QED
            BY <6>1 DEF Proper
        <5>4. Len(h[a]) <= Len(h[n]) /\ \A i \in 1..Len(h[a]) : i \in 1..Len(h[n - 1])
          BY <3>3, <3>6, <3>7, <5>1, <5>3
        <5> QED
          BY <3>6, <5>1, <5>4
      <4> QED
        BY <4>1, <4>2
    <3> QED
      BY <2>2, <3>6, <3>8, <3>9
  <2> QED
    BY <2>3, <2>4
<1>8. \A n \in 0..m : Good(n)
  BY <1>7
<1>9. m \in 0..m /\ \A n \in 1..m : n - 1 \in 0..m
  BY <1>1
<1>10. \A n \in 0..m : Proper(h[n]) /\ Prefix(n, m)
           /\ \A i \in 1..Len(h[n]) : \E k \in 1..n : h[n][i] = changes[k]
  BY <1>8, <1>9
<1>11. \A n \in 1..m : IF changes[n].asset_id \in asked
                       THEN Len(h[n]) = Len(h[n - 1]) + 1 /\ h[n][Len(h[n])] = changes[n]
                       ELSE h[n] = h[n - 1]
  BY <1>6, <1>8, <1>9
<1> HIDE DEF Good, Bad
<1> QED
  BY <1>3, <1>5, <1>10, <1>11 DEF IsGrown

\* A message without the changes of tokens not asked for does the same to the
\* book, if its token was asked for.
LEMMA FilteredMessage ==
  ASSUME NEW raw, IsRawBook("polymarket", raw), NEW changes, IsMessageOf(changes),
         NEW asked, Asset \in asked
  PROVE  /\ IsMessageOf(ChangesOf(changes, asked))
         /\ MessageChange(raw, ChangesOf(changes, asked)) = MessageChange(raw, changes)
<1> DEFINE m == Len(changes)
           M == ChangesOf(changes, asked)
<1>1. IsSequence(changes) /\ m \in Nat /\ \A i \in 1..m : IsTokenChange(changes[i])
  BY DEF IsMessageOf, IsSequence
<1>2. PICK h :
        /\ M = h[m]
        /\ Len(h[0]) = 0
        /\ \A n \in 0..m :
             /\ Proper(h[n]) /\ Len(h[n]) <= Len(h[m])
             /\ \A i \in 1..Len(h[n]) :
                  h[m][i] = h[n][i] /\ \E k \in 1..n : h[n][i] = changes[k]
        /\ \A n \in 1..m :
             IF changes[n].asset_id \in asked
             THEN Len(h[n]) = Len(h[n - 1]) + 1 /\ h[n][Len(h[n])] = changes[n]
             ELSE h[n] = h[n - 1]
  <2>1. PICK h : IsGrown(h, changes, asked)
    BY <1>1, KeptSteps
  <2> QED
    BY <2>1 DEF IsGrown
<1> HIDE DEF M
<1>3. m \in 0..m /\ 0 \in 0..m
  BY <1>1
<1>4. Proper(M) /\ Len(M) \in Nat /\ DOMAIN M = 1..Len(M)
  BY <1>2, <1>3 DEF Proper
<1>5. IsMessageOf(M)
  <2>1. \A i \in 1..Len(M) : IsTokenChange(M[i])
    BY <1>1, <1>2, <1>3
  <2> QED
    BY <1>4, <2>1 DEF IsMessageOf, IsSequence
<1>6. PICK w : /\ w[0] = raw
               /\ \A n \in 1..m : w[n] = TokenChange(w[n - 1], changes[n])
               /\ MessageChange(raw, changes) = w[m]
  BY MessageSteps
<1>7. PICK u : /\ u[0] = raw
               /\ \A n \in 1..Len(M) : u[n] = TokenChange(u[n - 1], M[n])
               /\ MessageChange(raw, M) = u[Len(M)]
  BY <1>5, MessageSteps
<1> DEFINE Bad == {n \in 0..m : u[Len(h[n])] # w[n]}
<1>8. Bad = {}
  <2> SUFFICES ASSUME Bad # {} PROVE FALSE
    OBVIOUS
  <2>1. PICK n \in Bad : \A k \in Bad : n <= k
    <3>1. Bad \in SUBSET Nat
      BY <1>1
    <3> HIDE DEF Bad
    <3> QED
      BY <3>1, LeastNat
  <2>2. n \in 0..m /\ u[Len(h[n])] # w[n]
    OBVIOUS
  <2>3. n # 0
    BY <1>2, <1>6, <1>7, <2>2
  <2>4. n - 1 \in 0..m /\ n - 1 \notin Bad /\ n \in 1..m
    <3> HIDE DEF Bad
    <3> QED
      BY <1>1, <2>1, <2>2, <2>3
  <2>5. u[Len(h[n - 1])] = w[n - 1] /\ w[n] = TokenChange(w[n - 1], changes[n])
    BY <1>6, <2>4
  <2> HIDE DEF Bad
  <2>6. CASE changes[n].asset_id \in asked
    <3>1. /\ Len(h[n]) = Len(h[n - 1]) + 1 /\ h[n][Len(h[n])] = changes[n]
          /\ Len(h[n - 1]) \in Nat /\ Len(h[n]) <= Len(M)
      BY <1>2, <2>2, <2>4, <2>6 DEF Proper
    <3>2. /\ Len(h[n]) \in 1..Len(h[n]) /\ Len(h[n]) \in 1..Len(M)
          /\ Len(h[n]) - 1 = Len(h[n - 1])
      BY <1>4, <3>1
    <3>3. M[Len(h[n])] = changes[n]
      BY <1>2, <2>2, <3>1, <3>2
    <3>4. u[Len(h[n])] = TokenChange(u[Len(h[n]) - 1], M[Len(h[n])])
      BY <1>7, <3>2
    <3> QED
      BY <2>2, <2>5, <3>2, <3>3, <3>4
  <2>7. CASE changes[n].asset_id \notin asked
    <3>1. h[n] = h[n - 1]
      BY <1>2, <2>4, <2>7
    <3>2. w[n] = w[n - 1]
      BY <2>5, <2>7 DEF TokenChange
    <3> QED
      BY <2>2, <2>5, <3>1, <3>2
  <2> QED
    BY <2>6, <2>7
<1>9. u[Len(h[m])] = w[m]
  BY <1>3, <1>8
<1> QED
  BY <1>2, <1>5, <1>6, <1>7, <1>9 DEF M

\* The two dictionaries of a book that shows the exchange's, changed by the
\* changes of its token, are the exchange's book after the message.
LEMMA FoldedSides ==
  ASSUME NEW raw, IsRawBook("polymarket", raw), NEW changes, IsMessageOf(changes),
         NEW b, LevelsByPrice(b.bids) = raw.BUY, LevelsByPrice(b.asks) = raw.SELL,
         NEW D, D = [i \in DOMAIN ChangesOf(changes, {Asset}) |->
                       MapPriceChange(ChangesOf(changes, {Asset})[i])]
  PROVE  ChangedSides(b, D)[Len(D)] = [BUY  |-> MessageChange(raw, changes).BUY,
                                       SELL |-> MessageChange(raw, changes).SELL]
<1> DEFINE m == Len(changes)
           M == ChangesOf(changes, {Asset})
           s == ChangedSides(b, D)
           Sides(r) == [BUY |-> r.BUY, SELL |-> r.SELL]
<1>1. IsSequence(changes) /\ m \in Nat /\ \A i \in 1..m : IsTokenChange(changes[i])
  BY DEF IsMessageOf, IsSequence
<1>2. PICK h :
        /\ M = h[m]
        /\ Len(h[0]) = 0
        /\ \A n \in 0..m :
             /\ Proper(h[n]) /\ Len(h[n]) <= Len(h[m])
             /\ \A i \in 1..Len(h[n]) :
                  h[m][i] = h[n][i] /\ \E k \in 1..n : h[n][i] = changes[k]
        /\ \A n \in 1..m :
             IF changes[n].asset_id \in {Asset}
             THEN Len(h[n]) = Len(h[n - 1]) + 1 /\ h[n][Len(h[n])] = changes[n]
             ELSE h[n] = h[n - 1]
  <2>1. PICK h : IsGrown(h, changes, {Asset})
    BY <1>1, KeptSteps
  <2> QED
    BY <2>1 DEF IsGrown
<1>3. m \in 0..m /\ 0 \in 0..m
  BY <1>1
<1>4. D = [i \in DOMAIN M |-> MapPriceChange(M[i])]
  OBVIOUS
<1> HIDE DEF M
<1>5. Len(M) \in Nat /\ DOMAIN M = 1..Len(M)
  BY <1>2, <1>3 DEF Proper
<1>6. Len(D) = Len(M) /\ \A i \in 1..Len(M) : D[i] = MapPriceChange(M[i])
  <2> DEFINE S == {MapPriceChange(M[i]) : i \in 1..Len(M)}
  <2>1. D \in [1..Len(M) -> S]
    BY <1>4, <1>5
  <2> HIDE DEF S
  <2>2. D \in Seq(S)
    BY <1>5, <2>1, SeqDef
  <2>3. Len(D) = Len(M)
    BY <1>5, <2>1, <2>2, LenProperties
  <2>4. ASSUME NEW i \in 1..Len(M) PROVE D[i] = MapPriceChange(M[i])
    <3>1. i \in DOMAIN M
      BY <1>5
    <3> QED
      BY <1>4, <3>1, Zenon
  <2> QED
    BY <2>3, <2>4, Zenon
<1>7. /\ s[0] = Sides(raw)
      /\ \A n \in 1..Len(M) : s[n] = ApplyChange(s[n - 1], MapPriceChange(M[n]))
  <2>1. /\ s[0] = [BUY |-> LevelsByPrice(b.bids), SELL |-> LevelsByPrice(b.asks)]
        /\ \A n \in 1..Len(D) : s[n] = ApplyChange(s[n - 1], D[n])
    <3>1. Len(D) \in Nat
      BY <1>5, <1>6
    <3>2. PICK E : E = D
      OBVIOUS
    <3>3. Len(E) \in Nat
      BY <3>1, <3>2
    <3>4. /\ ChangedSides(b, E)[0]
               = [BUY |-> LevelsByPrice(b.bids), SELL |-> LevelsByPrice(b.asks)]
          /\ \A n \in 1..Len(E) :
               ChangedSides(b, E)[n] = ApplyChange(ChangedSides(b, E)[n - 1], E[n])
      BY <3>3, ChangedStep
    <3> QED
      BY <3>2, <3>4
  <2> HIDE DEF s
  <2>2. Sides(raw) = [BUY |-> LevelsByPrice(b.bids), SELL |-> LevelsByPrice(b.asks)]
    OBVIOUS
  <2>3. ASSUME NEW n \in 1..Len(M)
        PROVE  s[n] = ApplyChange(s[n - 1], MapPriceChange(M[n]))
    <3>1. s[n] = ApplyChange(s[n - 1], D[n]) /\ D[n] = MapPriceChange(M[n])
      BY <1>6, <2>1, Zenon
    <3> QED
      BY <3>1, Zenon
  <2> QED
    BY <2>1, <2>2, <2>3, Zenon
<1> HIDE DEF s
<1>8. PICK w : /\ w[0] = raw
               /\ \A n \in 1..m : w[n] = TokenChange(w[n - 1], changes[n])
               /\ \A n \in 0..m : IsRawBook("polymarket", w[n])
               /\ MessageChange(raw, changes) = w[m]
  BY MessageSteps
<1> DEFINE Bad == {n \in 0..m : s[Len(h[n])] # Sides(w[n])}
<1>9. Bad = {}
  <2> SUFFICES ASSUME Bad # {} PROVE FALSE
    OBVIOUS
  <2>1. PICK n \in Bad : \A k \in Bad : n <= k
    <3>1. Bad \in SUBSET Nat
      BY <1>1
    <3> HIDE DEF Bad
    <3> QED
      BY <3>1, LeastNat
  <2>2. n \in 0..m /\ s[Len(h[n])] # Sides(w[n])
    OBVIOUS
  <2>3. n # 0
    BY <1>2, <1>7, <1>8, <2>2
  <2>4. n - 1 \in 0..m /\ n - 1 \notin Bad /\ n \in 1..m
    <3> HIDE DEF Bad
    <3> QED
      BY <1>1, <2>1, <2>2, <2>3
  <2>5. s[Len(h[n - 1])] = Sides(w[n - 1]) /\ w[n] = TokenChange(w[n - 1], changes[n])
    BY <1>8, <2>4
  <2>6. /\ IsTokenChange(changes[n]) /\ IsRawBook("polymarket", w[n - 1])
        /\ changes[n].side \in {"BUY", "SELL"}
    BY <1>1, <1>8, <2>4 DEF IsTokenChange
  <2> HIDE DEF Bad
  <2>7. CASE changes[n].asset_id = Asset
    <3> DEFINE k == Len(h[n])
               c == MapPriceChange(changes[n])
    <3>1. /\ k = Len(h[n - 1]) + 1 /\ h[n][k] = changes[n]
          /\ Len(h[n - 1]) \in Nat /\ k <= Len(M)
      BY <1>2, <2>2, <2>4, <2>7 DEF Proper
    <3>2. k \in 1..k /\ k \in 1..Len(M) /\ k - 1 = Len(h[n - 1])
      BY <1>5, <3>1
    <3>3. M[k] = changes[n]
      BY <1>2, <2>2, <3>1, <3>2
    <3>4. s[k] = ApplyChange(Sides(w[n - 1]), c)
      BY <1>7, <2>5, <3>2, <3>3
    <3>5. /\ c.side = changes[n].side /\ c.price = changes[n].price
          /\ Left(c) = changes[n].size
      BY DEF MapPriceChange, Left
    <3>6. /\ w[n].BUY = IF c.side = "BUY" THEN SetLevel(w[n - 1].BUY, c.price, Left(c))
                        ELSE w[n - 1].BUY
          /\ w[n].SELL = IF c.side = "SELL" THEN SetLevel(w[n - 1].SELL, c.price, Left(c))
                         ELSE w[n - 1].SELL
      BY <2>5, <2>6, <2>7, <3>5, TokenChangeSides
    <3> HIDE DEF c, k
    <3>7. ApplyChange(Sides(w[n - 1]), c) =
            [BUY  |-> IF c.side = "BUY" THEN SetLevel(w[n - 1].BUY, c.price, Left(c))
                      ELSE w[n - 1].BUY,
             SELL |-> IF c.side = "SELL" THEN SetLevel(w[n - 1].SELL, c.price, Left(c))
                      ELSE w[n - 1].SELL]
      BY <2>6, <3>5, AppliedSides
    <3>8. s[k] = Sides(w[n])
      BY <3>4, <3>6, <3>7
    <3> QED
      BY <2>2, <3>8 DEF k
  <2>8. CASE changes[n].asset_id # Asset
    <3>1. h[n] = h[n - 1]
      BY <1>2, <2>4, <2>8
    <3>2. w[n] = w[n - 1]
      BY <2>5, <2>8 DEF TokenChange
    <3> QED
      BY <2>2, <2>5, <3>1, <3>2
  <2> QED
    BY <2>7, <2>8
<1>10. s[Len(h[m])] = Sides(w[m])
  BY <1>3, <1>9
<1> QED
  BY <1>2, <1>6, <1>8, <1>10 DEF s

-----------------------------------------------------------------------------
(* The book shown.                                                         *)

\* The book b is the one of venue v after the first n changes of its history h:
\* Kalshi's asks are its no bids seen from the other side.
Mirrors(b, v, h, n) ==
  IF v = "kalshi"
  THEN /\ b.sequence = n
       /\ Lists(b.bids, RawBooks(v, h)[n].yes, TRUE)
       /\ Lists(b.asks, Mirrored(RawBooks(v, h)[n].no), FALSE)
  ELSE /\ Lists(b.bids, RawBooks(v, h)[n].BUY, TRUE)
       /\ Lists(b.asks, RawBooks(v, h)[n].SELL, FALSE)

\* Either list of a side can be had from either other, from the dictionary, and
\* the dictionary from the list.
LEMMA ListedBothWays ==
  ASSUME NEW f, IsRawSide(f)
  PROVE  /\ \A levels : Lists(levels, f, TRUE) \/ Lists(levels, f, FALSE) =>
              /\ Lists(SortByPrice(levels, TRUE), f, TRUE)
              /\ Lists(SortByPrice(levels, FALSE), f, FALSE)
              /\ LevelsByPrice(levels) = f
         /\ Lists(SortedBids(f), f, TRUE) /\ Lists(SortedAsks(f), f, FALSE)
<1>1. PICK t \in BOOLEAN, u \in BOOLEAN : t = TRUE /\ u = FALSE
  OBVIOUS
<1>2. ASSUME NEW levels, NEW a \in BOOLEAN, Lists(levels, f, a)
      PROVE  /\ Lists(SortByPrice(levels, t), f, t)
             /\ Lists(SortByPrice(levels, u), f, u)
             /\ LevelsByPrice(levels) = f
  BY <1>2, SortedByPriceList, ListedByPrice
<1>3. \A levels : Lists(levels, f, t) \/ Lists(levels, f, u) =>
        /\ Lists(SortByPrice(levels, t), f, t)
        /\ Lists(SortByPrice(levels, u), f, u)
        /\ LevelsByPrice(levels) = f
  BY <1>2
<1>4. Lists(SortedLevels(f, t), f, t) /\ Lists(SortedLevels(f, u), f, u)
  BY SortedList
<1>5. \A levels : Lists(levels, f, TRUE) \/ Lists(levels, f, FALSE) =>
        /\ Lists(SortByPrice(levels, TRUE), f, TRUE)
        /\ Lists(SortByPrice(levels, FALSE), f, FALSE)
        /\ LevelsByPrice(levels) = f
  BY <1>1, <1>3, Zenon
<1>6. Lists(SortedLevels(f, TRUE), f, TRUE) /\ Lists(SortedLevels(f, FALSE), f, FALSE)
  BY <1>1, <1>4, Zenon
<1> QED
  BY <1>5, <1>6, Zenon DEF SortedBids, SortedAsks

\* Kalshi's snapshot becomes the book it is of.
LEMMA KalshiSnapshotMirrors ==
  ASSUME HistoryOK, Kalshi, NEW n \in 0..Len(history.changes), NEW m, m.sequence = n,
         m.yes = RawLevels(RawBooks(venue, history)[n].yes),
         m.no = RawLevels(RawBooks(venue, history)[n].no)
  PROVE  Mirrors(map_kalshi_order_book_snapshot(m, Asset), venue, history, n)
<1>1. PICK raw : raw = RawBooks(venue, history)[n]
  OBVIOUS
<1>2. IsRawSide(raw.yes) /\ IsRawSide(raw.no)
  BY <1>1, BooksAreBooks DEF IsRawBook, Kalshi
<1>3. Lists(m.yes, raw.yes, FALSE) /\ Lists(m.no, raw.no, FALSE)
  BY <1>1, <1>2, RawList
<1>4. PICK t : t = [i \in DOMAIN m.no |->
                      [price |-> YesAsk(m.no[i].price), quantity |-> m.no[i].quantity]]
  OBVIOUS
<1>5. IsRawSide(Mirrored(raw.no)) /\ Lists(t, Mirrored(raw.no), TRUE)
  BY <1>2, <1>3, <1>4, MirroredSide, MirroredList
<1>6. Lists(SortByPrice(m.yes, TRUE), raw.yes, TRUE)
  BY <1>2, <1>3, ListedBothWays
<1>7. Lists(SortByPrice(t, FALSE), Mirrored(raw.no), FALSE)
  BY <1>5, ListedBothWays
<1>8. PICK b : b = map_kalshi_order_book_snapshot(m, Asset)
  OBVIOUS
<1>9. b.sequence = n /\ b.bids = SortByPrice(m.yes, TRUE) /\ b.asks = SortByPrice(t, FALSE)
  BY <1>4, <1>8 DEF map_kalshi_order_book_snapshot, MapYesBidLevels, MapNoAskLevels
<1>10. Mirrors(b, venue, history, n)
  BY <1>1, <1>6, <1>7, <1>9, Zenon DEF Mirrors, Kalshi
<1> QED
  BY <1>8, <1>10

\* Polymarket's book frame becomes the book it is of.
LEMMA PolymarketSnapshotMirrors ==
  ASSUME HistoryOK, Polymarket, NEW n \in 0..Len(history.changes), NEW m,
         m.bids = RawLevels(RawBooks(venue, history)[n].BUY),
         m.asks = RawLevels(RawBooks(venue, history)[n].SELL)
  PROVE  Mirrors(map_polymarket_order_book_snapshot(m, Asset), venue, history, n)
<1>1. PICK raw : raw = RawBooks(venue, history)[n]
  OBVIOUS
<1>2. IsRawSide(raw.BUY) /\ IsRawSide(raw.SELL) /\ venue # "kalshi"
  BY <1>1, BooksAreBooks DEF IsRawBook, Polymarket
<1>3. Lists(m.bids, raw.BUY, FALSE) /\ Lists(m.asks, raw.SELL, FALSE)
  BY <1>1, <1>2, RawList
<1>4. /\ Lists(SortByPrice(m.bids, TRUE), raw.BUY, TRUE)
      /\ Lists(SortByPrice(m.asks, FALSE), raw.SELL, FALSE)
  BY <1>2, <1>3, ListedBothWays
<1>5. PICK b : b = map_polymarket_order_book_snapshot(m, Asset)
  OBVIOUS
<1>6. b.bids = SortByPrice(m.bids, TRUE) /\ b.asks = SortByPrice(m.asks, FALSE)
  BY <1>5 DEF map_polymarket_order_book_snapshot, MapBidLevels, MapAskLevels
<1>7. Mirrors(b, venue, history, n)
  BY <1>1, <1>2, <1>4, <1>6, Zenon DEF Mirrors
<1> QED
  BY <1>5, <1>7

\* Kalshi's next change makes the book of before it the book of after it.
LEMMA KalshiDeltaMirrors ==
  ASSUME HistoryOK, Kalshi, NEW n \in 1..Len(history.changes), NEW b,
         Mirrors(b, venue, history, n - 1), NEW m, NEW p,
         m.sequence = n, m.side = history.changes[n].side, m.price = history.changes[n].price,
         m.quantity = history.changes[n].quantity, m.action = history.changes[n].action
  PROVE  Mirrors(apply_order_book_delta(b, map_kalshi_order_book_delta(m, Asset, p)),
                 venue, history, n)
<1> DEFINE L == Len(history.changes)
           w == RawBooks(venue, history)
<1>1. PICK u, raw, new : u = history.changes[n] /\ raw = w[n - 1] /\ new = w[n]
  OBVIOUS
<1>2. L \in Nat /\ venue = "kalshi" /\ u.side \in {"yes", "no"} /\ u.price \in Int
  BY <1>1, HistoryFacts DEF Kalshi
<1>3. n - 1 \in 0..L /\ n \in Int /\ n # None
  BY <1>2, FeedAssumption
<1>4. IsRawBook("kalshi", raw) /\ IsRawSide(raw.yes) /\ IsRawSide(raw.no)
  BY <1>1, <1>2, <1>3, BooksAreBooks DEF IsRawBook
<1>5. new = KalshiChange(raw, u)
  BY <1>1, <1>2, BooksStep DEF OneChange
<1>6. PICK q : q = IF u.action = "delete" THEN 0 ELSE u.quantity
  OBVIOUS
<1>7. /\ IsRawBook("kalshi", new)
      /\ new.yes = IF u.side = "yes" THEN SetLevel(raw.yes, u.price, q) ELSE raw.yes
      /\ new.no = IF u.side = "no" THEN SetLevel(raw.no, u.price, q) ELSE raw.no
  BY <1>2, <1>4, <1>5, <1>6, KalshiChangeSides
<1>8. IsRawSide(new.yes) /\ IsRawSide(new.no)
  BY <1>7 DEF IsRawBook
<1>9. Lists(b.bids, raw.yes, TRUE) /\ Lists(b.asks, Mirrored(raw.no), FALSE)
  BY <1>1, <1>2, Zenon DEF Mirrors
<1>10. IsRawSide(Mirrored(raw.no)) /\ IsRawSide(Mirrored(new.no))
  BY <1>4, <1>8, MirroredSide
<1>11. LevelsByPrice(b.bids) = raw.yes /\ LevelsByPrice(b.asks) = Mirrored(raw.no)
  BY <1>4, <1>9, <1>10, ListedBothWays
<1>12. PICK c : c = MapDeltaLevel(m)
  OBVIOUS
<1>13. /\ c.side = (IF u.side = "yes" THEN "BUY" ELSE "SELL")
       /\ c.price = (IF u.side = "yes" THEN u.price ELSE YesAsk(u.price))
       /\ Left(c) = q
  BY <1>1, <1>6, <1>12 DEF MapDeltaLevel, Left
<1>14. PICK d : d = map_kalshi_order_book_delta(m, Asset, p)
  OBVIOUS
<1>15. d.sequence = n /\ d.changes = <<c>>
  BY <1>12, <1>14 DEF map_kalshi_order_book_delta
<1>16. PICK s : s = ChangedSides(b, d.changes)[Len(d.changes)]
  OBVIOUS
<1>17. s = [BUY |-> new.yes, SELL |-> Mirrored(new.no)]
  <2>1. PICK D : D = d.changes
    OBVIOUS
  <2>2. Len(D) = 1 /\ D[1] = c /\ 1 \in 1..Len(D) /\ Len(D) \in Nat
    BY <1>15, <2>1
  <2>3. /\ ChangedSides(b, D)[0] = [BUY |-> LevelsByPrice(b.bids), SELL |-> LevelsByPrice(b.asks)]
        /\ ChangedSides(b, D)[1] = ApplyChange(ChangedSides(b, D)[1 - 1], D[1])
    BY <2>2, ChangedStep
  <2>4. ChangedSides(b, D)[1] = ApplyChange([BUY |-> raw.yes, SELL |-> Mirrored(raw.no)], c)
    <3>1. 1 - 1 = 0
      OBVIOUS
    <3> QED
      BY <1>11, <2>2, <2>3, <3>1, Zenon
  <2>5. s = ApplyChange([BUY |-> raw.yes, SELL |-> Mirrored(raw.no)], c)
    BY <1>16, <2>1, <2>2, <2>4, Zenon
  <2>6. c.side \in {"BUY", "SELL"}
    BY <1>13
  <2>7. s = [BUY  |-> IF c.side = "BUY" THEN SetLevel(raw.yes, c.price, Left(c)) ELSE raw.yes,
             SELL |-> IF c.side = "SELL" THEN SetLevel(Mirrored(raw.no), c.price, Left(c))
                      ELSE Mirrored(raw.no)]
    BY <2>5, <2>6, AppliedSides
  <2>8. Mirrored(SetLevel(raw.no, u.price, q)) = SetLevel(Mirrored(raw.no), YesAsk(u.price), q)
    BY <1>2, <1>4, SetSide
  <2> QED
    BY <1>2, <1>7, <1>13, <2>7, <2>8
<1>18. PICK a : a = apply_order_book_delta(b, d)
  OBVIOUS
<1>19. a.sequence = n /\ a.bids = SortedBids(new.yes) /\ a.asks = SortedAsks(Mirrored(new.no))
  BY <1>3, <1>15, <1>16, <1>17, <1>18 DEF apply_order_book_delta
<1>20. Lists(a.bids, new.yes, TRUE) /\ Lists(a.asks, Mirrored(new.no), FALSE)
  BY <1>8, <1>10, <1>19, ListedBothWays
<1>21. Mirrors(a, venue, history, n)
  BY <1>1, <1>2, <1>19, <1>20, Zenon DEF Mirrors
<1> QED
  BY <1>14, <1>18, <1>21

\* So does Polymarket's next change, without what was not asked for.
LEMMA PolymarketDeltaMirrors ==
  ASSUME HistoryOK, Polymarket, NEW n \in 1..Len(history.changes), NEW b,
         Mirrors(b, venue, history, n - 1), NEW m, NEW asked, Asset \in asked,
         m.price_changes = ChangesOf(history.changes[n], asked)
  PROVE  Mirrors(apply_order_book_delta(b, map_polymarket_order_book_delta(m, Asset, Asset)),
                 venue, history, n)
<1> DEFINE L == Len(history.changes)
           w == RawBooks(venue, history)
<1>1. PICK u, raw, new, M : /\ u = history.changes[n] /\ raw = w[n - 1] /\ new = w[n]
                            /\ M = m.price_changes
  OBVIOUS
<1>2. L \in Nat /\ venue = "polymarket" /\ venue # "kalshi" /\ IsMessageOf(u)
  BY <1>1, HistoryFacts DEF Polymarket
<1>3. n - 1 \in 0..L
  BY <1>2
<1>4. IsRawBook("polymarket", raw) /\ IsRawSide(raw.BUY) /\ IsRawSide(raw.SELL)
  BY <1>1, <1>2, <1>3, BooksAreBooks DEF IsRawBook
<1>5. new = MessageChange(raw, u)
  BY <1>1, <1>2, BooksStep DEF OneChange
<1>6. IsMessageOf(M) /\ MessageChange(raw, M) = new
  BY <1>1, <1>2, <1>4, <1>5, FilteredMessage
<1>7. IsRawSide(new.BUY) /\ IsRawSide(new.SELL)
  BY <1>2, <1>4, <1>5, MessageKeeps DEF IsRawBook
<1>8. Lists(b.bids, raw.BUY, TRUE) /\ Lists(b.asks, raw.SELL, FALSE)
  BY <1>1, <1>2, Zenon DEF Mirrors
<1>9. LevelsByPrice(b.bids) = raw.BUY /\ LevelsByPrice(b.asks) = raw.SELL
  BY <1>4, <1>8, ListedBothWays
<1>10. PICK d : d = map_polymarket_order_book_delta(m, Asset, Asset)
  OBVIOUS
<1>11. PICK D : D = [i \in DOMAIN ChangesOf(M, {Asset}) |->
                       MapPriceChange(ChangesOf(M, {Asset})[i])]
  OBVIOUS
<1>12. d.changes = D
  BY <1>1, <1>10, <1>11 DEF map_polymarket_order_book_delta, TokenChanges
<1>13. ChangedSides(b, D)[Len(D)] = [BUY |-> new.BUY, SELL |-> new.SELL]
  BY <1>4, <1>6, <1>9, <1>11, FoldedSides
<1>14. PICK a : a = apply_order_book_delta(b, d)
  OBVIOUS
<1>15. a.bids = SortedBids(new.BUY) /\ a.asks = SortedAsks(new.SELL)
  BY <1>12, <1>13, <1>14 DEF apply_order_book_delta
<1>16. Lists(a.bids, new.BUY, TRUE) /\ Lists(a.asks, new.SELL, FALSE)
  BY <1>7, <1>15, ListedBothWays
<1>17. Mirrors(a, venue, history, n)
  BY <1>1, <1>2, <1>16, Zenon DEF Mirrors
<1> QED
  BY <1>10, <1>14, <1>17

\* The two best prices say whether some bid is at or above some ask.
LEMMA CrossedLists ==
  ASSUME NEW b, NEW f, NEW g, IsRawSide(f), IsRawSide(g),
         Lists(b.bids, f, TRUE), Lists(b.asks, g, FALSE)
  PROVE  is_crossed(b) <=> \E x \in DOMAIN f, y \in DOMAIN g : x >= y
<1>1. PICK s, t : s = b.bids /\ t = b.asks
  OBVIOUS
<1>2. PICK yes \in BOOLEAN, no \in BOOLEAN : yes = TRUE /\ no = FALSE
  OBVIOUS
<1>3. Lists(s, f, yes) /\ Lists(t, g, no)
  BY <1>1, <1>2, Zenon
<1>4. /\ \A i \in DOMAIN s : s[i].price \in DOMAIN f /\ s[i].price \in Int
      /\ \A x \in DOMAIN f : \E i \in DOMAIN s : s[i].price = x
      /\ \A i \in DOMAIN t : t[i].price \in DOMAIN g /\ t[i].price \in Int
      /\ \A y \in DOMAIN g : \E i \in DOMAIN t : t[i].price = y
  <2>1. ASSUME NEW levels, NEW e, NEW r \in BOOLEAN, IsRawSide(e), Lists(levels, e, r)
        PROVE  /\ \A i \in DOMAIN levels : levels[i].price \in DOMAIN e /\ levels[i].price \in Int
               /\ \A x \in DOMAIN e : \E i \in DOMAIN levels : levels[i].price = x
    <3>1. /\ \A i \in DOMAIN levels : levels[i].price \in DOMAIN e /\ levels[i].price \in Int
          /\ \A x \in DOMAIN e : \E i \in DOMAIN levels :
               levels[i] = [price |-> x, quantity |-> e[x]]
      BY <2>1, ListedLevel
    <3> QED
      BY <3>1
  <2> QED
    BY <1>3, <2>1
<1>5. /\ Proper(s) /\ \A i, j \in DOMAIN s : i < j => s[i].price > s[j].price
      /\ Proper(t) /\ \A i, j \in DOMAIN t : i < j => t[i].price < t[j].price
  BY <1>1, Zenon DEF Lists
<1>6. /\ Len(s) \in Nat /\ DOMAIN s = 1..Len(s)
      /\ Len(t) \in Nat /\ DOMAIN t = 1..Len(t)
  BY <1>5 DEF Proper
<1>7. /\ s # <<>> => 1 \in DOMAIN s /\ Head(s) = s[1]
      /\ t # <<>> => 1 \in DOMAIN t /\ Head(t) = t[1]
  BY <1>5, <1>6, ProperTail
<1>8. (s = <<>> => DOMAIN s = {}) /\ (t = <<>> => DOMAIN t = {})
  BY <1>6, ProperEmpty
<1>9. ASSUME is_crossed(b) PROVE \E x \in DOMAIN f, y \in DOMAIN g : x >= y
  <2>1. s # <<>> /\ t # <<>> /\ Head(t).price - Head(s).price <= 0
    BY <1>1, <1>9 DEF is_crossed, best_bid, best_ask
  <2>2. /\ s[1].price \in DOMAIN f /\ s[1].price \in Int
        /\ t[1].price \in DOMAIN g /\ t[1].price \in Int
    BY <1>4, <1>7, <2>1
  <2>3. s[1].price >= t[1].price
    BY <1>7, <2>1, <2>2
  <2> QED
    BY <2>2, <2>3
<1>10. ASSUME NEW x \in DOMAIN f, NEW y \in DOMAIN g, x >= y PROVE is_crossed(b)
  <2>1. PICK i \in DOMAIN s, j \in DOMAIN t : s[i].price = x /\ t[j].price = y
    BY <1>4
  <2>2. s # <<>> /\ t # <<>> /\ 1 \in DOMAIN s /\ 1 \in DOMAIN t
        /\ Head(s) = s[1] /\ Head(t) = t[1]
    BY <1>7, <1>8, <2>1
  <2>3. /\ s[1].price \in Int /\ t[1].price \in Int /\ s[i].price \in Int /\ t[j].price \in Int
    BY <1>4, <2>1, <2>2
  <2>4. s[1].price >= s[i].price
    <3>1. i = 1 \/ 1 < i
      BY <1>6
    <3> QED
      BY <1>5, <2>2, <2>3, <3>1
  <2>5. t[1].price <= t[j].price
    <3>1. j = 1 \/ 1 < j
      BY <1>6
    <3> QED
      BY <1>5, <2>2, <2>3, <3>1
  <2>6. t[1].price - s[1].price <= 0
    BY <1>10, <2>1, <2>3, <2>4, <2>5
  <2> QED
    BY <1>1, <2>2, <2>6 DEF is_crossed, best_bid, best_ask
<1> QED
  BY <1>9, <1>10

\* A book that mirrors the exchange's is the exchange's, level for level.
LEMMA MirrorsIsExchangeBook ==
  ASSUME HistoryOK, book # None => /\ seen \in 0..Len(history.changes)
                                   /\ Mirrors(book, venue, history, seen)
                                   /\ Kalshi => previous = seen
  PROVE  BookIsExchangeBook
<1> SUFFICES ASSUME book # None PROVE BookIsExchangeBook
  BY DEF BookIsExchangeBook
<1>1. PICK raw : raw = RawBook(seen)
  OBVIOUS
<1>2. raw = RawBooks(venue, history)[seen] /\ IsRawBook(venue, raw)
  BY <1>1, BooksAreBooks DEF RawBook
<1>3. CASE Kalshi
  <2>1. IsRawSide(raw.yes) /\ IsRawSide(raw.no)
    BY <1>2, <1>3 DEF Kalshi, IsRawBook
  <2>2. /\ book.sequence = seen /\ previous = seen
        /\ Lists(book.bids, raw.yes, TRUE) /\ Lists(book.asks, Mirrored(raw.no), FALSE)
    BY <1>2, <1>3, Zenon DEF Kalshi, Mirrors
  <2> DEFINE g == Mirrored(raw.no)
  <2>3. /\ IsRawSide(g)
        /\ \A q \in Int : YesAsk(q) \in Int /\ YesAsk(YesAsk(q)) = q
        /\ \A q \in Int : YesAsk(q) \in DOMAIN g <=> q \in DOMAIN raw.no
        /\ \A q \in DOMAIN raw.no : q \in Int /\ g[YesAsk(q)] = raw.no[q]
    BY <2>1, MirroredSide
  <2>4. DOMAIN raw.yes \subseteq Int /\ DOMAIN g = {YesAsk(q) : q \in DOMAIN raw.no}
    BY <2>1 DEF IsRawSide, Mirrored
  <2> HIDE DEF g
  <2>5. is_crossed(book) <=> \E y \in DOMAIN raw.yes, n \in DOMAIN raw.no :
                               y + n >= CentsPerContract
    <3>1. is_crossed(book) <=> \E x \in DOMAIN raw.yes, y \in DOMAIN g : x >= y
      BY <2>1, <2>2, <2>3, CrossedLists DEF g
    <3>2. \A x \in DOMAIN raw.yes, n \in DOMAIN raw.no :
            x >= YesAsk(n) <=> x + n >= CentsPerContract
      BY <2>3, <2>4 DEF YesAsk, CentsPerContract
    <3> QED
      BY <2>4, <3>1, <3>2
  <2>6. Levels(book.bids) = {[price |-> p, quantity |-> raw.yes[p]] : p \in DOMAIN raw.yes}
    BY <2>2, Zenon DEF Lists
  <2>7. Levels(book.asks) = {[price |-> CentsPerContract - p, quantity |-> raw.no[p]] :
                               p \in DOMAIN raw.no}
    <3>1. Levels(book.asks) = {[price |-> p, quantity |-> g[p]] : p \in DOMAIN g}
      BY <2>2, Zenon DEF Lists, g
    <3>2. {[price |-> p, quantity |-> g[p]] : p \in DOMAIN g}
            = {[price |-> YesAsk(p), quantity |-> raw.no[p]] : p \in DOMAIN raw.no}
      BY <2>3, <2>4
    <3> QED
      BY <3>1, <3>2 DEF YesAsk
  <2> QED
    BY <1>1, <1>3, <2>2, <2>5, <2>6, <2>7 DEF BookIsExchangeBook
<1>4. CASE ~Kalshi
  <2>1. IsRawSide(raw.BUY) /\ IsRawSide(raw.SELL)
    BY <1>2, <1>4 DEF Kalshi, IsRawBook
  <2>2. Lists(book.bids, raw.BUY, TRUE) /\ Lists(book.asks, raw.SELL, FALSE)
    BY <1>2, <1>4, Zenon DEF Kalshi, Mirrors
  <2>3. is_crossed(book) <=> \E b \in DOMAIN raw.BUY, a \in DOMAIN raw.SELL : b >= a
    BY <2>1, <2>2, CrossedLists
  <2>4. /\ Levels(book.bids) = {[price |-> p, quantity |-> raw.BUY[p]] : p \in DOMAIN raw.BUY}
        /\ Levels(book.asks) = {[price |-> p, quantity |-> raw.SELL[p]] : p \in DOMAIN raw.SELL}
    BY <2>2, Zenon DEF Lists
  <2> QED
    BY <1>1, <1>4, <2>3, <2>4 DEF BookIsExchangeBook
<1> QED
  BY <1>3, <1>4

\* What the feed shows is the exchange's book as of the last frame it took.
ShownInv == book # None => Mirrors(book, venue, history, seen)

\* Only an order-book frame changes the book to another one.
LEMMA BookSteps ==
  ASSUME [Next]_vars
  PROVE  \/ SameExchange /\ book' = None
         \/ SameExchange /\ book' = book /\ seen' = seen
         \/ ReceiveBookFrame
<1>1. CASE Exchange
  BY <1>1 DEF Exchange, ExchangeChanges, ExchangeGreets, ExchangeAcknowledges, ExchangePings,
              ExchangeTrades, SameExchange, exchange, local
<1>2. CASE Faults
  BY <1>2 DEF Faults, ChangeIsLost, FrameIsRepeated, SequenceIsMissing, StrayFrame, HalfOpen,
              SameExchange, exchange, local
<1>3. CASE Receives
  <2>1. CASE ReceiveHello \/ SubscribeReceives \/ ReceiveHeartbeat \/ ReceiveStray
    BY <2>1 DEF ReceiveHello, SubscribeReceives, ReceiveHeartbeat, ReceiveStray, Disconnects,
                SameExchange, exchange, local
  <2>2. CASE ReceiveTrade
    BY <2>2 DEF ReceiveTrade, KalshiTradeFrame, PolymarketTradeFrame, Disconnects,
                SameExchange, exchange, local
  <2> QED
    BY <1>3, <2>1, <2>2 DEF Receives
<1>4. CASE Client
  BY <1>4 DEF Client, Connect, SubscribeSends, HandshakeTimesOut, HeartbeatMissed,
              SubscribeTokens, SendHeartbeat, Disconnects, SameExchange, exchange, local
<1>5. CASE Updates
  BY <1>5 DEF Updates, UpdateTokensSends, UpdateTokensStores, SameExchange, exchange, local
<1>6. CASE Tick \/ UNCHANGED vars
  BY <1>6 DEF Tick, vars, SameExchange, exchange, local
<1> QED
  BY <1>1, <1>2, <1>3, <1>4, <1>5, <1>6 DEF Next

\* A Kalshi order-book frame that is taken makes the shown book the exchange's as
\* of that frame.
LEMMA KalshiShows ==
  ASSUME FeedInv, ShownInv, Kalshi, SameExchange, wire # <<>>,
         Head(wire).kind \in {"book", "change"}, KalshiBookFrame(Head(wire))
  PROVE  ShownInv'
<1>1. PICK f, m : f = Head(wire) /\ m = f.message
  OBVIOUS
<1> DEFINE status == OrderBookSequenceStatus(previous, m)
           L == Len(history.changes)
<1>2. /\ FrameOK(f, venue, history, pos) /\ pos \in Nat /\ pos \in 0..L /\ L \in Nat
      /\ None \notin Int /\ HistoryOK
  <2>1. HistoryOK /\ pos \in 0..L
    BY DEF FeedInv, HistoryOK
  <2>2. L \in Nat
    BY <2>1, HistoryFacts
  <2>3. FrameOK(f, venue, history, pos) /\ pos \in Nat
    BY <1>1, FeedFacts, FramesTail
  <2>4. None \notin Int
    BY FeedAssumption
  <2> QED
    BY <2>1, <2>2, <2>3, <2>4
<1>3. f.at \in 0..pos /\ Tells(f, venue, history) /\ m.sequence \in {f.at, None}
  BY <1>1, <1>2 DEF FrameOK, BookFrame, Kalshi
<1>4. previous = seen /\ (book # None => seen \in 0..pos)
  BY DEF FeedInv, BookOK
<1>5. status = "ok" => m.sequence = f.at /\ (previous # None => f.at = previous + 1)
  BY <1>2, <1>3, <1>4 DEF OrderBookSequenceStatus
<1>6. KalshiBookFrame(f)
  BY <1>1
<1>7. CASE book' = None
  BY <1>7 DEF ShownInv
<1>8. CASE book' = book /\ seen' = seen
  BY <1>8 DEF ShownInv, SameExchange
<1>9. CASE /\ status = "ok" /\ f.kind = "book" /\ seen' = f.at
           /\ book' = map_kalshi_order_book_snapshot(m, Asset)
  <2>1. f.at \in 0..L /\ m.sequence = f.at
    BY <1>2, <1>3, <1>5, <1>9
  <2>2. /\ m.yes = RawLevels(RawBooks(venue, history)[f.at].yes)
        /\ m.no = RawLevels(RawBooks(venue, history)[f.at].no)
    BY <1>1, <1>3, <1>9 DEF Tells, Kalshi
  <2>3. Mirrors(book', venue, history, f.at)
    BY <1>2, <1>9, <2>1, <2>2, KalshiSnapshotMirrors
  <2> QED
    BY <1>9, <2>3 DEF ShownInv, SameExchange
<1>10. CASE /\ status = "ok" /\ f.kind = "change" /\ book # None /\ seen' = f.at
            /\ book' = apply_order_book_delta(book, map_kalshi_order_book_delta(m, Asset, previous))
  <2>1. /\ f.at \in 1..L /\ m.sequence = f.at /\ f.at - 1 = seen
    BY <1>2, <1>3, <1>4, <1>5, <1>10
  <2>2. Mirrors(book, venue, history, f.at - 1)
    BY <1>10, <2>1 DEF ShownInv
  <2>3. /\ m.side = history.changes[f.at].side /\ m.price = history.changes[f.at].price
        /\ m.quantity = history.changes[f.at].quantity
        /\ m.action = history.changes[f.at].action
    BY <1>1, <1>3, <1>10 DEF Tells, Kalshi
  <2>4. PICK n \in 1..L : n = f.at
    BY <2>1
  <2>5. Mirrors(book', venue, history, f.at)
    BY <1>2, <1>10, <2>1, <2>2, <2>3, <2>4, KalshiDeltaMirrors
  <2> QED
    BY <1>10, <2>5 DEF ShownInv, SameExchange
<1>11. \/ book' = None
       \/ book' = book /\ seen' = seen
       \/ /\ status = "ok" /\ f.kind = "book" /\ seen' = f.at
          /\ book' = map_kalshi_order_book_snapshot(m, Asset)
       \/ /\ status = "ok" /\ f.kind = "change" /\ book # None /\ seen' = f.at
          /\ book' = apply_order_book_delta(book, map_kalshi_order_book_delta(m, Asset, previous))
  BY <1>1, <1>6 DEF KalshiBookFrame, Shows, Disconnects, local
<1> QED
  BY <1>7, <1>8, <1>9, <1>10, <1>11

\* So does a Polymarket frame: the change it carries is the next one that touches
\* the book, and the changes since the last one left it alone.
LEMMA PolymarketShows ==
  ASSUME FeedInv, ShownInv, Polymarket, SameExchange, wire # <<>>,
         Head(wire).kind \in {"book", "change"}, PolymarketBookFrame(Head(wire))
  PROVE  ShownInv'
<1>1. PICK f, m : f = Head(wire) /\ m = f.message
  OBVIOUS
<1> DEFINE L == Len(history.changes)
<1>2. /\ FrameOK(f, venue, history, pos) /\ pos \in Nat /\ pos \in 0..L /\ L \in Nat
      /\ f = wire[1] /\ venue # "kalshi" /\ ~Kalshi /\ HistoryOK /\ Len(wire) \in Nat \ {0}
  <2>1. HistoryOK /\ pos \in 0..L
    BY DEF FeedInv, HistoryOK
  <2>2. L \in Nat
    BY <2>1, HistoryFacts
  <2>3. Len(wire) \in Nat \ {0}
    BY FeedFacts, ProperTail
  <2> QED
    BY <1>1, <2>1, <2>2, <2>3, FeedFacts, FramesTail DEF Polymarket, Kalshi
<1>3. f.at \in 0..pos /\ Tells(f, venue, history)
  BY <1>1, <1>2 DEF FrameOK, BookFrame
<1>4. PolymarketBookFrame(f)
  BY <1>1
<1>5. CASE book' = book /\ seen' = seen
  BY <1>5 DEF ShownInv, SameExchange
<1>6. CASE /\ f.kind = "book" /\ seen' = f.at
           /\ book' = map_polymarket_order_book_snapshot(m, Asset)
  <2>1. f.at \in 0..L
    BY <1>2, <1>3
  <2>2. /\ m.bids = RawLevels(RawBooks(venue, history)[f.at].BUY)
        /\ m.asks = RawLevels(RawBooks(venue, history)[f.at].SELL)
    BY <1>1, <1>2, <1>3, <1>6 DEF Tells
  <2>3. Mirrors(book', venue, history, f.at)
    BY <1>2, <1>6, <2>1, <2>2, PolymarketSnapshotMirrors
  <2> QED
    BY <1>6, <2>3 DEF ShownInv, SameExchange
<1>7. CASE /\ f.kind = "change" /\ DeltaMaps(m, Asset) /\ book # None /\ seen' = f.at
           /\ book' = apply_order_book_delta(book, map_polymarket_order_book_delta(m, Asset, Asset))
  <2>1. f.at # 0 /\ \E asked : m.price_changes = ChangesOf(history.changes[f.at], asked)
    BY <1>1, <1>2, <1>3, <1>7 DEF Tells
  <2>2. PICK asked : m.price_changes = ChangesOf(history.changes[f.at], asked)
    BY <2>1
  <2>3. PICK n \in 1..L : n = f.at
    BY <1>2, <1>3, <2>1
  <2>4. IsSequence(history.changes[n])
    BY <1>2, HistoryFacts DEF IsMessageOf
  <2>5. Asset \in asked /\ Touches(history.changes[n])
    <3>1. \E i \in DOMAIN ChangesOf(history.changes[n], asked) :
            ChangesOf(history.changes[n], asked)[i].asset_id = Asset
      BY <1>7, <2>2, <2>3 DEF DeltaMaps
    <3> QED
      <4>1. PICK u : u = history.changes[n]
        OBVIOUS
      <4>2. IsSequence(u)
        BY <2>4, <4>1
      <4>3. (\E i \in DOMAIN ChangesOf(u, asked) : ChangesOf(u, asked)[i].asset_id = Asset)
              <=> Asset \in asked /\ \E i \in DOMAIN u : u[i].asset_id = Asset
        BY <4>2, ChangesOfToken
      <4> QED
        BY <3>1, <4>1, <4>3 DEF Touches
  <2>6. seen \in 0..pos /\ Linked(Made, book, seen, wire) /\ Ordered(seen, wire) /\ seen # None
    BY <1>7 DEF FeedInv, BookOK, ChainOK
  <2>7. seen <= n /\ Made[n] = Made[seen] + 1
    <3>1. 1 \in 1..Len(wire) /\ 0 \in 0..(1 - 1) /\ \A k : k \notin (0 + 1)..(1 - 1)
      BY <1>2
    <3>2. wire[1].kind = "change" /\ Relevant(wire[1]) /\ BookFrame(wire[1]) /\ wire[1].at = n
      BY <1>1, <1>2, <1>7, <2>3 DEF Relevant, BookFrame
    <3>3. Rel(book, wire, 0) /\ At(seen, wire, 0) = seen
      BY <1>7 DEF Rel, At
    <3>4. Made[n] = Made[seen] + 1
      BY <2>6, <3>1, <3>2, <3>3 DEF Linked
    <3>5. seen <= n
      BY <2>6, <3>1, <3>2 DEF Ordered
    <3> QED
      BY <3>4, <3>5
  <2>8. Made[n] = Made[n - 1] + 1 /\ Made[n - 1] \in Nat /\ Made[seen] \in Nat /\ Made[n] \in Nat
    <3>1. n - 1 \in 0..L /\ n \in 0..L /\ seen \in 0..L
      BY <1>2, <2>6
    <3> QED
      BY <1>2, <2>5, <3>1, MadeCounts
  <2>9. Made[seen] = Made[n - 1] /\ seen # n
    BY <2>7, <2>8
  <2>10. seen \in 0..L /\ n - 1 \in 0..L /\ seen <= n - 1
    BY <1>2, <2>6, <2>7, <2>9
  <2>11. RawBooks(venue, history)[n - 1] = RawBooks(venue, history)[seen]
    BY <1>2, <2>9, <2>10, BooksStay
  <2>12. Mirrors(book, venue, history, n - 1)
    BY <1>2, <1>7, <2>11, Zenon DEF ShownInv, Mirrors
  <2>13. Mirrors(book', venue, history, n)
    BY <1>2, <1>7, <2>2, <2>3, <2>5, <2>12, PolymarketDeltaMirrors
  <2> QED
    BY <1>7, <2>3, <2>13 DEF ShownInv, SameExchange
<1>8. \/ book' = book /\ seen' = seen
      \/ /\ f.kind = "book" /\ seen' = f.at
         /\ book' = map_polymarket_order_book_snapshot(m, Asset)
      \/ /\ f.kind = "change" /\ DeltaMaps(m, Asset) /\ book # None /\ seen' = f.at
         /\ book' = apply_order_book_delta(book, map_polymarket_order_book_delta(m, Asset, Asset))
  BY <1>1, <1>4 DEF PolymarketBookFrame, Shows
<1> QED
  BY <1>5, <1>6, <1>7, <1>8

\* A book the feed shows is the exchange's book as it was after some number of
\* its changes, level for level and crossed when the exchange's is, for every
\* history of the exchange, every number of faults and every way the connection
\* breaks and the subscription changes.
THEOREM BooksAreTheExchanges == Spec => []BookIsExchangeBook
<1>1. Init => ShownInv
  BY DEF Init, ShownInv
<1>2. FeedInv /\ ShownInv /\ [Next]_vars => ShownInv'
  <2> SUFFICES ASSUME FeedInv, ShownInv, [Next]_vars PROVE ShownInv'
    OBVIOUS
  <2>1. CASE SameExchange /\ (book' = None \/ (book' = book /\ seen' = seen))
    BY <2>1 DEF ShownInv, SameExchange
  <2>2. CASE ReceiveBookFrame
    <3>1. SameExchange /\ wire # <<>> /\ Head(wire).kind \in {"book", "change"}
      BY <2>2 DEF ReceiveBookFrame, SameExchange, exchange
    <3>2. IF Kalshi THEN KalshiBookFrame(Head(wire)) ELSE PolymarketBookFrame(Head(wire))
      BY <2>2 DEF ReceiveBookFrame
    <3> QED
      BY <3>1, <3>2, FeedFacts, KalshiShows, PolymarketShows
  <2> QED
    BY <2>1, <2>2, BookSteps
<1>3. FeedInv /\ ShownInv => BookIsExchangeBook
  <2> SUFFICES ASSUME FeedInv, ShownInv PROVE BookIsExchangeBook
    OBVIOUS
  <2>1. HistoryOK /\ (Kalshi => previous = seen) /\ pos \in 0..Len(history.changes)
    BY DEF FeedInv, HistoryOK, BookOK
  <2>2. book # None => seen \in 0..Len(history.changes)
    <3>1. Len(history.changes) \in Nat
      BY <2>1, HistoryFacts
    <3> QED
      BY <2>1, <3>1 DEF FeedInv, BookOK
  <2>3. book # None => Mirrors(book, venue, history, seen)
    BY DEF ShownInv
  <2> QED
    BY <2>1, <2>2, <2>3, MirrorsIsExchangeBook
<1>4. Spec => [](FeedInv /\ ServerOK)
  BY FeedInductive
<1> QED
  BY <1>1, <1>2, <1>3, <1>4, PTL DEF Spec
-----------------------------------------------------------------------------
(* Heartbeats.  A connection that has been idle for one interval has a       *)
(* heartbeat in flight once this interval's was sent; one idle for two has   *)
(* one among the frames that must arrive before the next interval ends, so   *)
(* there is no third.                                                        *)
IsBeat(f, v) == f.kind = IF v = "kalshi" THEN "ping" ELSE "PONG"

BeatWithin(w, v, n) == \E i \in 1..Len(w) : i <= n /\ IsBeat(w[i], v)

BeatInv ==
  /\ idle \in Nat /\ late \in Nat
  /\ phase # "stream" => idle = 0
  /\ server.alive =>
       /\ idle <= 2
       /\ idle >= 1 /\ pinged => BeatWithin(wire, venue, Len(wire))
       /\ idle = 2 => BeatWithin(wire, venue, late)

\* The count starts anew when a frame that counts is received, when the stream
\* begins and when the connection is given up.
LEMMA BeatReset == ASSUME idle' = 0, late' \in Nat PROVE BeatInv'
BY DEF BeatInv

\* Frames are added after those in flight, or change without being heartbeats.
LEMMA BeatQuiet ==
  ASSUME BeatInv, Len(wire) \in Nat, Len(wire') \in Nat,
         venue' = venue, idle' = idle, late' = late, pinged' = pinged,
         phase' # "stream" => phase # "stream",
         server'.alive => server.alive \/ idle = 0,
         \A i \in 1..Len(wire) : i \in 1..Len(wire') /\ wire'[i].kind = wire[i].kind
  PROVE  BeatInv'
<1>1. BeatWithin(wire, venue, late) => BeatWithin(wire', venue', late')
  BY DEF BeatWithin, IsBeat
<1>2. BeatWithin(wire, venue, Len(wire)) => BeatWithin(wire', venue', Len(wire'))
  BY DEF BeatWithin, IsBeat
<1>3. /\ idle' \in Nat /\ late' \in Nat
      /\ phase' # "stream" => idle' = 0
      /\ idle' = 0 => idle' <= 2 /\ ~(idle' >= 1) /\ ~(idle' = 2)
  BY DEF BeatInv
<1>4. server.alive => /\ idle' <= 2
                      /\ idle' >= 1 /\ pinged' => BeatWithin(wire', venue', Len(wire'))
                      /\ idle' = 2 => BeatWithin(wire', venue', late')
  BY <1>1, <1>2, Zenon DEF BeatInv
<1> QED
  BY <1>3, <1>4, Zenon DEF BeatInv

\* Nothing, a frame or two are sent, and the count is left alone.
LEMMA BeatSends ==
  ASSUME BeatInv, FeedInv, venue' = venue, idle' = idle, late' = late, pinged' = pinged,
         phase' # "stream" => phase # "stream",
         server'.alive => server.alive \/ idle = 0,
         \/ wire' = wire
         \/ \E f : wire' = Append(wire, f) \/ wire' = wire \o <<f>>
         \/ \E f, g : wire' = wire \o <<f, g>>
  PROVE  BeatInv'
<1>1. Proper(wire) /\ Len(wire) \in Nat
  BY FeedFacts
<1>2. CASE wire' = wire
  BY <1>1, <1>2, BeatQuiet
<1>3. ASSUME NEW f, wire' = Append(wire, f) PROVE BeatInv'
  BY <1>1, <1>3, ProperAppend, BeatQuiet
<1>4. ASSUME NEW f, NEW g, wire' = Append(Append(wire, f), g) PROVE BeatInv'
  <2>1. PICK w : w = Append(wire, f)
    OBVIOUS
  <2>2. /\ Proper(w) /\ Len(w) = Len(wire) + 1
        /\ \A i \in 1..Len(wire) : w[i] = wire[i]
    BY <1>1, <2>1, ProperAppend
  <2>3. Len(wire') = Len(w) + 1 /\ \A i \in 1..Len(w) : wire'[i] = w[i]
    BY <1>4, <2>1, <2>2, ProperAppend
  <2> QED
    BY <1>1, <2>2, <2>3, BeatQuiet
<1>5. ASSUME NEW f, wire' = wire \o <<f>> PROVE BeatInv'
  BY <1>1, <1>3, <1>5, ProperAppend
<1>6. ASSUME NEW f, NEW g, wire' = wire \o <<f, g>> PROVE BeatInv'
  <2>1. wire \o <<f, g>> = Append(Append(wire, f), g)
    BY <1>1, ProperConcat
  <2> QED
    BY <1>4, <1>6, <2>1
<1> QED
  BY <1>2, <1>3, <1>5, <1>6, Zenon

\* A frame is received that is no heartbeat: those behind it come closer, and so
\* does the end of what must arrive in this interval.
LEMMA BeatTail ==
  ASSUME BeatInv, FeedInv, Received, ~IsBeat(Head(wire), venue), venue' = venue,
         idle' = idle, pinged' = pinged, phase' = phase, server' = server
  PROVE  BeatInv'
<1>1. /\ wire # <<>> /\ wire' = Tail(wire) /\ Proper(wire)
      /\ late' = IF late > 0 THEN late - 1 ELSE 0
  BY FeedFacts DEF Received
<1>2. /\ Len(wire) \in Nat \ {0} /\ Len(wire') = Len(wire) - 1 /\ Head(wire) = wire[1]
      /\ \A i \in 1..Len(wire') : wire'[i] = wire[i + 1]
  BY <1>1, ProperTail
<1>3. ASSUME NEW i \in 1..Len(wire), IsBeat(wire[i], venue)
      PROVE  i - 1 \in 1..Len(wire') /\ IsBeat(wire'[i - 1], venue)
  <2>1. i # 1
    BY <1>2, <1>3
  <2>2. i - 1 \in 1..Len(wire') /\ (i - 1) + 1 = i
    BY <1>2, <2>1
  <2> QED
    BY <1>2, <1>3, <2>2
<1>4. BeatWithin(wire, venue, Len(wire)) => BeatWithin(wire', venue, Len(wire'))
  BY <1>2, <1>3 DEF BeatWithin
<1>5. late \in Nat /\ late' \in Nat
  BY <1>1 DEF BeatInv
<1>6. BeatWithin(wire, venue, late) => BeatWithin(wire', venue, late')
  <2> SUFFICES ASSUME BeatWithin(wire, venue, late) PROVE BeatWithin(wire', venue, late')
    OBVIOUS
  <2>1. PICK i \in 1..Len(wire) : i <= late /\ IsBeat(wire[i], venue)
    BY DEF BeatWithin
  <2>2. i - 1 \in 1..Len(wire') /\ IsBeat(wire'[i - 1], venue)
    BY <1>3, <2>1
  <2>3. i - 1 <= late'
    BY <1>1, <1>2, <1>5, <2>1
  <2> QED
    BY <2>2, <2>3 DEF BeatWithin
<1> QED
  BY <1>4, <1>5, <1>6 DEF BeatInv

\* A change in flight is lost: a heartbeat is not, and comes no later.
LEMMA BeatRemove ==
  ASSUME NEW w, Proper(w), NEW v, NEW j \in 1..Len(w), w[j].kind = "change", NEW n \in Nat,
         BeatWithin(w, v, n)
  PROVE  /\ Len(RemoveAt(w, j)) \in Nat
         /\ BeatWithin(RemoveAt(w, j), v, n)
         /\ BeatWithin(RemoveAt(w, j), v, Len(RemoveAt(w, j)))
<1>1. PICK S : w \in Seq(S) /\ Len(w) \in Nat
  <2>1. w \in Seq({w[i] : i \in 1..Len(w)})
    BY ProperIsSeq
  <2> QED
    BY <2>1 DEF Proper
<1>2. PICK i \in 1..Len(w) : i <= n /\ IsBeat(w[i], v)
  BY DEF BeatWithin
<1>3. i # j
  BY <1>2 DEF IsBeat
<1>4. PICK r : r = RemoveAt(w, j)
  OBVIOUS
<1>5. /\ Len(r) = Len(w) - 1
      /\ \A k \in 1..Len(r) : r[k] = IF k < j THEN w[k] ELSE w[k + 1]
  <2>1. /\ SubSeq(w, 1, j - 1) \in Seq(S) /\ SubSeq(w, j + 1, Len(w)) \in Seq(S)
        /\ Len(SubSeq(w, 1, j - 1)) = j - 1 /\ Len(SubSeq(w, j + 1, Len(w))) = Len(w) - j
        /\ \A k \in 1..(j - 1) : SubSeq(w, 1, j - 1)[k] = w[k]
        /\ \A k \in 1..(Len(w) - j) : SubSeq(w, j + 1, Len(w))[k] = w[j + k]
    BY <1>1
  <2>2. PICK a, b : a = SubSeq(w, 1, j - 1) /\ b = SubSeq(w, j + 1, Len(w))
    OBVIOUS
  <2>3. /\ a \in Seq(S) /\ b \in Seq(S) /\ Len(a) = j - 1 /\ Len(b) = Len(w) - j
        /\ \A k \in 1..(j - 1) : a[k] = w[k]
        /\ \A k \in 1..(Len(w) - j) : b[k] = w[j + k]
    BY <2>1, <2>2
  <2>4. /\ Len(r) = Len(a) + Len(b)
        /\ \A k \in 1..(Len(a) + Len(b)) : r[k] = IF k <= Len(a) THEN a[k] ELSE b[k - Len(a)]
    <3>1. r = a \o b
      BY <1>4, <2>2 DEF RemoveAt
    <3> QED
      BY <2>3, <3>1, ConcatProperties
  <2>5. Len(r) = Len(w) - 1 /\ 1..(Len(a) + Len(b)) = 1..Len(r)
    BY <1>1, <2>3, <2>4
  <2>6. ASSUME NEW k \in 1..Len(r) PROVE r[k] = IF k < j THEN w[k] ELSE w[k + 1]
    <3>1. CASE k < j
      BY <1>1, <2>3, <2>4, <2>5, <3>1
    <3>2. CASE ~(k < j)
      <4>1. k - (j - 1) \in 1..(Len(w) - j) /\ j + (k - (j - 1)) = k + 1 /\ ~(k <= j - 1)
        BY <1>1, <2>5, <3>2
      <4>2. r[k] = b[k - (j - 1)] /\ b[k - (j - 1)] = w[j + (k - (j - 1))]
        BY <1>1, <2>3, <2>4, <2>5, <4>1
      <4> QED
        BY <3>2, <4>1, <4>2
    <3> QED
      BY <3>1, <3>2
  <2> QED
    BY <2>5, <2>6
<1>6. \E k \in 1..Len(r) : k <= n /\ IsBeat(r[k], v)
  <2>1. CASE i < j
    <3>1. i \in 1..Len(r) /\ r[i] = w[i]
      BY <1>1, <1>5, <2>1
    <3> QED
      BY <1>2, <3>1
  <2>2. CASE i > j
    <3>1. i - 1 \in 1..Len(r) /\ ~(i - 1 < j) /\ (i - 1) + 1 = i /\ i - 1 <= n
      BY <1>1, <1>2, <1>5, <2>2
    <3>2. r[i - 1] = w[i]
      BY <1>5, <3>1
    <3> QED
      BY <1>2, <3>1, <3>2
  <2> QED
    BY <1>3, <2>1, <2>2
<1>7. Len(r) \in Nat /\ \A k \in 1..Len(r) : k <= Len(r)
  BY <1>1, <1>5
<1>8. Len(r) \in Nat /\ BeatWithin(r, v, n) /\ BeatWithin(r, v, Len(r))
  BY <1>6, <1>7 DEF BeatWithin
<1> QED
  BY <1>4, <1>8

\* What the exchange sends and what becomes of it on the way.
LEMMA BeatOnTheWay ==
  ASSUME BeatInv, FeedInv, FeedInv', ServerOK, Exchange \/ Faults
  PROVE  BeatInv'
<1>1. Proper(wire) /\ Len(wire) \in Nat /\ Len(wire') \in Nat /\ late \in Nat
  BY FeedFacts DEF BeatInv, FeedInv, WireOK, FramesOK, Proper
<1>2. venue' = venue /\ phase' = phase /\ idle' = idle
  BY DEF Exchange, ExchangeChanges, ExchangeGreets, ExchangeAcknowledges, ExchangePings,
         ExchangeTrades, Faults, ChangeIsLost, FrameIsRepeated, SequenceIsMissing, StrayFrame,
         HalfOpen, exchange, local, clock
<1>3. CASE ExchangeChanges \/ ExchangeTrades \/ StrayFrame \/ FrameIsRepeated
  <2>1. server' = server /\ pinged' = pinged /\ late' = late
    BY <1>3 DEF ExchangeChanges, ExchangeTrades, StrayFrame, FrameIsRepeated, clock
  <2>2. wire' = wire \/ \E f : wire' = Append(wire, f) \/ wire' = wire \o <<f>>
    BY <1>3 DEF ExchangeChanges, ExchangeTrades, StrayFrame, FrameIsRepeated, Sends
  <2> QED
    BY <1>2, <2>1, <2>2, BeatSends
<1>4. CASE ExchangeGreets \/ ExchangeAcknowledges
  <2>1. server'.alive => server.alive
    BY <1>4 DEF ExchangeGreets, ExchangeAcknowledges
  <2>2. pinged' = pinged /\ late' = late
    BY <1>4 DEF ExchangeGreets, ExchangeAcknowledges, clock
  <2>3. (\E f : wire' = wire \o <<f>>) \/ \E f, g : wire' = wire \o <<f, g>>
    BY <1>4 DEF ExchangeGreets, ExchangeAcknowledges, Sends
  <2> QED
    BY <1>2, <2>1, <2>2, <2>3, BeatSends
<1>5. CASE ExchangePings
  <2>1. /\ server' = server /\ late' = late /\ venue = "kalshi"
        /\ wire' = Append(wire, PingFrame)
    BY <1>1, <1>5, ProperAppend DEF ExchangePings, Sends, Kalshi
  <2>2. /\ Len(wire') = Len(wire) + 1 /\ wire'[Len(wire) + 1] = PingFrame
        /\ \A i \in 1..Len(wire) : wire'[i] = wire[i]
    BY <1>1, <2>1, ProperAppend
  <2>3. BeatWithin(wire', venue', Len(wire'))
    BY <1>1, <1>2, <2>1, <2>2 DEF BeatWithin, IsBeat, PingFrame
  <2>4. BeatWithin(wire, venue, late) => BeatWithin(wire', venue', late')
    BY <1>1, <1>2, <2>1, <2>2 DEF BeatWithin
  <2> QED
    BY <1>2, <2>1, <2>3, <2>4, Zenon DEF BeatInv
<1>6. CASE ChangeIsLost
  <2>1. PICK j \in DOMAIN wire : wire[j].kind = "change" /\ wire' = RemoveAt(wire, j)
    BY <1>6 DEF ChangeIsLost
  <2>2. j \in 1..Len(wire)
    BY <1>1, <2>1 DEF Proper
  <2>3. /\ server' = server /\ pinged' = pinged
        /\ late' = IF late > Len(wire') THEN Len(wire') ELSE late
    BY <1>6 DEF ChangeIsLost
  <2>4. late' \in Nat
    BY <1>1, <2>3
  <2>5. BeatWithin(wire, venue, Len(wire)) => BeatWithin(wire', venue', Len(wire'))
    BY <1>1, <1>2, <2>1, <2>2, BeatRemove
  <2>6. BeatWithin(wire, venue, late) => BeatWithin(wire', venue', late')
    BY <1>1, <1>2, <2>1, <2>2, <2>3, BeatRemove
  <2> QED
    BY <1>2, <2>3, <2>4, <2>5, <2>6, Zenon DEF BeatInv
<1>7. CASE SequenceIsMissing
  <2>1. PICK j \in DOMAIN wire : wire[j].kind = "change"
                                 /\ wire' = [wire EXCEPT ![j].message.sequence = None]
    BY <1>7 DEF SequenceIsMissing
  <2>2. server' = server /\ pinged' = pinged /\ late' = late
    BY <1>7 DEF SequenceIsMissing
  <2>3. \A i \in 1..Len(wire) : i \in 1..Len(wire') /\ wire'[i].kind = wire[i].kind
    <3>1. DOMAIN wire = 1..Len(wire) /\ DOMAIN wire' = 1..Len(wire)
      BY <1>1, <2>1 DEF Proper
    <3>2. DOMAIN wire' = 1..Len(wire')
      BY DEF FeedInv, WireOK, FramesOK, Proper
    <3>3. wire[j].kind = "change" /\ "kind" \in DOMAIN wire[j]
      <4>1. Kalshi /\ FrameOK(wire[j], venue, history, pos)
        BY <1>7, <2>1, <3>1, FeedFacts DEF SequenceIsMissing, FramesOK
      <4> QED
        BY <2>1, <4>1 DEF FrameOK, BookFrame, Kalshi
    <3> QED
      BY <2>1, <3>1, <3>2, <3>3
  <2> QED
    BY <1>1, <1>2, <2>2, <2>3, BeatQuiet
<1>8. CASE HalfOpen
  <2>1. ~server'.alive /\ late' = 0
    BY <1>8 DEF HalfOpen, Offline
  <2> QED
    BY <1>2, <2>1 DEF BeatInv
<1> QED
  BY <1>3, <1>4, <1>5, <1>6, <1>7, <1>8 DEF Exchange, Faults

\* A frame is received: it counts, or it is no heartbeat, or the connection is
\* given up.
LEMMA BeatReceives == ASSUME BeatInv, FeedInv, Receives PROVE BeatInv'
<1>1. venue' = venue /\ late \in Nat
  BY DEF Receives, ReceiveHello, SubscribeReceives, ReceiveHeartbeat, ReceiveStray,
         ReceiveTrade, ReceiveBookFrame, exchange, BeatInv
<1>2. Disconnects => idle' = 0 /\ late' \in Nat
  BY DEF Disconnects
<1>3. Received => late' \in Nat
  BY <1>1 DEF Received
<1>4. CASE idle' = 0 /\ (Received \/ Disconnects)
  BY <1>2, <1>3, <1>4, BeatReset
<1>5. CASE /\ Received /\ ~IsBeat(Head(wire), venue)
           /\ idle' = idle /\ pinged' = pinged /\ phase' = phase /\ server' = server
  BY <1>1, <1>5, BeatTail
<1>6. CASE ReceiveHello \/ SubscribeReceives
  BY <1>2, <1>4, <1>6 DEF ReceiveHello, SubscribeReceives
<1>7. CASE ReceiveHeartbeat
  <2>1. /\ Received /\ idle' = IF Kalshi \/ Head(wire).kind = "PONG" THEN 0 ELSE idle
        /\ pinged' = pinged /\ phase' = phase /\ server' = server
    BY <1>7 DEF ReceiveHeartbeat, local
  <2> QED
    BY <1>4, <1>5, <2>1 DEF IsBeat, Kalshi
<1>8. CASE ReceiveStray
  <2>1. CASE Disconnects
    BY <1>2, <1>4, <2>1
  <2>2. CASE /\ Taken(Head(wire)) = "unsupported" /\ Received
             /\ UNCHANGED <<server, local, idle, pinged>>
    <3>1. ~IsBeat(Head(wire), venue)
      <4>1. PICK f : f = Head(wire)
        OBVIOUS
      <4>2. f.kind = "ping" => KalshiFrame(f) = "heartbeat"
        BY DEF KalshiFrame, Unusable
      <4>3. f.kind = "PONG" => PolymarketFrame(f) = "heartbeat"
        BY DEF PolymarketFrame
      <4>4. Taken(f) = "unsupported"
        BY <2>2, <4>1
      <4> QED
        BY <4>1, <4>2, <4>3, <4>4 DEF Taken, Kalshi, IsBeat
    <3> QED
      BY <1>5, <2>2, <3>1 DEF local
  <2> QED
    BY <1>8, <2>1, <2>2 DEF ReceiveStray
<1>9. CASE ReceiveTrade
  <2>1. Head(wire).kind = "trade" /\ ~IsBeat(Head(wire), venue)
    BY <1>9 DEF ReceiveTrade, IsBeat
  <2>2. CASE Kalshi
    BY <1>2, <1>4, <1>9, <2>2 DEF ReceiveTrade, KalshiTradeFrame
  <2>3. CASE ~Kalshi
    BY <1>5, <1>9, <2>1, <2>3 DEF ReceiveTrade, PolymarketTradeFrame, local
  <2> QED
    BY <2>2, <2>3
<1>10. CASE ReceiveBookFrame
  <2>1. Head(wire).kind \in {"book", "change"} /\ ~IsBeat(Head(wire), venue)
    BY <1>10 DEF ReceiveBookFrame, IsBeat
  <2>2. CASE Kalshi
    <3>1. KalshiBookFrame(Head(wire))
      BY <1>10, <2>2 DEF ReceiveBookFrame
    <3>2. idle' = 0 /\ (Received \/ Disconnects)
      BY <1>2, <3>1 DEF KalshiBookFrame
    <3> QED
      BY <1>4, <3>2
  <2>3. CASE ~Kalshi
    BY <1>5, <1>10, <2>1, <2>3 DEF ReceiveBookFrame, PolymarketBookFrame
  <2> QED
    BY <2>2, <2>3
<1> QED
  BY <1>6, <1>7, <1>8, <1>9, <1>10 DEF Receives

\* The client's other steps: connections start with the count at zero, and over a
\* live one a PING is answered.
LEMMA BeatClient ==
  ASSUME BeatInv, FeedInv, ServerOK, Client \/ Updates
  PROVE  BeatInv'
<1>1. venue' = venue /\ Proper(wire) /\ Len(wire) \in Nat /\ late \in Nat
  BY FeedFacts DEF BeatInv, Client, Connect, SubscribeSends, HandshakeTimesOut, HeartbeatMissed,
         SubscribeTokens, SendHeartbeat, Updates, UpdateTokensSends, UpdateTokensStores, exchange
<1>2. CASE Disconnects \/ SubscribeTokens
  <2>1. idle' = 0 /\ (late' = 0 \/ late' = late)
    BY <1>2 DEF Disconnects, SubscribeTokens
  <2> QED
    BY <1>1, <2>1, BeatReset
<1>3. CASE Connect \/ SubscribeSends
  <2>1. idle = 0
    BY <1>3 DEF BeatInv, Connect, SubscribeSends
  <2>2. idle' = 0 /\ late' \in Nat
    BY <1>1, <1>3, <2>1 DEF Connect, SubscribeSends, clock
  <2> QED
    BY <2>2, BeatReset
<1>4. CASE SendHeartbeat
  <2>1. /\ server' = server /\ late' = late /\ idle' = idle /\ phase' = phase
        /\ venue # "kalshi" /\ pinged' = TRUE
        /\ wire' = IF server.alive THEN Append(wire, PongFrame) ELSE wire
    BY <1>4 DEF SendHeartbeat, Polymarket, local
  <2>2. CASE ~server.alive
    BY <1>1, <2>1, <2>2 DEF BeatInv
  <2>3. CASE server.alive
    <3>1. /\ Len(wire') = Len(wire) + 1 /\ wire'[Len(wire) + 1] = PongFrame
          /\ \A i \in 1..Len(wire) : wire'[i] = wire[i]
      BY <1>1, <2>1, <2>3, ProperAppend
    <3>2. BeatWithin(wire', venue', Len(wire'))
      BY <1>1, <2>1, <3>1 DEF BeatWithin, IsBeat, PongFrame
    <3>3. BeatWithin(wire, venue, late) => BeatWithin(wire', venue', late')
      BY <1>1, <2>1, <3>1 DEF BeatWithin
    <3> QED
      BY <2>1, <3>2, <3>3, Zenon DEF BeatInv
  <2> QED
    BY <2>2, <2>3
<1>5. CASE Updates
  <2>1. PICK u \in TokenUpdates : UpdateTokensSends(u) \/ UpdateTokensStores(u)
    BY <1>5 DEF Updates
  <2>2. pinged' = pinged /\ late' = late /\ idle' = idle /\ phase' = phase
    BY <2>1 DEF UpdateTokensSends, UpdateTokensStores, local, clock
  <2>3. server'.alive => server.alive
    BY <2>1 DEF UpdateTokensSends, UpdateTokensStores
  <2>4. wire' = wire \/ \E f : wire' = wire \o <<f>>
    <3>1. wire' = wire \/ wire' = wire \o <<>> \/ \E f : wire' = wire \o <<f>>
      BY <2>1 DEF UpdateTokensSends, UpdateTokensStores, BookOfNew
    <3> QED
      BY <1>1, <3>1, ProperConcat
  <2> QED
    BY <1>1, <2>2, <2>3, <2>4, BeatSends
<1> QED
  BY <1>2, <1>3, <1>4, <1>5 DEF Client, HandshakeTimesOut, HeartbeatMissed

\* The heartbeat checks give up no live connection: with a heartbeat sent in every
\* interval and received before the end of the next one, neither
\* is_kalshi_heartbeat_stale nor is_polymarket_heartbeat_stale, with a limit of at
\* least the default two intervals, finds a live connection stale, whatever else is
\* lost, repeated or sent in between.
THEOREM LiveConnectionsStay ==
  ASSUME MissedLimit >= 2
  PROVE  Spec => [](phase = "stream" /\ server.alive => ~HeartbeatStale(idle))
<1>1. Init => BeatInv
  BY DEF Init, BeatInv, Offline
<1>2. FeedInv /\ FeedInv' /\ ServerOK /\ BeatInv /\ [Next]_vars => BeatInv'
  <2> SUFFICES ASSUME FeedInv, FeedInv', ServerOK, BeatInv, [Next]_vars PROVE BeatInv'
    OBVIOUS
  <2>1. CASE Tick
    <3>1. /\ phase = "stream" /\ (server.alive => pinged /\ late = 0)
          /\ idle' = idle + 1 /\ pinged' = FALSE /\ late' = Len(wire)
          /\ server' = server /\ wire' = wire /\ phase' = phase /\ venue' = venue
      BY <2>1 DEF Tick, exchange, local
    <3>2. Len(wire) \in Nat /\ idle \in Nat
      BY FeedFacts DEF BeatInv
    <3>3. server.alive => idle <= 1 /\ (idle >= 1 => BeatWithin(wire, venue, Len(wire)))
      <4>1. ~BeatWithin(wire, venue, 0)
        BY DEF BeatWithin
      <4> QED
        BY <3>1, <3>2, <4>1 DEF BeatInv
    <3>4. server'.alive => BeatInv'
      BY <3>1, <3>2, <3>3 DEF BeatInv
    <3>5. ~server'.alive => BeatInv'
      BY <3>1, <3>2 DEF BeatInv
    <3> QED
      BY <3>4, <3>5
  <2>2. CASE UNCHANGED vars
    BY <2>2 DEF vars, BeatInv
  <2> QED
    BY <2>1, <2>2, BeatOnTheWay, BeatReceives, BeatClient DEF Next
<1>3. BeatInv => (phase = "stream" /\ server.alive => ~HeartbeatStale(idle))
  BY FeedAssumption DEF BeatInv, HeartbeatStale, is_kalshi_heartbeat_stale,
                        is_polymarket_heartbeat_stale
<1>4. Spec => [](FeedInv /\ ServerOK)
  BY FeedInductive
<1> QED
  BY <1>1, <1>2, <1>3, <1>4, PTL DEF Spec
=============================================================================
