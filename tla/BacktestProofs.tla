--------------------------- MODULE BacktestProofs ---------------------------
(***************************************************************************)
(* Theorems about replay and simulation together.                          *)
(*                                                                         *)
(* Replay: for every recorded stream, cut into whatever files, every       *)
(* manifest, every number of runs and every behaviour of the consumers,    *)
(* what a run publishes is in key order, and a completed session is whole. *)
(*                                                                         *)
(* The runner: for every scenario, written by hand or made of a completed  *)
(* replay, every result goes together and is what the book of its          *)
(* activation and the tape make of the order; the loops over levels,       *)
(* events and changes are recursive functions, and what they hold after n  *)
(* turns is shown by least counterexample.  Each result is judged once,    *)
(* when RunOrderAction returns it (ResultOK), and the inductive invariant  *)
(* keeps that judgement.                                                   *)
(*                                                                         *)
(* Both: the deltas published from a gapless recording apply one after the *)
(* other.                                                                  *)
(***************************************************************************)
EXTENDS Backtest, SumProofs, FiniteSetTheorems, WellFoundedInduction, TLAPS

-----------------------------------------------------------------------------
(* Keys                                                                    *)

\* Tuples of the same number of integers are totally ordered by KeyBefore.
LEMMA KeyBeforeTotal ==
  ASSUME NEW m \in Nat, NEW a \in [1..m -> Int], NEW b \in [1..m -> Int]
  PROVE  /\ ~KeyBefore(a, a)
         /\ ~(KeyBefore(a, b) /\ KeyBefore(b, a))
         /\ a = b \/ KeyBefore(a, b) \/ KeyBefore(b, a)
<1>1. ~KeyBefore(a, a)
  BY DEF KeyBefore
<1>2. ASSUME KeyBefore(a, b), KeyBefore(b, a) PROVE FALSE
  <2>1. PICK i \in 1..m : a[i] < b[i] /\ \A k \in 1..(i - 1) : a[k] = b[k]
    BY <1>2 DEF KeyBefore
  <2>2. PICK j \in 1..m : b[j] < a[j] /\ \A k \in 1..(j - 1) : b[k] = a[k]
    BY <1>2 DEF KeyBefore
  <2>3. i < j \/ i = j \/ j < i
    OBVIOUS
  <2> QED
    BY <2>1, <2>2, <2>3
<1>3. ASSUME a # b PROVE KeyBefore(a, b) \/ KeyBefore(b, a)
  <2> DEFINE D == {i \in 1..m : a[i] # b[i]}
  <2>1. D # {} /\ D \in SUBSET Nat
    BY <1>3
  <2> HIDE DEF D
  <2>2. PICK i \in D : \A k \in D : i <= k
    BY <2>1, LeastNat
  <2>3. i \in 1..m /\ a[i] # b[i] /\ \A k \in 1..(i - 1) : a[k] = b[k]
    BY <2>2 DEF D
  <2>4. a[i] < b[i] \/ b[i] < a[i]
    BY <2>3
  <2> QED
    BY <2>3, <2>4 DEF KeyBefore
<1> QED
  BY <1>1, <1>2, <1>3

\* KeyBefore is transitive on them.
LEMMA KeyBeforeTransitive ==
  ASSUME NEW m \in Nat, NEW a \in [1..m -> Int], NEW b \in [1..m -> Int],
         NEW c \in [1..m -> Int], KeyBefore(a, b), KeyBefore(b, c)
  PROVE  KeyBefore(a, c)
<1>1. PICK i \in 1..m : a[i] < b[i] /\ \A k \in 1..(i - 1) : a[k] = b[k]
  BY DEF KeyBefore
<1>2. PICK j \in 1..m : b[j] < c[j] /\ \A k \in 1..(j - 1) : b[k] = c[k]
  BY DEF KeyBefore
<1>3. CASE i <= j
  <2>1. b[i] <= c[i]
    BY <1>1, <1>2, <1>3
  <2>2. \A k \in 1..(i - 1) : k \in 1..(j - 1)
    BY <1>3
  <2>3. a[i] < c[i]
    BY <1>1, <2>1
  <2>4. \A k \in 1..(i - 1) : a[k] = c[k]
    BY <1>1, <1>2, <2>2
  <2> QED
    BY <2>3, <2>4 DEF KeyBefore
<1>4. CASE j < i
  <2>1. a[j] < c[j] /\ \A k \in 1..(j - 1) : a[k] = c[k]
    BY <1>1, <1>2, <1>4
  <2> QED
    BY <2>1 DEF KeyBefore
<1> QED
  BY <1>3, <1>4

Key(event) == replay_event_ordering_key(event)

\* The key of an event is a tuple of six integers.
LEMMA KeyType ==
  ASSUME NEW e, IsEvent(e)
  PROVE  /\ Key(e) \in [1..6 -> Int]
         /\ Key(e)[1] = e.occurred_at
         /\ Key(e)[2] = ExchangeSequenceKey(e)[1]
         /\ Key(e)[3] = ExchangeSequenceKey(e)[2]
         /\ ExchangeSequenceKey(e) \in [1..2 -> Int]
<1>1. ExchangeSequenceKey(e)[1] \in Int /\ ExchangeSequenceKey(e)[2] \in Int
  BY DEF ExchangeSequenceKey, IsEvent
<1>2. SourcePartition(e) \in Int
  BY DEF SourcePartition, IsEvent
<1>3. ExchangeSequenceKey(e) \in [1..2 -> Int]
  BY DEF ExchangeSequenceKey, IsEvent
<1> QED
  BY <1>1, <1>2, <1>3 DEF Key, replay_event_ordering_key, IsEvent

\* An event that happened earlier, or at the same time with a smaller sequence key, has the
\* smaller key.
LEMMA SmallerKey ==
  ASSUME NEW a, NEW b, IsEvent(a), IsEvent(b),
         \/ a.occurred_at < b.occurred_at
         \/ /\ a.occurred_at = b.occurred_at
            /\ KeyBefore(ExchangeSequenceKey(a), ExchangeSequenceKey(b))
  PROVE  KeyBefore(Key(a), Key(b))
<1>1. /\ Key(a)[1] = a.occurred_at /\ Key(b)[1] = b.occurred_at
      /\ Key(a)[2] = ExchangeSequenceKey(a)[1] /\ Key(b)[2] = ExchangeSequenceKey(b)[1]
      /\ Key(a)[3] = ExchangeSequenceKey(a)[2] /\ Key(b)[3] = ExchangeSequenceKey(b)[2]
      /\ DOMAIN Key(a) = 1..6
      /\ DOMAIN ExchangeSequenceKey(a) = 1..2
  BY KeyType
<1>2. CASE a.occurred_at < b.occurred_at
  <2>1. Key(a)[1] < Key(b)[1] /\ \A k \in 1..(1 - 1) : Key(a)[k] = Key(b)[k]
    BY <1>1, <1>2
  <2> QED
    BY <1>1, <2>1 DEF KeyBefore
<1>3. CASE /\ a.occurred_at = b.occurred_at
           /\ KeyBefore(ExchangeSequenceKey(a), ExchangeSequenceKey(b))
  <2>1. PICK i \in 1..2 :
          /\ ExchangeSequenceKey(a)[i] < ExchangeSequenceKey(b)[i]
          /\ \A k \in 1..(i - 1) : ExchangeSequenceKey(a)[k] = ExchangeSequenceKey(b)[k]
    BY <1>1, <1>3 DEF KeyBefore
  <2>2. CASE i = 1
    <3>1. Key(a)[2] < Key(b)[2] /\ \A k \in 1..(2 - 1) : Key(a)[k] = Key(b)[k]
      BY <1>1, <1>3, <2>1, <2>2
    <3> QED
      BY <1>1, <3>1 DEF KeyBefore
  <2>3. CASE i = 2
    <3>1. ExchangeSequenceKey(a)[1] = ExchangeSequenceKey(b)[1]
      BY <2>1, <2>3
    <3>2. Key(a)[3] < Key(b)[3] /\ \A k \in 1..(3 - 1) : Key(a)[k] = Key(b)[k]
      BY <1>1, <1>3, <2>1, <2>3, <3>1
    <3> QED
      BY <1>1, <3>2 DEF KeyBefore
  <2> QED
    BY <2>1, <2>2, <2>3
<1> QED
  BY <1>2, <1>3

-----------------------------------------------------------------------------
(* Sorting                                                                 *)

\* Coming before another event is a strict total order of the places of a dataset.
LEMMA PrecedesOrder ==
  ASSUME NEW D, ParsedEvents(D), NEW i \in DOMAIN D, NEW j \in DOMAIN D, NEW k \in DOMAIN D
  PROVE  /\ ~Precedes(D, i, i)
         /\ i # j => Precedes(D, i, j) \/ Precedes(D, j, i)
         /\ ~(Precedes(D, i, j) /\ Precedes(D, j, i))
         /\ Precedes(D, i, j) /\ Precedes(D, j, k) => Precedes(D, i, k)
<1> DEFINE a == Key(D[i])
           b == Key(D[j])
           c == Key(D[k])
<1>1. i \in Nat /\ j \in Nat /\ k \in Nat /\ IsEvent(D[i]) /\ IsEvent(D[j]) /\ IsEvent(D[k])
  BY DEF ParsedEvents
<1>2. a \in [1..6 -> Int] /\ b \in [1..6 -> Int] /\ c \in [1..6 -> Int]
  BY <1>1, KeyType
<1>3. /\ Precedes(D, i, j) <=> KeyBefore(a, b) \/ (i < j /\ ~KeyBefore(b, a))
      /\ Precedes(D, j, i) <=> KeyBefore(b, a) \/ (j < i /\ ~KeyBefore(a, b))
      /\ Precedes(D, j, k) <=> KeyBefore(b, c) \/ (j < k /\ ~KeyBefore(c, b))
      /\ Precedes(D, i, k) <=> KeyBefore(a, c) \/ (i < k /\ ~KeyBefore(c, a))
      /\ Precedes(D, i, i) <=> KeyBefore(a, a) \/ (i < i /\ ~KeyBefore(a, a))
  BY DEF Precedes, Key
<1> HIDE DEF a, b, c
<1>4. 6 \in Nat
  OBVIOUS
<1>5. /\ ~KeyBefore(a, a) /\ ~KeyBefore(b, b)
      /\ ~(KeyBefore(a, b) /\ KeyBefore(b, a))
      /\ ~(KeyBefore(b, c) /\ KeyBefore(c, b))
      /\ ~(KeyBefore(a, c) /\ KeyBefore(c, a))
      /\ a = b \/ KeyBefore(a, b) \/ KeyBefore(b, a)
      /\ b = c \/ KeyBefore(b, c) \/ KeyBefore(c, b)
      /\ a = c \/ KeyBefore(a, c) \/ KeyBefore(c, a)
  BY <1>2, <1>4, KeyBeforeTotal
<1>6. KeyBefore(a, b) /\ KeyBefore(b, c) => KeyBefore(a, c)
  BY <1>2, <1>4, KeyBeforeTransitive
<1> QED
  BY <1>1, <1>3, <1>5, <1>6

\* A place is one of 1..Len(D), and later for a later event.
LEMMA PlaceOrder ==
  ASSUME NEW D, ParsedEvents(D), NEW i \in DOMAIN D
  PROVE  /\ Place(D, i) \in 1..Len(D)
         /\ \A j \in DOMAIN D : Precedes(D, i, j) => Place(D, i) < Place(D, j)
<1> DEFINE B(j) == {k \in DOMAIN D : Precedes(D, k, j)}
<1>1. Len(D) \in Nat /\ DOMAIN D = 1..Len(D)
  BY DEF ParsedEvents
<1>2. IsFiniteSet(DOMAIN D) /\ Cardinality(DOMAIN D) = Len(D)
  <2>1. 1 \in Int /\ Len(D) \in Int
    BY <1>1
  <2>2. IsFiniteSet(1..Len(D)) /\ Cardinality(1..Len(D)) = IF 1 > Len(D) THEN 0 ELSE Len(D) - 1 + 1
    BY <2>1, FS_Interval
  <2> QED
    BY <1>1, <2>2
<1>3. ASSUME NEW j PROVE IsFiniteSet(B(j)) /\ Cardinality(B(j)) \in Nat
  <2>1. B(j) \in SUBSET DOMAIN D
    OBVIOUS
  <2> HIDE DEF B
  <2> QED
    BY <1>2, <2>1, FS_Subset, FS_CardinalityType
<1>4. \A j : Place(D, j) = Cardinality(B(j)) + 1
  BY DEF Place
<1>5. Cardinality(B(i)) < Len(D)
  <2>1. B(i) \in SUBSET DOMAIN D /\ B(i) # DOMAIN D
    BY PrecedesOrder
  <2> HIDE DEF B
  <2>2. /\ Cardinality(B(i)) <= Cardinality(DOMAIN D)
        /\ Cardinality(B(i)) # Cardinality(DOMAIN D)
    BY <1>2, <2>1, FS_Subset
  <2> QED
    BY <1>1, <1>2, <1>3, <2>2
<1>6. ASSUME NEW j \in DOMAIN D, Precedes(D, i, j)
      PROVE  Cardinality(B(i)) < Cardinality(B(j))
  <2>1. B(i) \in SUBSET B(j) /\ i \in B(j) /\ i \notin B(i)
    BY <1>6, PrecedesOrder
  <2>2. B(i) # B(j)
    BY <2>1
  <2> HIDE DEF B
  <2> QED
    BY <1>3, <2>1, <2>2, FS_Subset
<1> HIDE DEF B
<1> QED
  BY <1>1, <1>3, <1>4, <1>5, <1>6

\* Every place is taken by one event.
LEMMA PlaceBijection ==
  ASSUME NEW D, ParsedEvents(D)
  PROVE  [i \in DOMAIN D |-> Place(D, i)] \in Bijection(DOMAIN D, DOMAIN D)
<1> DEFINE f == [i \in DOMAIN D |-> Place(D, i)]
<1>1. Len(D) \in Nat /\ DOMAIN D = 1..Len(D)
  BY DEF ParsedEvents
<1>2. IsFiniteSet(DOMAIN D)
  BY <1>1, FS_Interval
<1>3. f \in [DOMAIN D -> DOMAIN D]
  BY <1>1, PlaceOrder
<1>4. ASSUME NEW i \in DOMAIN D, NEW j \in DOMAIN D, Place(D, i) = Place(D, j) PROVE i = j
  <2> SUFFICES ASSUME i # j PROVE FALSE
    OBVIOUS
  <2>1. Precedes(D, i, j) \/ Precedes(D, j, i)
    BY PrecedesOrder
  <2>2. Place(D, i) < Place(D, j) \/ Place(D, j) < Place(D, i)
    BY <2>1, PlaceOrder
  <2>3. Place(D, i) \in 1..Len(D)
    BY PlaceOrder
  <2> QED
    BY <1>1, <1>4, <2>2, <2>3
<1>5. f \in Injection(DOMAIN D, DOMAIN D)
  BY <1>3, <1>4 DEF Injection, IsInjective
<1> HIDE DEF f
<1>6. f \in Surjection(DOMAIN D, DOMAIN D)
  BY <1>2, <1>5, FS_Injection
<1> QED
  BY <1>5, <1>6 DEF Bijection, f

\* Which event of the dataset is the n-th in order.
Where(D, n) == CHOOSE i \in DOMAIN D : Place(D, i) = n

\* The sorted dataset: the event at n is the one whose place is n.
LEMMA Sorted ==
  ASSUME NEW D, ParsedEvents(D)
  PROVE  /\ sort_replay_events(D) = [n \in 1..Len(D) |-> D[Where(D, n)]]
         /\ \A n \in 1..Len(D) : Where(D, n) \in 1..Len(D) /\ Place(D, Where(D, n)) = n
         /\ \A i \in 1..Len(D) : Place(D, i) \in 1..Len(D) /\ Where(D, Place(D, i)) = i
<1> DEFINE f == [i \in DOMAIN D |-> Place(D, i)]
<1>1. Len(D) \in Nat /\ DOMAIN D = 1..Len(D)
  BY DEF ParsedEvents
<1>2. /\ \A n \in DOMAIN D : \E i \in DOMAIN D : Place(D, i) = n
      /\ \A i, j \in DOMAIN D : Place(D, i) = Place(D, j) => i = j
  <2>1. f \in Bijection(DOMAIN D, DOMAIN D)
    BY PlaceBijection
  <2> QED
    BY <2>1 DEF Bijection, Injection, Surjection, IsInjective
<1>3. \A n \in DOMAIN D : Where(D, n) \in DOMAIN D /\ Place(D, Where(D, n)) = n
  BY <1>2 DEF Where
<1>4. \A i \in DOMAIN D : Place(D, i) \in DOMAIN D
  BY <1>1, PlaceOrder
<1>5. sort_replay_events(D) = [n \in 1..Len(D) |-> D[Where(D, n)]]
  BY <1>1 DEF sort_replay_events, Where
<1> QED
  BY <1>1, <1>2, <1>3, <1>4, <1>5

-----------------------------------------------------------------------------
(* The inductive invariant                                                 *)

InOrder == sort_replay_events(Dataset)
Seen == [event : {Dataset[i] : i \in DOMAIN Dataset}, at : Int]

\* A dataset that is replayed was parsed, and stays.
DatasetOK ==
  /\ stage = "idle" => runs = 0
  /\ runs # 0 \/ stage \notin {"idle", "refused"} => ParsedEvents(Dataset)

\* What any run has published is a first part of the sorted dataset, none of it early.
PrefixOK(seen) ==
  /\ Len(seen) <= Len(Dataset)
  /\ \A i \in 1..Len(seen) : /\ seen[i].event = InOrder[i]
                             /\ seen[i].at >= InOrder[i].occurred_at
PublishedOK ==
  /\ runs \in Nat
  /\ published \in Seq(Seq(Seen)) /\ Len(published) = runs
  /\ \A n \in 1..runs : PrefixOK(published[n])

\* The engine in its loop: how far it is, and that the clock is not behind.
LoopOK ==
  /\ clock \in Int
  /\ stage \in {"advancing", "publishing", "completed"} =>
       /\ runs # 0 /\ ordered = InOrder
       /\ processed = Len(published[runs])
       /\ \A i \in 1..processed : InOrder[i].occurred_at <= clock
  /\ stage = "publishing" =>
       processed < Len(Dataset) /\ InOrder[processed + 1].occurred_at <= clock

\* A session tells of the run that has just completed.
SessionOK ==
  session # Missing =>
    /\ stage = "completed" /\ processed = Len(Dataset)
    /\ session.processed_events = processed
    /\ session.completed_at = clock
    /\ session.result_checksum = ordered

ReplayInv == DatasetOK /\ PublishedOK /\ LoopOK /\ SessionOK

\* The sorted dataset has the length of the dataset, and its events.
LEMMA InOrderEvents ==
  ASSUME ParsedEvents(Dataset)
  PROVE  /\ Len(Dataset) \in Nat /\ DOMAIN Dataset = 1..Len(Dataset)
         /\ Len(InOrder) = Len(Dataset) /\ DOMAIN InOrder = 1..Len(Dataset)
         /\ \A n \in 1..Len(Dataset) : /\ InOrder[n] \in {Dataset[i] : i \in DOMAIN Dataset}
                                       /\ InOrder[n].occurred_at \in Int
<1> DEFINE D == Dataset
           S == [n \in 1..Len(D) |-> D[Where(D, n)]]
<1>1. Len(D) \in Nat /\ DOMAIN D = 1..Len(D) /\ \A i \in DOMAIN D : D[i].occurred_at \in Int
  BY DEF ParsedEvents, IsEvent
<1>2. InOrder = S /\ \A n \in 1..Len(D) : Where(D, n) \in 1..Len(D)
  BY Sorted DEF InOrder
<1> HIDE DEF D
<1>3. Len(S) = Len(D) /\ DOMAIN S = 1..Len(D)
  BY <1>1
<1>4. \A n \in 1..Len(D) : S[n] = D[Where(D, n)]
  OBVIOUS
<1> HIDE DEF S
<1> QED
  BY <1>1, <1>2, <1>3, <1>4 DEF D

\* What depends on the dataset alone stays with it.
LEMMA DatasetKept ==
  ASSUME files' = files
  PROVE  /\ Dataset' = Dataset /\ InOrder' = InOrder /\ Seen' = Seen
         /\ \A s : PrefixOK(s)' <=> PrefixOK(s)
<1>1. Dataset' = Dataset
  BY DEF Dataset
<1>2. InOrder' = InOrder /\ Seen' = Seen
  BY <1>1 DEF InOrder, Seen
<1> QED
  BY <1>1, <1>2 DEF PrefixOK

\* Initially nothing has been loaded.
LEMMA ReplayInitInv == Init => ReplayInv
<1> SUFFICES ASSUME Init PROVE ReplayInv
  OBVIOUS
<1> USE DEF Init, ReplayInit
<1>1. DatasetOK /\ SessionOK
  BY DEF DatasetOK, SessionOK
<1>2. LoopOK
  BY ManifestAssumption DEF LoopOK, ManifestAssumption
<1>3. PublishedOK
  BY DEF PublishedOK
<1> QED
  BY <1>1, <1>2, <1>3 DEF ReplayInv

\* Loading a dataset, or not.
LEMMA LoadKeeps ==
  ASSUME ReplayInv, NEW r, NEW p, NEW c, Load(r, p, c) \/ RefuseDataset(r, p, c)
  PROVE  ReplayInv'
<1>1. /\ stage = "idle" /\ runs' = 0 /\ runs = 0 /\ stage' \in {"loaded", "refused"}
      /\ UNCHANGED <<ordered, processed, clock, published, runs, session>>
      /\ stage' = "loaded" => ParsedEvents(Dataset')
  BY DEF ReplayInv, DatasetOK, Load, RefuseDataset, DatasetChecksum, Dataset
<1>2. DatasetOK'
  BY <1>1 DEF DatasetOK
<1>3. PublishedOK'
  <2>1. published = <<>>
    BY <1>1 DEF ReplayInv, PublishedOK
  <2> QED
    BY <1>1, <2>1 DEF ReplayInv, PublishedOK
<1>4. LoopOK' /\ SessionOK'
  BY <1>1 DEF ReplayInv, LoopOK, SessionOK
<1> QED
  BY <1>2, <1>3, <1>4 DEF ReplayInv

\* The start of a run: a new, empty list of what it publishes.
LEMMA StartKeeps ==
  ASSUME ReplayInv, StartReplay \/ OrderingRaises
  PROVE  ReplayInv'
<1>1. /\ stage \in {"loaded", "failed"} /\ stage' \in {"advancing", "refused"}
      /\ runs' = runs + 1 /\ published' = Append(published, <<>>)
      /\ files' = files /\ clock' = clock /\ session' = session
      /\ stage' = "advancing" => ordered' = InOrder /\ processed' = 0
  BY DEF StartReplay, OrderingRaises, InOrder
<1>2. ParsedEvents(Dataset)
  BY <1>1 DEF ReplayInv, DatasetOK
<1>3. /\ Dataset' = Dataset /\ InOrder' = InOrder /\ Seen' = Seen
      /\ \A s : PrefixOK(s)' <=> PrefixOK(s)
  BY <1>1, DatasetKept
<1>4. runs \in Nat /\ published \in Seq(Seq(Seen)) /\ Len(published) = runs
  BY DEF ReplayInv, PublishedOK
<1> DEFINE T == Seq(Seen)
<1>5. <<>> \in T /\ Len(<<>>) = 0
  OBVIOUS
<1> HIDE DEF T
<1>6. /\ published' \in Seq(T) /\ Len(published') = runs + 1
      /\ published'[runs + 1] = <<>>
      /\ \A n \in 1..runs : published'[n] = published[n]
  BY <1>1, <1>4, <1>5 DEF T
<1>7. PrefixOK(<<>>)
  BY <1>2, <1>5, InOrderEvents DEF PrefixOK
<1>8. PublishedOK'
  <2>1. \A n \in 1..(runs + 1) : n \in 1..runs \/ n = runs + 1
    BY <1>4
  <2>2. \A n \in 1..runs : PrefixOK(published[n])
    BY DEF ReplayInv, PublishedOK
  <2>3. \A n \in 1..(runs + 1) : PrefixOK(published'[n])
    BY <1>6, <1>7, <2>1, <2>2
  <2> QED
    BY <1>1, <1>3, <1>4, <1>6, <2>3 DEF PublishedOK, T
<1>9. LoopOK'
  BY <1>1, <1>3, <1>4, <1>5, <1>6 DEF ReplayInv, LoopOK
<1>10. DatasetOK' /\ SessionOK'
  BY <1>1, <1>2, <1>3 DEF ReplayInv, DatasetOK, SessionOK
<1> QED
  BY <1>8, <1>9, <1>10 DEF ReplayInv

\* Steps that publish nothing.
LEMMA QuietKeeps ==
  ASSUME ReplayInv,
         \/ AdvanceClock \/ TimeReversed \/ PublishFails \/ SleepOnClock
         \/ CompleteReplay \/ SessionRefused \/ ResetClock
  PROVE  ReplayInv'
<1>1. /\ files' = files /\ published' = published /\ runs' = runs
      /\ ordered' = ordered /\ processed' = processed
      /\ stage \in {"advancing", "publishing", "failed"}
      /\ stage' \in {"advancing", "publishing", "failed", "completed"}
  BY DEF AdvanceClock, TimeReversed, PublishFails, SleepOnClock, CompleteReplay,
         SessionRefused, ResetClock
<1>2. /\ Dataset' = Dataset /\ InOrder' = InOrder /\ Seen' = Seen
      /\ \A s : PrefixOK(s)' <=> PrefixOK(s)
  BY <1>1, DatasetKept
<1>3. ParsedEvents(Dataset)
  BY <1>1 DEF ReplayInv, DatasetOK
<1>4. /\ Len(Dataset) \in Nat /\ Len(InOrder) = Len(Dataset)
      /\ \A n \in 1..Len(Dataset) : InOrder[n].occurred_at \in Int
  BY <1>3, InOrderEvents
<1>5. DatasetOK' /\ PublishedOK'
  BY <1>1, <1>2, <1>3 DEF ReplayInv, DatasetOK, PublishedOK
<1>6. stage \in {"advancing", "publishing"} =>
        /\ runs # 0 /\ ordered = InOrder /\ processed = Len(published[runs])
        /\ processed \in Nat /\ processed <= Len(Dataset)
        /\ \A i \in 1..processed : InOrder[i].occurred_at <= clock
  <2> SUFFICES ASSUME stage \in {"advancing", "publishing"}
               PROVE  /\ runs # 0 /\ ordered = InOrder /\ processed = Len(published[runs])
                      /\ processed \in Nat /\ processed <= Len(Dataset)
                      /\ \A i \in 1..processed : InOrder[i].occurred_at <= clock
    OBVIOUS
  <2>1. /\ runs # 0 /\ ordered = InOrder /\ processed = Len(published[runs])
        /\ \A i \in 1..processed : InOrder[i].occurred_at <= clock
    BY DEF ReplayInv, LoopOK
  <2>2. runs \in 1..runs /\ published[runs] \in Seq(Seen) /\ PrefixOK(published[runs])
    BY <2>1 DEF ReplayInv, PublishedOK
  <2>3. processed \in Nat /\ processed <= Len(Dataset)
    BY <2>1, <2>2 DEF PrefixOK
  <2> QED
    BY <2>1, <2>3
<1>7. SessionOK'
  <2>1. CASE CompleteReplay
    BY <1>2, <1>4, <1>6, <2>1 DEF CompleteReplay, SessionOK
  <2>2. CASE ~CompleteReplay
    BY <1>1, <2>2 DEF ReplayInv, SessionOK, AdvanceClock, TimeReversed, PublishFails,
       SleepOnClock, SessionRefused, ResetClock
  <2> QED
    BY <2>1, <2>2
<1>8. clock \in Int
  BY DEF ReplayInv, LoopOK
<1>9. LoopOK'
  <2>1. CASE AdvanceClock
    <3>1. /\ stage = "advancing" /\ stage' = "publishing" /\ processed < Len(Dataset)
          /\ clock' = InOrder[processed + 1].occurred_at /\ clock' >= clock
      BY <1>4, <1>6, <2>1 DEF AdvanceClock, AdvancesClock
    <3>2. processed + 1 \in 1..Len(Dataset) /\ clock' \in Int
      BY <1>4, <1>6, <3>1
    <3>3. \A i \in 1..processed : InOrder[i].occurred_at <= clock'
      <4> TAKE i \in 1..processed
      <4>1. i \in 1..Len(Dataset)
        BY <1>4, <1>6, <3>1
      <4> QED
        BY <1>4, <1>6, <1>8, <3>1, <3>2, <4>1
    <3> QED
      BY <1>1, <1>2, <1>6, <3>1, <3>2, <3>3 DEF LoopOK
  <2>2. CASE SleepOnClock
    <3>1. /\ clock' \in Int /\ clock' > clock
          /\ stage' = stage /\ stage \in {"advancing", "publishing"}
      BY <1>8, <2>2, ManifestAssumption DEF SleepOnClock, ManifestAssumption
    <3>2. \A i \in 1..processed : InOrder[i].occurred_at <= clock'
      <4> TAKE i \in 1..processed
      <4>1. i \in 1..Len(Dataset)
        BY <1>4, <1>6, <3>1
      <4> QED
        BY <1>4, <1>6, <1>8, <3>1, <4>1
    <3>3. stage = "publishing" => /\ processed < Len(Dataset)
                                  /\ InOrder[processed + 1].occurred_at <= clock'
      <4> SUFFICES ASSUME stage = "publishing"
                   PROVE  /\ processed < Len(Dataset)
                          /\ InOrder[processed + 1].occurred_at <= clock'
        OBVIOUS
      <4>1. processed < Len(Dataset) /\ InOrder[processed + 1].occurred_at <= clock
        BY DEF ReplayInv, LoopOK
      <4>2. processed + 1 \in 1..Len(Dataset)
        BY <1>4, <1>6, <4>1
      <4> QED
        BY <1>4, <1>8, <3>1, <4>1, <4>2
    <3> QED
      BY <1>1, <1>2, <1>6, <3>1, <3>2, <3>3 DEF LoopOK
  <2>3. CASE TimeReversed \/ PublishFails \/ SessionRefused
    BY <1>8, <2>3 DEF TimeReversed, PublishFails, SessionRefused, LoopOK
  <2>4. CASE ResetClock
    BY <2>4, ManifestAssumption DEF ResetClock, ManifestAssumption, LoopOK
  <2>5. CASE CompleteReplay
    BY <1>1, <1>2, <1>6, <1>8, <2>5 DEF CompleteReplay, LoopOK
  <2> QED
    BY <2>1, <2>2, <2>3, <2>4, <2>5
<1> QED
  BY <1>5, <1>7, <1>9 DEF ReplayInv

\* A publication hands out the next event of the sorted dataset, at a time it may be known.
LEMMA PublishKeeps ==
  ASSUME ReplayInv, PublishEvent
  PROVE  ReplayInv'
<1>1. /\ stage = "publishing" /\ stage' = "advancing" /\ processed' = processed + 1
      /\ files' = files /\ runs' = runs /\ ordered' = ordered /\ clock' = clock
      /\ session' = session
      /\ published' = [published EXCEPT ![runs] =
                         Append(published[runs], [event |-> ordered[processed + 1], at |-> clock])]
  BY DEF PublishEvent
<1>2. /\ Dataset' = Dataset /\ InOrder' = InOrder /\ Seen' = Seen
      /\ \A s : PrefixOK(s)' <=> PrefixOK(s)
  BY <1>1, DatasetKept
<1>3. ParsedEvents(Dataset)
  BY <1>1 DEF ReplayInv, DatasetOK
<1>4. /\ Len(Dataset) \in Nat
      /\ \A n \in 1..Len(Dataset) : /\ InOrder[n] \in {Dataset[i] : i \in DOMAIN Dataset}
                                    /\ InOrder[n].occurred_at \in Int
  BY <1>3, InOrderEvents
<1>5. /\ runs # 0 /\ ordered = InOrder /\ processed = Len(published[runs]) /\ clock \in Int
      /\ \A i \in 1..processed : InOrder[i].occurred_at <= clock
      /\ processed < Len(Dataset) /\ InOrder[processed + 1].occurred_at <= clock
  BY <1>1 DEF ReplayInv, LoopOK
<1>6. /\ runs \in Nat /\ published \in Seq(Seq(Seen)) /\ Len(published) = runs
      /\ \A n \in 1..runs : PrefixOK(published[n])
  BY DEF ReplayInv, PublishedOK
<1> DEFINE T == Seq(Seen)
           x == [event |-> InOrder[processed + 1], at |-> clock]
           was == published[runs]
           now == Append(was, x)
<1>7. runs \in 1..runs /\ was \in Seq(Seen) /\ processed \in Nat /\ PrefixOK(was)
  BY <1>5, <1>6
<1>8. processed + 1 \in 1..Len(Dataset) /\ x \in Seen
  BY <1>4, <1>5, <1>7 DEF Seen
<1>9. x.event = InOrder[processed + 1] /\ x.at = clock
  OBVIOUS
<1> HIDE DEF x
<1>10. /\ now \in Seq(Seen) /\ Len(now) = processed + 1 /\ now[processed + 1] = x
       /\ \A i \in 1..processed : now[i] = was[i]
  BY <1>5, <1>7, <1>8
<1>11. PrefixOK(now)
  <2> HIDE DEF now, was
  <2>1. \A i \in 1..(processed + 1) : i \in 1..processed \/ i = processed + 1
    BY <1>7
  <2>2. \A i \in 1..processed : /\ was[i].event = InOrder[i]
                                /\ was[i].at >= InOrder[i].occurred_at
    BY <1>5, <1>7 DEF PrefixOK, was
  <2>3. clock >= InOrder[processed + 1].occurred_at
    BY <1>4, <1>5, <1>8
  <2>4. \A i \in 1..(processed + 1) : /\ now[i].event = InOrder[i]
                                      /\ now[i].at >= InOrder[i].occurred_at
    BY <1>9, <1>10, <2>1, <2>2, <2>3
  <2>5. processed + 1 <= Len(Dataset)
    BY <1>8, <1>4
  <2> QED
    BY <1>10, <2>4, <2>5 DEF PrefixOK
<1>12. published' = [published EXCEPT ![runs] = now]
  BY <1>1, <1>5 DEF x
<1> HIDE DEF now, was
<1>13. now \in T
  BY <1>10
<1> HIDE DEF T
<1>14. /\ published' \in Seq(T) /\ Len(published') = runs
       /\ published'[runs] = now /\ \A n \in 1..runs : n # runs => published'[n] = published[n]
  BY <1>6, <1>7, <1>12, <1>13 DEF T
<1>15. PublishedOK'
  <2>1. \A n \in 1..runs : PrefixOK(published'[n])
    BY <1>6, <1>11, <1>14
  <2> QED
    BY <1>1, <1>2, <1>6, <1>14, <2>1 DEF PublishedOK, T
<1>16. \A i \in 1..(processed + 1) : InOrder[i].occurred_at <= clock
  <2>1. \A i \in 1..(processed + 1) : i \in 1..processed \/ i = processed + 1
    BY <1>7
  <2> QED
    BY <1>5, <2>1
<1>17. LoopOK'
  BY <1>1, <1>2, <1>5, <1>10, <1>14, <1>16 DEF LoopOK
<1>18. DatasetOK' /\ SessionOK'
  BY <1>1, <1>2, <1>3 DEF ReplayInv, DatasetOK, SessionOK
<1> QED
  BY <1>15, <1>17, <1>18 DEF ReplayInv

\* Every step of the composition keeps the invariant; the simulation leaves the replay alone.
LEMMA ReplayNextInv == ReplayInv /\ [Next]_vars => ReplayInv'
<1> SUFFICES ASSUME ReplayInv, [Next]_vars PROVE ReplayInv'
  OBVIOUS
<1>1. ASSUME UNCHANGED replayVars PROVE ReplayInv'
  <2>1. /\ files' = files /\ published' = published /\ runs' = runs /\ stage' = stage
        /\ ordered' = ordered /\ processed' = processed /\ clock' = clock /\ session' = session
    BY <1>1 DEF replayVars
  <2>2. /\ Dataset' = Dataset /\ InOrder' = InOrder /\ Seen' = Seen
        /\ \A s : PrefixOK(s)' <=> PrefixOK(s)
    BY <2>1, DatasetKept
  <2> QED
    BY <2>1, <2>2 DEF ReplayInv, DatasetOK, PublishedOK, LoopOK, SessionOK
<1>2. CASE ReplayFirst
  BY <1>2, LoadKeeps, StartKeeps, QuietKeeps, PublishKeeps DEF ReplayFirst, ReplayStep
<1>3. CASE DefineReplayed \/ DefineFixture \/ Simulate
  BY <1>1, <1>3 DEF DefineReplayed, DefineFixture, Simulate
<1>4. CASE UNCHANGED vars
  BY <1>1, <1>4 DEF vars
<1> QED
  BY <1>2, <1>3, <1>4 DEF Next

\* What is true of the replay in every reachable state.
THEOREM ReplayInductive == Spec => []ReplayInv
BY ReplayInitInv, ReplayNextInv, PTL DEF Spec

\* What any run has published is in the order of the keys, and none of it early.
LEMMA KeyOrderKept == ReplayInv => PublishedInKeyOrder
<1> SUFFICES ASSUME ReplayInv, NEW n \in 1..runs, NEW i \in DOMAIN published[n]
             PROVE  /\ published[n][i].at >= published[n][i].event.occurred_at
                    /\ \A k \in DOMAIN Dataset :
                         LET a == Dataset[k] b == published[n][i].event
                         IN  (\/ a.occurred_at < b.occurred_at
                              \/ /\ a.occurred_at = b.occurred_at
                                 /\ KeyBefore(ExchangeSequenceKey(a), ExchangeSequenceKey(b)))
                             => \E j \in 1..(i - 1) : published[n][j].event = a
                    /\ \A j \in 1..(i - 1) :
                         ~KeyBefore(replay_event_ordering_key(published[n][i].event),
                                    replay_event_ordering_key(published[n][j].event))
  BY DEF PublishedInKeyOrder
<1> DEFINE D == Dataset
           seen == published[n]
<1>1. runs \in Nat /\ seen \in Seq(Seen) /\ PrefixOK(seen)
  BY DEF ReplayInv, PublishedOK
<1>2. ParsedEvents(D)
  <2>1. runs # 0
    BY <1>1
  <2> QED
    BY <2>1 DEF ReplayInv, DatasetOK
<1>3. /\ Len(D) \in Nat /\ DOMAIN D = 1..Len(D) /\ \A k \in 1..Len(D) : IsEvent(D[k])
      /\ Len(seen) \in Nat /\ Len(seen) <= Len(D) /\ i \in 1..Len(seen)
  BY <1>1, <1>2 DEF ParsedEvents, PrefixOK
<1>4. \A j \in 1..Len(seen) : /\ seen[j].event = InOrder[j]
                              /\ seen[j].at >= InOrder[j].occurred_at
  BY <1>1 DEF PrefixOK
<1>5. /\ \A j \in 1..Len(D) : /\ InOrder[j] = D[Where(D, j)]
                              /\ Where(D, j) \in 1..Len(D) /\ Place(D, Where(D, j)) = j
      /\ \A k \in 1..Len(D) : Place(D, k) \in 1..Len(D) /\ Where(D, Place(D, k)) = k
  BY <1>2, Sorted DEF InOrder
<1> HIDE DEF D, seen
<1> DEFINE b == D[Where(D, i)]
<1>6. i \in 1..Len(D) /\ seen[i].event = b /\ IsEvent(b)
  <2>1. i \in 1..Len(D)
    BY <1>3
  <2>2. InOrder[i] = b /\ Where(D, i) \in 1..Len(D)
    BY <1>5, <2>1
  <2>3. seen[i].event = InOrder[i]
    BY <1>3, <1>4
  <2>4. IsEvent(D[Where(D, i)])
    BY <1>3, <2>2
  <2> QED
    BY <2>1, <2>2, <2>3, <2>4
<1>7. seen[i].at >= b.occurred_at
  BY <1>3, <1>4, <1>6
<1>8. ASSUME NEW k \in 1..Len(D),
             \/ D[k].occurred_at < b.occurred_at
             \/ /\ D[k].occurred_at = b.occurred_at
                /\ KeyBefore(ExchangeSequenceKey(D[k]), ExchangeSequenceKey(b))
      PROVE  \E j \in 1..(i - 1) : seen[j].event = D[k]
  <2>1. KeyBefore(Key(D[k]), Key(b))
    BY <1>3, <1>6, <1>8, SmallerKey
  <2>2. Precedes(D, k, Where(D, i))
    BY <2>1 DEF Precedes, Key
  <2>3. Place(D, k) < i
    <3>1. k \in DOMAIN D /\ Where(D, i) \in DOMAIN D /\ Place(D, Where(D, i)) = i
      BY <1>3, <1>5, <1>6
    <3> QED
      BY <1>2, <2>2, <3>1, PlaceOrder
  <2>4. Place(D, k) \in 1..(i - 1) /\ Place(D, k) \in 1..Len(seen) /\ Place(D, k) \in 1..Len(D)
    <3>1. Place(D, k) \in 1..Len(D)
      BY <1>5
    <3>2. i <= Len(seen) /\ i \in Nat /\ Len(seen) \in Nat /\ Len(D) \in Nat
      BY <1>3
    <3> HIDE DEF b
    <3> QED
      BY <2>3, <3>1, <3>2
  <2> QED
    BY <1>4, <1>5, <2>4
<1>9. ASSUME NEW j \in 1..(i - 1) PROVE ~KeyBefore(Key(b), Key(seen[j].event))
  <2>1. j \in 1..Len(seen) /\ j \in 1..Len(D) /\ j < i
    BY <1>3
  <2>2. seen[j].event = D[Where(D, j)]
    BY <1>4, <1>5, <2>1
  <2>3. ~Precedes(D, Where(D, i), Where(D, j))
    <3>1. /\ Where(D, i) \in DOMAIN D /\ Place(D, Where(D, i)) = i
          /\ Where(D, j) \in DOMAIN D /\ Place(D, Where(D, j)) = j
      BY <1>3, <1>5, <1>6, <2>1
    <3>2. Precedes(D, Where(D, i), Where(D, j)) => i < j
      BY <1>2, <3>1, PlaceOrder
    <3>3. i \in Nat /\ j \in Nat
      BY <1>3, <2>1
    <3> QED
      BY <2>1, <3>2, <3>3
  <2> QED
    BY <2>2, <2>3 DEF Precedes, Key
<1> QED
  BY <1>3, <1>6, <1>7, <1>8, <1>9 DEF D, seen, Key

\* A run publishes in the order of the keys, whatever the files, and no event before its
\* time, whatever consumers do to the clock.
THEOREM ReplayPublishesInKeyOrder == Spec => []PublishedInKeyOrder
BY KeyOrderKept, ReplayInductive, PTL

\* A session is returned only for a run that published the whole dataset, each event as
\* often as it was recorded, and it ends no earlier than any of them.
THEOREM CompletedSessionsAreWhole == Spec => []CompletedSessionIsWhole
<1>1. ReplayInv => CompletedSessionIsWhole
  <2> DEFINE D == Dataset
             seen == published[runs]
             events == [i \in DOMAIN seen |-> seen[i].event]
  <2> SUFFICES ASSUME ReplayInv, session # Missing
               PROVE  /\ \A k \in DOMAIN D : Cardinality({i \in DOMAIN events : events[i] = D[k]})
                                               = Cardinality({i \in DOMAIN D : D[i] = D[k]})
                      /\ session.processed_events = Len(D)
                      /\ \A i \in DOMAIN seen : session.completed_at >= events[i].occurred_at
                      /\ session.result_checksum = events
    BY DEF CompletedSessionIsWhole
  <2>1. /\ stage = "completed" /\ processed = Len(D) /\ session.processed_events = processed
        /\ session.completed_at = clock /\ session.result_checksum = ordered
    BY DEF ReplayInv, SessionOK
  <2>2. /\ runs # 0 /\ ordered = InOrder /\ processed = Len(seen)
        /\ \A i \in 1..processed : InOrder[i].occurred_at <= clock /\ clock \in Int
    BY <2>1 DEF ReplayInv, LoopOK
  <2>3. seen \in Seq(Seen) /\ PrefixOK(seen)
    BY <2>2 DEF ReplayInv, PublishedOK
  <2>4. ParsedEvents(D)
    BY <2>2 DEF ReplayInv, DatasetOK
  <2>5. /\ Len(D) \in Nat /\ DOMAIN D = 1..Len(D)
        /\ DOMAIN InOrder = 1..Len(D)
        /\ \A n \in 1..Len(D) : InOrder[n].occurred_at \in Int
    BY <2>4, InOrderEvents
  <2>6. DOMAIN seen = 1..Len(D) /\ \A i \in 1..Len(D) : seen[i].event = InOrder[i]
    BY <2>1, <2>2, <2>3 DEF PrefixOK
  <2>7. InOrder = [n \in 1..Len(D) |-> D[Where(D, n)]]
    BY <2>4, Sorted DEF InOrder
  <2>8. events = InOrder
    BY <2>6, <2>7
  <2> HIDE DEF events, D, seen
  <2>9. \A i \in 1..Len(D) : clock >= InOrder[i].occurred_at
    BY <2>1, <2>2, <2>5
  <2>10. ASSUME NEW k \in DOMAIN D
         PROVE  Cardinality({i \in DOMAIN events : events[i] = D[k]})
                  = Cardinality({i \in DOMAIN D : D[i] = D[k]})
    <3> DEFINE A == {i \in 1..Len(D) : InOrder[i] = D[k]}
               B == {i \in 1..Len(D) : D[i] = D[k]}
               f == [i \in B |-> Place(D, i)]
    <3>1. /\ \A n \in 1..Len(D) : /\ InOrder[n] = D[Where(D, n)]
                                  /\ Where(D, n) \in 1..Len(D) /\ Place(D, Where(D, n)) = n
          /\ \A i \in 1..Len(D) : Place(D, i) \in 1..Len(D) /\ Where(D, Place(D, i)) = i
      BY <2>4, <2>7, Sorted
    <3>2. f \in [B -> A]
      <4>1. \A i \in B : Place(D, i) \in A
        BY <3>1
      <4> HIDE DEF A, B
      <4> QED
        BY <4>1
    <3>3. \A i, j \in B : f[i] = f[j] => i = j
      <4> TAKE i, j \in B
      <4>1. i \in 1..Len(D) /\ j \in 1..Len(D) /\ f[i] = Place(D, i) /\ f[j] = Place(D, j)
        OBVIOUS
      <4> QED
        BY <3>1, <4>1, Zenon
    <3>4. \A n \in A : Where(D, n) \in B /\ f[Where(D, n)] = n
      BY <3>1
    <3>5. f \in Bijection(B, A)
      BY <3>2, <3>3, <3>4 DEF Bijection, Injection, Surjection, IsInjective
    <3>6. IsFiniteSet(B)
      <4>1. 1 \in Int /\ Len(D) \in Int /\ B \in SUBSET (1..Len(D))
        BY <2>5
      <4>2. IsFiniteSet(1..Len(D))
        BY <4>1, FS_Interval
      <4> HIDE DEF B
      <4> QED
        BY <4>1, <4>2, FS_Subset
    <3>7. ExistsBijection(B, A)
      BY <3>5 DEF ExistsBijection
    <3> HIDE DEF A, B
    <3>8. Cardinality(A) = Cardinality(B)
      BY <3>6, <3>7, FS_Bijection
    <3> QED
      BY <2>5, <2>8, <3>8 DEF A, B
  <2> QED
    BY <2>1, <2>2, <2>5, <2>6, <2>8, <2>9, <2>10
<1> QED
  BY <1>1, ReplayInductive, PTL

-----------------------------------------------------------------------------
(* Sorting by number                                                       *)

\* The numbers of a finite set, from the smallest up: all of them.
LEMMA AscendingOrder ==
  ASSUME NEW S \in SUBSET Int, IsFiniteSet(S)
  PROVE  /\ Cardinality(S) \in Nat
         /\ Ascending(S) \in [1..Cardinality(S) -> S]
         /\ \A m, n \in 1..Cardinality(S) : m < n => Ascending(S)[m] < Ascending(S)[n]
         /\ \A x \in S : \E n \in 1..Cardinality(S) : Ascending(S)[n] = x
<1> DEFINE k == Cardinality(S)
           B(x) == {y \in S : y < x}
           rank == [x \in S |-> Cardinality(B(x)) + 1]
<1>0. \A x \in S : x \in Int
  OBVIOUS
<1>1. k \in Nat
  BY FS_CardinalityType
<1>2. ASSUME NEW x \in S PROVE Cardinality(B(x)) \in 0..(k - 1) /\ IsFiniteSet(B(x))
  <2>1. B(x) \in SUBSET S /\ B(x) # S
    OBVIOUS
  <2> HIDE DEF B
  <2>2. IsFiniteSet(B(x)) /\ Cardinality(B(x)) <= k /\ Cardinality(B(x)) # k
    BY <2>1, FS_Subset
  <2>3. Cardinality(B(x)) \in Nat
    BY <2>2, FS_CardinalityType
  <2> QED
    BY <1>1, <2>2, <2>3
<1>3. ASSUME NEW x \in S, NEW y \in S, x < y PROVE rank[x] < rank[y]
  <2>1. B(x) \in SUBSET B(y) /\ x \in B(y) /\ x \notin B(x)
    <3>1. x \in Int /\ y \in Int /\ x < y
      BY <1>0, <1>3
    <3>2. \A z \in S : z < x => z < y
      <4> TAKE z \in S
      <4>1. z \in Int
        BY <1>0
      <4> QED
        BY <3>1, <4>1
    <3>3. \A z \in B(x) : z \in B(y)
      BY <3>2
    <3>4. x \in B(y) /\ x \notin B(x)
      BY <3>1
    <3> QED
      BY <3>3, <3>4
  <2>2. B(x) # B(y)
    BY <2>1
  <2>3. Cardinality(B(x)) <= Cardinality(B(y)) /\ Cardinality(B(x)) # Cardinality(B(y))
    <3> HIDE DEF B
    <3> QED
      BY <1>2, <2>1, <2>2, FS_Subset
  <2>4. Cardinality(B(x)) \in Nat /\ Cardinality(B(y)) \in Nat
    BY <1>2
  <2> HIDE DEF B
  <2> QED
    BY <2>3, <2>4
<1>4. rank \in [S -> 1..k]
  <2> HIDE DEF B
  <2>1. \A x \in S : Cardinality(B(x)) + 1 \in 1..k
    BY <1>1, <1>2
  <2> QED
    BY <2>1
<1> HIDE DEF rank, B
<1>5. \A x, y \in S : rank[x] = rank[y] => x = y
  <2> TAKE x, y \in S
  <2>1. rank[x] \in Int /\ rank[y] \in Int /\ x \in Int /\ y \in Int
    BY <1>1, <1>4
  <2> QED
    BY <1>3, <2>1
<1>6. rank \in Injection(S, 1..k)
  BY <1>4, <1>5 DEF Injection, IsInjective
<1>7. rank \in Surjection(S, 1..k)
  <2>1. IsFiniteSet(1..k) /\ Cardinality(1..k) = k
    <3>1. 1 \in Int /\ k \in Int
      BY <1>1
    <3>2. IsFiniteSet(1..k) /\ Cardinality(1..k) = IF 1 > k THEN 0 ELSE k - 1 + 1
      BY <3>1, FS_Interval
    <3> QED
      BY <1>1, <3>2
  <2> QED
    BY <1>6, <2>1, FS_Injection
<1> DEFINE f == [n \in 1..k |-> CHOOSE x \in S : rank[x] = n]
<1>8. \A n \in 1..k : f[n] \in S /\ rank[f[n]] = n
  BY <1>7 DEF Surjection
<1>9. f \in [1..k -> S]
  BY <1>8
<1>10. \A m, n \in 1..k : m < n => f[m] < f[n]
  <2> TAKE m, n \in 1..k
  <2> HAVE m < n
  <2>1. f[m] \in S /\ f[n] \in S /\ rank[f[m]] = m /\ rank[f[n]] = n
    BY <1>8
  <2> HIDE DEF f
  <2>2. ~(f[n] < f[m]) /\ f[n] # f[m]
    <3>1. f[m] \in S /\ f[n] \in S
      BY <2>1
    <3>2. f[n] < f[m] => n < m
      BY <1>3, <2>1, <3>1
    <3>3. f[n] = f[m] => n = m
      BY <2>1
    <3>4. m \in Int /\ n \in Int
      OBVIOUS
    <3> QED
      BY <3>2, <3>3, <3>4
  <2>3. f[m] \in Int /\ f[n] \in Int
    BY <1>0, <2>1
  <2> QED
    BY <2>2, <2>3
<1> DEFINE Up(s) == \A m, n \in DOMAIN s : m < n => s[m] < s[n]
<1>11. Ascending(S) \in [1..k -> S] /\ Up(Ascending(S))
  <2>1. Up(f)
    BY <1>9, <1>10
  <2> HIDE DEF f
  <2> QED
    BY <1>9, <2>1 DEF Ascending
<1> DEFINE a == Ascending(S)
<1>12. \A m, n \in 1..k : m < n => a[m] < a[n]
  BY <1>11
<1> HIDE DEF a
<1>13. a \in [1..k -> S]
  BY <1>11 DEF a
<1>14. a \in Injection(1..k, S)
  <2>1. \A m, n \in 1..k : a[m] = a[n] => m = n
    <3> TAKE m, n \in 1..k
    <3>1. a[m] \in S /\ a[n] \in S /\ m \in Int /\ n \in Int
      BY <1>13
    <3>2. a[m] \in Int /\ a[n] \in Int
      BY <1>0, <3>1
    <3> QED
      BY <1>12, <3>1, <3>2
  <2> QED
    BY <1>13, <2>1 DEF Injection, IsInjective
<1>15. a \in Surjection(1..k, S)
  <2>1. Cardinality(1..k) = k
    <3>1. 1 \in Int /\ k \in Int
      BY <1>1
    <3>2. Cardinality(1..k) = IF 1 > k THEN 0 ELSE k - 1 + 1
      BY <3>1, FS_Interval
    <3> QED
      BY <1>1, <3>2
  <2> QED
    BY <1>14, <2>1, FS_Injection
<1> QED
  BY <1>1, <1>12, <1>13, <1>15 DEF a, Surjection

-----------------------------------------------------------------------------
(* The loops of the simulation                                             *)

\* w is what the loop of _project_book_until leaves after each of the first m events.
IsProjection(w, s, through, m) ==
  w = [n \in 0..m |->
         IF n = 0
         THEN [book |-> s.initial_book, is_valid |-> TRUE, seen |-> {}, raised |-> None]
         ELSE IF through # None /\ s.market_events[n].scheduled_at > through THEN w[n - 1]
         ELSE ApplyEvent(w[n - 1], s.market_events[n])]

\* The same of the loop of _fill_resting_order_from_trade_events.
IsResting(w, s, intent, quantity, span, m) ==
  w = [n \in 0..m |->
         IF n = 0 THEN [seen |-> {}, remaining |-> quantity, components |-> <<>>]
         ELSE IF n \notin span THEN w[n - 1]
         ELSE FillFromEvent(intent, w[n - 1], s.market_events[n])]

\* The same of the loop of _estimate_book_fill over the levels of a side.
IsBookWalk(w, levels, intent, allow_touch, m) ==
  w = [n \in 0..m |->
         IF n = 0
         THEN [remaining |-> intent.quantity, components |-> <<>>, stopped |-> FALSE]
         ELSE TakeLevel(intent, allow_touch, w[n - 1], levels[n])]

\* The same of the loop of apply_order_book_delta over its changes.
IsChanged(w, book, changes, m) ==
  w = [n \in 0..m |->
         IF n = 0 THEN [BUY |-> LevelsByPrice(book.bids), SELL |-> LevelsByPrice(book.asks)]
         ELSE ApplyChange(w[n - 1], changes[n])]

\* The loop that projects the book is well defined.
LEMMA ProjectionExists ==
  ASSUME NEW s, NEW through, NEW m \in Nat
  PROVE  \E w : IsProjection(w, s, through, m)
<1> DEFINE Bad == {k \in Nat : ~\E w : IsProjection(w, s, through, k)}
<1> SUFFICES ASSUME Bad # {} PROVE FALSE
  OBVIOUS
<1>1. PICK k \in Bad : \A j \in Bad : k <= j
  <2>1. Bad \in SUBSET Nat
    OBVIOUS
  <2> HIDE DEF Bad
  <2> QED
    BY <2>1, LeastNat
<1>2. k \in Nat /\ ~\E w : IsProjection(w, s, through, k)
  OBVIOUS
<1>3. CASE k = 0
  <2> DEFINE v == [n \in 0..0 |->
                    [book |-> s.initial_book, is_valid |-> TRUE, seen |-> {}, raised |-> None]]
  <2>1. IsProjection(v, s, through, 0)
    BY DEF IsProjection
  <2> QED
    BY <1>2, <1>3, <2>1
<1>4. CASE k # 0
  <2>1. k - 1 \in Nat /\ k - 1 \notin Bad
    BY <1>1, <1>2, <1>4
  <2>2. PICK w : IsProjection(w, s, through, k - 1)
    BY <2>1
  <2> DEFINE top == IF through # None /\ s.market_events[k].scheduled_at > through THEN w[k - 1]
                    ELSE ApplyEvent(w[k - 1], s.market_events[k])
             v == [n \in 0..k |-> IF n = k THEN top ELSE w[n]]
  <2>3. \A n \in 0..k : n # k => n \in 0..(k - 1) /\ (n # 0 => n - 1 \in 0..k /\ n - 1 # k)
    BY <1>2
  <2>4. k \in 0..k /\ k - 1 \in 0..k /\ k - 1 # k
    BY <1>2, <1>4
  <2>5. IsProjection(v, s, through, k)
    <3>1. \A n \in 0..k : n # k => v[n] = w[n] /\ (n # 0 => v[n - 1] = w[n - 1])
      BY <2>3
    <3>2. v[k] = top /\ v[k - 1] = w[k - 1]
      BY <2>4
    <3>3. \A n \in 0..(k - 1) : w[n] =
            IF n = 0
            THEN [book |-> s.initial_book, is_valid |-> TRUE, seen |-> {}, raised |-> None]
            ELSE IF through # None /\ s.market_events[n].scheduled_at > through THEN w[n - 1]
            ELSE ApplyEvent(w[n - 1], s.market_events[n])
      BY <2>2 DEF IsProjection
    <3>4. ASSUME NEW n \in 0..k
          PROVE  v[n] =
            IF n = 0
            THEN [book |-> s.initial_book, is_valid |-> TRUE, seen |-> {}, raised |-> None]
            ELSE IF through # None /\ s.market_events[n].scheduled_at > through THEN v[n - 1]
            ELSE ApplyEvent(v[n - 1], s.market_events[n])
      <4> HIDE DEF v
      <4>1. CASE n = k
        BY <1>4, <3>2, <4>1
      <4>2. CASE n # k
        BY <2>3, <3>1, <3>3, <4>2
      <4> QED
        BY <4>1, <4>2
    <3>5. v = [n \in 0..k |-> v[n]]
      OBVIOUS
    <3> HIDE DEF v
    <3> QED
      BY <3>4, <3>5, Zenon DEF IsProjection
  <2> HIDE DEF v
  <2> QED
    BY <1>2, <2>5
<1> QED
  BY <1>3, <1>4

\* The book before and after each event.
LEMMA ProjectionStep ==
  ASSUME NEW s, NEW through, Len(s.market_events) \in Nat
  PROVE  /\ ProjectionWalk(s, through)[0] =
              [book |-> s.initial_book, is_valid |-> TRUE, seen |-> {}, raised |-> None]
         /\ \A n \in 1..Len(s.market_events) :
              ProjectionWalk(s, through)[n] =
                IF through # None /\ s.market_events[n].scheduled_at > through
                THEN ProjectionWalk(s, through)[n - 1]
                ELSE ApplyEvent(ProjectionWalk(s, through)[n - 1], s.market_events[n])
<1> DEFINE m == Len(s.market_events)
           c == CHOOSE w : IsProjection(w, s, through, m)
<1>1. IsProjection(c, s, through, m)
  BY ProjectionExists
<1>2. ProjectionWalk(s, through) = c
  BY DEF ProjectionWalk, IsProjection
<1> HIDE DEF c
<1>3. 0 \in 0..m /\ \A n \in 1..m : n \in 0..m /\ n # 0
  OBVIOUS
<1>4. \A n \in 0..m : c[n] = IF n = 0
        THEN [book |-> s.initial_book, is_valid |-> TRUE, seen |-> {}, raised |-> None]
        ELSE IF through # None /\ s.market_events[n].scheduled_at > through THEN c[n - 1]
        ELSE ApplyEvent(c[n - 1], s.market_events[n])
  BY <1>1 DEF IsProjection
<1> QED
  BY <1>2, <1>3, <1>4

\* So is the loop that fills a resting order.
LEMMA RestingExists ==
  ASSUME NEW s, NEW intent, NEW quantity, NEW span, NEW m \in Nat
  PROVE  \E w : IsResting(w, s, intent, quantity, span, m)
<1> DEFINE Bad == {k \in Nat : ~\E w : IsResting(w, s, intent, quantity, span, k)}
<1> SUFFICES ASSUME Bad # {} PROVE FALSE
  OBVIOUS
<1>1. PICK k \in Bad : \A j \in Bad : k <= j
  <2>1. Bad \in SUBSET Nat
    OBVIOUS
  <2> HIDE DEF Bad
  <2> QED
    BY <2>1, LeastNat
<1>2. k \in Nat /\ ~\E w : IsResting(w, s, intent, quantity, span, k)
  OBVIOUS
<1>3. CASE k = 0
  <2> DEFINE v == [n \in 0..0 |-> [seen |-> {}, remaining |-> quantity, components |-> <<>>]]
  <2>1. IsResting(v, s, intent, quantity, span, 0)
    BY DEF IsResting
  <2> QED
    BY <1>2, <1>3, <2>1
<1>4. CASE k # 0
  <2>1. k - 1 \in Nat /\ k - 1 \notin Bad
    BY <1>1, <1>2, <1>4
  <2>2. PICK w : IsResting(w, s, intent, quantity, span, k - 1)
    BY <2>1
  <2> DEFINE top == IF k \notin span THEN w[k - 1]
                    ELSE FillFromEvent(intent, w[k - 1], s.market_events[k])
             v == [n \in 0..k |-> IF n = k THEN top ELSE w[n]]
  <2>3. \A n \in 0..k : n # k => n \in 0..(k - 1) /\ (n # 0 => n - 1 \in 0..k /\ n - 1 # k)
    BY <1>2
  <2>4. k \in 0..k /\ k - 1 \in 0..k /\ k - 1 # k
    BY <1>2, <1>4
  <2>5. IsResting(v, s, intent, quantity, span, k)
    <3>1. \A n \in 0..k : n # k => v[n] = w[n] /\ (n # 0 => v[n - 1] = w[n - 1])
      BY <2>3
    <3>2. v[k] = top /\ v[k - 1] = w[k - 1]
      BY <2>4
    <3>3. \A n \in 0..(k - 1) : w[n] =
            IF n = 0
            THEN [seen |-> {}, remaining |-> quantity, components |-> <<>>]
            ELSE IF n \notin span THEN w[n - 1]
            ELSE FillFromEvent(intent, w[n - 1], s.market_events[n])
      BY <2>2 DEF IsResting
    <3>4. ASSUME NEW n \in 0..k
          PROVE  v[n] =
            IF n = 0
            THEN [seen |-> {}, remaining |-> quantity, components |-> <<>>]
            ELSE IF n \notin span THEN v[n - 1]
            ELSE FillFromEvent(intent, v[n - 1], s.market_events[n])
      <4> HIDE DEF v
      <4>1. CASE n = k
        BY <1>4, <3>2, <4>1
      <4>2. CASE n # k
        BY <2>3, <3>1, <3>3, <4>2
      <4> QED
        BY <4>1, <4>2
    <3>5. v = [n \in 0..k |-> v[n]]
      OBVIOUS
    <3> HIDE DEF v
    <3> QED
      BY <3>4, <3>5, Zenon DEF IsResting
  <2> HIDE DEF v
  <2> QED
    BY <1>2, <2>5
<1> QED
  BY <1>3, <1>4

\* Whether a place is in a span.
Within(n, span) == n \in span

\* The resting order before and after each event.
LEMMA RestingValue ==
  ASSUME NEW s, NEW intent, NEW quantity, NEW span, Len(s.market_events) \in Nat,
         NEW w, w = RestingWalk(s, intent, quantity, span)
  PROVE  \A n \in 0..Len(s.market_events) : w[n] =
           IF n = 0 THEN [seen |-> {}, remaining |-> quantity, components |-> <<>>]
           ELSE IF ~Within(n, span) THEN w[n - 1]
           ELSE FillFromEvent(intent, w[n - 1], s.market_events[n])
<1> DEFINE m == Len(s.market_events)
           c == CHOOSE x : IsResting(x, s, intent, quantity, span, m)
<1>1. IsResting(c, s, intent, quantity, span, m)
  BY RestingExists
<1>2. w = c
  BY DEF RestingWalk, IsResting
<1> HIDE DEF c
<1> QED
  BY <1>1, <1>2 DEF IsResting, Within

\* So is the walk along the levels of a book.
LEMMA BookWalkExists ==
  ASSUME NEW levels, NEW intent, NEW allow_touch, NEW m \in Nat
  PROVE  \E w : IsBookWalk(w, levels, intent, allow_touch, m)
<1> DEFINE Bad == {k \in Nat : ~\E w : IsBookWalk(w, levels, intent, allow_touch, k)}
<1> SUFFICES ASSUME Bad # {} PROVE FALSE
  OBVIOUS
<1>1. PICK k \in Bad : \A j \in Bad : k <= j
  <2>1. Bad \in SUBSET Nat
    OBVIOUS
  <2> HIDE DEF Bad
  <2> QED
    BY <2>1, LeastNat
<1>2. k \in Nat /\ ~\E w : IsBookWalk(w, levels, intent, allow_touch, k)
  OBVIOUS
<1>3. CASE k = 0
  <2> DEFINE v == [n \in 0..0 |->
                    [remaining |-> intent.quantity, components |-> <<>>, stopped |-> FALSE]]
  <2>1. IsBookWalk(v, levels, intent, allow_touch, 0)
    BY DEF IsBookWalk
  <2> QED
    BY <1>2, <1>3, <2>1
<1>4. CASE k # 0
  <2>1. k - 1 \in Nat /\ k - 1 \notin Bad
    BY <1>1, <1>2, <1>4
  <2>2. PICK w : IsBookWalk(w, levels, intent, allow_touch, k - 1)
    BY <2>1
  <2> DEFINE top == TakeLevel(intent, allow_touch, w[k - 1], levels[k])
             v == [n \in 0..k |-> IF n = k THEN top ELSE w[n]]
  <2>3. \A n \in 0..k : n # k => n \in 0..(k - 1) /\ (n # 0 => n - 1 \in 0..k /\ n - 1 # k)
    BY <1>2
  <2>4. k \in 0..k /\ k - 1 \in 0..k /\ k - 1 # k
    BY <1>2, <1>4
  <2>5. IsBookWalk(v, levels, intent, allow_touch, k)
    <3>1. \A n \in 0..k : n # k => v[n] = w[n] /\ (n # 0 => v[n - 1] = w[n - 1])
      BY <2>3
    <3>2. v[k] = top /\ v[k - 1] = w[k - 1]
      BY <2>4
    <3>3. \A n \in 0..(k - 1) : w[n] =
            IF n = 0
            THEN [remaining |-> intent.quantity, components |-> <<>>, stopped |-> FALSE]
            ELSE TakeLevel(intent, allow_touch, w[n - 1], levels[n])
      BY <2>2 DEF IsBookWalk
    <3>4. ASSUME NEW n \in 0..k
          PROVE  v[n] =
            IF n = 0
            THEN [remaining |-> intent.quantity, components |-> <<>>, stopped |-> FALSE]
            ELSE TakeLevel(intent, allow_touch, v[n - 1], levels[n])
      <4> HIDE DEF v
      <4>1. CASE n = k
        BY <1>4, <3>2, <4>1
      <4>2. CASE n # k
        BY <2>3, <3>1, <3>3, <4>2
      <4> QED
        BY <4>1, <4>2
    <3>5. v = [n \in 0..k |-> v[n]]
      OBVIOUS
    <3> HIDE DEF v
    <3> QED
      BY <3>4, <3>5, Zenon DEF IsBookWalk
  <2> HIDE DEF v
  <2> QED
    BY <1>2, <2>5
<1> QED
  BY <1>3, <1>4

\* The taking order before and after each level.
LEMMA BookWalkStep ==
  ASSUME NEW levels, NEW intent, NEW allow_touch, Len(levels) \in Nat
  PROVE  /\ BookWalk(levels, intent, allow_touch)[0] =
              [remaining |-> intent.quantity, components |-> <<>>, stopped |-> FALSE]
         /\ \A n \in 1..Len(levels) :
              BookWalk(levels, intent, allow_touch)[n] =
                TakeLevel(intent, allow_touch, BookWalk(levels, intent, allow_touch)[n - 1],
                          levels[n])
<1> DEFINE m == Len(levels)
           c == CHOOSE w : IsBookWalk(w, levels, intent, allow_touch, m)
<1>1. IsBookWalk(c, levels, intent, allow_touch, m)
  BY BookWalkExists
<1>2. BookWalk(levels, intent, allow_touch) = c
  BY DEF BookWalk, IsBookWalk
<1> HIDE DEF c
<1>3. 0 \in 0..m /\ \A n \in 1..m : n \in 0..m /\ n # 0
  OBVIOUS
<1>4. \A n \in 0..m : c[n] = IF n = 0
        THEN [remaining |-> intent.quantity, components |-> <<>>, stopped |-> FALSE]
        ELSE TakeLevel(intent, allow_touch, c[n - 1], levels[n])
  BY <1>1 DEF IsBookWalk
<1> QED
  BY <1>2, <1>3, <1>4

\* So is the loop over the changes of a delta.
LEMMA ChangedExists ==
  ASSUME NEW book, NEW changes, NEW m \in Nat
  PROVE  \E w : IsChanged(w, book, changes, m)
<1> DEFINE Bad == {k \in Nat : ~\E w : IsChanged(w, book, changes, k)}
<1> SUFFICES ASSUME Bad # {} PROVE FALSE
  OBVIOUS
<1>1. PICK k \in Bad : \A j \in Bad : k <= j
  <2>1. Bad \in SUBSET Nat
    OBVIOUS
  <2> HIDE DEF Bad
  <2> QED
    BY <2>1, LeastNat
<1>2. k \in Nat /\ ~\E w : IsChanged(w, book, changes, k)
  OBVIOUS
<1>3. CASE k = 0
  <2> DEFINE v == [n \in 0..0 |->
                    [BUY |-> LevelsByPrice(book.bids), SELL |-> LevelsByPrice(book.asks)]]
  <2>1. IsChanged(v, book, changes, 0)
    BY DEF IsChanged
  <2> QED
    BY <1>2, <1>3, <2>1
<1>4. CASE k # 0
  <2>1. k - 1 \in Nat /\ k - 1 \notin Bad
    BY <1>1, <1>2, <1>4
  <2>2. PICK w : IsChanged(w, book, changes, k - 1)
    BY <2>1
  <2> DEFINE top == ApplyChange(w[k - 1], changes[k])
             v == [n \in 0..k |-> IF n = k THEN top ELSE w[n]]
  <2>3. \A n \in 0..k : n # k => n \in 0..(k - 1) /\ (n # 0 => n - 1 \in 0..k /\ n - 1 # k)
    BY <1>2
  <2>4. k \in 0..k /\ k - 1 \in 0..k /\ k - 1 # k
    BY <1>2, <1>4
  <2>5. IsChanged(v, book, changes, k)
    <3>1. \A n \in 0..k : n # k => v[n] = w[n] /\ (n # 0 => v[n - 1] = w[n - 1])
      BY <2>3
    <3>2. v[k] = top /\ v[k - 1] = w[k - 1]
      BY <2>4
    <3>3. \A n \in 0..(k - 1) : w[n] =
            IF n = 0
            THEN [BUY |-> LevelsByPrice(book.bids), SELL |-> LevelsByPrice(book.asks)]
            ELSE ApplyChange(w[n - 1], changes[n])
      BY <2>2 DEF IsChanged
    <3>4. ASSUME NEW n \in 0..k
          PROVE  v[n] =
            IF n = 0
            THEN [BUY |-> LevelsByPrice(book.bids), SELL |-> LevelsByPrice(book.asks)]
            ELSE ApplyChange(v[n - 1], changes[n])
      <4> HIDE DEF v
      <4>1. CASE n = k
        BY <1>4, <3>2, <4>1
      <4>2. CASE n # k
        BY <2>3, <3>1, <3>3, <4>2
      <4> QED
        BY <4>1, <4>2
    <3>5. v = [n \in 0..k |-> v[n]]
      OBVIOUS
    <3> HIDE DEF v
    <3> QED
      BY <3>4, <3>5, Zenon DEF IsChanged
  <2> HIDE DEF v
  <2> QED
    BY <1>2, <2>5
<1> QED
  BY <1>3, <1>4

\* The two sides before and after each change.
LEMMA ChangedStep ==
  ASSUME NEW book, NEW changes, Len(changes) \in Nat
  PROVE  /\ ChangedSides(book, changes)[0] =
              [BUY |-> LevelsByPrice(book.bids), SELL |-> LevelsByPrice(book.asks)]
         /\ \A n \in 1..Len(changes) :
              ChangedSides(book, changes)[n] =
                ApplyChange(ChangedSides(book, changes)[n - 1], changes[n])
<1> DEFINE m == Len(changes)
           c == CHOOSE w : IsChanged(w, book, changes, m)
<1>1. IsChanged(c, book, changes, m)
  BY ChangedExists
<1>2. ChangedSides(book, changes) = c
  BY DEF ChangedSides, IsChanged
<1> HIDE DEF c
<1>3. 0 \in 0..m /\ \A n \in 1..m : n \in 0..m /\ n # 0
  OBVIOUS
<1>4. \A n \in 0..m : c[n] = IF n = 0
        THEN [BUY |-> LevelsByPrice(book.bids), SELL |-> LevelsByPrice(book.asks)]
        ELSE ApplyChange(c[n - 1], changes[n])
  BY <1>1 DEF IsChanged
<1> QED
  BY <1>2, <1>3, <1>4

-----------------------------------------------------------------------------
(* Scenarios as they are constructed                                       *)

\* None is neither a number nor a reason nor a part of a result.
LEMMA NoneDiffers ==
  /\ None \notin Int /\ None \notin Reasons /\ None \notin Snapshots /\ None \notin FillEstimates
  /\ None \notin CancelResults /\ None \notin DisconnectResults
BY NoneAssumption DEF NoneAssumption

\* Sorting by sequence keeps the items, one for each sequence, from the smallest up.
LEMMA SortedItems ==
  ASSUME NEW items, IsSequence(items), \A i \in DOMAIN items : items[i].sequence \in Int,
         UniqueSequences(items)
  PROVE  /\ IsSequence(SortedBySequence(items))
         /\ Len(SortedBySequence(items)) = Len(items)
         /\ \A n \in 1..Len(items) : \E i \in 1..Len(items) :
              SortedBySequence(items)[n] = items[i]
         /\ \A m, n \in 1..Len(items) : m < n =>
              SortedBySequence(items)[m].sequence < SortedBySequence(items)[n].sequence
<1> DEFINE k == Len(items)
           Q == {items[i].sequence : i \in DOMAIN items}
           f == [i \in 1..k |-> items[i].sequence]
           a == Ascending(Q)
           t == [n \in 1..k |-> items[CHOOSE i \in 1..k : items[i].sequence = a[n]]]
<1>1. k \in Nat /\ DOMAIN items = 1..k
  BY DEF IsSequence
<1>2. Q \in SUBSET Int
  OBVIOUS
<1>3. IsFiniteSet(1..k) /\ Cardinality(1..k) = k
  <2>1. 1 \in Int /\ k \in Int
    BY <1>1
  <2>2. IsFiniteSet(1..k) /\ Cardinality(1..k) = IF 1 > k THEN 0 ELSE k - 1 + 1
    BY <2>1, FS_Interval
  <2> QED
    BY <1>1, <2>2
<1>4. f \in Bijection(1..k, Q)
  <2>1. f \in [1..k -> Q]
    BY <1>1
  <2>2. \A i, j \in 1..k : f[i] = f[j] => i = j
    BY <1>1 DEF UniqueSequences
  <2>3. \A q \in Q : \E i \in 1..k : f[i] = q
    BY <1>1
  <2> HIDE DEF Q, f
  <2> QED
    BY <2>1, <2>2, <2>3 DEF Bijection, Injection, Surjection, IsInjective
<1>5. IsFiniteSet(Q) /\ Cardinality(Q) = k
  <2>1. ExistsBijection(1..k, Q)
    BY <1>4 DEF ExistsBijection
  <2> HIDE DEF Q, k
  <2> QED
    BY <1>3, <2>1, FS_Bijection
<1>6. a \in [1..k -> Q] /\ \A m, n \in 1..k : m < n => a[m] < a[n]
  <2> HIDE DEF Q
  <2> QED
    BY <1>2, <1>5, AscendingOrder
<1>7. \A n \in 1..k : \E i \in 1..k : items[i].sequence = a[n]
  <2> TAKE n \in 1..k
  <2>1. a[n] \in Q
    BY <1>6
  <2> HIDE DEF a
  <2> QED
    BY <1>1, <2>1
<1>8. SortedBySequence(items) = t
  BY <1>1 DEF SortedBySequence
<1> HIDE DEF a
<1>9. \A n \in 1..k : \E i \in 1..k : t[n] = items[i] /\ t[n].sequence = a[n]
  BY <1>7
<1>10. Len(t) = k /\ DOMAIN t = 1..k
  BY <1>1
<1> HIDE DEF t
<1>11. \A m, n \in 1..k : m < n => t[m].sequence < t[n].sequence
  BY <1>6, <1>9
<1> QED
  BY <1>1, <1>8, <1>9, <1>10, <1>11 DEF IsSequence

\* The intents are actions of the scenario.
LEMMA IntentsAreActions ==
  ASSUME NEW s, IsSequence(s.order_actions)
  PROVE  /\ Len(OrderIntents(s)) \in Nat
         /\ \A n \in 1..Len(OrderIntents(s)) : \E i \in DOMAIN s.order_actions :
              /\ OrderIntents(s)[n] = s.order_actions[i]
              /\ s.order_actions[i].type = "order_intent"
<1> DEFINE A == s.order_actions
           I == {i \in DOMAIN A : A[i].type = "order_intent"}
           t == [n \in 1..Cardinality(I) |-> A[Ascending(I)[n]]]
<1>1. Len(A) \in Nat /\ DOMAIN A = 1..Len(A)
  BY DEF IsSequence
<1>2. I \in SUBSET Int /\ IsFiniteSet(I)
  <2>1. 1 \in Int /\ Len(A) \in Int /\ I \in SUBSET (1..Len(A))
    BY <1>1
  <2>2. IsFiniteSet(1..Len(A))
    BY <2>1, FS_Interval
  <2>3. IsFiniteSet(I)
    <3> HIDE DEF I
    <3> QED
      BY <2>1, <2>2, FS_Subset
  <2> QED
    BY <2>1, <2>3
<1>3. Cardinality(I) \in Nat /\ Ascending(I) \in [1..Cardinality(I) -> I]
  <2> HIDE DEF I
  <2> QED
    BY <1>2, AscendingOrder
<1>4. OrderIntents(s) = t
  BY DEF OrderIntents
<1>5. Len(t) = Cardinality(I)
  BY <1>3
<1>6. \A n \in 1..Cardinality(I) : Ascending(I)[n] \in I
  <2> HIDE DEF I
  <2> QED
    BY <1>3
<1>7. \A n \in 1..Cardinality(I) : t[n] = A[Ascending(I)[n]]
  OBVIOUS
<1>8. \A i \in I : i \in DOMAIN A /\ A[i].type = "order_intent"
  OBVIOUS
<1> HIDE DEF I, t
<1> QED
  BY <1>3, <1>4, <1>5, <1>6, <1>7, <1>8

\* The sequences of a sorted tuple increase.
InSequence(items) ==
  \A m, n \in 1..Len(items) : m < n => items[m].sequence < items[n].sequence

\* A scenario that is constructed has its schema, and its sequences increase.
LEMMA ConstructedScenario ==
  ASSUME NEW s, IsScenario(s), ScenarioError(s) = None
  PROVE  /\ IsScenario(SimulationScenario(s))
         /\ InSequence(SimulationScenario(s).market_events)
         /\ InSequence(SimulationScenario(s).order_actions)
         /\ SimulationScenario(s).market_events = SortedBySequence(s.market_events)
         /\ SimulationScenario(s).initial_book = s.initial_book
<1> DEFINE t == SimulationScenario(s)
           E == s.market_events
           A == s.order_actions
<1>1. UniqueSequences(E) /\ UniqueSequences(A)
  <2>1. None # "initial_book_invalid" /\ None # "sequence_duplicate"
    BY NoneDiffers DEF Reasons
  <2> QED
    BY <2>1 DEF ScenarioError
<1>2. /\ IsSequence(E) /\ \A i \in DOMAIN E : IsMarketEvent(E[i])
      /\ IsSequence(A) /\ \A i \in DOMAIN A : IsOrderAction(A[i])
  BY DEF IsScenario
<1>3. /\ t.market_events = SortedBySequence(E) /\ t.order_actions = SortedBySequence(A)
      /\ t.initial_book = s.initial_book /\ t.configuration = s.configuration
      /\ DOMAIN t = DOMAIN s
  BY DEF SimulationScenario, IsScenario
<1> HIDE DEF t
<1>4. (\A i \in DOMAIN E : E[i].sequence \in Int) /\ \A i \in DOMAIN A : A[i].sequence \in Int
  BY <1>2 DEF IsMarketEvent, IsOrderAction
<1>5. /\ IsSequence(t.market_events) /\ Len(t.market_events) = Len(E)
      /\ \A n \in 1..Len(E) : \E i \in 1..Len(E) : t.market_events[n] = E[i]
      /\ InSequence(t.market_events)
  <2>1. IsSequence(E) /\ (\A i \in DOMAIN E : E[i].sequence \in Int) /\ UniqueSequences(E)
    BY <1>1, <1>2, <1>4
  <2> HIDE DEF E
  <2> QED
    BY <1>3, <2>1, SortedItems DEF InSequence
<1>6. /\ IsSequence(t.order_actions) /\ Len(t.order_actions) = Len(A)
      /\ \A n \in 1..Len(A) : \E i \in 1..Len(A) : t.order_actions[n] = A[i]
      /\ InSequence(t.order_actions)
  <2>1. IsSequence(A) /\ (\A i \in DOMAIN A : A[i].sequence \in Int) /\ UniqueSequences(A)
    BY <1>1, <1>2, <1>4
  <2> HIDE DEF A
  <2> QED
    BY <1>3, <2>1, SortedItems DEF InSequence
<1>7. \A n \in DOMAIN t.market_events : IsMarketEvent(t.market_events[n])
  BY <1>2, <1>5 DEF IsSequence
<1>8. \A n \in DOMAIN t.order_actions : IsOrderAction(t.order_actions[n])
  BY <1>2, <1>6 DEF IsSequence
<1>9. IsScenario(t)
  BY <1>3, <1>5, <1>6, <1>7, <1>8 DEF IsScenario
<1> QED
  BY <1>3, <1>5, <1>6, <1>9 DEF t

-----------------------------------------------------------------------------
(* Books stay books                                                        *)

\* One side of a book by price: finitely many prices, no negative quantity.
IsSideByPrice(side) ==
  /\ DOMAIN side \in SUBSET Int /\ IsFiniteSet(DOMAIN side)
  /\ \A p \in DOMAIN side : side[p] \in Nat

\* Both sides of a book.
IsSides(sides) ==
  /\ DOMAIN sides = {"BUY", "SELL"}
  /\ IsSideByPrice(sides["BUY"]) /\ IsSideByPrice(sides["SELL"])

\* The levels of a book by price.
LEMMA LevelsByPriceType ==
  ASSUME NEW levels \in Seq(BookLevels)
  PROVE  IsSideByPrice(LevelsByPrice(levels))
<1> DEFINE P == {levels[i].price : i \in DOMAIN levels}
           f == [i \in 1..Len(levels) |-> levels[i].price]
           g == [p \in P |-> levels[CHOOSE i \in DOMAIN levels : levels[i].price = p].quantity]
<1>1. Len(levels) \in Nat /\ DOMAIN levels = 1..Len(levels)
  OBVIOUS
<1>2. \A i \in DOMAIN levels : levels[i].price \in Int /\ levels[i].quantity \in Nat
  <2>1. \A i \in DOMAIN levels : levels[i] \in BookLevels
    OBVIOUS
  <2> QED
    BY <2>1 DEF BookLevels
<1>3. P \in SUBSET Int
  BY <1>2
<1>4. IsFiniteSet(P)
  <2>1. f \in [1..Len(levels) -> P]
    BY <1>1
  <2>2. \A p \in P : \E i \in 1..Len(levels) : f[i] = p
    BY <1>1
  <2> HIDE DEF f, P
  <2>3. f \in Surjection(1..Len(levels), P)
    BY <2>1, <2>2 DEF Surjection
  <2>4. IsFiniteSet(1..Len(levels))
    BY <1>1, FS_Interval
  <2> QED
    BY <2>3, <2>4, FS_Surjection
<1>5. \A p \in P : g[p] \in Nat
  BY <1>2
<1>6. LevelsByPrice(levels) = g
  BY DEF LevelsByPrice
<1> HIDE DEF P
<1>7. DOMAIN g = P
  OBVIOUS
<1> HIDE DEF g
<1> QED
  BY <1>3, <1>4, <1>5, <1>6, <1>7 DEF IsSideByPrice

\* One change.
LEMMA ChangeKeepsSides ==
  ASSUME NEW sides, IsSides(sides), NEW change, IsChange(change)
  PROVE  IsSides(ApplyChange(sides, change))
<1> DEFINE target == sides[change.side]
           less == Restrict(target, DOMAIN target \ {change.price})
           more == [p \in DOMAIN target \cup {change.price} |->
                      IF p = change.price THEN change.quantity ELSE target[p]]
           new == IF change.action = "delete" \/ change.quantity = 0 THEN less ELSE more
<1>1. change.side \in {"BUY", "SELL"} /\ change.price \in Int /\ change.quantity \in Nat
  BY DEF IsChange
<1>2. IsSideByPrice(target)
  BY <1>1 DEF IsSides
<1>3. IsSideByPrice(less)
  <2>1. DOMAIN less = DOMAIN target \ {change.price} /\ \A p \in DOMAIN less : less[p] = target[p]
    BY DEF Restrict
  <2>2. IsFiniteSet(DOMAIN target \ {change.price})
    BY <1>2, FS_RemoveElement DEF IsSideByPrice
  <2> HIDE DEF less, target
  <2> QED
    BY <1>2, <2>1, <2>2 DEF IsSideByPrice
<1>4. IsSideByPrice(more)
  <2>1. /\ DOMAIN more = DOMAIN target \cup {change.price}
        /\ \A p \in DOMAIN more : more[p] = IF p = change.price THEN change.quantity ELSE target[p]
    OBVIOUS
  <2>2. IsFiniteSet(DOMAIN target \cup {change.price})
    BY <1>2, FS_AddElement DEF IsSideByPrice
  <2> HIDE DEF more, target
  <2> QED
    BY <1>1, <1>2, <2>1, <2>2 DEF IsSideByPrice
<1>5. IsSideByPrice(new)
  BY <1>3, <1>4
<1>6. ApplyChange(sides, change) = [sides EXCEPT ![change.side] = new]
  BY DEF ApplyChange
<1> HIDE DEF new, target
<1> QED
  BY <1>1, <1>5, <1>6 DEF IsSides

\* All the changes of a delta.
LEMMA ChangesKeepSides ==
  ASSUME NEW book, IsBook(book), NEW changes, IsSequence(changes),
         \A i \in DOMAIN changes : IsChange(changes[i])
  PROVE  IsSides(ChangedSides(book, changes)[Len(changes)])
<1> DEFINE w == ChangedSides(book, changes)
           m == Len(changes)
<1>1. m \in Nat /\ DOMAIN changes = 1..m
  BY DEF IsSequence
<1>2. /\ w[0] = [BUY |-> LevelsByPrice(book.bids), SELL |-> LevelsByPrice(book.asks)]
      /\ \A n \in 1..m : w[n] = ApplyChange(w[n - 1], changes[n])
  BY <1>1, ChangedStep
<1>3. IsSides(w[0])
  <2>1. book.bids \in Seq(BookLevels) /\ book.asks \in Seq(BookLevels)
    BY DEF IsBook, Snapshots
  <2>2. IsSideByPrice(LevelsByPrice(book.bids)) /\ IsSideByPrice(LevelsByPrice(book.asks))
    BY <2>1, LevelsByPriceType
  <2> HIDE DEF w
  <2> QED
    BY <1>2, <2>2 DEF IsSides
<1> DEFINE Bad == {n \in 0..m : ~IsSides(w[n])}
<1>4. ASSUME Bad # {} PROVE FALSE
  <2>1. Bad \in SUBSET Nat
    BY <1>1
  <2> HIDE DEF Bad
  <2>2. PICK n \in Bad : \A k \in Bad : n <= k
    BY <1>4, <2>1, LeastNat
  <2> HIDE DEF w
  <2>3. n \in 0..m /\ ~IsSides(w[n]) /\ n # 0
    BY <1>3, <2>2 DEF Bad
  <2>4. n \in 1..m /\ n - 1 \in 0..m /\ n - 1 < n
    BY <1>1, <2>3
  <2>5. n - 1 \notin Bad
    BY <2>1, <2>2, <2>4
  <2>6. IsSides(w[n - 1])
    BY <2>4, <2>5 DEF Bad
  <2>7. IsSides(w[n])
    BY <1>1, <1>2, <2>4, <2>6, ChangeKeepsSides
  <2> QED
    BY <2>3, <2>7
<1> HIDE DEF w
<1>5. m \in 0..m
  BY <1>1
<1> QED
  BY <1>4, <1>5 DEF w

\* The levels made of a side: sorted, whichever way.
LEMMA SortedLevelsType ==
  ASSUME NEW side, IsSideByPrice(side), NEW reverse \in BOOLEAN
  PROVE  /\ SortedLevels(side, reverse) \in Seq(BookLevels)
         /\ \A i, j \in 1..Len(SortedLevels(side, reverse)) : i < j =>
              IF reverse
              THEN SortedLevels(side, reverse)[i].price > SortedLevels(side, reverse)[j].price
              ELSE SortedLevels(side, reverse)[i].price < SortedLevels(side, reverse)[j].price
<1> DEFINE S == DOMAIN side
           k == Cardinality(S)
           a == Ascending(S)
           Turn(i) == IF reverse THEN k + 1 - i ELSE i
           t == [i \in 1..k |-> [price |-> a[Turn(i)], quantity |-> side[a[Turn(i)]]]]
<1>1. /\ S \in SUBSET Int /\ IsFiniteSet(S) /\ \A p \in S : side[p] \in Nat
  BY DEF IsSideByPrice
<1>2. k \in Nat /\ a \in [1..k -> S] /\ \A m, n \in 1..k : m < n => a[m] < a[n]
  <2> HIDE DEF S
  <2> QED
    BY <1>1, AscendingOrder
<1>3. SortedLevels(side, reverse) = t
  <2>1. DOMAIN a = 1..k
    BY <1>2
  <2> QED
    BY <2>1 DEF SortedLevels
<1> HIDE DEF a, k
<1>4. \A i \in 1..k : Turn(i) \in 1..k
  BY <1>2
<1>5. \A i \in 1..k : a[Turn(i)] \in S
  <2> HIDE DEF Turn
  <2> QED
    BY <1>2, <1>4
<1>6. \A i \in 1..k : t[i] \in BookLevels /\ t[i].price = a[Turn(i)]
  <2> HIDE DEF Turn, S
  <2> QED
    BY <1>1, <1>5 DEF BookLevels
<1>7. t \in Seq(BookLevels) /\ Len(t) = k
  <2>1. Len(t) = k /\ DOMAIN t = 1..k
    BY <1>2
  <2>2. t \in [1..k -> BookLevels]
    <3> HIDE DEF Turn
    <3> QED
      BY <1>6
  <2> HIDE DEF t
  <2> QED
    BY <1>2, <2>1, <2>2
<1>8. ASSUME NEW i \in 1..k, NEW j \in 1..k, i < j
      PROVE  IF reverse THEN t[i].price > t[j].price ELSE t[i].price < t[j].price
  <2>1. t[i].price = a[Turn(i)] /\ t[j].price = a[Turn(j)]
    BY <1>6
  <2>2. Turn(i) \in 1..k /\ Turn(j) \in 1..k
    BY <1>4
  <2>3. IF reverse THEN Turn(j) < Turn(i) ELSE Turn(i) < Turn(j)
    BY <1>2, <1>8
  <2>4. a[Turn(i)] \in Int /\ a[Turn(j)] \in Int
    BY <1>1, <1>5
  <2> HIDE DEF Turn, t
  <2>5. reverse => a[Turn(j)] < a[Turn(i)]
    BY <1>2, <2>2, <2>3
  <2>6. ~reverse => a[Turn(i)] < a[Turn(j)]
    BY <1>2, <2>2, <2>3
  <2> QED
    BY <2>1, <2>4, <2>5, <2>6
<1> HIDE DEF t
<1> QED
  BY <1>3, <1>7, <1>8

\* A delta makes a book of a book.
LEMMA DeltaKeepsBook ==
  ASSUME NEW book, IsBook(book), NEW delta, delta.sequence \in Int \cup {None},
         IsSequence(delta.changes), \A i \in DOMAIN delta.changes : IsChange(delta.changes[i])
  PROVE  IsBook(apply_order_book_delta(book, delta))
<1> DEFINE sides == ChangedSides(book, delta.changes)[Len(delta.changes)]
           b == SortedLevels(sides.BUY, TRUE)
           a == SortedLevels(sides.SELL, FALSE)
           n == IF delta.sequence # None THEN delta.sequence ELSE book.sequence
<1>1. IsSideByPrice(sides.BUY) /\ IsSideByPrice(sides.SELL)
  BY ChangesKeepSides DEF IsSides
<1>2. apply_order_book_delta(book, delta)
        = [contract |-> book.contract, sequence |-> n, bids |-> b, asks |-> a]
  BY DEF apply_order_book_delta, SortedBids, SortedAsks
<1> HIDE DEF sides
<1>3. /\ b \in Seq(BookLevels) /\ a \in Seq(BookLevels)
      /\ \A i, j \in 1..Len(b) : i < j => b[i].price > b[j].price
      /\ \A i, j \in 1..Len(a) : i < j => a[i].price < a[j].price
  BY <1>1, SortedLevelsType
<1>4. book.contract \in STRING /\ n \in Int \cup {None}
  BY DEF IsBook, Snapshots
<1> HIDE DEF a, b, n
<1>5. StrictlySorted(b, a)
  <2>1. Len(a) \in Nat /\ Len(b) \in Nat
    BY <1>3
  <2>2. /\ \A i \in 1..(Len(b) - 1) : i \in 1..Len(b) /\ i + 1 \in 1..Len(b) /\ i < i + 1
        /\ \A i \in 1..(Len(a) - 1) : i \in 1..Len(a) /\ i + 1 \in 1..Len(a) /\ i < i + 1
    BY <2>1
  <2> QED
    BY <1>3, <2>2 DEF StrictlySorted
<1> QED
  BY <1>2, <1>3, <1>4, <1>5 DEF IsBook, Snapshots

-----------------------------------------------------------------------------
(* Projections                                                             *)

\* What a projection holds after any number of events.
IsProjected(p) ==
  /\ DOMAIN p = {"book", "is_valid", "seen", "raised"}
  /\ IsBook(p.book) /\ p.is_valid \in BOOLEAN
  /\ p.raised \in {None, "book_invalid", "book_gap"}

\* One event.
LEMMA EventKeepsProjected ==
  ASSUME NEW p, IsProjected(p), NEW event, IsMarketEvent(event)
  PROVE  IsProjected(ApplyEvent(p, event))
<1> DEFINE q == event.payload
           new == ApplyEvent(p, event)
<1>1. IsPayload(q)
  BY DEF IsMarketEvent
<1>2. CASE p.raised # None \/ q \in p.seen
  BY <1>2 DEF ApplyEvent
<1>3. CASE ~(p.raised # None \/ q \in p.seen) /\ q.type = "snapshot"
  <2>1. new = [p EXCEPT !.seen = @ \cup {q}, !.book = q.book, !.is_valid = q.is_valid]
    BY <1>3 DEF ApplyEvent
  <2>2. IsBook(q.book) /\ q.is_valid \in BOOLEAN
    BY <1>1, <1>3 DEF IsPayload
  <2>3. /\ DOMAIN new = {"book", "is_valid", "seen", "raised"} /\ new.book = q.book
        /\ new.is_valid = q.is_valid /\ new.raised = p.raised
    BY <2>1 DEF IsProjected
  <2> QED
    BY <2>2, <2>3 DEF IsProjected
<1>4. CASE ~(p.raised # None \/ q \in p.seen) /\ q.type = "trade"
  <2>1. new = [p EXCEPT !.seen = @ \cup {q}]
    BY <1>4 DEF ApplyEvent
  <2>3. /\ DOMAIN new = {"book", "is_valid", "seen", "raised"} /\ new.book = p.book
        /\ new.is_valid = p.is_valid /\ new.raised = p.raised
    BY <2>1 DEF IsProjected
  <2> QED
    BY <2>3 DEF IsProjected
<1>5. CASE ~(p.raised # None \/ q \in p.seen) /\ q.type = "delta"
  <2> DEFINE e == DeltaError(p, q.delta)
             b == apply_order_book_delta(p.book, q.delta)
  <2>1. new = IF e # None THEN [p EXCEPT !.raised = e]
              ELSE [p EXCEPT !.seen = @ \cup {q}, !.book = b]
    BY <1>5 DEF ApplyEvent, IsProjected
  <2>2. e \in {None, "book_invalid", "book_gap"}
    BY DEF DeltaError
  <2>3. IsBook(b)
    <3>1. /\ q.delta.sequence \in Int \cup {None} /\ IsSequence(q.delta.changes)
          /\ \A i \in DOMAIN q.delta.changes : IsChange(q.delta.changes[i])
      BY <1>1, <1>5 DEF IsPayload
    <3>2. IsBook(p.book)
      BY DEF IsProjected
    <3> QED
      BY <3>1, <3>2, DeltaKeepsBook
  <2> HIDE DEF e, b
  <2>4. /\ DOMAIN new = {"book", "is_valid", "seen", "raised"} /\ new.book \in {p.book, b}
        /\ new.is_valid = p.is_valid /\ new.raised \in {p.raised, e}
    BY <2>1 DEF IsProjected
  <2> QED
    BY <2>2, <2>3, <2>4 DEF IsProjected
<1>6. q.type \in {"snapshot", "trade", "delta"}
  BY <1>1 DEF IsPayload
<1> QED
  BY <1>2, <1>3, <1>4, <1>5, <1>6

\* The projection to any time.
LEMMA ProjectionType ==
  ASSUME NEW s, IsScenario(s), NEW through
  PROVE  \A n \in 0..Len(s.market_events) : IsProjected(ProjectionWalk(s, through)[n])
<1> DEFINE w == ProjectionWalk(s, through)
           m == Len(s.market_events)
           Bad == {n \in 0..m : ~IsProjected(w[n])}
<1>1. /\ m \in Nat /\ DOMAIN s.market_events = 1..m /\ IsBook(s.initial_book)
      /\ \A i \in 1..m : IsMarketEvent(s.market_events[i])
  BY DEF IsScenario, IsSequence
<1>2. /\ w[0] = [book |-> s.initial_book, is_valid |-> TRUE, seen |-> {}, raised |-> None]
      /\ \A n \in 1..m :
           w[n] = IF through # None /\ s.market_events[n].scheduled_at > through THEN w[n - 1]
                  ELSE ApplyEvent(w[n - 1], s.market_events[n])
  BY <1>1, ProjectionStep
<1> HIDE DEF w, m
<1>3. IsProjected(w[0])
  BY <1>1, <1>2 DEF IsProjected
<1>4. ASSUME Bad # {} PROVE FALSE
  <2>1. Bad \in SUBSET Nat
    BY <1>1
  <2> HIDE DEF Bad
  <2>2. PICK n \in Bad : \A k \in Bad : n <= k
    BY <1>4, <2>1, LeastNat
  <2>3. n \in 0..m /\ ~IsProjected(w[n]) /\ n # 0
    BY <1>3, <2>2 DEF Bad
  <2>4. n \in 1..m /\ n - 1 \in 0..m /\ n - 1 < n
    BY <1>1, <2>3
  <2>5. n - 1 \notin Bad
    BY <2>1, <2>2, <2>4
  <2>6. IsProjected(w[n - 1])
    BY <2>4, <2>5 DEF Bad
  <2>7. IsProjected(w[n])
    BY <1>1, <1>2, <2>4, <2>6, EventKeepsProjected
  <2> QED
    BY <2>3, <2>7
<1> QED
  BY <1>4 DEF w, m

\* So a projection holds a book, whatever time it goes up to.
LEMMA ProjectedBook ==
  ASSUME NEW s, IsScenario(s), NEW through
  PROVE  IsProjected(ProjectBookUntil(s, through))
<1>1. Len(s.market_events) \in 0..Len(s.market_events)
  BY DEF IsScenario, IsSequence
<1> QED
  BY <1>1, ProjectionType DEF ProjectBookUntil

-----------------------------------------------------------------------------
(* What components add up to                                               *)

\* A total is a sum of SumProofs.
LEMMA TotalIsSum ==
  ASSUME NEW numbers
  PROVE  Total(numbers) = SumOver(numbers, DOMAIN numbers)
BY DEF Total, SumOver

\* Appending to a sequence.
LEMMA Appended ==
  ASSUME NEW S, NEW c \in Seq(S), NEW x \in S
  PROVE  /\ Append(c, x) \in Seq(S) /\ Len(c) \in Nat
         /\ Len(Append(c, x)) = Len(c) + 1 /\ Append(c, x) # <<>>
         /\ DOMAIN c = 1..Len(c) /\ DOMAIN Append(c, x) = 1..(Len(c) + 1)
         /\ \A i \in 1..Len(c) : Append(c, x)[i] = c[i]
         /\ Append(c, x)[Len(c) + 1] = x
OBVIOUS

\* What one unit at a price costs the side that trades it.
UnitCost(side, price) == IF side = "BUY" THEN price ELSE One - price

\* What fills cost their side, as the balance counts it.
Cost(side, parts) ==
  Total([i \in DOMAIN parts |->
           parts[i].quantity * (IF side = "BUY" THEN parts[i].price ELSE One - parts[i].price)])

\* The cost grows by that of the component appended.
LEMMA CostAppended ==
  ASSUME NEW side, NEW c \in Seq(FillComponents), NEW x \in FillComponents
  PROVE  /\ Cost(side, c) \in Int
         /\ Cost(side, Append(c, x)) = Cost(side, c) + x.quantity * UnitCost(side, x.price)
<1> DEFINE n == Len(c)
           d == Append(c, x)
           F == [i \in 1..n |-> c[i].quantity * UnitCost(side, c[i].price)]
           G == [i \in 1..(n + 1) |-> d[i].quantity * UnitCost(side, d[i].price)]
<1>1. /\ d \in Seq(FillComponents) /\ n \in Nat /\ DOMAIN c = 1..n /\ DOMAIN d = 1..(n + 1)
      /\ \A i \in 1..n : d[i] = c[i]
      /\ d[n + 1] = x
  BY Appended
<1>2. Cost(side, c) = SumOver(F, 1..n)
  <2>1. Cost(side, c) = Total(F)
    BY <1>1 DEF Cost, UnitCost
  <2>2. DOMAIN F = 1..n
    OBVIOUS
  <2> HIDE DEF F
  <2> QED
    BY <2>1, <2>2, TotalIsSum
<1>3. Cost(side, d) = SumOver(G, 1..(n + 1))
  <2>1. Cost(side, d) = Total(G)
    BY <1>1 DEF Cost, UnitCost
  <2>2. DOMAIN G = 1..(n + 1)
    OBVIOUS
  <2> HIDE DEF G
  <2> QED
    BY <2>1, <2>2, TotalIsSum
<1>4. \A i \in 1..(n + 1) : G[i] \in Int
  <2> TAKE i \in 1..(n + 1)
  <2>1. d[i] \in FillComponents
    BY <1>1
  <2>2. d[i].quantity \in Int /\ d[i].price \in Int
    BY <2>1 DEF FillComponents
  <2>3. UnitCost(side, d[i].price) \in Int
    BY <2>2 DEF UnitCost, One
  <2> QED
    BY <2>2, <2>3
<1>5. IsFiniteSet(1..n)
  BY <1>1, FS_Interval
<1>6. \A i \in 1..n : F[i] = G[i]
  BY <1>1
<1>7. G[n + 1] = x.quantity * UnitCost(side, x.price)
  BY <1>1
<1>8. 1..(n + 1) = (1..n) \cup {n + 1} /\ n + 1 \notin 1..n
  BY <1>1
<1> HIDE DEF F, G, d, n
<1>9. SumOver(F, 1..n) = SumOver(G, 1..n)
  BY <1>5, <1>6, SumEqual
<1>10. SumOver(G, (1..n) \cup {n + 1}) = G[n + 1] + SumOver(G, 1..n)
  BY <1>4, <1>5, <1>8, SumAdd
<1>11. SumOver(G, 1..n) \in Int
  <2>1. \A i \in 1..n : G[i] \in Int
    BY <1>4, <1>8
  <2> QED
    BY <1>5, <2>1, SumType
<1>12. G[n + 1] \in Int
  BY <1>4, <1>8
<1>13. Cost(side, d) = G[n + 1] + SumOver(G, 1..n)
  BY <1>3, <1>8, <1>10
<1>14. Cost(side, c) \in Int /\ Cost(side, d) = Cost(side, c) + G[n + 1]
  BY <1>2, <1>9, <1>11, <1>12, <1>13
<1> QED
  BY <1>7, <1>14 DEF d

\* Nothing costs nothing.
LEMMA CostOfNothing == ASSUME NEW side PROVE Cost(side, <<>>) = 0
<1> DEFINE c == <<>>
           F == [i \in DOMAIN c |->
                   c[i].quantity * (IF side = "BUY" THEN c[i].price ELSE One - c[i].price)]
<1>1. DOMAIN F = {}
  OBVIOUS
<1>2. Cost(side, <<>>) = Total(F)
  BY DEF Cost
<1> HIDE DEF F
<1>3. Total(F) = SumOver(F, {})
  BY <1>1, TotalIsSum
<1> QED
  BY <1>2, <1>3, FS_EmptySet, SumStep

\* A quantity bought or sold within a limit costs no more than at the limit.
LEMMA CostWithinLimit ==
  ASSUME NEW cost \in Int, NEW q \in Nat, NEW taken \in Int, NEW unit \in Int, NEW limit \in Int,
         unit <= limit, cost <= limit * taken
  PROVE  cost + q * unit <= limit * (taken + q)
<1>1. q * unit <= q * limit
  <2>1. q * (limit - unit) \in Nat
    <3>1. limit - unit \in Nat
      OBVIOUS
    <3> QED
      BY <3>1
  <2>2. q * (limit - unit) = q * limit - q * unit
    OBVIOUS
  <2>3. q * limit \in Int /\ q * unit \in Int
    OBVIOUS
  <2> QED
    BY <2>1, <2>2, <2>3
<1>2. limit * (taken + q) = limit * taken + q * limit
  OBVIOUS
<1>3. q * unit \in Int /\ q * limit \in Int /\ limit * taken \in Int
  OBVIOUS
<1> QED
  BY <1>1, <1>2, <1>3

-----------------------------------------------------------------------------
(* The walk along a side of the book                                       *)

\* Adjacent levels in order are levels in order.
LEMMA SidesInOrder ==
  ASSUME NEW book, IsBook(book)
  PROVE  /\ \A i, j \in 1..Len(book.bids) : i < j => book.bids[i].price > book.bids[j].price
         /\ \A i, j \in 1..Len(book.asks) : i < j => book.asks[i].price < book.asks[j].price
<1> DEFINE b == book.bids
           a == book.asks
           Fine(n) == /\ n <= Len(b) => \A i \in 1..(n - 1) : b[i].price > b[n].price
                      /\ n <= Len(a) => \A i \in 1..(n - 1) : a[i].price < a[n].price
           Bad == {n \in Nat : ~Fine(n)}
<1>1. b \in Seq(BookLevels) /\ a \in Seq(BookLevels) /\ StrictlySorted(b, a)
  BY DEF IsBook, Snapshots
<1>2. /\ \A i \in 1..Len(b) : b[i].price \in Int
      /\ \A i \in 1..Len(a) : a[i].price \in Int
  <2>1. /\ \A i \in 1..Len(b) : b[i] \in BookLevels
        /\ \A i \in 1..Len(a) : a[i] \in BookLevels
    BY <1>1
  <2> QED
    BY <2>1 DEF BookLevels
<1>3. Len(a) \in Nat /\ Len(b) \in Nat
  BY <1>1
<1>4. /\ \A i \in 1..(Len(b) - 1) : b[i].price > b[i + 1].price
      /\ \A i \in 1..(Len(a) - 1) : a[i].price < a[i + 1].price
  BY <1>1 DEF StrictlySorted
<1> HIDE DEF a, b
<1>5. Bad = {}
  <2> SUFFICES ASSUME Bad # {} PROVE FALSE
    OBVIOUS
  <2>1. Bad \in SUBSET Nat
    OBVIOUS
  <2> HIDE DEF Bad
  <2>2. PICK n \in Bad : \A k \in Bad : n <= k
    BY <2>1, LeastNat
  <2>3. n \in Nat /\ ~Fine(n)
    BY <2>2 DEF Bad
  <2>4. n > 1
    BY <2>3
  <2>5. n - 1 \in Nat /\ n - 1 < n
    BY <2>3, <2>4
  <2>6. Fine(n - 1)
    <3>1. n - 1 \notin Bad
      BY <2>1, <2>2, <2>3, <2>5
    <3> HIDE DEF Fine
    <3> QED
      BY <2>5, <3>1 DEF Bad
  <2>7. n <= Len(b) => \A i \in 1..(n - 1) : b[i].price > b[n].price
    <3> SUFFICES ASSUME n <= Len(b), NEW i \in 1..(n - 1) PROVE b[i].price > b[n].price
      OBVIOUS
    <3>1. n - 1 \in 1..(Len(b) - 1) /\ (n - 1) + 1 = n /\ n \in 1..Len(b) /\ n - 1 \in 1..Len(b)
      BY <1>3, <2>3, <2>4
    <3>2. b[n - 1].price > b[n].price
      BY <1>4, <3>1
    <3>3. CASE i = n - 1
      BY <3>2, <3>3
    <3>4. CASE i # n - 1
      <4>1. i \in 1..((n - 1) - 1) /\ i \in 1..Len(b)
        BY <1>3, <2>3, <3>1, <3>4
      <4>2. b[i].price > b[n - 1].price
        BY <1>3, <2>6, <3>1, <4>1
      <4>3. b[i].price \in Int /\ b[n].price \in Int /\ b[n - 1].price \in Int
        BY <1>2, <3>1, <4>1
      <4> QED
        BY <3>2, <4>2, <4>3
    <3> QED
      BY <3>3, <3>4
  <2>8. n <= Len(a) => \A i \in 1..(n - 1) : a[i].price < a[n].price
    <3> SUFFICES ASSUME n <= Len(a), NEW i \in 1..(n - 1) PROVE a[i].price < a[n].price
      OBVIOUS
    <3>1. n - 1 \in 1..(Len(a) - 1) /\ (n - 1) + 1 = n /\ n \in 1..Len(a) /\ n - 1 \in 1..Len(a)
      BY <1>3, <2>3, <2>4
    <3>2. a[n - 1].price < a[n].price
      BY <1>4, <3>1
    <3>3. CASE i = n - 1
      BY <3>2, <3>3
    <3>4. CASE i # n - 1
      <4>1. i \in 1..((n - 1) - 1) /\ i \in 1..Len(a)
        BY <1>3, <2>3, <3>1, <3>4
      <4>2. a[i].price < a[n - 1].price
        BY <1>3, <2>6, <3>1, <4>1
      <4>3. a[i].price \in Int /\ a[n].price \in Int /\ a[n - 1].price \in Int
        BY <1>2, <3>1, <4>1
      <4> QED
        BY <3>2, <4>2, <4>3
    <3> QED
      BY <3>3, <3>4
  <2> QED
    BY <2>3, <2>7, <2>8
<1>6. \A n \in Nat : Fine(n)
  BY <1>5
<1>7. ASSUME NEW i \in 1..Len(b), NEW j \in 1..Len(b), i < j PROVE b[i].price > b[j].price
  BY <1>3, <1>6, <1>7
<1>8. ASSUME NEW i \in 1..Len(a), NEW j \in 1..Len(a), i < j PROVE a[i].price < a[j].price
  BY <1>3, <1>6, <1>8
<1> QED
  BY <1>7, <1>8 DEF a, b

\* An order the exchange accepted.
IsAccepted(intent) ==
  /\ intent.side \in {"BUY", "SELL"} /\ intent.limit_price \in 0..One
  /\ intent.quantity \in Nat /\ intent.quantity > 0

\* What the fields of such an order are.
LEMMA AcceptedType ==
  ASSUME NEW intent, IsAccepted(intent)
  PROVE  /\ intent.quantity \in Nat /\ intent.quantity > 0
         /\ intent.side \in {"BUY", "SELL"} /\ intent.limit_price \in Int
         /\ UnitCost(intent.side, intent.limit_price) \in Nat
<1>1. intent.limit_price \in Int /\ 0 <= intent.limit_price /\ intent.limit_price <= 100
  BY DEF IsAccepted, One
<1>2. 100 - intent.limit_price \in Nat /\ intent.limit_price \in Nat
  BY <1>1
<1>3. UnitCost(intent.side, intent.limit_price) \in Nat
  BY <1>2 DEF UnitCost, One
<1> QED
  BY <1>1, <1>3 DEF IsAccepted

\* The levels among the first n that an order may execute against, and what they show.
Reached(levels, intent, touch, n) ==
  {i \in 1..n : IsExecutable(intent.side, intent.limit_price, levels[i].price, touch)}

\* The quantity those levels show.
Depth(levels, intent, touch, n) ==
  SumOver([i \in 1..Len(levels) |-> levels[i].quantity], Reached(levels, intent, touch, n))

\* What the walk holds after n levels.
WalkOK(levels, intent, touch, n) ==
  LET w == BookWalk(levels, intent, touch)[n]
  IN  /\ DOMAIN w = {"remaining", "components", "stopped"} /\ w.stopped \in BOOLEAN
      /\ w.remaining \in Nat /\ w.components \in Seq(FillComponents)
      /\ w.remaining = intent.quantity - Least(intent.quantity, Depth(levels, intent, touch, n))
      /\ w.components = <<>> <=> w.remaining = intent.quantity
      /\ w.stopped => \/ w.remaining = 0
                      \/ \A j \in 1..Len(levels) : j >= n =>
                           ~IsExecutable(intent.side, intent.limit_price, levels[j].price, touch)
      /\ Cost(intent.side, w.components)
           <= UnitCost(intent.side, intent.limit_price) * (intent.quantity - w.remaining)

\* The depth grows by the level reached.
LEMMA DepthStep ==
  ASSUME NEW levels \in Seq(BookLevels), NEW intent, NEW touch, NEW n \in 1..Len(levels)
  PROVE  /\ Depth(levels, intent, touch, 0) = 0
         /\ Depth(levels, intent, touch, n - 1) \in Nat
         /\ levels[n].quantity \in Nat
         /\ Depth(levels, intent, touch, n) =
              IF IsExecutable(intent.side, intent.limit_price, levels[n].price, touch)
              THEN levels[n].quantity + Depth(levels, intent, touch, n - 1)
              ELSE Depth(levels, intent, touch, n - 1)
<1> DEFINE m == Len(levels)
           F == [i \in 1..m |-> levels[i].quantity]
           R(k) == Reached(levels, intent, touch, k)
           ex == IsExecutable(intent.side, intent.limit_price, levels[n].price, touch)
<1>1. m \in Nat /\ \A i \in 1..m : F[i] \in Nat
  <2>1. \A i \in 1..m : levels[i] \in BookLevels
    OBVIOUS
  <2> QED
    BY <2>1 DEF BookLevels
<1>2. R(0) = {} /\ R(n - 1) \in SUBSET (1..m) /\ n \notin R(n - 1)
  BY <1>1 DEF Reached
<1>3. R(n) = IF ex THEN R(n - 1) \cup {n} ELSE R(n - 1)
  <2>1. 1..n = (1..(n - 1)) \cup {n}
    BY <1>1
  <2> QED
    BY <2>1 DEF Reached
<1>4. \A k : Depth(levels, intent, touch, k) = SumOver(F, R(k))
  BY DEF Depth
<1>5. F[n] = levels[n].quantity
  OBVIOUS
<1> HIDE DEF F, R, ex
<1>6. IsFiniteSet(R(n - 1))
  <2>1. IsFiniteSet(1..m)
    BY <1>1, FS_Interval
  <2> QED
    BY <1>2, <2>1, FS_Subset
<1>7. SumOver(F, R(0)) = 0
  BY <1>2, FS_EmptySet, SumStep
<1>8. SumOver(F, R(n - 1)) \in Nat
  <2>1. \A i \in R(n - 1) : F[i] \in Nat
    BY <1>1, <1>2
  <2> QED
    BY <1>6, <2>1, SumType
<1>9. SumOver(F, R(n - 1) \cup {n}) = F[n] + SumOver(F, R(n - 1))
  <2>1. \A i \in R(n - 1) \cup {n} : F[i] \in Int
    BY <1>1, <1>2
  <2> QED
    BY <1>2, <1>6, <2>1, SumAdd
<1>10. SumOver(F, R(n)) = IF ex THEN F[n] + SumOver(F, R(n - 1)) ELSE SumOver(F, R(n - 1))
  BY <1>3, <1>9
<1> QED
  BY <1>1, <1>4, <1>5, <1>7, <1>8, <1>10 DEF ex

\* A level an order may execute against is within its limit.
LEMMA ExecutableWithinLimit ==
  ASSUME NEW intent, IsAccepted(intent), NEW price \in Int, NEW touch,
         IsExecutable(intent.side, intent.limit_price, price, touch)
  PROVE  /\ UnitCost(intent.side, price) \in Int
         /\ UnitCost(intent.side, intent.limit_price) \in Nat
         /\ UnitCost(intent.side, price) <= UnitCost(intent.side, intent.limit_price)
BY DEF IsExecutable, IsAccepted, UnitCost, One

\* One level of the walk.
LEMMA WalkStep ==
  ASSUME NEW levels \in Seq(BookLevels), NEW intent, IsAccepted(intent), NEW touch \in BOOLEAN,
         \A i, j \in 1..Len(levels) :
           i < j /\ IsExecutable(intent.side, intent.limit_price, levels[j].price, touch) =>
             IsExecutable(intent.side, intent.limit_price, levels[i].price, touch),
         NEW n \in 1..Len(levels), WalkOK(levels, intent, touch, n - 1)
  PROVE  WalkOK(levels, intent, touch, n)
<1> DEFINE m == Len(levels)
           v == BookWalk(levels, intent, touch)[n - 1]
           w == BookWalk(levels, intent, touch)[n]
           Q == intent.quantity
           L == UnitCost(intent.side, intent.limit_price)
           D(k) == Depth(levels, intent, touch, k)
           ex(i) == IsExecutable(intent.side, intent.limit_price, levels[i].price, touch)
           q == Least(v.remaining, levels[n].quantity)
           part == Component(levels[n].price, q, "TAKER")
<1>1. m \in Nat /\ levels[n].price \in Int /\ levels[n].quantity \in Nat
  <2>1. levels[n] \in BookLevels
    OBVIOUS
  <2> QED
    BY <2>1 DEF BookLevels
<1>2. w = TakeLevel(intent, touch, v, levels[n])
  BY <1>1, BookWalkStep
<1>3. /\ D(n - 1) \in Nat
      /\ D(n) = IF ex(n) THEN levels[n].quantity + D(n - 1) ELSE D(n - 1)
  BY DepthStep
<1>4. /\ DOMAIN v = {"remaining", "components", "stopped"} /\ v.stopped \in BOOLEAN
      /\ v.remaining \in Nat /\ v.components \in Seq(FillComponents)
      /\ v.remaining = Q - Least(Q, D(n - 1))
      /\ v.components = <<>> <=> v.remaining = Q
      /\ v.stopped => (v.remaining = 0 \/ \A j \in 1..m : j >= n - 1 => ~ex(j))
      /\ Cost(intent.side, v.components) <= L * (Q - v.remaining)
  BY DEF WalkOK
<1>5. Q \in Nat /\ Q > 0 /\ L \in Nat
  BY AcceptedType
<1>6. ASSUME NEW j \in 1..m, j >= n, ~ex(n) PROVE ~ex(j)
  BY <1>1, <1>6
<1>7. (\A j \in 1..m : j >= n => ~ex(j)) => ~ex(n)
  BY <1>1
<1>8. ASSUME /\ DOMAIN w = {"remaining", "components", "stopped"} /\ w.stopped \in BOOLEAN
             /\ w.remaining \in Nat /\ w.components \in Seq(FillComponents)
             /\ w.remaining = Q - Least(Q, D(n))
             /\ w.components = <<>> <=> w.remaining = Q
             /\ w.stopped => (w.remaining = 0 \/ \A j \in 1..m : j >= n => ~ex(j))
             /\ Cost(intent.side, w.components) <= L * (Q - w.remaining)
      PROVE  WalkOK(levels, intent, touch, n)
  BY <1>8 DEF WalkOK
<1> HIDE DEF D, ex, v, w, L, m
<1>9. CASE v.stopped \/ v.remaining = 0 \/ ~ex(n)
  <2>1. w = [v EXCEPT !.stopped = TRUE]
    BY <1>2, <1>9 DEF TakeLevel, ex
  <2>2. /\ DOMAIN w = {"remaining", "components", "stopped"} /\ w.stopped = TRUE
        /\ w.remaining = v.remaining /\ w.components = v.components
    BY <1>4, <2>1
  <2>3. w.remaining = 0 \/ \A j \in 1..m : j >= n => ~ex(j)
    BY <1>1, <1>4, <1>6, <1>9, <2>2
  <2>4. w.remaining = Q - Least(Q, D(n))
    <3>1. CASE w.remaining = 0
      <4>1. D(n) \in Nat /\ D(n) >= D(n - 1)
        BY <1>1, <1>3
      <4> QED
        BY <1>3, <1>4, <1>5, <2>2, <3>1, <4>1 DEF Least
    <3>2. CASE w.remaining # 0
      BY <1>3, <1>4, <1>7, <2>2, <2>3, <3>2
    <3> QED
      BY <3>1, <3>2
  <2> QED
    BY <1>4, <1>8, <2>2, <2>3, <2>4
<1>10. CASE ~v.stopped /\ v.remaining # 0 /\ ex(n) /\ q = 0
  <2>1. w = v
    BY <1>2, <1>10 DEF TakeLevel, ex
  <2>2. levels[n].quantity = 0
    BY <1>1, <1>4, <1>10 DEF Least
  <2>3. D(n) = D(n - 1)
    BY <1>3, <1>10, <2>2
  <2> QED
    BY <1>4, <1>8, <1>10, <2>1, <2>3
<1>11. CASE ~v.stopped /\ v.remaining # 0 /\ ex(n) /\ q # 0
  <2>1. w = [v EXCEPT !.remaining = v.remaining - q, !.components = Append(v.components, part)]
    BY <1>2, <1>11 DEF TakeLevel, ex
  <2>2. q \in Nat /\ q > 0 /\ q <= v.remaining /\ q <= levels[n].quantity
    BY <1>1, <1>4, <1>11 DEF Least
  <2>3. part \in FillComponents /\ part.quantity = q /\ part.price = levels[n].price
    <3>1. "TAKER" \in LiquidityRoles
      BY DEF LiquidityRoles
    <3> HIDE DEF q
    <3> QED
      BY <1>1, <2>2, <3>1 DEF Component, FillComponents
  <2>4. /\ DOMAIN w = {"remaining", "components", "stopped"} /\ w.stopped = FALSE
        /\ w.remaining = v.remaining - q /\ w.components = Append(v.components, part)
    <3> HIDE DEF q, part
    <3> QED
      BY <1>4, <1>11, <2>1
  <2>5. w.components \in Seq(FillComponents) /\ w.components # <<>>
    <3> HIDE DEF q, part
    <3> QED
      BY <1>4, <2>3, <2>4, Appended
  <2>6. w.remaining = Q - Least(Q, D(n)) /\ w.remaining \in Nat /\ w.remaining # Q
    <3>1. D(n) = levels[n].quantity + D(n - 1)
      BY <1>3, <1>11
    <3>2. w.remaining = v.remaining - q
      BY <2>4
    <3>3. v.remaining = Q - Least(Q, D(n - 1)) /\ v.remaining > 0
      BY <1>4, <1>11
    <3>4. D(n - 1) < Q /\ v.remaining = Q - D(n - 1)
      BY <1>3, <1>5, <3>3 DEF Least
    <3>5. w.remaining = Q - Least(Q, D(n))
      BY <1>1, <1>3, <1>5, <3>1, <3>2, <3>4 DEF Least
    <3> HIDE DEF q, Q
    <3>6. w.remaining \in Nat
      BY <1>4, <2>2, <3>2
    <3>7. w.remaining < Q
      BY <1>3, <1>4, <1>5, <2>2, <3>2, <3>4
    <3> QED
      BY <1>5, <3>5, <3>6, <3>7
  <2>7. /\ UnitCost(intent.side, levels[n].price) \in Int
        /\ UnitCost(intent.side, levels[n].price) <= L
    BY <1>1, <1>11, ExecutableWithinLimit DEF L, ex
  <2> HIDE DEF q, part
  <2>8. /\ Cost(intent.side, v.components) \in Int
        /\ Cost(intent.side, w.components)
             = Cost(intent.side, v.components) + q * UnitCost(intent.side, levels[n].price)
    BY <1>4, <2>3, <2>4, CostAppended
  <2>9. Cost(intent.side, v.components) + q * UnitCost(intent.side, levels[n].price)
          <= L * ((Q - v.remaining) + q)
    <3>1. Q - v.remaining \in Int /\ L \in Int
      BY <1>4, <1>5
    <3> HIDE DEF Q
    <3> QED
      BY <1>4, <2>2, <2>7, <2>8, <3>1, CostWithinLimit
  <2>10. (Q - v.remaining) + q = Q - w.remaining
    BY <1>4, <1>5, <2>2, <2>4
  <2> QED
    BY <1>8, <2>4, <2>5, <2>6, <2>8, <2>9, <2>10
<1> QED
  BY <1>4, <1>9, <1>10, <1>11

\* The whole walk.
LEMMA WalkTakesDepth ==
  ASSUME NEW levels \in Seq(BookLevels), NEW intent, IsAccepted(intent), NEW touch \in BOOLEAN,
         \A i, j \in 1..Len(levels) :
           i < j /\ IsExecutable(intent.side, intent.limit_price, levels[j].price, touch) =>
             IsExecutable(intent.side, intent.limit_price, levels[i].price, touch)
  PROVE  WalkOK(levels, intent, touch, Len(levels))
<1> DEFINE m == Len(levels)
           Bad == {n \in 0..m : ~WalkOK(levels, intent, touch, n)}
           w == BookWalk(levels, intent, touch)[0]
<1>1. m \in Nat
  OBVIOUS
<1>2. WalkOK(levels, intent, touch, 0)
  <2>1. w = [remaining |-> intent.quantity, components |-> <<>>, stopped |-> FALSE]
    BY <1>1, BookWalkStep
  <2>2. Depth(levels, intent, touch, 0) = 0
    <3> DEFINE F == [i \in 1..m |-> levels[i].quantity]
    <3>1. Reached(levels, intent, touch, 0) = {}
      BY DEF Reached
    <3>2. Depth(levels, intent, touch, 0) = SumOver(F, {})
      BY <3>1 DEF Depth
    <3> HIDE DEF F
    <3> QED
      BY <3>2, FS_EmptySet, SumStep
  <2>3. Cost(intent.side, <<>>) = 0
    BY CostOfNothing
  <2>4. /\ intent.quantity \in Nat /\ intent.quantity > 0
        /\ UnitCost(intent.side, intent.limit_price) \in Nat
    BY AcceptedType
  <2>5. /\ DOMAIN w = {"remaining", "components", "stopped"} /\ w.stopped = FALSE
        /\ w.remaining = intent.quantity /\ w.components = <<>>
    BY <2>1
  <2> HIDE DEF w
  <2>6. intent.quantity - w.remaining = 0
    BY <2>4, <2>5
  <2>7. UnitCost(intent.side, intent.limit_price) * (intent.quantity - w.remaining) = 0
    BY <2>4, <2>6
  <2>8. w.remaining = intent.quantity - Least(intent.quantity, Depth(levels, intent, touch, 0))
    BY <2>2, <2>4, <2>5 DEF Least
  <2>9. w.components \in Seq(FillComponents)
    BY <2>5
  <2>10. Cost(intent.side, w.components)
           <= UnitCost(intent.side, intent.limit_price) * (intent.quantity - w.remaining)
    BY <2>3, <2>5, <2>7
  <2> QED
    BY <2>4, <2>5, <2>8, <2>9, <2>10 DEF WalkOK, w
<1>3. ASSUME Bad # {} PROVE FALSE
  <2>1. Bad \in SUBSET Nat
    BY <1>1
  <2> HIDE DEF Bad
  <2>2. PICK n \in Bad : \A k \in Bad : n <= k
    BY <1>3, <2>1, LeastNat
  <2>3. n \in 0..m /\ ~WalkOK(levels, intent, touch, n) /\ n # 0
    BY <1>2, <2>2 DEF Bad
  <2>4. n \in 1..m /\ n - 1 \in 0..m /\ n - 1 < n
    BY <1>1, <2>3
  <2>5. n - 1 \notin Bad
    BY <2>1, <2>2, <2>4
  <2>6. WalkOK(levels, intent, touch, n - 1)
    BY <2>4, <2>5 DEF Bad
  <2>7. WalkOK(levels, intent, touch, n)
    BY <2>4, <2>6, WalkStep
  <2> QED
    BY <2>3, <2>7
<1> QED
  BY <1>1, <1>3

-----------------------------------------------------------------------------
(* The walk along the tape                                                 *)

\* The payloads delivered at the first n places of a span.
Delivered(s, span, n) == {s.market_events[i].payload : i \in {j \in span : j \in 1..n}}

\* A trade that fills the order while it rests.
IsMatch(intent, p) == p.type = "trade" /\ TradeFillsRestingIntent(p, intent)

\* The trades among them that fill an order, and what they add up to.
Matches(s, intent, span, n) == {p \in Delivered(s, span, n) : IsMatch(intent, p)}

\* The quantity those trades add up to.
Volume(s, intent, span, n) ==
  SumOver([p \in Delivered(s, DOMAIN s.market_events, Len(s.market_events)) |-> p.quantity],
          Matches(s, intent, span, n))

\* The volume grows by a trade that was not delivered before.
LEMMA VolumeStep ==
  ASSUME NEW s, IsScenario(s), NEW intent, NEW span \in SUBSET DOMAIN s.market_events,
         NEW n \in 1..Len(s.market_events), NEW p, p = s.market_events[n].payload
  PROVE  /\ Volume(s, intent, span, n - 1) \in Nat
         /\ Within(n, span) /\ IsMatch(intent, p) => p.quantity \in Nat /\ p.price \in Int
         /\ Delivered(s, span, n) = IF Within(n, span) THEN Delivered(s, span, n - 1) \cup {p}
                                    ELSE Delivered(s, span, n - 1)
         /\ Volume(s, intent, span, n) =
              IF Within(n, span) /\ IsMatch(intent, p) /\ p \notin Delivered(s, span, n - 1)
              THEN p.quantity + Volume(s, intent, span, n - 1)
              ELSE Volume(s, intent, span, n - 1)
<1> DEFINE E == s.market_events
           m == Len(E)
           A == Delivered(s, DOMAIN E, m)
           F == [q \in A |-> q.quantity]
           P(k) == Delivered(s, span, k)
           M(k) == Matches(s, intent, span, k)
           new == n \in span /\ IsMatch(intent, p)
<1>1. m \in Nat /\ DOMAIN E = 1..m /\ \A i \in 1..m : IsPayload(E[i].payload)
  BY DEF IsScenario, IsSequence, IsMarketEvent
<1>2. A = {E[i].payload : i \in 1..m}
  BY <1>1 DEF Delivered
<1>3. P(n) = IF n \in span THEN P(n - 1) \cup {p} ELSE P(n - 1)
  <2>1. {j \in span : j \in 1..n} = IF n \in span THEN {j \in span : j \in 1..(n - 1)} \cup {n}
                                    ELSE {j \in span : j \in 1..(n - 1)}
    <3>1. 1..n = (1..(n - 1)) \cup {n}
      BY <1>1
    <3> QED
      BY <3>1
  <2> QED
    BY <2>1 DEF Delivered
<1>4. P(n - 1) \in SUBSET A /\ p \in A
  <2>1. p \in A
    BY <1>2
  <2>2. \A j \in span : j \in 1..m
    BY <1>1
  <2>3. P(n - 1) \in SUBSET A
    BY <1>2, <2>2 DEF Delivered
  <2> QED
    BY <2>1, <2>3
<1>5. M(n) = IF new /\ p \notin P(n - 1) THEN M(n - 1) \cup {p} ELSE M(n - 1)
  <2> HIDE DEF P
  <2>1. \A k : M(k) = {x \in P(k) : IsMatch(intent, x)}
    BY DEF Matches, P
  <2> HIDE DEF M
  <2> QED
    BY <1>3, <2>1
<1>6. M(n - 1) \in SUBSET P(n - 1)
  BY DEF Matches
<1>7. \A x \in A : IsMatch(intent, x) => x.quantity \in Nat /\ x.price \in Int
  BY <1>1, <1>2 DEF IsMatch, IsPayload
<1>8. IsFiniteSet(A)
  <2> DEFINE f == [i \in 1..m |-> E[i].payload]
  <2>1. f \in Surjection(1..m, A)
    <3>1. f \in [1..m -> A] /\ \A x \in A : \E i \in 1..m : f[i] = x
      BY <1>2
    <3> HIDE DEF f, A
    <3> QED
      BY <3>1 DEF Surjection
  <2>2. IsFiniteSet(1..m)
    BY <1>1, FS_Interval
  <2> HIDE DEF f, A
  <2> QED
    BY <2>1, <2>2, FS_Surjection
<1>9. \A k : Volume(s, intent, span, k) = SumOver(F, M(k))
  BY DEF Volume
<1>10. \A x \in A : F[x] = x.quantity
  OBVIOUS
<1>11. \A x \in M(n - 1) : IsMatch(intent, x)
  BY DEF Matches
<1> HIDE DEF F, A, M, P
<1>12. IsFiniteSet(M(n - 1)) /\ \A x \in M(n - 1) : F[x] \in Nat
  <2>1. M(n - 1) \in SUBSET A
    BY <1>4, <1>6
  <2>2. IsFiniteSet(M(n - 1))
    BY <1>8, <2>1, FS_Subset
  <2> QED
    BY <1>7, <1>10, <1>11, <2>1, <2>2
<1>13. SumOver(F, M(n - 1)) \in Nat
  BY <1>12, SumType
<1>14. new => p.quantity \in Nat /\ p.price \in Int
  BY <1>4, <1>7
<1>15. new /\ p \notin P(n - 1) => SumOver(F, M(n - 1) \cup {p}) = p.quantity + SumOver(F, M(n - 1))
  <2> SUFFICES ASSUME new, p \notin P(n - 1)
               PROVE  SumOver(F, M(n - 1) \cup {p}) = p.quantity + SumOver(F, M(n - 1))
    OBVIOUS
  <2>1. F[p] = p.quantity /\ p \notin M(n - 1) /\ \A x \in M(n - 1) \cup {p} : F[x] \in Int
    BY <1>4, <1>6, <1>10, <1>12, <1>14
  <2> QED
    BY <1>12, <2>1, SumAdd
<1>16. SumOver(F, M(n)) = IF new /\ p \notin P(n - 1) THEN p.quantity + SumOver(F, M(n - 1))
                          ELSE SumOver(F, M(n - 1))
  BY <1>5, <1>15
<1> QED
  BY <1>3, <1>9, <1>13, <1>14, <1>16 DEF P, Within

\* The volume is a number.
LEMMA VolumeType ==
  ASSUME NEW s, IsScenario(s), NEW intent, NEW span \in SUBSET DOMAIN s.market_events, NEW n
  PROVE  Volume(s, intent, span, n) \in Nat
<1> DEFINE E == s.market_events
           m == Len(E)
           A == Delivered(s, DOMAIN E, m)
           F == [p \in A |-> p.quantity]
           M == Matches(s, intent, span, n)
<1>1. m \in Nat /\ DOMAIN E = 1..m /\ \A i \in 1..m : IsPayload(E[i].payload)
  BY DEF IsScenario, IsSequence, IsMarketEvent
<1>2. A = {E[i].payload : i \in 1..m}
  BY <1>1 DEF Delivered
<1>3. M \in SUBSET A /\ \A x \in M : IsMatch(intent, x)
  <2>1. \A j \in span : j \in 1..m
    BY <1>1
  <2>2. Delivered(s, span, n) \in SUBSET A
    BY <1>2, <2>1 DEF Delivered
  <2> HIDE DEF A
  <2> QED
    BY <2>2 DEF Matches
<1>4. \A x \in A : IsMatch(intent, x) => F[x] \in Nat
  BY <1>1, <1>2 DEF IsMatch, IsPayload
<1>5. IsFiniteSet(A)
  <2> DEFINE f == [i \in 1..m |-> E[i].payload]
  <2>1. f \in Surjection(1..m, A)
    <3>1. f \in [1..m -> A] /\ \A x \in A : \E i \in 1..m : f[i] = x
      BY <1>2
    <3> HIDE DEF f, A
    <3> QED
      BY <3>1 DEF Surjection
  <2>2. IsFiniteSet(1..m)
    <3>1. 1 \in Int /\ m \in Int
      BY <1>1
    <3> HIDE DEF m
    <3> QED
      BY <3>1, FS_Interval
  <2> HIDE DEF f, A
  <2> QED
    BY <2>1, <2>2, FS_Surjection
<1>6. Volume(s, intent, span, n) = SumOver(F, M)
  BY DEF Volume
<1> HIDE DEF F, M, A
<1>7. IsFiniteSet(M) /\ \A x \in M : F[x] \in Nat
  BY <1>3, <1>4, <1>5, FS_Subset
<1> QED
  BY <1>6, <1>7, SumType

\* What the walk holds after n events.
RestOK(s, intent, Q, span, n) ==
  LET w == RestingWalk(s, intent, Q, span)[n]
  IN  /\ DOMAIN w = {"seen", "remaining", "components"}
      /\ w.remaining \in Nat /\ w.components \in Seq(FillComponents)
      /\ w.remaining = Q - Least(Q, Volume(s, intent, span, n))
      /\ w.remaining # 0 => w.seen = Delivered(s, span, n)
      /\ w.components = <<>> => w.remaining = Q
      /\ Cost(intent.side, w.components)
           <= UnitCost(intent.side, intent.limit_price) * (Q - w.remaining)

\* A trade that fills a resting order is within its limit.
LEMMA MatchWithinLimit ==
  ASSUME NEW intent, IsAccepted(intent), NEW p, p.price \in Int, IsMatch(intent, p)
  PROVE  /\ UnitCost(intent.side, p.price) \in Int
         /\ UnitCost(intent.side, p.price) <= UnitCost(intent.side, intent.limit_price)
BY DEF IsMatch, TradeFillsRestingIntent, IsAccepted, UnitCost, One

\* One event of the walk.
LEMMA RestStep ==
  ASSUME NEW s, IsScenario(s), NEW intent, IsAccepted(intent), NEW Q \in Nat,
         NEW span \in SUBSET DOMAIN s.market_events, NEW n \in 1..Len(s.market_events),
         RestOK(s, intent, Q, span, n - 1)
  PROVE  RestOK(s, intent, Q, span, n)
<1> DEFINE v == RestingWalk(s, intent, Q, span)[n - 1]
           w == RestingWalk(s, intent, Q, span)[n]
           p == s.market_events[n].payload
           L == UnitCost(intent.side, intent.limit_price)
           V(k) == Volume(s, intent, span, k)
           P(k) == Delivered(s, span, k)
           q == Least(v.remaining, p.quantity)
           part == Component(p.price, q, "MAKER")
<1>1. w = IF ~Within(n, span) THEN v ELSE FillFromEvent(intent, v, s.market_events[n])
  <2>1. Len(s.market_events) \in Nat
    BY DEF IsScenario, IsSequence
  <2> DEFINE x == RestingWalk(s, intent, Q, span)
  <2>2. x = RestingWalk(s, intent, Q, span)
    OBVIOUS
  <2> HIDE DEF x
  <2>3. \A k \in 0..Len(s.market_events) : x[k] =
          IF k = 0 THEN [seen |-> {}, remaining |-> Q, components |-> <<>>]
          ELSE IF ~Within(k, span) THEN x[k - 1]
          ELSE FillFromEvent(intent, x[k - 1], s.market_events[k])
    BY <2>1, <2>2, RestingValue
  <2>4. x[n] = IF ~Within(n, span) THEN x[n - 1]
               ELSE FillFromEvent(intent, x[n - 1], s.market_events[n])
    <3>1. n \in 0..Len(s.market_events) /\ n # 0
      BY <2>1
    <3> QED
      BY <2>3, <3>1
  <2> QED
    BY <2>4 DEF x
<1>2. /\ DOMAIN v = {"seen", "remaining", "components"}
      /\ v.remaining \in Nat /\ v.components \in Seq(FillComponents)
      /\ v.remaining = Q - Least(Q, V(n - 1))
      /\ v.remaining # 0 => v.seen = P(n - 1)
      /\ v.components = <<>> => v.remaining = Q
      /\ Cost(intent.side, v.components) <= L * (Q - v.remaining)
  BY DEF RestOK
<1>3. /\ V(n - 1) \in Nat
      /\ Within(n, span) /\ IsMatch(intent, p) => p.quantity \in Nat /\ p.price \in Int
      /\ P(n) = IF Within(n, span) THEN P(n - 1) \cup {p} ELSE P(n - 1)
      /\ V(n) = IF Within(n, span) /\ IsMatch(intent, p) /\ p \notin P(n - 1)
                THEN p.quantity + V(n - 1) ELSE V(n - 1)
  <2>1. p = s.market_events[n].payload
    OBVIOUS
  <2> HIDE DEF p
  <2> QED
    BY <2>1, VolumeStep
<1>4. L \in Nat
  BY AcceptedType
<1>5. ASSUME /\ DOMAIN w = {"seen", "remaining", "components"}
             /\ w.remaining \in Nat /\ w.components \in Seq(FillComponents)
             /\ w.remaining = Q - Least(Q, V(n))
             /\ w.remaining # 0 => w.seen = P(n)
             /\ w.components = <<>> => w.remaining = Q
             /\ Cost(intent.side, w.components) <= L * (Q - w.remaining)
      PROVE  RestOK(s, intent, Q, span, n)
  BY <1>5 DEF RestOK
<1> HIDE DEF v, w, V, P, L
<1>6. CASE ~Within(n, span)
  BY <1>1, <1>2, <1>3, <1>5, <1>6
<1>7. CASE Within(n, span) /\ v.remaining = 0
  <2>1. w = v
    BY <1>1, <1>7 DEF FillFromEvent
  <2>2. V(n) \in Nat /\ V(n) >= V(n - 1)
    <3>1. CASE IsMatch(intent, p) /\ p \notin P(n - 1)
      <4>1. V(n) = p.quantity + V(n - 1) /\ p.quantity \in Nat /\ V(n - 1) \in Nat
        BY <1>3, <1>7, <3>1
      <4> HIDE DEF p
      <4> QED
        BY <4>1
    <3>2. CASE ~(IsMatch(intent, p) /\ p \notin P(n - 1))
      BY <1>3, <3>2
    <3> QED
      BY <3>1, <3>2
  <2>3. Q - Least(Q, V(n)) = 0
    BY <1>2, <1>3, <1>7, <2>2 DEF Least
  <2> QED
    BY <1>2, <1>5, <1>7, <2>1, <2>3
<1>8. CASE Within(n, span) /\ v.remaining # 0 /\ p \in v.seen
  <2>1. w = v
    BY <1>1, <1>8 DEF FillFromEvent
  <2>2. p \in P(n - 1)
    BY <1>2, <1>8
  <2>3. P(n) = P(n - 1) /\ V(n) = V(n - 1)
    BY <1>3, <2>2
  <2> QED
    BY <1>2, <1>5, <2>1, <2>3
<1>9. CASE Within(n, span) /\ v.remaining # 0 /\ p \notin v.seen /\ ~IsMatch(intent, p)
  <2>1. w = [v EXCEPT !.seen = @ \cup {p}]
    BY <1>1, <1>9 DEF FillFromEvent, IsMatch
  <2>2. /\ DOMAIN w = {"seen", "remaining", "components"} /\ w.seen = v.seen \cup {p}
        /\ w.remaining = v.remaining /\ w.components = v.components
    BY <1>2, <2>1
  <2>3. P(n) = P(n - 1) \cup {p} /\ V(n) = V(n - 1)
    BY <1>3, <1>9
  <2> HIDE DEF p
  <2> QED
    BY <1>2, <1>5, <1>9, <2>2, <2>3
<1>10. CASE Within(n, span) /\ v.remaining # 0 /\ p \notin v.seen /\ IsMatch(intent, p)
  <2>1. w = [seen |-> v.seen \cup {p}, remaining |-> v.remaining - q,
             components |-> Append(v.components, part)]
    BY <1>1, <1>10 DEF FillFromEvent, IsMatch
  <2>2. p.quantity \in Nat /\ p.price \in Int
    BY <1>3, <1>10
  <2>3. V(n) = p.quantity + V(n - 1) /\ P(n) = P(n - 1) \cup {p}
    BY <1>2, <1>3, <1>10
  <2>4. q \in Nat /\ q <= v.remaining /\ q <= p.quantity
    <3>1. v.remaining \in Nat
      BY <1>2
    <3> HIDE DEF p
    <3> QED
      BY <2>2, <3>1 DEF Least
  <2>5. part \in FillComponents /\ part.quantity = q /\ part.price = p.price
    <3>1. "MAKER" \in LiquidityRoles
      BY DEF LiquidityRoles
    <3> HIDE DEF q
    <3> QED
      BY <2>2, <2>4, <3>1 DEF Component, FillComponents
  <2>6. /\ DOMAIN w = {"seen", "remaining", "components"} /\ w.seen = v.seen \cup {p}
        /\ w.remaining = v.remaining - q /\ w.components = Append(v.components, part)
    <3> HIDE DEF q, part
    <3> QED
      BY <2>1
  <2>7. w.remaining = Q - Least(Q, V(n))
    <3>1. V(n - 1) < Q /\ v.remaining = Q - V(n - 1)
      BY <1>2, <1>3, <1>10 DEF Least
    <3>2. w.remaining = v.remaining - q
      BY <2>6
    <3> QED
      BY <1>3, <2>2, <2>3, <3>1, <3>2 DEF Least
  <2> HIDE DEF q, part, p
  <2>8. w.components \in Seq(FillComponents) /\ w.components # <<>>
    BY <1>2, <2>5, <2>6, Appended
  <2>9. /\ UnitCost(intent.side, p.price) \in Int /\ UnitCost(intent.side, p.price) <= L
    BY <1>10, <2>2, MatchWithinLimit DEF L
  <2>10. /\ Cost(intent.side, v.components) \in Int
         /\ Cost(intent.side, w.components)
              = Cost(intent.side, v.components) + q * UnitCost(intent.side, p.price)
    BY <1>2, <2>5, <2>6, CostAppended
  <2>11. Cost(intent.side, v.components) + q * UnitCost(intent.side, p.price)
           <= L * ((Q - v.remaining) + q)
    <3>1. Q - v.remaining \in Int /\ L \in Int
      BY <1>2, <1>4
    <3> QED
      BY <1>2, <2>4, <2>9, <2>10, <3>1, CostWithinLimit
  <2>12. (Q - v.remaining) + q = Q - w.remaining /\ w.remaining \in Nat
    <3>1. w.remaining = v.remaining - q
      BY <2>6
    <3> QED
      BY <1>2, <2>4, <3>1
  <2>13. w.remaining # 0 => w.seen = P(n)
    BY <1>2, <1>10, <2>3, <2>6
  <2> QED
    BY <1>5, <2>6, <2>7, <2>8, <2>10, <2>11, <2>12, <2>13
<1> QED
  BY <1>6, <1>7, <1>8, <1>9, <1>10

\* The whole walk.
LEMMA RestFollowsVolume ==
  ASSUME NEW s, IsScenario(s), NEW intent, IsAccepted(intent), NEW Q \in Nat,
         NEW span \in SUBSET DOMAIN s.market_events
  PROVE  RestOK(s, intent, Q, span, Len(s.market_events))
<1> DEFINE m == Len(s.market_events)
           Bad == {n \in 0..m : ~RestOK(s, intent, Q, span, n)}
           w == RestingWalk(s, intent, Q, span)[0]
<1>1. m \in Nat
  BY DEF IsScenario, IsSequence
<1>2. RestOK(s, intent, Q, span, 0)
  <2>1. w = [seen |-> {}, remaining |-> Q, components |-> <<>>]
    <3> DEFINE x == RestingWalk(s, intent, Q, span)
    <3>1. x = RestingWalk(s, intent, Q, span)
      OBVIOUS
    <3> HIDE DEF x
    <3>2. \A k \in 0..Len(s.market_events) : x[k] =
            IF k = 0 THEN [seen |-> {}, remaining |-> Q, components |-> <<>>]
            ELSE IF ~Within(k, span) THEN x[k - 1]
            ELSE FillFromEvent(intent, x[k - 1], s.market_events[k])
      BY <1>1, <3>1, RestingValue
    <3>3. 0 \in 0..Len(s.market_events)
      BY <1>1
    <3>4. x[0] = [seen |-> {}, remaining |-> Q, components |-> <<>>]
      BY <3>2, <3>3, Zenon
    <3> QED
      BY <3>4 DEF x
  <2>2. Delivered(s, span, 0) = {} /\ Matches(s, intent, span, 0) = {}
    BY DEF Delivered, Matches
  <2>3. Volume(s, intent, span, 0) = 0
    <3> DEFINE F == [p \in Delivered(s, DOMAIN s.market_events, m) |-> p.quantity]
    <3>1. Volume(s, intent, span, 0) = SumOver(F, {})
      BY <2>2 DEF Volume
    <3> HIDE DEF F
    <3> QED
      BY <3>1, FS_EmptySet, SumStep
  <2>4. Cost(intent.side, <<>>) = 0
    BY CostOfNothing
  <2>5. UnitCost(intent.side, intent.limit_price) \in Nat
    BY AcceptedType
  <2>6. /\ DOMAIN w = {"seen", "remaining", "components"} /\ w.seen = {}
        /\ w.remaining = Q /\ w.components = <<>>
    BY <2>1
  <2> HIDE DEF w
  <2>7. UnitCost(intent.side, intent.limit_price) * (Q - w.remaining) = 0
    BY <2>5, <2>6
  <2>8. w.remaining = Q - Least(Q, Volume(s, intent, span, 0))
    BY <2>3, <2>6 DEF Least
  <2>9. w.components \in Seq(FillComponents)
    BY <2>6
  <2>10. Cost(intent.side, w.components)
           <= UnitCost(intent.side, intent.limit_price) * (Q - w.remaining)
    BY <2>4, <2>6, <2>7
  <2> QED
    BY <2>2, <2>6, <2>8, <2>9, <2>10 DEF RestOK, w
<1>3. ASSUME Bad # {} PROVE FALSE
  <2>1. Bad \in SUBSET Nat
    BY <1>1
  <2> HIDE DEF Bad
  <2>2. PICK n \in Bad : \A k \in Bad : n <= k
    BY <1>3, <2>1, LeastNat
  <2>3. n \in 0..m /\ ~RestOK(s, intent, Q, span, n) /\ n # 0
    BY <1>2, <2>2 DEF Bad
  <2>4. n \in 1..m /\ n - 1 \in 0..m /\ n - 1 < n
    BY <1>1, <2>3
  <2>5. n - 1 \notin Bad
    BY <2>1, <2>2, <2>4
  <2>6. RestOK(s, intent, Q, span, n - 1)
    BY <2>4, <2>5 DEF Bad
  <2>7. RestOK(s, intent, Q, span, n)
    BY <2>4, <2>6, RestStep
  <2> QED
    BY <2>3, <2>7
<1> QED
  BY <1>1, <1>3

-----------------------------------------------------------------------------
(* One order                                                               *)

\* A total of numbers is a number.
LEMMA TotalType ==
  ASSUME NEW F, NEW n \in Nat, DOMAIN F = 1..n, NEW N \in {Nat, Int}, \A i \in 1..n : F[i] \in N
  PROVE  Total(F) \in N
<1>1. IsFiniteSet(1..n)
  BY FS_Interval
<1> QED
  BY <1>1, TotalIsSum, SumType

\* An estimate has its schema.
LEMMA EstimateType ==
  ASSUME NEW intent, IsAccepted(intent), NEW remaining \in Nat, NEW role \in LiquidityRoles,
         NEW parts \in Seq(FillComponents)
  PROVE  /\ FillEstimate(intent, remaining, role, parts) \in FillEstimates
         /\ FillEstimate(intent, remaining, role, parts) # None
<1> DEFINE F == [i \in DOMAIN parts |-> notional(parts[i])]
           total == Total(F)
           average == IF parts = <<>> THEN None ELSE <<total, intent.quantity - remaining>>
           e == FillEstimate(intent, remaining, role, parts)
<1>1. total \in Int
  <2>1. Len(parts) \in Nat /\ DOMAIN parts = 1..Len(parts)
    OBVIOUS
  <2>2. \A i \in 1..Len(parts) : F[i] \in Int
    <3> TAKE i \in 1..Len(parts)
    <3>1. parts[i] \in FillComponents
      OBVIOUS
    <3>2. parts[i].price \in Int /\ parts[i].quantity \in Int
      BY <3>1 DEF FillComponents
    <3> QED
      BY <2>1, <3>2 DEF notional
  <2>3. DOMAIN F = 1..Len(parts)
    BY <2>1
  <2> HIDE DEF F
  <2> QED
    BY <2>1, <2>2, <2>3, TotalType
<1>2. intent.quantity \in Nat /\ intent.limit_price \in Int /\ intent.side \in {"BUY", "SELL"}
  BY AcceptedType
<1>3. e = [side |-> intent.side, limit_price |-> intent.limit_price,
           order_quantity |-> intent.quantity, filled_quantity |-> intent.quantity - remaining,
           remaining_quantity |-> remaining, average_fill_price |-> average,
           liquidity_role |-> role, components |-> parts]
  BY DEF FillEstimate
<1> HIDE DEF F, total
<1>4. average \in (Int \X Int) \cup {None}
  BY <1>1, <1>2
<1> HIDE DEF average, e
<1>5. e \in FillEstimates
  BY <1>2, <1>3, <1>4 DEF FillEstimates
<1>6. e # None
  BY <1>5, NoneDiffers
<1> QED
  BY <1>5, <1>6 DEF e

\* What the fields of an estimate are.
LEMMA EstimateFields ==
  ASSUME NEW intent, NEW remaining, NEW role, NEW parts
  PROVE  /\ FillEstimate(intent, remaining, role, parts).filled_quantity
              = intent.quantity - remaining
         /\ FillEstimate(intent, remaining, role, parts).remaining_quantity = remaining
         /\ FillEstimate(intent, remaining, role, parts).liquidity_role = role
         /\ FillEstimate(intent, remaining, role, parts).components = parts
BY DEF FillEstimate

\* The side an order takes from: the levels it may execute against come first.
LEMMA OppositeSide ==
  ASSUME NEW book, IsBook(book), NEW intent, IsAccepted(intent), NEW touch \in BOOLEAN,
         NEW levels, levels = OppositeSideLevels(book, intent.side)
  PROVE  /\ levels \in Seq(BookLevels)
         /\ \A i, j \in 1..Len(levels) :
              i < j /\ IsExecutable(intent.side, intent.limit_price, levels[j].price, touch) =>
                IsExecutable(intent.side, intent.limit_price, levels[i].price, touch)
<1>1. /\ \A i, j \in 1..Len(book.bids) : i < j => book.bids[i].price > book.bids[j].price
      /\ \A i, j \in 1..Len(book.asks) : i < j => book.asks[i].price < book.asks[j].price
  BY SidesInOrder
<1>2. book.bids \in Seq(BookLevels) /\ book.asks \in Seq(BookLevels)
  BY DEF IsBook, Snapshots
<1>3. levels = IF intent.side = "BUY" THEN book.asks ELSE book.bids
  BY DEF OppositeSideLevels
<1>4. levels \in Seq(BookLevels)
  BY <1>2, <1>3
<1>5. intent.limit_price \in Int /\ intent.side \in {"BUY", "SELL"}
  BY DEF IsAccepted, One
<1>6. \A i \in 1..Len(levels) : levels[i].price \in Int
  <2>1. \A i \in 1..Len(levels) : levels[i] \in BookLevels
    BY <1>4
  <2> QED
    BY <2>1 DEF BookLevels
<1>7. ASSUME NEW i \in 1..Len(levels), NEW j \in 1..Len(levels), i < j,
             IsExecutable(intent.side, intent.limit_price, levels[j].price, touch)
      PROVE  IsExecutable(intent.side, intent.limit_price, levels[i].price, touch)
  <2>1. levels[i].price \in Int /\ levels[j].price \in Int
    BY <1>6
  <2>2. IF intent.side = "BUY" THEN levels[i].price < levels[j].price
        ELSE levels[i].price > levels[j].price
    BY <1>1, <1>3, <1>7
  <2> QED
    BY <1>5, <1>7, <2>1, <2>2 DEF IsExecutable
<1> QED
  BY <1>4, <1>7

\* What an order takes from a book.
LEMMA TakenFromBook ==
  ASSUME NEW book, IsBook(book), NEW intent, IsAccepted(intent), NEW touch \in BOOLEAN,
         NEW fill, fill = EstimateBookFill(book, intent, touch),
         NEW levels, levels = OppositeSideLevels(book, intent.side),
         NEW depth, depth = Depth(levels, intent, touch, Len(levels))
  PROVE  /\ fill \in FillEstimates /\ fill # None /\ depth \in Nat
         /\ fill.remaining_quantity \in Nat
         /\ fill.filled_quantity = intent.quantity - fill.remaining_quantity
         /\ fill.filled_quantity = Least(intent.quantity, depth)
         /\ fill.liquidity_role = IF depth = 0 THEN "UNKNOWN" ELSE "TAKER"
         /\ fill.components \in Seq(FillComponents)
         /\ Cost(intent.side, fill.components)
              <= UnitCost(intent.side, intent.limit_price) * fill.filled_quantity
<1> DEFINE end == BookWalk(levels, intent, touch)[Len(levels)]
           role == IF end.components = <<>> THEN "UNKNOWN" ELSE "TAKER"
           Q == intent.quantity
<1>1. levels \in Seq(BookLevels) /\ WalkOK(levels, intent, touch, Len(levels))
  <2>1. /\ levels \in Seq(BookLevels)
        /\ \A i, j \in 1..Len(levels) :
             i < j /\ IsExecutable(intent.side, intent.limit_price, levels[j].price, touch) =>
               IsExecutable(intent.side, intent.limit_price, levels[i].price, touch)
    BY OppositeSide
  <2> QED
    BY <2>1, WalkTakesDepth
<1>2. /\ end.remaining \in Nat /\ end.components \in Seq(FillComponents)
      /\ end.remaining = Q - Least(Q, depth)
      /\ end.components = <<>> <=> end.remaining = Q
      /\ Cost(intent.side, end.components)
           <= UnitCost(intent.side, intent.limit_price) * (Q - end.remaining)
  BY <1>1 DEF WalkOK
<1>3. fill = FillEstimate(intent, end.remaining, role, end.components)
  BY DEF EstimateBookFill
<1>4. depth \in Nat
  <2> DEFINE F == [i \in 1..Len(levels) |-> levels[i].quantity]
             R == Reached(levels, intent, touch, Len(levels))
  <2>1. Len(levels) \in Nat /\ \A i \in 1..Len(levels) : F[i] \in Nat
    <3>1. \A i \in 1..Len(levels) : levels[i] \in BookLevels
      BY <1>1
    <3> QED
      BY <1>1, <3>1 DEF BookLevels
  <2>2. R \in SUBSET (1..Len(levels))
    BY DEF Reached
  <2>3. depth = SumOver(F, R)
    BY DEF Depth
  <2> HIDE DEF F, R
  <2>4. IsFiniteSet(R)
    <3>1. IsFiniteSet(1..Len(levels))
      BY <2>1, FS_Interval
    <3> QED
      BY <2>2, <3>1, FS_Subset
  <2>5. \A i \in R : F[i] \in Nat
    BY <2>1, <2>2
  <2> QED
    BY <2>3, <2>4, <2>5, SumType
<1> HIDE DEF end
<1>5. role \in LiquidityRoles
  BY DEF LiquidityRoles
<1>6. Q \in Nat /\ Q > 0
  BY AcceptedType
<1>7. role = IF depth = 0 THEN "UNKNOWN" ELSE "TAKER"
  BY <1>2, <1>4, <1>6 DEF Least
<1> HIDE DEF role
<1>8. fill \in FillEstimates /\ fill # None
  BY <1>2, <1>3, <1>5, EstimateType
<1>9. /\ fill.filled_quantity = Q - end.remaining /\ fill.remaining_quantity = end.remaining
      /\ fill.liquidity_role = role /\ fill.components = end.components
  BY <1>3, EstimateFields
<1>10. Q - end.remaining = Least(Q, depth)
  BY <1>2, <1>4, <1>6 DEF Least
<1> QED
  BY <1>2, <1>4, <1>7, <1>8, <1>9, <1>10

\* What the fill of an active order is.
FillOK(s, intent, activates_at, cancel, book, fill) ==
  LET touch  == s.configuration.fill_model = "touch"
      levels == OppositeSideLevels(book, intent.side)
      depth  == Depth(levels, intent, touch, Len(levels))
      volume == Volume(s, intent, RestingSpan(s, activates_at, cancel), Len(s.market_events))
  IN  /\ fill \in FillEstimates /\ fill # None /\ depth \in Nat
      /\ fill.remaining_quantity \in Nat
      /\ fill.filled_quantity = intent.quantity - fill.remaining_quantity
      /\ fill.components \in Seq(FillComponents)
      /\ fill.liquidity_role = "TAKER" <=> depth > 0
      /\ depth > 0 => fill.filled_quantity = Least(intent.quantity, depth)
      /\ depth = 0 => fill.filled_quantity = Least(intent.quantity, volume)
      /\ Cost(intent.side, fill.components)
           <= UnitCost(intent.side, intent.limit_price) * fill.filled_quantity

\* Whatever the book and the tape, an accepted order is filled by the one or the other.
LEMMA FilledOrder ==
  ASSUME NEW s, IsScenario(s), NEW intent, IsAccepted(intent), NEW activates_at, NEW cancel,
         NEW book, IsBook(book), NEW fill,
         fill = FillRestingOrder(s, intent, activates_at, cancel,
                                 evaluate_fill(s.configuration.fill_model, book, intent))
  PROVE  FillOK(s, intent, activates_at, cancel, book, fill)
<1> DEFINE touch == s.configuration.fill_model = "touch"
           levels == OppositeSideLevels(book, intent.side)
           depth == Depth(levels, intent, touch, Len(levels))
           taken == EstimateBookFill(book, intent, touch)
           span == RestingSpan(s, activates_at, cancel)
           m == Len(s.market_events)
           volume == Volume(s, intent, span, m)
           end == RestingWalk(s, intent, taken.remaining_quantity, span)[m]
           Q == intent.quantity
           L == UnitCost(intent.side, intent.limit_price)
           rested == FillEstimate(intent, end.remaining, "MAKER", end.components)
<1>1. fill = IF has_fill(taken) \/ end.components = <<>> THEN taken ELSE rested
  BY DEF FillRestingOrder, RestingFill, evaluate_fill
<1>2. /\ taken \in FillEstimates /\ taken # None /\ depth \in Nat
      /\ taken.remaining_quantity \in Nat
      /\ taken.filled_quantity = Q - taken.remaining_quantity
      /\ taken.filled_quantity = Least(Q, depth)
      /\ taken.liquidity_role = IF depth = 0 THEN "UNKNOWN" ELSE "TAKER"
      /\ taken.components \in Seq(FillComponents)
      /\ Cost(intent.side, taken.components) <= L * taken.filled_quantity
  <2>1. touch \in BOOLEAN
    OBVIOUS
  <2> HIDE DEF touch
  <2> QED
    BY <2>1, TakenFromBook
<1>3. Q \in Nat /\ Q > 0 /\ L \in Nat
  BY AcceptedType
<1>4. has_fill(taken) <=> depth > 0
  BY <1>2, <1>3 DEF has_fill, Least
<1>5. span \in SUBSET DOMAIN s.market_events
  BY DEF RestingSpan
<1>6. ASSUME /\ fill \in FillEstimates /\ fill # None
             /\ fill.remaining_quantity \in Nat
             /\ fill.filled_quantity = Q - fill.remaining_quantity
             /\ fill.components \in Seq(FillComponents)
             /\ fill.liquidity_role = "TAKER" <=> depth > 0
             /\ depth > 0 => fill.filled_quantity = Least(Q, depth)
             /\ depth = 0 => fill.filled_quantity = Least(Q, volume)
             /\ Cost(intent.side, fill.components) <= L * fill.filled_quantity
      PROVE  FillOK(s, intent, activates_at, cancel, book, fill)
  BY <1>2, <1>6 DEF FillOK
<1> HIDE DEF span, taken, depth, L
<1>7. CASE has_fill(taken)
  <2>1. fill = taken
    BY <1>1, <1>7
  <2>2. depth > 0
    BY <1>4, <1>7
  <2> QED
    BY <1>2, <1>6, <2>1, <2>2
<1>8. CASE ~has_fill(taken)
  <2>1. depth = 0 /\ taken.filled_quantity = 0 /\ taken.remaining_quantity = Q
    BY <1>2, <1>3, <1>4, <1>8 DEF Least
  <2>2. /\ end.remaining \in Nat /\ end.components \in Seq(FillComponents)
        /\ end.remaining = Q - Least(Q, volume)
        /\ end.components = <<>> => end.remaining = Q
        /\ Cost(intent.side, end.components) <= L * (Q - end.remaining)
    <3>1. RestOK(s, intent, Q, span, m)
      BY <1>3, <1>5, RestFollowsVolume
    <3>2. end = RestingWalk(s, intent, Q, span)[m]
      BY <2>1
    <3> HIDE DEF end
    <3> QED
      BY <3>1, <3>2 DEF RestOK, L
  <2>3. volume \in Nat
    BY <1>5, VolumeType
  <2> HIDE DEF end, volume, Q
  <2>4. CASE end.components = <<>>
    <3>1. fill = taken
      BY <1>1, <2>4
    <3>2. Least(Q, volume) = 0
      BY <1>3, <2>2, <2>3, <2>4 DEF Least
    <3> QED
      BY <1>2, <1>6, <2>1, <3>1, <3>2
  <2>5. CASE end.components # <<>>
    <3>1. fill = rested
      BY <1>1, <1>8, <2>5
    <3>2. "MAKER" \in LiquidityRoles
      BY DEF LiquidityRoles
    <3>3. fill \in FillEstimates /\ fill # None
      BY <2>2, <3>1, <3>2, EstimateType
    <3>4. /\ fill.filled_quantity = Q - end.remaining /\ fill.remaining_quantity = end.remaining
          /\ fill.liquidity_role = "MAKER" /\ fill.components = end.components
      BY <3>1, EstimateFields DEF Q
    <3>5. Q - end.remaining = Least(Q, volume)
      BY <1>3, <2>2, <2>3 DEF Least
    <3> HIDE DEF rested
    <3>6. ~(depth > 0)
      BY <2>1
    <3> QED
      BY <1>6, <2>1, <2>2, <3>3, <3>4, <3>5, <3>6
  <2> QED
    BY <2>4, <2>5
<1> QED
  BY <1>7, <1>8

\* What admission makes of an order of a scenario.
OrderAdmission(s, action) ==
  LET c == s.configuration
  IN  admit_order(action, s.market_status, action.scheduled_at, c.fixed_latency_ms,
                  IF c.balance # None THEN RequiredBalance(action) ELSE None, c.balance)

\* The balance of a scenario covers an order at its limit.
Covered(s, action) ==
  s.configuration.balance # None =>
    action.quantity * UnitCost(action.side, action.limit_price) <= s.configuration.balance

\* An admission has its schema; an accepted order has a limit, a quantity and the balance.
LEMMA AdmittedOrderOK ==
  ASSUME NEW s, IsScenario(s), ConfigurationError(s.configuration) = None,
         NEW action, IsOrderAction(action), action.type = "order_intent",
         NEW a, a = OrderAdmission(s, action)
  PROVE  /\ DOMAIN a = {"reason", "submitted_at", "accepted_at", "activates_at"}
         /\ AdmissionValid(a)
         /\ ~rejected(a) => /\ IsAccepted(action) /\ a.activates_at \in Int
                            /\ Covered(s, action)
                            /\ a.activates_at
                                 = action.scheduled_at + s.configuration.fixed_latency_ms
         /\ a.reason # "POST_ONLY_WOULD_CROSS"
<1> DEFINE c == s.configuration
           latency == c.fixed_latency_ms
           required == IF c.balance # None THEN RequiredBalance(action) ELSE None
           why == RejectionReason(action, s.market_status, required, c.balance)
           accepted == why = "ACCEPTED"
<1>1. /\ action.scheduled_at \in Int /\ action.side \in {"BUY", "SELL"}
      /\ action.quantity \in Int /\ action.limit_price \in Int \cup {None}
  BY DEF IsOrderAction
<1>2. latency \in Nat
  <2>1. "latency" # None /\ "fill_model" # None
    BY NoneDiffers DEF Reasons
  <2>2. latency # None
    BY <2>1 DEF ConfigurationError
  <2> QED
    BY <2>2 DEF IsScenario, IsConfiguration
<1>3. c.balance \in Int \cup {None}
  BY DEF IsScenario, IsConfiguration
<1>4. a = [reason |-> why, submitted_at |-> action.scheduled_at,
           accepted_at |-> IF accepted THEN action.scheduled_at ELSE None,
           activates_at |-> IF accepted THEN action.scheduled_at + latency ELSE None]
  BY DEF OrderAdmission, admit_order, activation_time
<1>5. ASSUME accepted
      PROVE  /\ action.limit_price # None /\ action.limit_price \in Int
             /\ 0 <= action.limit_price /\ action.limit_price <= One /\ action.quantity > 0
             /\ required # None => (c.balance # None /\ ~(c.balance < required))
  <2>1. ~(action.limit_price = None \/ action.limit_price < 0 \/ action.limit_price > One)
    BY <1>5 DEF RejectionReason
  <2>2. ~(action.quantity <= 0)
    BY <1>5, <2>1 DEF RejectionReason
  <2>3. ~(required # None /\ (c.balance = None \/ c.balance < required))
    BY <1>5, <2>1, <2>2 DEF RejectionReason
  <2>4. action.limit_price # None /\ action.limit_price \in Int
    BY <1>1, <2>1
  <2> HIDE DEF required
  <2> QED
    BY <1>1, <2>1, <2>2, <2>3, <2>4 DEF One
<1>6. ASSUME accepted PROVE Covered(s, action)
  <2> SUFFICES ASSUME c.balance # None
               PROVE  action.quantity * UnitCost(action.side, action.limit_price) <= c.balance
    BY DEF Covered
  <2>1. required = action.quantity * UnitCost(action.side, action.limit_price)
    <3>1. RequiredBalance(action) = action.quantity
             * (IF action.side = "BUY" THEN action.limit_price ELSE One - action.limit_price)
      BY <1>5, <1>6 DEF RequiredBalance, One
    <3> QED
      BY <3>1 DEF UnitCost
  <2>2. UnitCost(action.side, action.limit_price) \in Int
    BY <1>5, <1>6 DEF UnitCost, One
  <2>3. required \in Int
    BY <1>1, <2>1, <2>2
  <2>4. required # None
    BY <2>3, NoneDiffers
  <2>5. ~(c.balance < required) /\ c.balance \in Int
    BY <1>3, <1>5, <1>6, <2>4
  <2> HIDE DEF required
  <2> QED
    BY <2>1, <2>3, <2>5
<1>11. why # "POST_ONLY_WOULD_CROSS"
  BY DEF RejectionReason
<1>12. accepted => action.scheduled_at + latency
                     = action.scheduled_at + s.configuration.fixed_latency_ms
  OBVIOUS
<1> HIDE DEF why, latency
<1>7. /\ DOMAIN a = {"reason", "submitted_at", "accepted_at", "activates_at"}
      /\ a.reason = why /\ (rejected(a) <=> ~accepted)
      /\ a.accepted_at = (IF accepted THEN action.scheduled_at ELSE None)
      /\ a.activates_at = IF accepted THEN action.scheduled_at + latency ELSE None
  BY <1>4 DEF rejected
<1>8. action.scheduled_at # None /\ action.scheduled_at + latency # None
  <2>1. action.scheduled_at + latency \in Int
    BY <1>1, <1>2
  <2> QED
    BY <1>1, <2>1, NoneDiffers
<1>9. AdmissionValid(a)
  <2>1. action.scheduled_at + latency >= action.scheduled_at
    BY <1>1, <1>2
  <2>2. CASE accepted
    <3>1. /\ ~rejected(a) /\ a.accepted_at = action.scheduled_at
          /\ a.activates_at = action.scheduled_at + latency
      BY <1>7, <2>2
    <3> QED
      BY <1>8, <2>1, <3>1 DEF AdmissionValid
  <2>3. CASE ~accepted
    BY <1>7, <2>3 DEF AdmissionValid
  <2> QED
    BY <2>2, <2>3
<1>10. ASSUME accepted PROVE IsAccepted(action) /\ a.activates_at \in Int
  <2>1. action.quantity \in Nat
    BY <1>1, <1>5, <1>10
  <2>2. action.limit_price \in 0..One
    BY <1>5, <1>10 DEF One
  <2>3. IsAccepted(action)
    BY <1>1, <1>5, <1>10, <2>1, <2>2 DEF IsAccepted
  <2>4. a.activates_at \in Int
    BY <1>1, <1>2, <1>7, <1>10
  <2> QED
    BY <2>3, <2>4
<1> QED
  BY <1>6, <1>7, <1>9, <1>10, <1>11, <1>12

\* The result of an order that was met by a book.
ActiveOK(s, r, cancel) ==
  /\ r.fill_estimate # None
  /\ IsAccepted(r.action) /\ r.admission.activates_at \in Int /\ Covered(s, r.action)
  /\ IsBook(r.activation_book) /\ ~PostOnlyWouldCross(r.action, r.activation_book)
  /\ FillOK(s, r.action, r.admission.activates_at, cancel, r.activation_book, r.fill_estimate)
  /\ r.cancel_result = LateCancel(cancel, r.sequence, r.fill_estimate)
  /\ r.disconnect_result = DisconnectResult(s, r.action, r.sequence, r.admission.activates_at,
                                            r.cancel_result, r.fill_estimate)

\* The book of an order at its activation, were it admitted.
MetBook(s, action) ==
  ProjectBookUntil(s, action.scheduled_at + s.configuration.fixed_latency_ms)

\* A valid book at whose activation a post-only order would have crossed.
WouldCross(s, action) ==
  /\ IsAccepted(action) /\ IsValid(MetBook(s, action)) /\ IsBook(MetBook(s, action).book)
  /\ PostOnlyWouldCross(action, MetBook(s, action).book)

\* Only a valid book rejects an order or fills it.
Judged(s, r) ==
  /\ r.admission.reason = "POST_ONLY_WOULD_CROSS" => WouldCross(s, r.action)
  /\ r.fill_estimate # None =>
       IsValid(MetBook(s, r.action)) /\ r.activation_book = MetBook(s, r.action).book

\* A result goes together, and an accepted order's carries the request it was given.
ResultOK(s, r, action, sequence, cancel) ==
  /\ r.action = action /\ r.sequence = sequence
  /\ OrderResultValid(r) /\ Judged(s, r)
  /\ rejected(r.admission) \/ cancel = None => r.cancel_result = None
  /\ ~rejected(r.admission) /\ cancel # None =>
       /\ r.cancel_result # None /\ r.cancel_result.sequence = cancel.sequence
       /\ r.cancel_result.effective_at = cancel.scheduled_at
  /\ r.fill_estimate # None => ~rejected(r.admission) /\ ActiveOK(s, r, cancel)

\* What a request for a cancel holds.
IsRequest(cancel) == cancel.sequence \in Int /\ cancel.scheduled_at \in Int

\* What a result says of a cancel is not None.
LEMMA CancelResultType ==
  ASSUME NEW cancel, IsRequest(cancel), NEW target \in Int,
         NEW code \in {"before_activation", "after_activation_no_fill", "fill_race_lost"}
  PROVE  /\ CancelResult(cancel, target, code) # None
         /\ CancelResult(cancel, target, code).sequence = cancel.sequence
         /\ CancelResult(cancel, target, code).effective_at = cancel.scheduled_at
         /\ CancelResult(cancel, target, code).outcome_code = code
<1>1. CancelResult(cancel, target, code) \in CancelResults
  BY DEF CancelResult, CancelResults, IsRequest
<1> QED
  BY <1>1, NoneDiffers DEF CancelResult

\* An order that has no fill.
LEMMA InactiveResultOK ==
  ASSUME NEW s, NEW action, NEW sequence \in Int, NEW admission, AdmissionValid(admission),
         admission.reason = "POST_ONLY_WOULD_CROSS" => WouldCross(s, action),
         NEW cancel, cancel # None => IsRequest(cancel),
         NEW r, r = OrderResult(sequence, action, admission)
  PROVE  /\ rejected(admission) => ResultOK(s, r, action, sequence, cancel)
         /\ ~rejected(admission) /\ cancel # None =>
              ResultOK(s, [r EXCEPT !.cancel_result
                             = CancelResult(cancel, sequence, "before_activation")],
                       action, sequence, cancel)
<1> DEFINE x == CancelResult(cancel, sequence, "before_activation")
           t == [r EXCEPT !.cancel_result = x]
<1>1. /\ r.action = action /\ r.sequence = sequence /\ r.admission = admission
      /\ r.activation_book = None /\ r.fill_estimate = None /\ r.fee_estimates = <<>>
      /\ r.slippage_estimates = <<>> /\ r.cancel_result = None /\ r.settlement_result = None
      /\ r.disconnect_result = None
  BY DEF OrderResult
<1>2. /\ t.action = action /\ t.sequence = sequence /\ t.admission = admission
      /\ t.activation_book = None /\ t.fill_estimate = None /\ t.fee_estimates = <<>>
      /\ t.slippage_estimates = <<>> /\ t.cancel_result = x /\ t.settlement_result = None
      /\ t.disconnect_result = None
  BY DEF OrderResult
<1> HIDE DEF x, t
<1>3. ASSUME rejected(admission) PROVE ResultOK(s, r, action, sequence, cancel)
  <2>1. OrderResultValid(r)
    BY <1>1, <1>3 DEF OrderResultValid
  <2>2. Judged(s, r)
    BY <1>1 DEF Judged
  <2> QED
    BY <1>1, <1>3, <2>1, <2>2 DEF ResultOK
<1>4. ASSUME ~rejected(admission), cancel # None PROVE ResultOK(s, t, action, sequence, cancel)
  <2>1. /\ x # None /\ x.sequence = cancel.sequence /\ x.effective_at = cancel.scheduled_at
        /\ x.outcome_code = "before_activation"
    BY <1>4, CancelResultType DEF x
  <2>2. OrderResultValid(t)
    BY <1>2, <1>4, <2>1 DEF OrderResultValid
  <2>3. Judged(s, t)
    BY <1>2 DEF Judged
  <2> QED
    BY <1>2, <1>4, <2>1, <2>2, <2>3 DEF ResultOK
<1> QED
  BY <1>3, <1>4 DEF t, x

\* An order that was met by a book.
LEMMA PricedResultOK ==
  ASSUME NEW s, IsScenario(s), NEW action, NEW sequence \in Int,
         NEW admission, AdmissionValid(admission), ~rejected(admission),
         IsAccepted(action), admission.activates_at \in Int, Covered(s, action),
         NEW cancel, cancel # None => IsRequest(cancel),
         NEW book, IsBook(book), ~PostOnlyWouldCross(action, book),
         IsValid(MetBook(s, action)), book = MetBook(s, action).book,
         NEW fill, FillOK(s, action, admission.activates_at, cancel, book, fill),
         NEW out, out = PricedResult(s, sequence, action, admission, cancel, book, fill)
  PROVE  out.raised \in {None, "winner_count"} /\ ResultOK(s, out.result, action, sequence, cancel)
<1> DEFINE c == s.configuration
           late == LateCancel(cancel, sequence, fill)
           settled == EstimateSettlement(c, action, fill)
           lost == DisconnectResult(s, action, sequence, admission.activates_at, late, fill)
           fees == [i \in DOMAIN fill.components |-> FeeEstimate(c.fees, fill.components[i])]
           slips == [i \in DOMAIN fill.components |->
                       SlippageEstimate(SlippageBps(c), action.side, fill.components[i])]
           r == out.result
<1>1. /\ out.raised = (IF SettlementRaises(c, fill) THEN "winner_count" ELSE None)
      /\ r = [OrderResult(sequence, action, admission) EXCEPT
               !.activation_book = book, !.fill_estimate = fill, !.fee_estimates = fees,
               !.slippage_estimates = slips, !.cancel_result = late,
               !.settlement_result = settled, !.disconnect_result = lost]
  BY DEF PricedResult
<1>2. /\ fill # None /\ fill.components \in Seq(FillComponents)
  BY DEF FillOK
<1>3. Len(fees) = Len(fill.components) /\ Len(slips) = Len(fill.components)
  <2>1. Len(fill.components) \in Nat /\ DOMAIN fill.components = 1..Len(fill.components)
    BY <1>2
  <2>2. DOMAIN fees = 1..Len(fill.components) /\ DOMAIN slips = 1..Len(fill.components)
    BY <2>1
  <2> QED
    BY <2>1, <2>2
<1> HIDE DEF late, settled, lost, fees, slips, r
<1>4. /\ r.action = action /\ r.sequence = sequence /\ r.admission = admission
      /\ r.activation_book = book /\ r.fill_estimate = fill /\ r.fee_estimates = fees
      /\ r.slippage_estimates = slips /\ r.cancel_result = late
      /\ r.settlement_result = settled /\ r.disconnect_result = lost
  BY <1>1 DEF OrderResult
<1>5. /\ cancel = None => late = None
      /\ cancel # None => /\ late # None /\ late.sequence = cancel.sequence
                          /\ late.effective_at = cancel.scheduled_at
                          /\ late.outcome_code # "before_activation"
  <2>1. cancel = None => late = None
    BY DEF late, LateCancel
  <2>2. ASSUME cancel # None
        PROVE  /\ late # None /\ late.sequence = cancel.sequence
               /\ late.effective_at = cancel.scheduled_at
               /\ late.outcome_code # "before_activation"
    <3> DEFINE code == IF has_fill(fill) THEN "fill_race_lost" ELSE "after_activation_no_fill"
    <3>1. late = CancelResult(cancel, sequence, code)
      BY <2>2 DEF late, LateCancel
    <3>2. /\ code \in {"before_activation", "after_activation_no_fill", "fill_race_lost"}
          /\ code # "before_activation"
      OBVIOUS
    <3> HIDE DEF code
    <3> QED
      BY <2>2, <3>1, <3>2, CancelResultType
  <2> QED
    BY <2>1, <2>2
<1>6. settled # None => has_fill(fill) /\ settled.quantity = fill.filled_quantity
  BY DEF settled, EstimateSettlement, NoSettlementEstimate, BinarySettlementEstimate
<1>7. book # None
  BY NoneDiffers DEF IsBook
<1>8. OrderResultValid(r)
  BY <1>2, <1>3, <1>4, <1>5, <1>6, <1>7 DEF OrderResultValid
<1>9. ActiveOK(s, r, cancel)
  BY <1>2, <1>4 DEF ActiveOK, late, lost
<1>10. Judged(s, r)
  <2>1. r.admission.reason # "POST_ONLY_WOULD_CROSS"
    BY <1>4 DEF rejected
  <2> QED
    BY <1>4, <2>1 DEF Judged
<1> QED
  BY <1>1, <1>4, <1>5, <1>8, <1>9, <1>10 DEF ResultOK, r

\* Whatever the order, its result goes together, or the run raises for the book or the winners.
LEMMA OrderOutcome ==
  ASSUME NEW s, IsScenario(s), ConfigurationError(s.configuration) = None,
         NEW action, IsOrderAction(action), action.type = "order_intent",
         NEW sequence \in Int, NEW cancel, cancel # None => IsRequest(cancel),
         NEW out, out = RunOrderAction(s, action, sequence, cancel)
  PROVE  /\ out.raised \in {None, "book_invalid", "book_gap", "winner_count"}
         /\ out.raised = None => ResultOK(s, out.result, action, sequence, cancel)
<1> DEFINE a == OrderAdmission(s, action)
           b == OrderResult(sequence, action, a)
           p == ProjectBookUntil(s, a.activates_at)
           fill == FillRestingOrder(s, action, a.activates_at, cancel,
                                    evaluate_fill(s.configuration.fill_model, p.book, action))
<1>1. out = AdmittedOrder(s, sequence, action, a, cancel)
  BY DEF RunOrderAction, OrderAdmission
<1>2. /\ DOMAIN a = {"reason", "submitted_at", "accepted_at", "activates_at"}
      /\ AdmissionValid(a)
      /\ ~rejected(a) => IsAccepted(action) /\ a.activates_at \in Int /\ Covered(s, action)
      /\ a.reason # "POST_ONLY_WOULD_CROSS"
      /\ ~rejected(a) => p = MetBook(s, action)
  BY AdmittedOrderOK DEF MetBook
<1>3. IsProjected(p)
  BY ProjectedBook
<1> HIDE DEF a
<1>4. CASE rejected(a)
  <2>1. out.raised = None /\ out.result = b
    BY <1>1, <1>4 DEF AdmittedOrder
  <2>2. ResultOK(s, b, action, sequence, cancel)
    BY <1>2, <1>4, InactiveResultOK
  <2> QED
    BY <2>1, <2>2
<1>5. CASE ~rejected(a) /\ cancel # None /\ cancel.scheduled_at < a.activates_at
  <2> DEFINE t == [b EXCEPT !.cancel_result = CancelResult(cancel, sequence, "before_activation")]
  <2>1. out.raised = None /\ out.result = t
    BY <1>1, <1>5 DEF AdmittedOrder
  <2>2. ResultOK(s, t, action, sequence, cancel)
    BY <1>2, <1>5, InactiveResultOK
  <2> QED
    BY <2>1, <2>2
<1>6. CASE ~rejected(a) /\ ~(cancel # None /\ cancel.scheduled_at < a.activates_at)
  <2>1. out = ActivatedOrder(s, sequence, action, a, cancel, p)
    BY <1>1, <1>6 DEF AdmittedOrder
  <2> HIDE DEF p
  <2>2. CASE p.raised # None
    <3>1. out = [raised |-> p.raised, result |-> None]
      BY <2>1, <2>2 DEF ActivatedOrder
    <3>2. p.raised \in {None, "book_invalid", "book_gap"}
      BY <1>3 DEF IsProjected
    <3> QED
      BY <2>2, <3>1, <3>2
  <2>3. CASE p.raised = None /\ ~SnapshotRefused(p) /\ PostOnlyWouldCross(action, p.book)
    <3> DEFINE x == PostOnlyRejection(a)
    <3>1. out = [raised |-> None, result |-> OrderResult(sequence, action, x)]
      BY <2>1, <2>3 DEF ActivatedOrder
    <3>2. AdmissionValid(x) /\ rejected(x)
      BY <1>2 DEF PostOnlyRejection, AdmissionValid, rejected
    <3>3. WouldCross(s, action)
      BY <1>2, <1>3, <1>6, <2>3 DEF WouldCross, IsValid, IsProjected
    <3> HIDE DEF x
    <3>4. ResultOK(s, OrderResult(sequence, action, x), action, sequence, cancel)
      BY <3>2, <3>3, InactiveResultOK
    <3> QED
      BY <3>1, <3>4
  <2>4. CASE p.raised = None /\ SnapshotRefused(p)
    <3>1. out = [raised |-> "book_invalid", result |-> None]
      BY <2>1, <2>4 DEF ActivatedOrder
    <3>2. "book_invalid" # None
      BY NoneDiffers DEF Reasons
    <3> QED
      BY <3>1, <3>2
  <2>5. CASE p.raised = None /\ ~SnapshotRefused(p) /\ ~PostOnlyWouldCross(action, p.book)
    <3>1. out = PricedResult(s, sequence, action, a, cancel, p.book, fill)
      BY <2>1, <2>5 DEF ActivatedOrder
    <3>2. IsBook(p.book)
      BY <1>3 DEF IsProjected
    <3>3. FillOK(s, action, a.activates_at, cancel, p.book, fill)
      BY <1>2, <1>6, <3>2, FilledOrder
    <3>4. IsValid(MetBook(s, action)) /\ p.book = MetBook(s, action).book
      BY <1>2, <1>6, <2>5 DEF IsValid
    <3> HIDE DEF fill
    <3>5. out.raised \in {None, "winner_count"} /\ ResultOK(s, out.result, action, sequence, cancel)
      BY <1>2, <1>6, <2>5, <3>1, <3>2, <3>3, <3>4, PricedResultOK
    <3> QED
      BY <3>5
  <2> QED
    BY <2>2, <2>3, <2>4, <2>5
<1> QED
  BY <1>4, <1>5, <1>6

-----------------------------------------------------------------------------
(* The artifacts of a run                                                  *)

\* The artifacts of one order lie within the stride of its base.
LEMMA OrderArtifact ==
  ASSUME NEW index \in Nat, NEW r, NEW a \in OrderArtifacts(index, r)
  PROVE  \E p \in 1..7 : a = [sequence |-> 10 + index * 7 + (p - 1), order |-> index, part |-> p]
<1> DEFINE parts == <<TRUE, r.fill_estimate # None, r.fee_estimates # <<>>,
                      r.slippage_estimates # <<>>, r.cancel_result # None,
                      r.settlement_result # None, r.disconnect_result # None>>
<1>1. DOMAIN parts = 1..7
  OBVIOUS
<1>2. PICK p \in DOMAIN parts :
        a = [sequence |-> ArtifactBase(index) + (p - 1), order |-> index, part |-> p]
  BY DEF OrderArtifacts
<1> QED
  BY <1>1, <1>2 DEF ArtifactBase

\* An artifact of a run is the scenario's, the final book's, an order's or the legs'.
LEMMA ArtifactCases ==
  ASSUME NEW results, NEW multi_leg, NEW a \in Artifacts(results, multi_leg)
  PROVE  \/ a = [sequence |-> 0, order |-> None, part |-> 1]
         \/ a = [sequence |-> 1, order |-> None, part |-> 2]
         \/ \E k \in DOMAIN results : a \in OrderArtifacts(k - 1, results[k])
         \/ a = [sequence |-> ArtifactBase(Len(results)), order |-> None, part |-> 3]
<1>1. Artifacts(results, multi_leg)
        = ScenarioArtifacts \cup AllOrderArtifacts(results)
            \cup MultiLegArtifacts(results, multi_leg)
  BY Zenon DEF Artifacts
<1>2. \/ a \in ScenarioArtifacts \/ a \in AllOrderArtifacts(results)
      \/ a \in MultiLegArtifacts(results, multi_leg)
  BY <1>1
<1>3. a \in ScenarioArtifacts =>
         \/ a = [sequence |-> 0, order |-> None, part |-> 1]
         \/ a = [sequence |-> 1, order |-> None, part |-> 2]
  BY Zenon DEF ScenarioArtifacts
<1>4. a \in AllOrderArtifacts(results) =>
         \E k \in DOMAIN results : a \in OrderArtifacts(k - 1, results[k])
  BY Zenon DEF AllOrderArtifacts
<1>5. a \in MultiLegArtifacts(results, multi_leg) =>
         a = [sequence |-> ArtifactBase(Len(results)), order |-> None, part |-> 3]
  BY Zenon DEF MultiLegArtifacts
<1> QED
  BY <1>2, <1>3, <1>4, <1>5, Zenon

\* No two artifacts of a run have the same sequence.
LEMMA RunArtifactsUnique ==
  ASSUME NEW results, IsSequence(results), NEW multi_leg
  PROVE  ArtifactsUnique(Artifacts(results, multi_leg))
<1> DEFINE n == Len(results)
           first == [sequence |-> 0, order |-> None, part |-> 1]
           second == [sequence |-> 1, order |-> None, part |-> 2]
           last == [sequence |-> 10 + n * 7, order |-> None, part |-> 3]
           Of(k, p) == [sequence |-> 10 + (k - 1) * 7 + (p - 1), order |-> k - 1, part |-> p]
<1>1. n \in Nat /\ DOMAIN results = 1..n
  BY DEF IsSequence
<1>2. ASSUME NEW a \in Artifacts(results, multi_leg)
      PROVE  \/ a = first \/ a = second \/ a = last
             \/ \E k \in 1..n, p \in 1..7 : a = Of(k, p)
  <2>1. CASE a \in {first, second}
    BY <2>1
  <2>2. CASE \E k \in 1..n : a \in OrderArtifacts(k - 1, results[k])
    <3>1. PICK k \in 1..n : a \in OrderArtifacts(k - 1, results[k])
      BY <2>2
    <3>2. k - 1 \in Nat
      BY <1>1
    <3>3. \E p \in 1..7 : a = [sequence |-> 10 + (k - 1) * 7 + (p - 1), order |-> k - 1, part |-> p]
      BY <3>1, <3>2, OrderArtifact
    <3> QED
      BY <3>3
  <2>3. CASE a = [sequence |-> ArtifactBase(n), order |-> None, part |-> 3]
    BY <2>3 DEF ArtifactBase
  <2>4. DOMAIN results = 1..n
    BY <1>1
  <2>5. \/ a = first \/ a = second
        \/ \E k \in DOMAIN results : a \in OrderArtifacts(k - 1, results[k])
        \/ a = [sequence |-> ArtifactBase(n), order |-> None, part |-> 3]
    BY ArtifactCases, Zenon
  <2> HIDE DEF first, second, last, Of, n
  <2> QED
    BY <2>1, <2>2, <2>3, <2>4, <2>5
<1>3. /\ first.sequence = 0 /\ second.sequence = 1 /\ last.sequence = 10 + n * 7
      /\ \A k \in 1..n, p \in 1..7 :
           /\ Of(k, p).sequence = 10 + (k - 1) * 7 + (p - 1)
           /\ Of(k, p).sequence \in Int /\ 10 <= Of(k, p).sequence
           /\ Of(k, p).sequence < 10 + n * 7
  BY <1>1
<1>4. ASSUME NEW k \in 1..n, NEW p \in 1..7, NEW l \in 1..n, NEW q \in 1..7,
             Of(k, p).sequence = Of(l, q).sequence
      PROVE  Of(k, p) = Of(l, q)
  <2>1. 10 + (k - 1) * 7 + (p - 1) = 10 + (l - 1) * 7 + (q - 1)
    BY <1>3, <1>4
  <2>2. k = l /\ p = q
    BY <1>1, <2>1
  <2> QED
    BY <2>2
<1>5. ASSUME NEW k \in 1..n, NEW p \in 1..7
      PROVE  /\ Of(k, p).sequence # first.sequence /\ Of(k, p).sequence # second.sequence
             /\ Of(k, p).sequence # last.sequence
  BY <1>1
<1>6. /\ first.sequence # second.sequence /\ first.sequence # last.sequence
      /\ second.sequence # last.sequence
  BY <1>1
<1> HIDE DEF first, second, last, Of
<1>7. ASSUME NEW a \in Artifacts(results, multi_leg), NEW b \in Artifacts(results, multi_leg),
             a.sequence = b.sequence
      PROVE  a = b
  <2>1. /\ \/ a = first \/ a = second \/ a = last
           \/ \E k \in 1..n, p \in 1..7 : a = Of(k, p)
        /\ \/ b = first \/ b = second \/ b = last
           \/ \E k \in 1..n, p \in 1..7 : b = Of(k, p)
    BY <1>2
  <2>2. CASE \E k \in 1..n, p \in 1..7 : a = Of(k, p)
    <3>1. PICK k \in 1..n, p \in 1..7 : a = Of(k, p)
      BY <2>2
    <3>2. PICK l \in 1..n, q \in 1..7 : b = Of(l, q)
      BY <1>5, <1>7, <2>1, <3>1
    <3> QED
      BY <1>4, <1>7, <3>1, <3>2
  <2>3. CASE ~\E k \in 1..n, p \in 1..7 : a = Of(k, p)
    <3>1. a \in {first, second, last}
      BY <2>1, <2>3
    <3>2. b \in {first, second, last}
      BY <1>5, <1>7, <2>1, <3>1
    <3> QED
      BY <1>6, <1>7, <3>1, <3>2
  <2> QED
    BY <2>2, <2>3
<1> QED
  BY <1>7 DEF ArtifactsUnique

-----------------------------------------------------------------------------
(* Requests                                                                *)

\* A finite set of numbers has a least one.
LEMMA LeastInt ==
  ASSUME NEW S \in SUBSET Int, IsFiniteSet(S), S # {}
  PROVE  \E x \in S : \A y \in S : x <= y
<1> DEFINE n == Cardinality(S)
           a == Ascending(S)
<1>1. /\ n \in Nat /\ a \in [1..n -> S] /\ \A i, j \in 1..n : i < j => a[i] < a[j]
      /\ \A x \in S : \E i \in 1..n : a[i] = x
  BY AscendingOrder
<1> HIDE DEF n, a
<1>2. 1 \in 1..n
  <2>1. PICK x \in S : TRUE
    OBVIOUS
  <2>2. PICK i \in 1..n : a[i] = x
    BY <1>1
  <2> QED
    BY <1>1, <2>2
<1>3. a[1] \in S
  BY <1>1, <1>2
<1>4. ASSUME NEW y \in S PROVE a[1] <= y
  <2>1. PICK i \in 1..n : a[i] = y
    BY <1>1
  <2>2. \A x \in S : x \in Int
    OBVIOUS
  <2>3. a[1] \in Int /\ y \in Int
    BY <1>3, <2>2
  <2>4. CASE i = 1
    BY <2>1, <2>3, <2>4
  <2>5. CASE i # 1
    <3>1. 1 < i
      BY <1>1, <2>5
    <3> QED
      BY <1>1, <1>2, <2>1, <2>3, <3>1
  <2> QED
    BY <2>4, <2>5
<1> QED
  BY <1>3, <1>4

\* The values of a number on a finite set have a least one.
LEMMA LeastValue ==
  ASSUME NEW C, IsFiniteSet(C), C # {}, NEW F, \A i \in C : F[i] \in Int
  PROVE  \E i \in C : \A j \in C : F[i] <= F[j]
<1> DEFINE V == {F[i] : i \in C}
           f == [i \in C |-> F[i]]
<1>1. \A v \in V : v \in Int
  OBVIOUS
<1>2. V \in SUBSET Int /\ V # {}
  BY <1>1
<1>3. IsFiniteSet(V)
  <2>1. f \in [C -> V] /\ \A v \in V : \E i \in C : f[i] = v
    OBVIOUS
  <2> HIDE DEF f, V
  <2>2. f \in Surjection(C, V)
    BY <2>1 DEF Surjection
  <2> QED
    BY <2>2, FS_Surjection
<1>4. \E x \in V : \A y \in V : x <= y
  <2> HIDE DEF V
  <2> QED
    BY <1>2, <1>3, LeastInt
<1> QED
  BY <1>4

\* One of the requests that match comes before all of them.
LEMMA FirstRequest ==
  ASSUME NEW A, NEW C, IsFiniteSet(C), C # {},
         \A i \in C : A[i].sequence \in Int /\ A[i].scheduled_at \in Int
  PROVE  \E i \in C : \A j \in C : RequestBefore(A[i], A[j])
<1> DEFINE T == [i \in C |-> A[i].scheduled_at]
           S == [i \in C |-> A[i].sequence]
<1>1. \A i \in C : T[i] = A[i].scheduled_at /\ S[i] = A[i].sequence /\ T[i] \in Int /\ S[i] \in Int
  OBVIOUS
<1> HIDE DEF T, S
<1>2. PICK e \in C : \A j \in C : T[e] <= T[j]
  BY <1>1, LeastValue
<1> DEFINE D == {i \in C : T[i] = T[e]}
<1>3. D \in SUBSET C /\ D # {} /\ e \in D
  OBVIOUS
<1>4. \A i \in D : T[i] = T[e] /\ i \in C
  OBVIOUS
<1>5. \A i \in C : T[i] = T[e] => i \in D
  OBVIOUS
<1> HIDE DEF D
<1>6. IsFiniteSet(D) /\ \A i \in D : S[i] \in Int
  BY <1>1, <1>3, FS_Subset
<1>7. PICK i \in D : \A j \in D : S[i] <= S[j]
  BY <1>3, <1>6, LeastValue
<1>8. ASSUME NEW j \in C PROVE RequestBefore(A[i], A[j])
  <2>1. CASE j \in D
    BY <1>1, <1>4, <1>7, <2>1 DEF RequestBefore
  <2>2. CASE j \notin D
    <3>1. T[j] # T[e] /\ T[e] <= T[j] /\ T[i] = T[e]
      BY <1>2, <1>4, <1>5, <2>2
    <3>2. T[i] < T[j]
      BY <1>1, <3>1
    <3> QED
      BY <1>1, <1>4, <3>2 DEF RequestBefore
  <2> QED
    BY <2>1, <2>2
<1> QED
  BY <1>4, <1>8

\* The request an order is given is the first that matches.
LEMMA MatchedRequest ==
  ASSUME NEW s, IsScenario(s), NEW action, NEW used,
         NEW c, c = MatchingCancel(s, action, used)
  PROVE  \/ /\ c = None
            /\ \A i \in CancelRequests(s) : ~CancelMatches(s, s.order_actions[i], action, used)
         \/ \E i \in CancelRequests(s) :
              /\ c = s.order_actions[i] /\ c # None /\ IsRequest(c)
              /\ CancelMatches(s, c, action, used)
              /\ \A j \in CancelRequests(s) :
                   CancelMatches(s, s.order_actions[j], action, used) =>
                     RequestBefore(c, s.order_actions[j])
<1> DEFINE A == s.order_actions
           R == CancelRequests(s)
           M(i) == CancelMatches(s, A[i], action, used)
           C == {i \in R : M(i)}
<1>1. /\ Len(A) \in Nat /\ DOMAIN A = 1..Len(A)
      /\ \A i \in DOMAIN A : A[i] # None /\ A[i].sequence \in Int /\ A[i].scheduled_at \in Int
  BY DEF IsScenario, IsSequence, IsOrderAction
<1>2. R \in SUBSET (1..Len(A))
  BY <1>1 DEF CancelRequests
<1>3. IsFiniteSet(C)
  <2>1. 1 \in Int /\ Len(A) \in Int
    BY <1>1
  <2>2. IsFiniteSet(1..Len(A))
    BY <2>1, FS_Interval
  <2>3. C \in SUBSET (1..Len(A))
    BY <1>2
  <2> HIDE DEF C
  <2> QED
    BY <2>2, <2>3, FS_Subset
<1>4. CASE C = {}
  BY <1>4 DEF MatchingCancel
<1>5. CASE C # {}
  <2>1. \A i \in C : A[i].sequence \in Int /\ A[i].scheduled_at \in Int /\ A[i] # None
    BY <1>1, <1>2
  <2>2. \E i \in C : \A j \in C : RequestBefore(A[i], A[j])
    <3> HIDE DEF C
    <3> QED
      BY <1>3, <1>5, <2>1, FirstRequest
  <2> DEFINE k == CHOOSE i \in C : \A j \in C : RequestBefore(A[i], A[j])
  <2>3. k \in C /\ \A j \in C : RequestBefore(A[k], A[j])
    <3> HIDE DEF C
    <3> QED
      BY <2>2
  <2>4. c = A[k]
    BY <1>5 DEF MatchingCancel
  <2> HIDE DEF k
  <2>5. k \in R /\ M(k)
    BY <2>3
  <2>6. \A j \in R : M(j) => j \in C
    OBVIOUS
  <2>7. c # None /\ IsRequest(c)
    BY <2>1, <2>3, <2>4 DEF IsRequest
  <2> QED
    BY <2>3, <2>4, <2>5, <2>6, <2>7
<1> QED
  BY <1>4, <1>5

-----------------------------------------------------------------------------
(* The inductive invariant of the runner                                   *)

\* What the payloads of a recorded stream hold.
PayloadsOK == stage # "idle" => \A i \in DOMAIN Dataset : IsPayload(Dataset[i].payload)

\* A scenario after its construction.
Constructed(s) ==
  IsScenario(s) /\ InSequence(s.market_events) /\ InSequence(s.order_actions)

\* Where the runner is, and which scenario it has.
ScenarioOK ==
  /\ phase \in {"new", "ready", "running", "done", "raised"}
  /\ reason \in Reasons \cup {None} /\ (phase = "raised" <=> reason # None)
  /\ \/ scenario = None /\ phase \in {"new", "raised"} /\ order_results = <<>>
        /\ reason # "cancel_unmatched"
     \/ Constructed(scenario) /\ phase # "new"
  /\ phase \in {"new", "ready"} => order_results = <<>> /\ used_cancel_sequences = {}
  /\ phase = "running" => ConfigurationError(scenario.configuration) = None

\* The requests for a cancel.
Requests(s) == {s.order_actions[i] : i \in CancelRequests(s)}

\* The result of the k-th order and the request it was given: the first of those that match,
\* as far as they have not been used.
GivenOK(s, r, k, used) ==
  /\ IsOrderAction(r.action)
  /\ \E c \in {None} \cup Requests(s) :
       /\ ResultOK(s, r, r.action, k - 1, c)
       /\ c # None => CancelMatches(s, c, r.action, {})
       /\ \A d \in Requests(s) : d.sequence \notin used /\ CancelMatches(s, d, r.action, {}) =>
            c # None /\ RequestBefore(c, d)

\* The results that carry a request.
Carrying(results) == {k \in DOMAIN results : results[k].cancel_result # None}

\* The requests that count as used are the ones that results carry, each one of them.
CarriedOK(results, used) ==
  /\ used = {results[k].cancel_result.sequence : k \in Carrying(results)}
  /\ \A k, l \in Carrying(results) :
       results[k].cancel_result.sequence = results[l].cancel_result.sequence => k = l

\* Every result, and the requests that they used.
ResultsOK ==
  /\ order_results \in Seq(Results)
  /\ \A k \in DOMAIN order_results :
       GivenOK(scenario, order_results[k], k, used_cancel_sequences)
  /\ CarriedOK(order_results, used_cancel_sequences)

\* How a run ends.
EndOK ==
  /\ reason \notin {"order_result_invalid", "artifact_sequence_duplicate"}
  /\ reason = "cancel_unmatched" => UnmatchedCancels # {}
  /\ phase = "done" =>
       /\ UnmatchedCancels = {}
       /\ run.metrics.counts.cancel_action_count = Cardinality(Carrying(order_results))

\* What is true of the runner in every reachable state.
RunnerInv == PayloadsOK /\ ScenarioOK /\ ResultsOK /\ EndOK

\* Initially there is no scenario.
LEMMA RunnerInitInv == Init => RunnerInv
<1> SUFFICES ASSUME Init PROVE RunnerInv
  OBVIOUS
<1> USE DEF Init, ReplayInit, ScenarioInit
<1>1. None \notin Reasons
  BY NoneDiffers
<1>2. PayloadsOK /\ ScenarioOK
  BY <1>1 DEF PayloadsOK, ScenarioOK, Reasons
<1>3. ResultsOK
  BY DEF ResultsOK, CarriedOK, Carrying
<1>4. EndOK
  BY <1>1 DEF EndOK, Reasons
<1> QED
  BY <1>2, <1>3, <1>4 DEF RunnerInv

\* What the parts of the invariant depend on.
LEMMA RunnerKept ==
  ASSUME RunnerInv, UNCHANGED scenarioVars, PayloadsOK'
  PROVE  RunnerInv'
<1>1. ScenarioOK'
  BY DEF RunnerInv, ScenarioOK, scenarioVars
<1>2. ResultsOK'
  BY DEF RunnerInv, ResultsOK, scenarioVars, Results
<1>3. EndOK'
  BY DEF RunnerInv, EndOK, scenarioVars, UnmatchedCancels
<1> QED
  BY <1>1, <1>2, <1>3 DEF RunnerInv

\* Raising for a reason keeps what was computed.
LEMMA RaiseKeeps ==
  ASSUME RunnerInv, NEW why \in Reasons, Raise(why), UNCHANGED replayVars,
         why \notin {"order_result_invalid", "artifact_sequence_duplicate"},
         why = "cancel_unmatched" => phase = "running" /\ UnmatchedCancels # {},
         phase \in {"new", "ready", "running"}
  PROVE  RunnerInv'
<1>0. PayloadsOK'
  BY DEF RunnerInv, PayloadsOK, replayVars, Dataset
<1>1. why # None
  BY NoneDiffers
<1>2. ScenarioOK'
  BY <1>1 DEF RunnerInv, ScenarioOK, Raise
<1>3. ResultsOK'
  BY DEF RunnerInv, ResultsOK, Raise, Results
<1>4. EndOK'
  BY DEF RunnerInv, EndOK, Raise, UnmatchedCancels
<1> QED
  BY <1>0, <1>2, <1>3, <1>4 DEF RunnerInv

\* A constructed scenario is ready to run.
LEMMA DefineKeeps ==
  ASSUME RunnerInv, NEW s, IsScenario(s), DefineScenario(s), UNCHANGED replayVars
  PROVE  RunnerInv'
<1>1. phase = "new" /\ phase' = "ready" /\ scenario' = SimulationScenario(s)
      /\ ScenarioError(s) = None /\ reason = None /\ order_results = <<>>
      /\ used_cancel_sequences = {}
      /\ UNCHANGED <<reason, final_book, order_results, used_cancel_sequences, run>>
  BY DEF DefineScenario, RunnerInv, ScenarioOK
<1>2. Constructed(SimulationScenario(s))
  BY <1>1, ConstructedScenario DEF Constructed
<1>3. PayloadsOK'
  BY DEF RunnerInv, PayloadsOK, replayVars, Dataset
<1>4. ScenarioOK'
  BY <1>1, <1>2 DEF ScenarioOK
<1>5. ResultsOK'
  <2>1. order_results' = <<>> /\ DOMAIN order_results' = {} /\ used_cancel_sequences' = {}
    BY <1>1
  <2> QED
    BY <2>1 DEF ResultsOK, CarriedOK, Carrying
<1>6. EndOK'
  <2>1. None \notin Reasons
    BY NoneDiffers
  <2> QED
    BY <1>1, <2>1 DEF EndOK, Reasons
<1> QED
  BY <1>3, <1>4, <1>5, <1>6 DEF RunnerInv

\* A scenario that is refused.
LEMMA RefuseKeeps ==
  ASSUME RunnerInv, NEW s, RefuseScenario(s), UNCHANGED replayVars
  PROVE  RunnerInv'
<1> DEFINE why == ScenarioError(s)
<1>1. phase = "new" /\ why # None /\ Raise(why)
  BY DEF RefuseScenario
<1>2. why \in {"initial_book_invalid", "sequence_duplicate", "market_event_mismatch",
               "order_action_mismatch"}
  BY <1>1 DEF ScenarioError
<1> HIDE DEF why
<1>3. why \in Reasons
  BY <1>2 DEF Reasons
<1> QED
  BY <1>1, <1>2, <1>3, RaiseKeeps

\* The configuration is refused, or a projection does not reach the end.
LEMMA PrologueRaisesKeeps ==
  ASSUME RunnerInv, RefuseConfiguration \/ FinalBookRaises, UNCHANGED replayVars
  PROVE  RunnerInv'
<1>1. CASE RefuseConfiguration
  <2> DEFINE why == ConfigurationError(scenario.configuration)
  <2>1. phase = "ready" /\ why # None /\ Raise(why)
    BY <1>1 DEF RefuseConfiguration
  <2>2. why \in {"latency", "fill_model", "fees", "slippage", "settlement", "winners", "balance",
                 "disconnect"}
    BY <2>1 DEF ConfigurationError
  <2> HIDE DEF why
  <2>3. why \in Reasons
    BY <2>2 DEF Reasons
  <2> QED
    BY <2>1, <2>2, <2>3, RaiseKeeps
<1>2. CASE FinalBookRaises
  <2> DEFINE p == ProjectBookUntil(scenario, None)
  <2>1. phase = "ready" /\ p.raised # None /\ Raise(p.raised)
    BY <1>2 DEF FinalBookRaises
  <2>2. IsScenario(scenario)
    BY <2>1 DEF RunnerInv, ScenarioOK, Constructed
  <2>3. p.raised \in {None, "book_invalid", "book_gap"}
    BY <2>2, ProjectedBook DEF IsProjected
  <2> HIDE DEF p
  <2>4. p.raised \in Reasons /\ p.raised \in {"book_invalid", "book_gap"}
    BY <2>1, <2>3 DEF Reasons
  <2> QED
    BY <2>1, <2>4, RaiseKeeps
<1> QED
  BY <1>1, <1>2

\* The loop starts.
LEMMA StartRunKeeps ==
  ASSUME RunnerInv, StartRun, UNCHANGED replayVars
  PROVE  RunnerInv'
<1>1. /\ phase = "ready" /\ phase' = "running"
      /\ ConfigurationError(scenario.configuration) = None
      /\ UNCHANGED <<reason, scenario, order_results, used_cancel_sequences, run>>
  BY DEF StartRun
<1>2. PayloadsOK'
  BY DEF RunnerInv, PayloadsOK, replayVars, Dataset
<1>3. ScenarioOK'
  BY <1>1 DEF RunnerInv, ScenarioOK
<1>4. ResultsOK'
  BY <1>1 DEF RunnerInv, ResultsOK, Results
<1>5. EndOK'
  BY <1>1 DEF RunnerInv, EndOK, UnmatchedCancels
<1> QED
  BY <1>2, <1>3, <1>4, <1>5 DEF RunnerInv

\* The order the loop takes, with the request it is given.
LEMMA NextOrderOK ==
  ASSUME RunnerInv, MoreOrders,
         NEW c, c = MatchingCancel(scenario, NextAction, used_cancel_sequences),
         NEW out, out = NextOrder(NextAction)
  PROVE  /\ out.raised \in {None, "book_invalid", "book_gap", "winner_count"}
         /\ out.raised = None =>
              ResultOK(scenario, out.result, NextAction, Len(order_results), c)
         /\ Constructed(scenario) /\ Len(order_results) \in Nat /\ IsOrderAction(NextAction)
         /\ phase = "running" /\ reason = None
<1>1. /\ phase = "running" /\ Len(order_results) < Len(OrderIntents(scenario))
      /\ Constructed(scenario) /\ ConfigurationError(scenario.configuration) = None
      /\ reason = None
  BY DEF MoreOrders, RunnerInv, ScenarioOK
<1>2. IsScenario(scenario) /\ IsSequence(scenario.order_actions)
  BY <1>1 DEF Constructed, IsScenario
<1>3. Len(order_results) \in Nat
  BY DEF RunnerInv, ResultsOK
<1>4. NextAction # None /\ IsOrderAction(NextAction) /\ NextAction.type = "order_intent"
  <2>1. Len(order_results) + 1 \in 1..Len(OrderIntents(scenario))
    BY <1>1, <1>2, <1>3, IntentsAreActions
  <2>2. PICK i \in DOMAIN scenario.order_actions :
          /\ NextAction = scenario.order_actions[i]
          /\ scenario.order_actions[i].type = "order_intent"
    BY <1>2, <2>1, IntentsAreActions DEF NextAction
  <2> QED
    BY <1>2, <2>2 DEF IsScenario, IsOrderAction
<1>5. c # None => IsRequest(c)
  BY <1>2, MatchedRequest
<1>6. out = RunOrderAction(scenario, NextAction, Len(order_results), c)
  BY DEF NextOrder
<1>7. Len(order_results) \in Int
  BY <1>3
<1>8. /\ out.raised \in {None, "book_invalid", "book_gap", "winner_count"}
      /\ out.raised = None =>
           ResultOK(scenario, out.result, NextAction, Len(order_results), c)
  BY <1>1, <1>2, <1>4, <1>5, <1>6, <1>7, OrderOutcome
<1> QED
  BY <1>1, <1>3, <1>4, <1>8

\* An order for which the run raises.
LEMMA OrderRaisesKeeps ==
  ASSUME RunnerInv, OrderRaises, UNCHANGED replayVars
  PROVE  RunnerInv'
<1> DEFINE out == NextOrder(NextAction)
           why == OrderError(out)
           c == MatchingCancel(scenario, NextAction, used_cancel_sequences)
<1>1. MoreOrders /\ why # None /\ Raise(why)
  BY DEF OrderRaises
<1>2. /\ out.raised \in {None, "book_invalid", "book_gap", "winner_count"}
      /\ out.raised = None =>
           ResultOK(scenario, out.result, NextAction, Len(order_results), c)
      /\ phase = "running"
  BY <1>1, NextOrderOK
<1> HIDE DEF out, c
<1>3. out.raised = None => OrderResultValid(out.result)
  BY <1>2 DEF ResultOK
<1>4. why \in {"book_invalid", "book_gap", "winner_count"}
  BY <1>1, <1>2, <1>3 DEF OrderError
<1> HIDE DEF why
<1>5. why \in Reasons
  BY <1>4 DEF Reasons
<1> QED
  BY <1>1, <1>2, <1>4, <1>5, RaiseKeeps

\* A matching request is one that matches when none is used, and is not used.
LEMMA MatchesUnused ==
  ASSUME NEW s, NEW c, NEW action, NEW used
  PROVE  CancelMatches(s, c, action, used)
           <=> c.sequence \notin used /\ CancelMatches(s, c, action, {})
BY DEF CancelMatches

\* The order of the loop is given the first of the requests that are left.
LEMMA OrderIsGiven ==
  ASSUME NEW s, IsScenario(s), NEW action, IsOrderAction(action), NEW used, NEW k \in Int,
         NEW r,
         ResultOK(s, r, action, k - 1, MatchingCancel(s, action, used))
  PROVE  /\ GivenOK(s, r, k, used)
         /\ r.cancel_result # None => r.cancel_result.sequence \notin used
<1> DEFINE c == MatchingCancel(s, action, used)
           A == s.order_actions
<1>1. \/ /\ c = None
         /\ \A i \in CancelRequests(s) : ~CancelMatches(s, A[i], action, used)
      \/ \E i \in CancelRequests(s) :
              /\ c = A[i] /\ c # None
              /\ CancelMatches(s, c, action, used)
              /\ \A j \in CancelRequests(s) :
                   CancelMatches(s, A[j], action, used) => RequestBefore(c, A[j])
  BY MatchedRequest
<1> HIDE DEF c
<1>2. \/ /\ c = None
         /\ \A d \in Requests(s) : ~CancelMatches(s, d, action, used)
      \/ /\ c \in Requests(s) /\ c # None
         /\ CancelMatches(s, c, action, used)
         /\ \A d \in Requests(s) : CancelMatches(s, d, action, used) => RequestBefore(c, d)
  BY <1>1 DEF Requests
<1>3. ResultOK(s, r, action, k - 1, c)
  BY DEF c
<1>4. r.action = action
  BY <1>3 DEF ResultOK
<1>5. c \in {None} \cup Requests(s)
  BY <1>2
<1>6. c # None => CancelMatches(s, c, action, {}) /\ c.sequence \notin used
  BY <1>2, MatchesUnused
<1>7. \A d \in Requests(s) : d.sequence \notin used /\ CancelMatches(s, d, action, {}) =>
        c # None /\ RequestBefore(c, d)
  BY <1>2, MatchesUnused
<1>8. GivenOK(s, r, k, used)
  BY <1>3, <1>4, <1>5, <1>6, <1>7 DEF GivenOK
<1>9. r.cancel_result # None => r.cancel_result.sequence \notin used
  BY <1>3, <1>6 DEF ResultOK
<1> QED
  BY <1>8, <1>9

\* A result keeps the request it was given when more requests are used.
LEMMA GivenStays ==
  ASSUME NEW s, NEW r, NEW k, NEW used, NEW more, used \subseteq more, GivenOK(s, r, k, used)
  PROVE  GivenOK(s, r, k, more)
BY DEF GivenOK

\* Carrying one more request that was not used.
LEMMA CarryOne ==
  ASSUME NEW n \in Nat, NEW results, DOMAIN results = 1..n, NEW used, CarriedOK(results, used),
         NEW r, r.cancel_result # None => r.cancel_result.sequence \notin used,
         NEW longer, DOMAIN longer = 1..(n + 1), longer[n + 1] = r,
         \A i \in 1..n : longer[i] = results[i],
         NEW more, more = used \cup UsedBy(r)
  PROVE  CarriedOK(longer, more)
<1>1. DOMAIN results = 1..n
  OBVIOUS
<1>2. DOMAIN longer = 1..(n + 1) /\ longer[n + 1] = r /\ \A i \in 1..n : longer[i] = results[i]
  OBVIOUS
<1>3. Carrying(longer) = Carrying(results) \cup (IF r.cancel_result = None THEN {} ELSE {n + 1})
  <2>1. 1..(n + 1) = (1..n) \cup {n + 1} /\ n + 1 \notin 1..n
    BY <1>1
  <2> QED
    BY <1>1, <1>2, <2>1 DEF Carrying
<1>4. \A k \in Carrying(results) : longer[k] = results[k] /\ k # n + 1
  BY <1>1, <1>2 DEF Carrying
<1>5. CASE r.cancel_result = None
  <2>1. Carrying(longer) = Carrying(results) /\ more = used
    BY <1>3, <1>5 DEF UsedBy
  <2> QED
    BY <1>4, <2>1 DEF CarriedOK
<1>6. CASE r.cancel_result # None
  <2>1. /\ Carrying(longer) = Carrying(results) \cup {n + 1}
        /\ more = used \cup {r.cancel_result.sequence}
    BY <1>3, <1>6 DEF UsedBy
  <2>2. /\ used = {results[k].cancel_result.sequence : k \in Carrying(results)}
        /\ \A k, l \in Carrying(results) :
             results[k].cancel_result.sequence = results[l].cancel_result.sequence => k = l
    BY DEF CarriedOK
  <2>3. more = {longer[k].cancel_result.sequence : k \in Carrying(longer)}
    BY <1>2, <1>4, <2>1, <2>2
  <2>4. \A k \in Carrying(results) :
          longer[k].cancel_result.sequence # longer[n + 1].cancel_result.sequence
    <3>1. \A k \in Carrying(results) : results[k].cancel_result.sequence \in used
      BY <2>2
    <3> QED
      BY <1>2, <1>4, <1>6, <3>1
  <2>5. \A k, l \in Carrying(longer) :
          longer[k].cancel_result.sequence = longer[l].cancel_result.sequence => k = l
    BY <1>4, <2>1, <2>2, <2>4
  <2> QED
    BY <2>3, <2>5 DEF CarriedOK
<1> QED
  BY <1>5, <1>6

\* One turn of the loop.
LEMMA RunOrderKeeps ==
  ASSUME RunnerInv, RunOrder, UNCHANGED replayVars
  PROVE  RunnerInv'
<1> DEFINE out == NextOrder(NextAction)
           r == out.result
           c == MatchingCancel(scenario, NextAction, used_cancel_sequences)
           n == Len(order_results)
<1>1. /\ MoreOrders /\ OrderError(out) = None
      /\ order_results' = Append(order_results, r)
      /\ used_cancel_sequences' = used_cancel_sequences \cup UsedBy(r)
      /\ UNCHANGED <<phase, reason, scenario, final_book, run>>
  BY DEF RunOrder
<1>2. /\ out.raised \in {None, "book_invalid", "book_gap", "winner_count"}
      /\ out.raised = None => ResultOK(scenario, r, NextAction, n, c)
      /\ Constructed(scenario) /\ n \in Nat /\ IsOrderAction(NextAction)
      /\ phase = "running" /\ reason = None
  BY <1>1, NextOrderOK
<1> HIDE DEF out, c
<1>3. out.raised = None
  BY <1>1 DEF OrderError
<1> HIDE DEF r
<1>4. /\ order_results \in Seq(Results) /\ CarriedOK(order_results, used_cancel_sequences)
      /\ \A k \in DOMAIN order_results :
           GivenOK(scenario, order_results[k], k, used_cancel_sequences)
  BY DEF RunnerInv, ResultsOK
<1>5. /\ GivenOK(scenario, r, n + 1, used_cancel_sequences)
      /\ r.cancel_result # None => r.cancel_result.sequence \notin used_cancel_sequences
  <2>1. n + 1 \in Int /\ (n + 1) - 1 = n
    BY <1>2
  <2>2. ResultOK(scenario, r, NextAction, (n + 1) - 1, c)
    BY <1>2, <1>3, <2>1
  <2>3. IsScenario(scenario)
    BY <1>2 DEF Constructed
  <2> HIDE DEF n
  <2> QED
    BY <1>2, <2>1, <2>2, <2>3, OrderIsGiven DEF c
<1>6. /\ DOMAIN order_results' = 1..(n + 1) /\ order_results'[n + 1] = r
      /\ DOMAIN order_results = 1..n
      /\ \A k \in 1..n : order_results'[k] = order_results[k]
  BY <1>1, <1>4
<1>7. CarriedOK(order_results', used_cancel_sequences')
  <2> HIDE DEF n
  <2> QED
    BY <1>1, <1>2, <1>4, <1>5, <1>6, CarryOne
<1>8. Results' = Results \cup {r} /\ order_results' \in Seq(Results')
  <2>1. Results' = {order_results'[k] : k \in DOMAIN order_results'}
    BY DEF Results
  <2>2. Results' = Results \cup {r}
    BY <1>2, <1>6, <2>1 DEF Results
  <2>3. order_results \in Seq(Results \cup {r}) /\ r \in Results \cup {r}
    BY <1>4
  <2>4. Append(order_results, r) \in Seq(Results \cup {r})
    <3> DEFINE T == Results \cup {r}
    <3> HIDE DEF T
    <3>1. order_results \in Seq(T) /\ r \in T
      BY <2>3 DEF T
    <3> QED
      BY <3>1 DEF T
  <2> QED
    BY <1>1, <2>2, <2>4
<1>9. \A k \in DOMAIN order_results' :
        GivenOK(scenario', order_results'[k], k, used_cancel_sequences')
  <2>1. used_cancel_sequences \subseteq used_cancel_sequences' /\ scenario' = scenario
    BY <1>1
  <2>2. ASSUME NEW k \in 1..(n + 1)
        PROVE  GivenOK(scenario, order_results'[k], k, used_cancel_sequences)
    BY <1>2, <1>4, <1>5, <1>6
  <2> QED
    BY <1>6, <2>1, <2>2, GivenStays
<1>10. ResultsOK'
  BY <1>7, <1>8, <1>9 DEF ResultsOK
<1>11. ScenarioOK'
  BY <1>1, <1>2 DEF RunnerInv, ScenarioOK
<1>12. PayloadsOK'
  BY DEF RunnerInv, PayloadsOK, replayVars, Dataset
<1>13. EndOK'
  <2>1. None \notin Reasons
    BY NoneDiffers
  <2> QED
    BY <1>1, <1>2, <2>1 DEF EndOK, Reasons
<1> QED
  BY <1>10, <1>11, <1>12, <1>13 DEF RunnerInv

\* The run ends.
LEMMA FinishKeeps ==
  ASSUME RunnerInv, FinishRun, UNCHANGED replayVars
  PROVE  RunnerInv'
<1> DEFINE m == MultiLegImbalance(scenario.configuration, order_results)
<1>1. /\ phase = "running" /\ phase' = "done"
      /\ FinishError(scenario, order_results) = None
      /\ run'.metrics = Metrics(scenario, order_results, m)
      /\ UNCHANGED <<reason, scenario, final_book, order_results, used_cancel_sequences>>
  BY DEF FinishRun, LoopDone
<1> HIDE DEF m
<1>2. UnmatchedCancels = {}
  <2>1. "cancel_unmatched" # None
    BY NoneDiffers DEF Reasons
  <2> QED
    BY <1>1, <2>1 DEF FinishError
<1>3. run'.metrics.counts.cancel_action_count = Cardinality(Carrying(order_results))
  <2>1. Metrics(scenario, order_results, m).counts = CountMetrics(scenario, order_results)
    BY DEF Metrics
  <2>2. CountMetrics(scenario, order_results).cancel_action_count
          = Cardinality(Carrying(order_results))
    BY DEF CountMetrics, CountOf, Carrying
  <2> QED
    BY <1>1, <2>1, <2>2
<1>4. PayloadsOK'
  BY DEF RunnerInv, PayloadsOK, replayVars, Dataset
<1>5. ScenarioOK'
  BY <1>1 DEF RunnerInv, ScenarioOK
<1>6. ResultsOK'
  BY <1>1 DEF RunnerInv, ResultsOK, Results
<1>7. EndOK'
  BY <1>1, <1>2, <1>3 DEF RunnerInv, EndOK, UnmatchedCancels
<1> QED
  BY <1>4, <1>5, <1>6, <1>7 DEF RunnerInv

\* The end of the run raises.
LEMMA FinishRaisesKeeps ==
  ASSUME RunnerInv, FinishRaises, UNCHANGED replayVars
  PROVE  RunnerInv'
<1> DEFINE why == FinishError(scenario, order_results)
<1>1. phase = "running" /\ why # None /\ Raise(why)
  BY DEF FinishRaises, LoopDone
<1>2. ArtifactsUnique(Artifacts(order_results,
                                MultiLegImbalance(scenario.configuration, order_results)))
  <2>1. IsSequence(order_results)
    BY DEF RunnerInv, ResultsOK, IsSequence
  <2> QED
    BY <2>1, RunArtifactsUnique
<1>3. /\ why \in {"cancel_unmatched", "multi_leg", "final_book_invalid"}
      /\ why = "cancel_unmatched" => UnmatchedCancels # {}
  BY <1>1, <1>2 DEF FinishError
<1> HIDE DEF why
<1>4. why \in Reasons
  BY <1>3 DEF Reasons
<1>5. Constructed(scenario)
  BY <1>1 DEF RunnerInv, ScenarioOK
<1> QED
  BY <1>1, <1>3, <1>4, <1>5, RaiseKeeps

\* The events collected from a replay are instances of their schema.
LEMMA CollectedEvents ==
  ASSUME ReplayInv, PayloadsOK, stage = "completed"
  PROVE  /\ IsSequence(Collected)
         /\ \A i \in DOMAIN Collected : IsMarketEvent(Collected[i]) /\ Collected[i].sequence = i
<1> DEFINE seen == published[runs]
<1>1. seen \in Seq(Seen)
  <2>1. runs \in 1..Len(published) /\ published \in Seq(Seq(Seen))
    BY DEF ReplayInv, PublishedOK, LoopOK
  <2> QED
    BY <2>1
<1>2. \A i \in DOMAIN seen : seen[i] \in Seen
  BY <1>1
<1>3. Len(seen) \in Nat /\ DOMAIN seen = 1..Len(seen)
  BY <1>1
<1> HIDE DEF seen
<1>4. \A i \in DOMAIN seen : seen[i].at \in Int /\ IsPayload(seen[i].event.payload)
  BY <1>2 DEF Seen, PayloadsOK
<1>5. /\ DOMAIN Collected = 1..Len(seen)
      /\ \A i \in 1..Len(seen) : Collected[i] = [sequence |-> i, scheduled_at |-> seen[i].at,
                                                 payload |-> seen[i].event.payload]
      /\ Len(Collected) = Len(seen)
  <2>1. Collected = [i \in 1..Len(seen) |-> [sequence |-> i, scheduled_at |-> seen[i].at,
                                             payload |-> seen[i].event.payload]]
    BY <1>3 DEF Collected, seen
  <2> QED
    BY <1>3, <2>1
<1>6. ASSUME NEW i \in 1..Len(seen)
      PROVE  IsMarketEvent(Collected[i]) /\ Collected[i].sequence = i
  <2>1. i \in Int /\ i \in DOMAIN seen
    BY <1>3
  <2>2. /\ Collected[i].sequence = i /\ Collected[i].scheduled_at = seen[i].at
        /\ Collected[i].payload = seen[i].event.payload
    BY <1>5
  <2> QED
    BY <1>4, <2>1, <2>2 DEF IsMarketEvent
<1> QED
  BY <1>3, <1>5, <1>6 DEF IsSequence

\* So the scenario a caller makes of them is one.
LEMMA ReplayedScenario ==
  ASSUME ReplayInv, PayloadsOK, stage = "completed", NEW plan \in Plans
  PROVE  /\ IsScenario([plan EXCEPT !.market_events = Collected])
         /\ [plan EXCEPT !.market_events = Collected].market_events = Collected
<1> DEFINE s == [plan EXCEPT !.market_events = Collected]
<1>1. IsScenario(plan)
  BY SchemaAssumption DEF SchemaAssumption
<1>2. "market_events" \in DOMAIN plan
  BY <1>1 DEF IsScenario
<1>3. /\ DOMAIN s = DOMAIN plan /\ s.market_events = Collected
      /\ s.initial_book = plan.initial_book /\ s.configuration = plan.configuration
      /\ s.order_actions = plan.order_actions
  BY <1>2
<1> HIDE DEF s
<1>4. IsScenario(s)
  BY <1>1, <1>3, CollectedEvents DEF IsScenario
<1> QED
  BY <1>3, <1>4 DEF s

\* A step of replay leaves the runner alone.
LEMMA ReplayFirstKeeps ==
  ASSUME RunnerInv, ReplayFirst
  PROVE  RunnerInv'
<1>1. UNCHANGED scenarioVars
  BY DEF ReplayFirst
<1>2. PayloadsOK'
  <2>1. CASE \E r \in Recordings : \/ Load(r.files, r.paths, r.created_at)
                                   \/ RefuseDataset(r.files, r.paths, r.created_at)
    <3>1. PICK r \in Recordings : files' = r.files
      BY <2>1 DEF Load, RefuseDataset
    <3> QED
      BY <3>1, SchemaAssumption DEF SchemaAssumption, PayloadsOK, Dataset
  <2>2. CASE ReplayStep
    <3>1. files' = files /\ stage # "idle"
      BY <2>2 DEF ReplayStep, StartReplay, OrderingRaises, AdvanceClock, TimeReversed,
                  PublishEvent, PublishFails, SleepOnClock, CompleteReplay, SessionRefused,
                  ResetClock
    <3> QED
      BY <3>1 DEF RunnerInv, PayloadsOK, Dataset
  <2> QED
    BY <2>1, <2>2 DEF ReplayFirst
<1> QED
  BY <1>1, <1>2, RunnerKept

\* Every step keeps the invariant of the runner.
LEMMA RunnerNextInv == ReplayInv /\ RunnerInv /\ [Next]_vars => RunnerInv'
<1> SUFFICES ASSUME ReplayInv, RunnerInv, [Next]_vars PROVE RunnerInv'
  OBVIOUS
<1>1. CASE ReplayFirst
  BY <1>1, ReplayFirstKeeps
<1>2. CASE DefineReplayed
  <2>1. PICK plan \in Plans : DefineScenario([plan EXCEPT !.market_events = Collected])
    BY <1>2 DEF DefineReplayed
  <2>2. stage = "completed" /\ UNCHANGED replayVars /\ PayloadsOK
    BY <1>2 DEF DefineReplayed, RunnerInv
  <2>3. IsScenario([plan EXCEPT !.market_events = Collected])
    BY <2>2, ReplayedScenario
  <2> QED
    BY <2>1, <2>2, <2>3, DefineKeeps
<1>3. CASE DefineFixture
  <2>1. PICK family \in Fixtures : \E s \in family : DefineScenario(s) \/ RefuseScenario(s)
    BY <1>3 DEF DefineFixture
  <2>2. PICK s \in family : DefineScenario(s) \/ RefuseScenario(s)
    BY <2>1
  <2>3. IsScenario(s) /\ UNCHANGED replayVars
    BY <1>3, SchemaAssumption DEF SchemaAssumption, DefineFixture
  <2> QED
    BY <2>2, <2>3, DefineKeeps, RefuseKeeps
<1>4. CASE Simulate
  <2>1. UNCHANGED replayVars
    BY <1>4 DEF Simulate
  <2> QED
    BY <1>4, <2>1, StartRunKeeps, PrologueRaisesKeeps, RunOrderKeeps, OrderRaisesKeeps,
       FinishKeeps, FinishRaisesKeeps DEF Simulate, RunStep
<1>5. CASE UNCHANGED vars
  <2>1. UNCHANGED scenarioVars /\ UNCHANGED replayVars
    BY <1>5 DEF vars
  <2>2. PayloadsOK'
    BY <2>1 DEF RunnerInv, PayloadsOK, replayVars, Dataset
  <2> QED
    BY <2>1, <2>2, RunnerKept
<1> QED
  BY <1>1, <1>2, <1>3, <1>4, <1>5 DEF Next

\* The invariant of the runner holds in every state, for all recordings, plans and scenarios.
THEOREM RunnerInductive == Spec => []RunnerInv
<1>1. Init => RunnerInv
  BY RunnerInitInv
<1>2. ReplayInv /\ RunnerInv /\ [Next]_vars => RunnerInv'
  BY RunnerNextInv
<1> QED
  BY <1>1, <1>2, ReplayInductive, PTL DEF Spec

\* A run is only refused for what its scenario says: whatever the orders, the results, the
\* artifact sequences and the run the runner builds pass the checks of their own constructors
\* (SimulatedScenarioOrderResult.__post_init__, _normalize_artifacts).
THEOREM RunnerAcceptsItsOutputHolds == Spec => []RunnerAcceptsItsOutput
<1>1. RunnerInv => RunnerAcceptsItsOutput
  BY DEF RunnerInv, EndOK, RunnerAcceptsItsOutput
<1> QED
  BY <1>1, RunnerInductive, PTL

-----------------------------------------------------------------------------
(* What the invariant says of an order that was met by a book              *)

\* An active result, with the request it was given.
LEMMA ActiveResult ==
  ASSUME RunnerInv, NEW r \in Results, Active(r)
  PROVE  /\ IsScenario(scenario) /\ r.sequence \in Int
         /\ \E c \in {None} \cup Requests(scenario) :
              /\ ActiveOK(scenario, r, c)
              /\ c = None => r.cancel_result = None
              /\ c # None => /\ r.cancel_result # None
                             /\ r.cancel_result.effective_at = c.scheduled_at
<1>1. PICK k \in DOMAIN order_results : r = order_results[k]
  BY DEF Results
<1>2. GivenOK(scenario, r, k, used_cancel_sequences)
  BY <1>1 DEF RunnerInv, ResultsOK
<1>3. order_results # <<>>
  BY <1>1
<1>4. IsScenario(scenario)
  BY <1>3 DEF RunnerInv, ScenarioOK, Constructed
<1>5. PICK c \in {None} \cup Requests(scenario) : ResultOK(scenario, r, r.action, k - 1, c)
  BY <1>2 DEF GivenOK
<1>6. ~rejected(r.admission) /\ ActiveOK(scenario, r, c)
  BY <1>5 DEF ResultOK, Active
<1>7. /\ c = None => r.cancel_result = None
      /\ c # None => /\ r.cancel_result # None
                     /\ r.cancel_result.effective_at = c.scheduled_at
  BY <1>5, <1>6 DEF ResultOK
<1>8. r.sequence \in Int
  <2>1. r.sequence = k - 1
    BY <1>5 DEF ResultOK
  <2>2. k \in 1..Len(order_results) /\ Len(order_results) \in Nat
    BY DEF RunnerInv, ResultsOK
  <2> QED
    BY <2>1, <2>2
<1> QED
  BY <1>4, <1>6, <1>7, <1>8

\* The balance an order was admitted against covers what its fills cost.
THEOREM FillsWithinBalanceHolds == Spec => []FillsWithinBalance
<1>1. RunnerInv => FillsWithinBalance
  <2> SUFFICES ASSUME RunnerInv, NEW r \in Results, Active(r),
                      scenario.configuration.balance # None
               PROVE  Cost(r.action.side, r.fill_estimate.components)
                        <= scenario.configuration.balance
    BY DEF FillsWithinBalance, Cost
  <2> DEFINE fill == r.fill_estimate
             unit == UnitCost(r.action.side, r.action.limit_price)
             balance == scenario.configuration.balance
  <2>1. PICK c : ActiveOK(scenario, r, c)
    BY ActiveResult
  <2>2. balance \in Int
    BY ActiveResult DEF IsScenario, IsConfiguration
  <2>3. /\ IsAccepted(r.action) /\ Covered(scenario, r.action)
        /\ FillOK(scenario, r.action, r.admission.activates_at, c, r.activation_book, fill)
    BY <2>1 DEF ActiveOK
  <2>4. r.action.quantity \in Nat /\ unit \in Nat
    BY <2>3, AcceptedType
  <2>5. r.action.quantity * unit <= balance
    BY <2>3 DEF Covered
  <2>6. /\ fill.remaining_quantity \in Nat
        /\ fill.filled_quantity = r.action.quantity - fill.remaining_quantity
        /\ fill.components \in Seq(FillComponents)
        /\ Cost(r.action.side, fill.components) <= unit * fill.filled_quantity
    BY <2>3 DEF FillOK
  <2>7. Cost(r.action.side, fill.components) \in Int
    <3>1. [price |-> 0, quantity |-> 0, liquidity_role |-> "MAKER"] \in FillComponents
      BY DEF FillComponents, LiquidityRoles
    <3> QED
      BY <2>6, <3>1, CostAppended
  <2> DEFINE q == r.action.quantity
             rest == fill.remaining_quantity
             cost == Cost(r.action.side, fill.components)
  <2>8. cost <= unit * (q - rest) /\ cost \in Int /\ q \in Nat /\ rest \in Nat
        /\ q * unit <= balance
    BY <2>4, <2>5, <2>6, <2>7
  <2> HIDE DEF cost, unit, q, rest, balance
  <2>9. unit * (q - rest) = q * unit - unit * rest /\ unit * rest \in Nat
    BY <2>4, <2>8
  <2>10. unit * (q - rest) <= q * unit
    BY <2>4, <2>8, <2>9
  <2>11. cost <= balance
    <3>1. q * unit \in Int /\ unit * (q - rest) \in Int
      BY <2>4, <2>8
    <3> QED
      BY <2>2, <2>8, <2>10, <3>1
  <2> QED
    BY <2>11 DEF cost, balance
<1> QED
  BY <1>1, RunnerInductive, PTL

\* The depth an order reaches is the total of the levels that are executable for it.
LEMMA DepthShown ==
  ASSUME NEW levels \in Seq(BookLevels), NEW intent, NEW touch,
         NEW shown,
         shown = {i \in DOMAIN levels :
                    IsExecutable(intent.side, intent.limit_price, levels[i].price, touch)}
  PROVE  /\ Total([i \in shown |-> levels[i].quantity]) = Depth(levels, intent, touch, Len(levels))
         /\ shown = {} => Depth(levels, intent, touch, Len(levels)) = 0
<1> DEFINE n == Len(levels)
           F == [i \in shown |-> levels[i].quantity]
           G == [i \in 1..n |-> levels[i].quantity]
<1>1. n \in Nat /\ DOMAIN levels = 1..n
  OBVIOUS
<1>2. shown = Reached(levels, intent, touch, n) /\ shown \in SUBSET (1..n)
  BY <1>1 DEF Reached
<1>3. IsFiniteSet(shown)
  <2>1. 1 \in Int /\ n \in Int
    BY <1>1
  <2> HIDE DEF n
  <2> QED
    BY <1>2, <2>1, FS_Interval, FS_Subset
<1>4. \A i \in shown : F[i] = G[i]
  BY <1>2
<1>5. Total(F) = SumOver(F, shown)
  <2>1. DOMAIN F = shown
    OBVIOUS
  <2> HIDE DEF F
  <2> QED
    BY <2>1, TotalIsSum
<1>6. Depth(levels, intent, touch, n) = SumOver(G, shown)
  BY <1>2 DEF Depth
<1> HIDE DEF F, G
<1>7. SumOver(F, shown) = SumOver(G, shown) /\ (shown = {} => SumOver(G, shown) = 0)
  <2>1. SumOver(F, shown) = SumOver(G, shown)
    BY <1>3, <1>4, SumEqual
  <2>2. SumOver(G, {}) = 0
    BY <1>3, SumStep
  <2> QED
    BY <2>1, <2>2, Zenon
<1> QED
  BY <1>5, <1>6, <1>7 DEF F

\* An order with a level it may execute against crosses the spread.
LEMMA TakingCrosses ==
  ASSUME NEW book, IsBook(book), NEW intent, IsAccepted(intent), NEW touch \in BOOLEAN,
         NEW levels, levels = OppositeSideLevels(book, intent.side), NEW i \in DOMAIN levels,
         IsExecutable(intent.side, intent.limit_price, levels[i].price, touch)
  PROVE  CrossesSpread(book, intent.side, intent.limit_price)
<1>1. /\ levels \in Seq(BookLevels)
      /\ \A k, j \in 1..Len(levels) :
           k < j /\ IsExecutable(intent.side, intent.limit_price, levels[j].price, touch) =>
             IsExecutable(intent.side, intent.limit_price, levels[k].price, touch)
  BY OppositeSide
<1>2. Len(levels) \in Nat /\ DOMAIN levels = 1..Len(levels) /\ levels # <<>>
  BY <1>1
<1>3. 1 \in 1..Len(levels) /\ (i = 1 \/ 1 < i)
  BY <1>2
<1>4. IsExecutable(intent.side, intent.limit_price, levels[1].price, touch)
  BY <1>1, <1>2, <1>3
<1>5. levels[1] \in BookLevels
  BY <1>1, <1>3
<1>6. levels[1].price \in Int /\ Head(levels) = levels[1]
  BY <1>1, <1>2, <1>5 DEF BookLevels
<1>7. intent.limit_price \in Int /\ intent.side \in {"BUY", "SELL"}
  BY AcceptedType
<1>8. IF intent.side = "BUY" THEN intent.limit_price >= levels[1].price
      ELSE intent.limit_price <= levels[1].price
  BY <1>4, <1>6, <1>7 DEF IsExecutable
<1> QED
  BY <1>2, <1>6, <1>8 DEF CrossesSpread, OppositeSideLevels

\* A post-only order that does not cross when it is checked does not cross the spread.
LEMMA PostOnlyRests ==
  ASSUME NEW book, IsBook(book), NEW intent, IsAccepted(intent), intent.post_only,
         ~PostOnlyWouldCross(intent, book)
  PROVE  ~CrossesSpread(book, intent.side, intent.limit_price)
<1>1. intent.limit_price \in Int /\ intent.limit_price # None /\ intent.side \in {"BUY", "SELL"}
  BY AcceptedType, NoneDiffers
<1>2. book.asks \in Seq(BookLevels) /\ book.bids \in Seq(BookLevels)
  BY DEF IsBook, Snapshots
<1>3. ASSUME NEW side \in Seq(BookLevels), side # <<>> PROVE Head(side).price \in Int
  <2>1. side[1] \in BookLevels /\ Head(side) = side[1]
    BY <1>3
  <2> QED
    BY <2>1 DEF BookLevels
<1>4. CASE intent.side = "BUY"
  <2>1. ~(book.asks # <<>> /\ best_ask(book).price <= intent.limit_price)
    BY <1>1, <1>4 DEF PostOnlyWouldCross
  <2> QED
    BY <1>1, <1>2, <1>3, <1>4, <2>1 DEF CrossesSpread, best_ask
<1>5. CASE intent.side # "BUY"
  <2>1. ~(book.bids # <<>> /\ best_bid(book).price >= intent.limit_price)
    BY <1>1, <1>5 DEF PostOnlyWouldCross
  <2> QED
    BY <1>1, <1>2, <1>3, <1>5, <2>1 DEF CrossesSpread, best_bid
<1> QED
  BY <1>4, <1>5

\* A post-only order that crosses when it is checked crosses the spread.
LEMMA PostOnlyCrosses ==
  ASSUME NEW book, IsBook(book), NEW intent, IsAccepted(intent), PostOnlyWouldCross(intent, book)
  PROVE  CrossesSpread(book, intent.side, intent.limit_price)
<1>1. intent.limit_price \in Int /\ intent.side \in {"BUY", "SELL"}
  BY AcceptedType
<1>2. book.asks \in Seq(BookLevels) /\ book.bids \in Seq(BookLevels)
  BY DEF IsBook, Snapshots
<1>3. ASSUME NEW side \in Seq(BookLevels), side # <<>> PROVE Head(side).price \in Int
  <2>1. side[1] \in BookLevels /\ Head(side) = side[1]
    BY <1>3
  <2> QED
    BY <2>1 DEF BookLevels
<1>4. CASE intent.side = "BUY"
  <2>1. book.asks # <<>> /\ best_ask(book).price <= intent.limit_price
    BY <1>4 DEF PostOnlyWouldCross
  <2> QED
    BY <1>1, <1>2, <1>3, <1>4, <2>1 DEF CrossesSpread, best_ask
<1>5. CASE intent.side # "BUY"
  <2>1. book.bids # <<>> /\ best_bid(book).price >= intent.limit_price
    BY <1>5 DEF PostOnlyWouldCross
  <2> QED
    BY <1>1, <1>2, <1>3, <1>5, <2>1 DEF CrossesSpread, best_bid
<1> QED
  BY <1>4, <1>5

\* What a result says of the book that judged it.
LEMMA JudgedByAValidBook ==
  ASSUME RunnerInv, NEW r \in Results
  PROVE  /\ r.admission.reason = "POST_ONLY_WOULD_CROSS" =>
              /\ r.action.post_only /\ IsValid(BookAtActivation(r))
              /\ QueueEstimate(BookAtActivation(r).book, r.action.side,
                               r.action.limit_price).crosses_spread
         /\ Active(r) =>
              /\ IsValid(BookAtActivation(r))
              /\ r.activation_book = BookAtActivation(r).book
<1>1. PICK k \in DOMAIN order_results : r = order_results[k]
  BY DEF Results
<1>2. GivenOK(scenario, r, k, used_cancel_sequences)
  BY <1>1 DEF RunnerInv, ResultsOK
<1>3. PICK c \in {None} \cup Requests(scenario) : ResultOK(scenario, r, r.action, k - 1, c)
  BY <1>2 DEF GivenOK
<1>4. Judged(scenario, r)
  BY <1>3 DEF ResultOK
<1>5. BookAtActivation(r) = MetBook(scenario, r.action)
  BY DEF BookAtActivation, MetBook, activation_time
<1>6. ASSUME r.admission.reason = "POST_ONLY_WOULD_CROSS"
      PROVE  /\ r.action.post_only /\ IsValid(BookAtActivation(r))
             /\ QueueEstimate(BookAtActivation(r).book, r.action.side,
                              r.action.limit_price).crosses_spread
  <2> DEFINE book == BookAtActivation(r).book
  <2>1. /\ IsAccepted(r.action) /\ IsValid(BookAtActivation(r)) /\ IsBook(book)
        /\ PostOnlyWouldCross(r.action, book)
    BY <1>4, <1>5, <1>6 DEF Judged, WouldCross
  <2> HIDE DEF book
  <2>2. CrossesSpread(book, r.action.side, r.action.limit_price)
    BY <2>1, PostOnlyCrosses
  <2>3. r.action.post_only
    BY <2>1 DEF PostOnlyWouldCross
  <2> QED
    BY <2>1, <2>2, <2>3 DEF QueueEstimate, book
<1>7. Active(r) => IsValid(BookAtActivation(r)) /\ r.activation_book = BookAtActivation(r).book
  BY <1>4, <1>5 DEF Judged, Active
<1> QED
  BY <1>6, <1>7

\* Only a book that is valid at its activation judges an order; it takes what that book shows
\* within its limit and nothing else, and the three places that decide whether an order
\* crosses agree, on the orders that rest, take or are rejected as post-only.
THEOREM TakesWhatTheBookShowsHolds == Spec => []TakesWhatTheBookShows
<1>1. RunnerInv => TakesWhatTheBookShows
  <2> SUFFICES ASSUME RunnerInv, NEW r \in Results, Active(r)
               PROVE
      LET levels == OppositeSideLevels(r.activation_book, r.action.side)
          shown == {i \in DOMAIN levels :
                      IsExecutable(r.action.side, r.action.limit_price, levels[i].price,
                                   scenario.configuration.fill_model = "touch")}
          depth == Total([i \in shown |-> levels[i].quantity])
          queue == QueueEstimate(r.activation_book, r.action.side, r.action.limit_price)
      IN  /\ r.fill_estimate.liquidity_role = "TAKER" =>
               /\ r.fill_estimate.filled_quantity = Least(r.action.quantity, depth)
               /\ queue.crosses_spread /\ ~r.action.post_only
          /\ r.fill_estimate.liquidity_role # "TAKER" => depth = 0
          /\ r.action.post_only => queue.rests_on_book
    BY JudgedByAValidBook DEF TakesWhatTheBookShows
  <2> DEFINE book == r.activation_book
             touch == scenario.configuration.fill_model = "touch"
             levels == OppositeSideLevels(book, r.action.side)
             shown == {i \in DOMAIN levels :
                         IsExecutable(r.action.side, r.action.limit_price, levels[i].price, touch)}
             depth == Total([i \in shown |-> levels[i].quantity])
             crosses == CrossesSpread(book, r.action.side, r.action.limit_price)
             queue == QueueEstimate(book, r.action.side, r.action.limit_price)
             fill == r.fill_estimate
  <2>1. PICK c : ActiveOK(scenario, r, c)
    BY ActiveResult
  <2>2. /\ IsAccepted(r.action) /\ IsBook(book) /\ ~PostOnlyWouldCross(r.action, book)
        /\ FillOK(scenario, r.action, r.admission.activates_at, c, book, fill)
    BY <2>1 DEF ActiveOK
  <2>3. (queue.crosses_spread <=> crosses) /\ (queue.rests_on_book <=> ~crosses)
    BY DEF QueueEstimate
  <2>4. touch \in BOOLEAN
    OBVIOUS
  <2>5. levels \in Seq(BookLevels)
    BY <2>2, <2>4, OppositeSide
  <2>6. /\ depth = Depth(levels, r.action, touch, Len(levels))
        /\ shown = {} => depth = 0
    <3> HIDE DEF levels, touch
    <3> QED
      BY <2>5, DepthShown
  <2>7. /\ depth \in Nat
        /\ fill.liquidity_role = "TAKER" <=> depth > 0
        /\ depth > 0 => fill.filled_quantity = Least(r.action.quantity, depth)
    BY <2>2, <2>6 DEF FillOK
  <2>8. depth > 0 => crosses
    <3> SUFFICES ASSUME depth > 0 PROVE crosses
      OBVIOUS
    <3>1. shown # {}
      <4> HIDE DEF depth, shown
      <4> QED
        BY <2>6, <2>7
    <3>2. PICK i \in DOMAIN levels :
            IsExecutable(r.action.side, r.action.limit_price, levels[i].price, touch)
      BY <3>1
    <3> HIDE DEF touch
    <3> QED
      BY <2>2, <2>4, <3>2, TakingCrosses
  <2>9. r.action.post_only => ~crosses
    BY <2>2, PostOnlyRests
  <2> HIDE DEF levels, shown, depth, queue, crosses, fill, book, touch
  <2>10. /\ fill.liquidity_role = "TAKER" =>
              /\ fill.filled_quantity = Least(r.action.quantity, depth)
              /\ queue.crosses_spread /\ ~r.action.post_only
         /\ fill.liquidity_role # "TAKER" => depth = 0
         /\ r.action.post_only => queue.rests_on_book
    <3>1. fill.liquidity_role = "TAKER" =>
            fill.filled_quantity = Least(r.action.quantity, depth) /\ crosses
      BY <2>7, <2>8
    <3>2. fill.liquidity_role # "TAKER" => depth = 0
      BY <2>7
    <3> QED
      BY <2>3, <2>9, <3>1, <3>2, Zenon
  <2> QED
    BY <2>10 DEF levels, shown, depth, queue, crosses, fill, book, touch
<1> QED
  BY <1>1, RunnerInductive, PTL

-----------------------------------------------------------------------------
(* Trades while an order rests                                             *)

\* The quantity of some trades.
Traded(E) == MapThenSumSet(LAMBDA p : p.quantity, E)

\* It is a sum of SumProofs.
LEMMA TradedSum ==
  ASSUME NEW P, NEW E \in SUBSET P
  PROVE  Traded(E) = SumOver([p \in P |-> p.quantity], E)
<1> DEFINE F == [p \in P |-> p.quantity]
           value(p) == p.quantity
           H(h) == h = [s \in SUBSET E |->
                          IF s = {} THEN 0 ELSE value(Pick(s)) + h[s \ {Pick(s)}]]
<1>1. ASSUME NEW s \in SUBSET E, s # {}
      PROVE  F[Pick(s)] = value(Pick(s))
  BY <1>1, Picked
<1>2. ASSUME NEW h PROVE H(h) <=> IsSum(h, F, E)
  <2>1. ASSUME NEW s \in SUBSET E
        PROVE  (IF s = {} THEN 0 ELSE value(Pick(s)) + h[s \ {Pick(s)}])
                  = (IF s = {} THEN 0 ELSE F[Pick(s)] + h[s \ {Pick(s)}])
    BY <1>1
  <2> HIDE DEF value, F
  <2> QED
    BY <2>1, Zenon DEF IsSum
<1>3. (CHOOSE h : H(h)) = (CHOOSE h : IsSum(h, F, E))
  <2> HIDE DEF H
  <2> QED
    BY <1>2, Zenon
<1>4. Traded(E) = (CHOOSE h : H(h))[E]
  BY DEF Traded, MapThenSumSet, MapThenFoldSet, Pick
<1> QED
  BY <1>3, <1>4, SumUnfolded

\* The trades of a span that may fill an order.
Suited(s, intent, span) == Matches(s, intent, span, Len(s.market_events))

\* What belongs to them.
LEMMA SuitedTrades ==
  ASSUME NEW s, IsScenario(s), NEW intent, NEW span \in SUBSET DOMAIN s.market_events, NEW p
  PROVE  p \in Suited(s, intent, span) <=>
           IsMatch(intent, p) /\ \E i \in span : s.market_events[i].payload = p
<1> DEFINE n == Len(s.market_events)
<1>1. n \in Nat /\ DOMAIN s.market_events = 1..n
  BY DEF IsScenario, IsSequence
<1>2. {j \in span : j \in 1..n} = span
  BY <1>1
<1>3. Delivered(s, span, n) = {s.market_events[i].payload : i \in span}
  BY <1>2 DEF Delivered
<1> QED
  BY <1>3 DEF Suited, Matches

\* The volume of a span is the quantity of those trades.
LEMMA VolumeIsTraded ==
  ASSUME NEW s, IsScenario(s), NEW intent, NEW span \in SUBSET DOMAIN s.market_events
  PROVE  /\ Volume(s, intent, span, Len(s.market_events)) = Traded(Suited(s, intent, span))
         /\ Traded(Suited(s, intent, span)) \in Nat
<1> DEFINE n == Len(s.market_events)
           All == Delivered(s, DOMAIN s.market_events, n)
           E == Suited(s, intent, span)
<1>1. E \in SUBSET All
  BY DEF Suited, Matches, Delivered
<1> HIDE DEF n, All, E
<1>2. Volume(s, intent, span, n) = Traded(E)
  BY <1>1, TradedSum DEF Volume, Suited, n, All, E
<1> QED
  BY <1>2, VolumeType DEF n, E

\* The trades that came while the order of a result rested are those of its span.
LEMMA RestingTrades ==
  ASSUME IsScenario(scenario), NEW r, NEW c, IsAccepted(r.action), r.admission.activates_at \in Int,
         c = None => r.cancel_result = None,
         c # None => r.cancel_result # None /\ r.cancel_result.effective_at = c.scheduled_at,
         NEW p
  PROVE  /\ TradedWhileResting(r, p) <=>
              /\ IsMatch(r.action, p)
              /\ \E i \in RestingSpan(scenario, r.admission.activates_at, c) :
                   scenario.market_events[i].payload = p
         /\ TradedWhileResting(r, p) => p \in Payloads
<1> DEFINE E == scenario.market_events
           at(i) == E[i].scheduled_at
           a == r.admission.activates_at
           In(i) == /\ a <= at(i)
                    /\ IF r.cancel_result = None THEN TRUE
                       ELSE at(i) <= r.cancel_result.effective_at
                    /\ ~DuringDisconnect(scenario.configuration, at(i))
<1>1. \A i \in DOMAIN E : at(i) \in Int
  BY DEF IsScenario, IsMarketEvent
<1>2. TradedWhileResting(r, p) <=>
        IsMatch(r.action, p) /\ \E i \in DOMAIN E : E[i].payload = p /\ In(i)
  BY DEF TradedWhileResting, IsMatch
<1>3. ASSUME NEW i \in DOMAIN E
      PROVE  In(i) <=> i \in RestingSpan(scenario, a, c)
  <2>1. a <= at(i) <=> at(i) >= a
    BY <1>1
  <2>2. i \in RestingSpan(scenario, a, c) <=>
          /\ at(i) >= a
          /\ c = None \/ at(i) <= c.scheduled_at
          /\ ~DuringDisconnect(scenario.configuration, at(i))
    BY DEF RestingSpan
  <2>3. (IF r.cancel_result = None THEN TRUE ELSE at(i) <= r.cancel_result.effective_at)
          <=> (c = None \/ at(i) <= c.scheduled_at)
    OBVIOUS
  <2> QED
    BY <2>1, <2>2, <2>3
<1>4. RestingSpan(scenario, a, c) \in SUBSET DOMAIN E
  BY DEF RestingSpan
<1> HIDE DEF In, a
<1>5. (\E i \in DOMAIN E : E[i].payload = p /\ In(i)) <=>
        \E i \in RestingSpan(scenario, a, c) : E[i].payload = p
  BY <1>3, <1>4
<1>6. (\E i \in DOMAIN E : E[i].payload = p /\ In(i)) => p \in Payloads
  BY DEF Payloads
<1> QED
  BY <1>2, <1>5, <1>6 DEF a

\* An order that took nothing is filled by the trades that came while it rested, each distinct
\* trade once, up to its quantity.
THEOREM RestingFillsFollowTheTapeHolds == Spec => []RestingFillsFollowTheTape
<1>1. RunnerInv => RestingFillsFollowTheTape
  <2> SUFFICES ASSUME RunnerInv, NEW r \in Results, Active(r),
                      r.fill_estimate.liquidity_role # "TAKER"
               PROVE  r.fill_estimate.filled_quantity
                        = Least(r.action.quantity,
                                Traded({p \in Payloads : TradedWhileResting(r, p)}))
    BY DEF RestingFillsFollowTheTape, Traded
  <2> DEFINE E == {p \in Payloads : TradedWhileResting(r, p)}
             a == r.admission.activates_at
  <2>1. IsScenario(scenario)
    BY ActiveResult
  <2>2. PICK c : /\ ActiveOK(scenario, r, c)
                 /\ c = None => r.cancel_result = None
                 /\ c # None => /\ r.cancel_result # None
                                /\ r.cancel_result.effective_at = c.scheduled_at
    BY ActiveResult
  <2> DEFINE span == RestingSpan(scenario, a, c)
             volume == Volume(scenario, r.action, span, Len(scenario.market_events))
  <2>3. /\ IsAccepted(r.action) /\ a \in Int
        /\ FillOK(scenario, r.action, a, c, r.activation_book, r.fill_estimate)
    BY <2>2 DEF ActiveOK
  <2>4. r.fill_estimate.filled_quantity = Least(r.action.quantity, volume)
    BY <2>3 DEF FillOK
  <2>5. \A p : p \in E <=> IsMatch(r.action, p) /\
                           \E i \in span : scenario.market_events[i].payload = p
    BY <2>1, <2>2, <2>3, RestingTrades
  <2>6. span \in SUBSET DOMAIN scenario.market_events
    BY DEF RestingSpan
  <2> HIDE DEF span, E
  <2>7. E = Suited(scenario, r.action, span)
    <3>1. \A p : p \in Suited(scenario, r.action, span) <=>
                   IsMatch(r.action, p) /\ \E i \in span : scenario.market_events[i].payload = p
      BY <2>1, <2>6, SuitedTrades
    <3>2. \A p : p \in E <=> p \in Suited(scenario, r.action, span)
      BY <2>5, <3>1
    <3> QED
      BY <3>2
  <2>8. volume = Traded(Suited(scenario, r.action, span))
    BY <2>1, <2>6, VolumeIsTraded
  <2> QED
    BY <2>4, <2>7, <2>8 DEF E
<1> QED
  BY <1>1, RunnerInductive, PTL

\* What the trades before the disconnect would fill of an order.
LEMMA FilledBeforeDisconnect ==
  ASSUME NEW s, IsScenario(s), NEW intent, IsAccepted(intent), NEW a, NEW Q \in Nat,
         NEW span, span = PreDisconnectSpan(s, a)
  PROVE  /\ PreDisconnectFill(s, intent, a, Q) = Least(Q, Traded(Suited(s, intent, span)))
         /\ Traded(Suited(s, intent, span)) \in Nat
<1> DEFINE w == RestingWalk(s, intent, Q, span)[Len(s.market_events)]
           volume == Volume(s, intent, span, Len(s.market_events))
<1>1. span \in SUBSET DOMAIN s.market_events
  BY DEF PreDisconnectSpan
<1>2. RestOK(s, intent, Q, span, Len(s.market_events))
  BY <1>1, RestFollowsVolume
<1>3. w.remaining = Q - Least(Q, volume)
  BY <1>2 DEF RestOK
<1>4. volume = Traded(Suited(s, intent, span)) /\ volume \in Nat
  BY <1>1, VolumeIsTraded
<1>5. PreDisconnectFill(s, intent, a, Q) = Q - w.remaining
  BY DEF PreDisconnectFill
<1> HIDE DEF w, volume
<1>6. Least(Q, volume) \in Nat
  BY <1>4 DEF Least
<1>7. Q - w.remaining = Least(Q, volume)
  BY <1>3, <1>6
<1> QED
  BY <1>4, <1>5, <1>7

\* A disconnect result is not None.
LEMMA DisconnectReported ==
  ASSUME NEW s, IsScenario(s), s.configuration.disconnected_at # None, NEW n \in Int
  PROVE  [target_order_sequence |-> n, disconnected_at |-> s.configuration.disconnected_at,
          reconnected_at |-> s.configuration.reconnected_at] # None
<1>1. s.configuration.disconnected_at \in Int /\ s.configuration.reconnected_at \in Int \cup {None}
  BY DEF IsScenario, IsConfiguration
<1>2. [target_order_sequence |-> n, disconnected_at |-> s.configuration.disconnected_at,
       reconnected_at |-> s.configuration.reconnected_at] \in DisconnectResults
  BY <1>1 DEF DisconnectResults
<1> QED
  BY <1>2, NoneDiffers

\* The trades before the disconnect, for an order that was not cancelled by then.
LEMMA TradesBeforeDisconnect ==
  ASSUME IsScenario(scenario), NEW r, NEW c, IsAccepted(r.action), r.admission.activates_at \in Int,
         c = None => r.cancel_result = None,
         c # None => r.cancel_result # None /\ r.cancel_result.effective_at = c.scheduled_at,
         c # None => c.scheduled_at \in Int,
         NEW cut, cut = scenario.configuration.disconnected_at, cut # None,
         c # None => c.scheduled_at > cut,
         NEW p
  PROVE  (/\ p \in Payloads /\ TradedWhileResting(r, p)
          /\ \E i \in DOMAIN scenario.market_events :
               LET e == scenario.market_events[i]
               IN  /\ e.payload = p /\ e.scheduled_at < cut
                   /\ e.scheduled_at >= r.admission.activates_at)
         <=> /\ IsMatch(r.action, p)
             /\ \E i \in PreDisconnectSpan(scenario, r.admission.activates_at) :
                  scenario.market_events[i].payload = p
<1> DEFINE E == scenario.market_events
           a == r.admission.activates_at
           Early(i) == E[i].payload = p /\ E[i].scheduled_at < cut /\ E[i].scheduled_at >= a
<1>1. cut \in Int /\ \A i \in DOMAIN E : E[i].scheduled_at \in Int
  BY DEF IsScenario, IsConfiguration, IsMarketEvent
<1>2. /\ TradedWhileResting(r, p) <=>
              /\ IsMatch(r.action, p)
              /\ \E i \in RestingSpan(scenario, a, c) : E[i].payload = p
      /\ TradedWhileResting(r, p) => p \in Payloads
  BY RestingTrades
<1>3. \A i \in DOMAIN E : Early(i) => i \in RestingSpan(scenario, a, c)
  <2> SUFFICES ASSUME NEW i \in DOMAIN E, Early(i)
               PROVE  i \in RestingSpan(scenario, a, c)
    OBVIOUS
  <2>1. c = None \/ E[i].scheduled_at <= c.scheduled_at
    BY <1>1
  <2>2. ~DuringDisconnect(scenario.configuration, E[i].scheduled_at)
    BY <1>1 DEF DuringDisconnect
  <2> QED
    BY <2>1, <2>2 DEF RestingSpan
<1>4. (\E i \in PreDisconnectSpan(scenario, a) : E[i].payload = p) <=> \E i \in DOMAIN E : Early(i)
  BY DEF PreDisconnectSpan
<1>5. \A i \in DOMAIN E : Early(i) => E[i].payload = p
  OBVIOUS
<1>6. (\E i \in DOMAIN E :
               LET e == E[i]
               IN  /\ e.payload = p /\ e.scheduled_at < cut
                   /\ e.scheduled_at >= r.admission.activates_at) <=> \E i \in DOMAIN E : Early(i)
  OBVIOUS
<1> HIDE DEF Early, a, E
<1>7. (\E i \in DOMAIN E : Early(i)) =>
        \E i \in RestingSpan(scenario, a, c) : E[i].payload = p
  BY <1>3, <1>5
<1> QED
  BY <1>2, <1>4, <1>6, <1>7 DEF a, E

\* When an order is reported as open at the disconnect.
LEMMA DisconnectCases ==
  ASSUME NEW s, IsScenario(s), NEW intent, IsAccepted(intent), NEW n \in Int, NEW a \in Int,
         NEW cancel, cancel # None => cancel.effective_at \in Int, NEW fill,
         fill.filled_quantity \in Nat,
         NEW cut, cut = s.configuration.disconnected_at, cut # None,
         NEW taken, taken = IF fill.liquidity_role = "TAKER" THEN fill.filled_quantity ELSE 0
  PROVE  (DisconnectResult(s, intent, n, a, cancel, fill) # None) <=>
           /\ a < cut /\ (cancel = None \/ cancel.effective_at > cut)
           /\ taken < intent.quantity
           /\ taken + PreDisconnectFill(s, intent, a, intent.quantity - taken) < intent.quantity
<1> DEFINE gone == PreDisconnectFill(s, intent, a, intent.quantity - taken)
           q == intent.quantity
           shut == \/ a >= cut
                   \/ cancel # None /\ cancel.effective_at <= cut
                   \/ taken >= q
                   \/ taken + gone >= q
           record == [target_order_sequence |-> n,
                      disconnected_at |-> s.configuration.disconnected_at,
                      reconnected_at |-> s.configuration.reconnected_at]
<1>1. cut \in Int /\ taken \in Nat /\ q \in Nat
  BY AcceptedType DEF IsScenario, IsConfiguration
<1>2. record # None
  BY DisconnectReported
<1>3. DisconnectResult(s, intent, n, a, cancel, fill) = IF shut THEN None ELSE record
  BY DEF DisconnectResult
<1> HIDE DEF record
<1>4. (DisconnectResult(s, intent, n, a, cancel, fill) # None) <=> ~shut
  BY <1>2, <1>3
<1> HIDE DEF gone, q
<1>5. taken < q => gone \in Nat
  <2> SUFFICES ASSUME taken < q PROVE gone \in Nat
    OBVIOUS
  <2>1. q - taken \in Nat
    BY <1>1
  <2>2. PICK t : gone = Least(q - taken, t) /\ t \in Nat
    BY <2>1, FilledBeforeDisconnect DEF gone, q
  <2> QED
    BY <2>1, <2>2 DEF Least
<1>6. ~shut <=> /\ a < cut /\ (cancel = None \/ cancel.effective_at > cut)
                /\ taken < q /\ taken + gone < q
  BY <1>1, <1>5
<1> QED
  BY <1>4, <1>6 DEF gone, q

\* Every order the disconnect finds open is reported and no other, but for the rest of an order
\* that took part of its quantity.
THEOREM DisconnectFindsOpenOrdersHolds == Spec => []DisconnectFindsOpenOrders
<1>1. RunnerInv => DisconnectFindsOpenOrders
  <2> SUFFICES ASSUME RunnerInv, NEW r \in Results, Active(r),
                      scenario.configuration.disconnected_at # None
               PROVE
      LET cut    == scenario.configuration.disconnected_at
          before == {p \in Payloads :
                       /\ TradedWhileResting(r, p)
                       /\ \E i \in DOMAIN scenario.market_events :
                            LET e == scenario.market_events[i]
                            IN  /\ e.payload = p /\ e.scheduled_at < cut
                                /\ e.scheduled_at >= r.admission.activates_at}
          took   == r.fill_estimate.liquidity_role = "TAKER"
          filled == IF took THEN r.fill_estimate.filled_quantity
                    ELSE Traded(before)
          open   == /\ r.admission.activates_at < cut
                    /\ IF r.cancel_result = None THEN TRUE
                       ELSE r.cancel_result.effective_at > cut
                    /\ filled < r.action.quantity
      IN  /\ r.disconnect_result # None => open
          /\ open /\ ~took => r.disconnect_result # None
    BY DEF DisconnectFindsOpenOrders, Traded
  <2> DEFINE cut    == scenario.configuration.disconnected_at
             a      == r.admission.activates_at
             fill   == r.fill_estimate
             before == {p \in Payloads :
                          /\ TradedWhileResting(r, p)
                          /\ \E i \in DOMAIN scenario.market_events :
                               LET e == scenario.market_events[i]
                               IN  /\ e.payload = p /\ e.scheduled_at < cut
                                   /\ e.scheduled_at >= a}
             took   == fill.liquidity_role = "TAKER"
             taken  == IF fill.liquidity_role = "TAKER" THEN fill.filled_quantity ELSE 0
             filled == IF took THEN fill.filled_quantity ELSE Traded(before)
             live   == a < cut /\ (IF r.cancel_result = None THEN TRUE
                                   ELSE r.cancel_result.effective_at > cut)
             q      == r.action.quantity
             span   == PreDisconnectSpan(scenario, a)
             gone   == PreDisconnectFill(scenario, r.action, a, q - taken)
  <2>1. IsScenario(scenario) /\ r.sequence \in Int
    BY ActiveResult
  <2>2. PICK c \in {None} \cup Requests(scenario) :
          /\ ActiveOK(scenario, r, c)
          /\ c = None => r.cancel_result = None
          /\ c # None => /\ r.cancel_result # None
                         /\ r.cancel_result.effective_at = c.scheduled_at
    BY ActiveResult
  <2>3. c # None => c.scheduled_at \in Int
    BY <2>1, <2>2 DEF Requests, CancelRequests, IsScenario, IsOrderAction
  <2>4. /\ IsAccepted(r.action) /\ a \in Int
        /\ FillOK(scenario, r.action, a, c, r.activation_book, fill)
        /\ r.disconnect_result
             = DisconnectResult(scenario, r.action, r.sequence, a, r.cancel_result, fill)
    BY <2>2 DEF ActiveOK
  <2>5. q \in Nat /\ q > 0
    BY <2>4, AcceptedType
  <2>6. fill.filled_quantity \in Nat
    <3>1. /\ fill.filled_quantity = q - fill.remaining_quantity
          /\ \E v : fill.filled_quantity = Least(q, v) /\ v \in Nat
      <4> DEFINE volume == Volume(scenario, r.action, RestingSpan(scenario, a, c),
                                  Len(scenario.market_events))
      <4>1. volume \in Nat
        <5>1. RestingSpan(scenario, a, c) \in SUBSET DOMAIN scenario.market_events
          BY DEF RestingSpan
        <5> QED
          BY <2>1, <5>1, VolumeType
      <4> QED
        BY <2>4, <4>1 DEF FillOK
    <3> QED
      BY <2>5, <3>1 DEF Least
  <2>7. cut \in Int /\ cut # None
    BY <2>1 DEF IsScenario, IsConfiguration
  <2>8. (r.disconnect_result # None) <=>
          a < cut /\ (r.cancel_result = None \/ r.cancel_result.effective_at > cut)
          /\ taken < q /\ taken + gone < q
    <3>1. r.cancel_result # None => r.cancel_result.effective_at \in Int
      BY <2>2, <2>3
    <3> HIDE DEF cut, a, fill
    <3> QED
      BY <2>1, <2>4, <2>6, <2>7, <3>1, DisconnectCases DEF cut
  <2>9. (r.disconnect_result # None) <=> live /\ taken < q /\ taken + gone < q
    BY <2>8
  <2>10. ASSUME live PROVE before = Suited(scenario, r.action, span)
    <3>1. c # None => c.scheduled_at > cut
      BY <2>2, <2>10
    <3>2. span \in SUBSET DOMAIN scenario.market_events
      BY DEF PreDisconnectSpan
    <3>3. \A p : p \in before <=> IsMatch(r.action, p) /\
                   \E i \in span : scenario.market_events[i].payload = p
      BY <2>1, <2>2, <2>3, <2>4, <2>7, <3>1, TradesBeforeDisconnect
    <3> HIDE DEF before, span
    <3>4. \A p : p \in Suited(scenario, r.action, span) <=>
                   IsMatch(r.action, p) /\ \E i \in span : scenario.market_events[i].payload = p
      BY <2>1, <3>2, SuitedTrades
    <3>5. \A p : p \in before <=> p \in Suited(scenario, r.action, span)
      BY <3>3, <3>4
    <3> QED
      BY <3>5
  <2>11. ASSUME live, ~took PROVE gone = Least(q, Traded(before)) /\ Traded(before) \in Nat
    <3>1. taken = 0 /\ q - taken = q
      BY <2>5, <2>11
    <3>2. /\ PreDisconnectFill(scenario, r.action, a, q)
               = Least(q, Traded(Suited(scenario, r.action, span)))
          /\ Traded(Suited(scenario, r.action, span)) \in Nat
      <4> HIDE DEF q, a
      <4> QED
        BY <2>1, <2>4, <2>5, FilledBeforeDisconnect
    <3>3. gone = PreDisconnectFill(scenario, r.action, a, q)
      BY <3>1
    <3> HIDE DEF gone, before, span, q, a
    <3> QED
      BY <2>10, <2>11, <3>2, <3>3
  <2> HIDE DEF live, gone, before, span, q, a, cut
  <2>12. took => (r.disconnect_result # None => live /\ filled < q)
    BY <2>9
  <2>13. ~took => ((r.disconnect_result # None) <=> live /\ filled < q)
    <3> SUFFICES ASSUME ~took
                 PROVE  (r.disconnect_result # None) <=> live /\ filled < q
      OBVIOUS
    <3>1. filled = Traded(before) /\ taken = 0
      OBVIOUS
    <3> HIDE DEF taken, filled, took
    <3>2. live => gone = Least(q, Traded(before)) /\ Traded(before) \in Nat
      BY <2>11
    <3>3. live => (taken < q /\ taken + gone < q <=> filled < q)
      BY <2>5, <3>1, <3>2 DEF Least
    <3> QED
      BY <2>9, <3>3
  <2> HIDE DEF took, filled
  <2>14. /\ r.disconnect_result # None => live /\ filled < q
         /\ live /\ filled < q /\ ~took => r.disconnect_result # None
    BY <2>12, <2>13
  <2> QED
    BY <2>14 DEF live, gone, before, span, q, a, cut, took, filled
<1> QED
  BY <1>1, RunnerInductive, PTL

-----------------------------------------------------------------------------
(* Cancels                                                                 *)

\* The requests of a constructed scenario are told apart by their sequences.
LEMMA RequestsBySequence ==
  ASSUME NEW s, Constructed(s)
  PROVE  /\ IsFiniteSet(CancelRequests(s))
         /\ \A i \in CancelRequests(s) : /\ s.order_actions[i].sequence \in Int
                                         /\ s.order_actions[i].scheduled_at \in Int
         /\ \A i, j \in CancelRequests(s) :
              s.order_actions[i].sequence = s.order_actions[j].sequence => i = j
<1> DEFINE A == s.order_actions
           R == CancelRequests(s)
<1>1. /\ Len(A) \in Nat /\ DOMAIN A = 1..Len(A)
      /\ \A i \in DOMAIN A : A[i].sequence \in Int /\ A[i].scheduled_at \in Int
      /\ \A i, j \in 1..Len(A) : i < j => A[i].sequence < A[j].sequence
  BY DEF Constructed, IsScenario, IsSequence, IsOrderAction, InSequence
<1>2. R \in SUBSET (1..Len(A))
  BY <1>1 DEF CancelRequests
<1>3. IsFiniteSet(R)
  <2>1. 1 \in Int /\ Len(A) \in Int
    BY <1>1
  <2> HIDE DEF R
  <2> QED
    BY <1>2, <2>1, FS_Interval, FS_Subset
<1> HIDE DEF R
<1>4. ASSUME NEW i \in R, NEW j \in R, A[i].sequence = A[j].sequence PROVE i = j
  <2>1. i < j \/ i = j \/ j < i
    BY <1>1, <1>2
  <2>2. A[i].sequence \in Int /\ A[j].sequence \in Int
    BY <1>1, <1>2
  <2> QED
    BY <1>1, <1>2, <1>4, <2>1, <2>2
<1> QED
  BY <1>1, <1>2, <1>3, <1>4 DEF R

\* A request that a result carries matches its order, which the exchange did not reject.
LEMMA CarriedRequest ==
  ASSUME RunnerInv, NEW k \in Carrying(order_results)
  PROVE  \E m \in CancelRequests(scenario) :
           /\ scenario.order_actions[m].sequence = order_results[k].cancel_result.sequence
           /\ CancelMatches(scenario, scenario.order_actions[m], order_results[k].action, {})
           /\ ~rejected(order_results[k].admission)
<1> DEFINE r == order_results[k]
<1>1. k \in DOMAIN order_results /\ r.cancel_result # None
  BY DEF Carrying
<1>2. GivenOK(scenario, r, k, used_cancel_sequences)
  BY <1>1 DEF RunnerInv, ResultsOK
<1> HIDE DEF r
<1>3. PICK c \in {None} \cup Requests(scenario) :
        /\ ResultOK(scenario, r, r.action, k - 1, c)
        /\ c # None => CancelMatches(scenario, c, r.action, {})
  BY <1>2 DEF GivenOK
<1>4. ~rejected(r.admission) /\ c # None /\ r.cancel_result.sequence = c.sequence
  BY <1>1, <1>3 DEF ResultOK, r
<1>5. PICK m \in CancelRequests(scenario) : c = scenario.order_actions[m]
  BY <1>3, <1>4 DEF Requests
<1> QED
  BY <1>3, <1>4, <1>5 DEF r

\* An order that matches a request nobody used carries one that comes before it.
LEMMA EarlierRequest ==
  ASSUME RunnerInv, Constructed(scenario), NEW i \in UnmatchedCancels,
         NEW k \in DOMAIN order_results,
         ~rejected(order_results[k].admission),
         CancelMatches(scenario, scenario.order_actions[i], order_results[k].action, {})
  PROVE  \E m \in CancelRequests(scenario) :
           /\ m # i /\ k \in Carrying(order_results)
           /\ order_results[k].cancel_result.sequence = scenario.order_actions[m].sequence
           /\ RequestBefore(scenario.order_actions[m], scenario.order_actions[i])
           /\ CancelMatches(scenario, scenario.order_actions[m], order_results[k].action, {})
<1> DEFINE r == order_results[k]
           A == scenario.order_actions
<1>1. i \in CancelRequests(scenario) /\ A[i].sequence \notin used_cancel_sequences
  BY DEF UnmatchedCancels
<1>2. A[i] \in Requests(scenario)
  BY <1>1 DEF Requests
<1>3. GivenOK(scenario, r, k, used_cancel_sequences)
  BY DEF RunnerInv, ResultsOK
<1> HIDE DEF r, A
<1>4. PICK c \in {None} \cup Requests(scenario) :
        /\ ResultOK(scenario, r, r.action, k - 1, c)
        /\ c # None => CancelMatches(scenario, c, r.action, {})
        /\ \A d \in Requests(scenario) :
             d.sequence \notin used_cancel_sequences /\ CancelMatches(scenario, d, r.action, {}) =>
               c # None /\ RequestBefore(c, d)
  BY <1>3 DEF GivenOK
<1>5. c # None /\ RequestBefore(c, A[i]) /\ CancelMatches(scenario, c, r.action, {})
  BY <1>1, <1>2, <1>4 DEF r, A
<1>6. r.cancel_result # None /\ r.cancel_result.sequence = c.sequence
  BY <1>4, <1>5 DEF ResultOK, r
<1>7. PICK m \in CancelRequests(scenario) : c = A[m]
  BY <1>4, <1>5 DEF Requests, A
<1>8. k \in Carrying(order_results)
  BY <1>6 DEF Carrying, r
<1>9. c.sequence \in used_cancel_sequences
  BY <1>6, <1>8 DEF RunnerInv, ResultsOK, CarriedOK, r
<1>10. m # i
  BY <1>1, <1>7, <1>9
<1> QED
  BY <1>5, <1>6, <1>7, <1>8, <1>10 DEF r, A

\* When a request is left over, there is no way to give each request an order: those that come
\* before it would need more orders than there are.
LEMMA LeftOverUnassignable ==
  ASSUME RunnerInv, Constructed(scenario), UnmatchedCancels # {}
  PROVE  ~CancelsAssignable(CancelRequests(scenario))
<1> SUFFICES ASSUME CancelsAssignable(CancelRequests(scenario)) PROVE FALSE
  OBVIOUS
<1> DEFINE A == scenario.order_actions
           R == CancelRequests(scenario)
           Carried(k) == order_results[k].cancel_result.sequence
<1>1. PICK f \in [R -> DOMAIN order_results] :
        /\ \A i, j \in R : f[i] = f[j] => i = j
        /\ \A i \in R :
             /\ ~rejected(order_results[f[i]].admission)
             /\ CancelMatches(scenario, A[i], order_results[f[i]].action, {})
  BY DEF CancelsAssignable
<1>2. PICK i \in UnmatchedCancels : TRUE
  OBVIOUS
<1>3. i \in R
  BY <1>2 DEF UnmatchedCancels
<1>4. /\ IsFiniteSet(R)
      /\ \A j \in R : A[j].sequence \in Int /\ A[j].scheduled_at \in Int
      /\ \A j, l \in R : A[j].sequence = A[l].sequence => j = l
  BY RequestsBySequence
<1> DEFINE C == {j \in R : /\ A[j].exchange = scenario.exchange
                           /\ A[j].correlation = A[i].correlation
                           /\ RequestBefore(A[j], A[i])}
<1>5. i \in C
  <2>1. A[i].exchange = scenario.exchange
    BY <1>1, <1>3 DEF CancelMatches
  <2>2. RequestBefore(A[i], A[i])
    BY <1>3, <1>4 DEF RequestBefore
  <2> QED
    BY <1>3, <2>1, <2>2
<1>6. IsFiniteSet(C) /\ C \in SUBSET R
  <2>1. C \in SUBSET R
    OBVIOUS
  <2> HIDE DEF C, R
  <2> QED
    BY <1>4, <2>1, FS_Subset
<1>7. ASSUME NEW j \in C
      PROVE  \E m \in C \ {i} : f[j] \in Carrying(order_results) /\ Carried(f[j]) = A[m].sequence
  <2> DEFINE k == f[j]
             b == order_results[k].action
  <2>1. j \in R /\ k \in DOMAIN order_results
    BY <1>1
  <2>2. /\ ~rejected(order_results[k].admission)
        /\ CancelMatches(scenario, A[j], b, {})
    BY <1>1, <2>1
  <2>3. IsOrderAction(b)
    BY <2>1 DEF RunnerInv, ResultsOK, GivenOK
  <2>4. b.scheduled_at \in Int
    BY <2>3 DEF IsOrderAction
  <2>5. /\ A[j].scheduled_at >= b.scheduled_at /\ A[j].correlation = b.correlation
        /\ A[j].exchange = scenario.exchange
    BY <2>2 DEF CancelMatches
  <2>6. A[j].scheduled_at <= A[i].scheduled_at /\ A[j].correlation = A[i].correlation
    BY <1>3, <1>4, <1>7, <2>1 DEF RequestBefore
  <2>7. A[i].exchange = scenario.exchange
    BY <1>5
  <2>8. A[i].scheduled_at >= b.scheduled_at
    BY <1>3, <1>4, <2>1, <2>4, <2>5, <2>6
  <2>9. CancelMatches(scenario, A[i], b, {})
    BY <2>5, <2>6, <2>7, <2>8 DEF CancelMatches
  <2> HIDE DEF k, C
  <2>10. PICK m \in R :
           /\ m # i /\ k \in Carrying(order_results) /\ Carried(k) = A[m].sequence
           /\ RequestBefore(A[m], A[i])
           /\ CancelMatches(scenario, A[m], b, {})
    BY <2>1, <2>2, <2>9, EarlierRequest
  <2>11. A[m].exchange = scenario.exchange /\ A[m].correlation = A[i].correlation
    BY <2>5, <2>6, <2>10 DEF CancelMatches
  <2>12. m \in C \ {i}
    BY <2>10, <2>11 DEF C
  <2> QED
    BY <2>10, <2>12 DEF k
<1> DEFINE g == [j \in C |-> CHOOSE m \in C \ {i} :
                   f[j] \in Carrying(order_results) /\ Carried(f[j]) = A[m].sequence]
<1>8. \A j \in C : /\ g[j] \in C \ {i} /\ f[j] \in Carrying(order_results)
                   /\ Carried(f[j]) = A[g[j]].sequence
  <2> HIDE DEF C, Carried, A
  <2> QED
    BY <1>7
<1>9. g \in [C -> C]
  <2>1. \A j \in C : g[j] \in C
    BY <1>8
  <2> HIDE DEF C, Carried, A
  <2> QED
    BY <2>1
<1> HIDE DEF g, C
<1>10. \A j, l \in C : g[j] = g[l] => j = l
  <2> SUFFICES ASSUME NEW j \in C, NEW l \in C, g[j] = g[l] PROVE j = l
    OBVIOUS
  <2>1. Carried(f[j]) = Carried(f[l])
    BY <1>8
  <2>2. f[j] = f[l]
    BY <1>8, <2>1 DEF RunnerInv, ResultsOK, CarriedOK
  <2> QED
    BY <1>1, <1>6, <2>2
<1>11. g \in Injection(C, C)
  BY <1>9, <1>10 DEF Injection, IsInjective
<1>12. g \in Surjection(C, C)
  BY <1>6, <1>11, FS_Injection
<1>13. \E j \in C : g[j] = i
  BY <1>5, <1>12 DEF Surjection
<1> QED
  BY <1>8, <1>13

\* When none is left over, each request is carried by one order that matches it.
LEMMA AllMatchedAssignable ==
  ASSUME RunnerInv, Constructed(scenario), UnmatchedCancels = {}
  PROVE  /\ CancelsAssignable(CancelRequests(scenario))
         /\ Cardinality(Carrying(order_results)) = Cardinality(CancelRequests(scenario))
<1> DEFINE A == scenario.order_actions
           R == CancelRequests(scenario)
           K == Carrying(order_results)
           Carried(k) == order_results[k].cancel_result.sequence
           f == [j \in R |-> CHOOSE k \in K : Carried(k) = A[j].sequence]
<1>1. /\ IsFiniteSet(R)
      /\ \A j, l \in R : A[j].sequence = A[l].sequence => j = l
  BY RequestsBySequence
<1>2. /\ used_cancel_sequences = {Carried(k) : k \in K}
      /\ \A k, l \in K : Carried(k) = Carried(l) => k = l
  BY DEF RunnerInv, ResultsOK, CarriedOK
<1>3. \A j \in R : \E k \in K : Carried(k) = A[j].sequence
  <2>1. \A j \in R : A[j].sequence \in used_cancel_sequences
    BY DEF UnmatchedCancels
  <2> HIDE DEF K, R, A, Carried
  <2> QED
    BY <1>2, <2>1
<1>4. \A j \in R : f[j] \in K /\ Carried(f[j]) = A[j].sequence
  <2> HIDE DEF K, R, A, Carried
  <2> QED
    BY <1>3
<1>5. K \in SUBSET DOMAIN order_results
  BY DEF Carrying
<1>6. f \in [R -> K]
  <2>1. \A j \in R : f[j] \in K
    BY <1>4
  <2> HIDE DEF K, R, A, Carried
  <2> QED
    BY <2>1
<1> HIDE DEF f
<1>7. \A j, l \in R : f[j] = f[l] => j = l
  BY <1>1, <1>4
<1>8. ASSUME NEW k \in K
      PROVE  \E m \in R : /\ f[m] = k /\ ~rejected(order_results[k].admission)
                          /\ CancelMatches(scenario, A[m], order_results[k].action, {})
  <2>1. PICK m \in R :
          /\ A[m].sequence = Carried(k)
          /\ CancelMatches(scenario, A[m], order_results[k].action, {})
          /\ ~rejected(order_results[k].admission)
    BY CarriedRequest
  <2>2. f[m] = k
    BY <1>2, <1>4, <2>1
  <2> QED
    BY <2>1, <2>2
<1>9. ASSUME NEW j \in R
      PROVE  /\ ~rejected(order_results[f[j]].admission)
             /\ CancelMatches(scenario, A[j], order_results[f[j]].action, {})
  <2>1. PICK m \in R : /\ f[m] = f[j] /\ ~rejected(order_results[f[j]].admission)
                       /\ CancelMatches(scenario, A[m], order_results[f[j]].action, {})
    BY <1>4, <1>8
  <2>2. m = j
    BY <1>7, <2>1
  <2> QED
    BY <2>1, <2>2
<1>10. CancelsAssignable(R)
  <2>1. f \in [R -> DOMAIN order_results]
    BY <1>5, <1>6
  <2> QED
    BY <1>7, <1>9, <2>1 DEF CancelsAssignable
<1> HIDE DEF R, K
<1>11. f \in Bijection(R, K)
  BY <1>6, <1>7, <1>8 DEF Bijection, Injection, Surjection, IsInjective
<1>12. Cardinality(K) = Cardinality(R)
  BY <1>1, <1>11, FS_Bijection DEF ExistsBijection
<1> QED
  BY <1>10, <1>12 DEF R, K

\* Cancels are matched one order at a time, yet no run is refused for an unmatched cancel when
\* its cancels could have been matched, and in a finished run each cancels exactly one order.
THEOREM CancelsMatchWhenTheyCanHolds == Spec => []CancelsMatchWhenTheyCan
<1>1. RunnerInv => CancelsMatchWhenTheyCan
  <2> SUFFICES ASSUME RunnerInv PROVE CancelsMatchWhenTheyCan
    OBVIOUS
  <2>1. ASSUME reason = "cancel_unmatched"
        PROVE  ~CancelsAssignable(CancelRequests(scenario))
    <3>1. Constructed(scenario) /\ UnmatchedCancels # {}
      BY <2>1 DEF RunnerInv, ScenarioOK, EndOK
    <3> QED
      BY <3>1, LeftOverUnassignable
  <2>2. ASSUME phase = "done"
        PROVE  /\ run.metrics.counts.cancel_action_count = Cardinality(CancelRequests(scenario))
               /\ CancelsAssignable(CancelRequests(scenario))
    <3>1. /\ Constructed(scenario) /\ UnmatchedCancels = {}
          /\ run.metrics.counts.cancel_action_count = Cardinality(Carrying(order_results))
      BY <2>2 DEF RunnerInv, ScenarioOK, EndOK
    <3> QED
      BY <3>1, AllMatchedAssignable
  <2> QED
    BY <2>1, <2>2 DEF CancelsMatchWhenTheyCan
<1> QED
  BY <1>1, RunnerInductive, PTL

-----------------------------------------------------------------------------
(* Projections of a tape without gaps                                      *)

\* The tape up to any event holds the changes the event follows.
TapeFollows(s, i) ==
  LET E == s.market_events
      p == E[i].payload
      b == s.initial_book.sequence
  IN  /\ p.type # "snapshot"
      /\ p.type = "delta" =>
           /\ b \in Int /\ p.delta.sequence \in Int
           /\ p.delta.previous_sequence = p.delta.sequence - 1 /\ p.delta.sequence > b
           /\ \A j \in DOMAIN E :
                E[j].payload.type = "delta" /\ E[j].payload.delta.sequence = p.delta.sequence
                  => E[j].payload = p
           /\ \/ p.delta.sequence = b + 1
              \/ \E j \in DOMAIN E : /\ j < i /\ E[j].payload.type = "delta"
                                     /\ E[j].payload.delta.sequence = p.delta.sequence - 1

\* Every event of the tape follows, and the times of the tape grow.
Gapfree(s) ==
  LET E == s.market_events
  IN  /\ MarketEventLineage(E, s.initial_book)
      /\ \A i \in DOMAIN E : TapeFollows(s, i)
      /\ \A i, j \in DOMAIN E : i <= j => E[i].scheduled_at <= E[j].scheduled_at

\* The events of the first n that a projection to a time applies.
Due(s, through, n) ==
  {i \in 1..n : ~(through # None /\ s.market_events[i].scheduled_at > through)}

\* The projection has applied the changes up to the sequence of its book, and no other.
TapeOK(s, through, n) ==
  LET E == s.market_events
      w == ProjectionWalk(s, through)[n]
      b == s.initial_book.sequence
      IsDelta(i, q) == E[i].payload.type = "delta" /\ E[i].payload.delta.sequence = q
  IN  /\ DOMAIN w = {"book", "is_valid", "seen", "raised"}
      /\ w.raised = None /\ w.is_valid = TRUE /\ w.book.contract = s.initial_book.contract
      /\ w.seen = {E[i].payload : i \in Due(s, through, n)}
      /\ b \in Int =>
           /\ w.book.sequence \in Int /\ w.book.sequence >= b
           /\ \A i \in Due(s, through, n) :
                E[i].payload.type = "delta" => E[i].payload.delta.sequence <= w.book.sequence
           /\ \A q \in Int : b < q /\ q <= w.book.sequence =>
                \E i \in Due(s, through, n) : IsDelta(i, q)

\* One more event is due, or not.
LEMMA DueStep ==
  ASSUME NEW s, NEW through, NEW n \in Nat, n > 0
  PROVE  Due(s, through, n) =
           IF through # None /\ s.market_events[n].scheduled_at > through
           THEN Due(s, through, n - 1) ELSE Due(s, through, n - 1) \cup {n}
<1>1. 1..n = (1..(n - 1)) \cup {n}
  OBVIOUS
<1> QED
  BY <1>1 DEF Due

\* A delta that is due follows the book.
LEMMA DeltaFollowsTape ==
  ASSUME NEW s, IsScenario(s), Gapfree(s), NEW through \in Int \cup {None},
         NEW n \in 1..Len(s.market_events), TapeOK(s, through, n - 1),
         ~(through # None /\ s.market_events[n].scheduled_at > through),
         NEW p, p = s.market_events[n].payload, p.type = "delta",
         NEW w, w = ProjectionWalk(s, through)[n - 1], p \notin w.seen
  PROVE  /\ s.initial_book.sequence \in Int /\ p.delta.sequence \in Int
         /\ w.book.sequence = p.delta.sequence - 1
         /\ DeltaError(w, p.delta) = None
<1> DEFINE E == s.market_events
           b == s.initial_book.sequence
           D == Due(s, through, n - 1)
           q == p.delta.sequence
           cur == w.book.sequence
<1>1. /\ Len(E) \in Nat /\ DOMAIN E = 1..Len(E) /\ n \in DOMAIN E
      /\ \A i \in DOMAIN E : E[i].scheduled_at \in Int
  BY DEF IsScenario, IsSequence, IsMarketEvent
<1>2. TapeFollows(s, n)
  BY <1>1 DEF Gapfree
<1>3. /\ b \in Int /\ q \in Int
      /\ p.delta.previous_sequence = q - 1 /\ q > b
      /\ \A j \in DOMAIN E :
                E[j].payload.type = "delta" /\ E[j].payload.delta.sequence = q => E[j].payload = p
      /\ \/ q = b + 1
         \/ \E j \in DOMAIN E : /\ j < n /\ E[j].payload.type = "delta"
                                /\ E[j].payload.delta.sequence = q - 1
  BY <1>2 DEF TapeFollows
<1>4. /\ w.raised = None /\ w.is_valid = TRUE /\ w.book.contract = s.initial_book.contract
      /\ w.seen = {E[i].payload : i \in D}
      /\ cur \in Int /\ cur >= b
      /\ \A i \in D : E[i].payload.type = "delta" => E[i].payload.delta.sequence <= cur
      /\ \A v \in Int : b < v /\ v <= cur =>
                \E i \in D : E[i].payload.type = "delta" /\ E[i].payload.delta.sequence = v
  BY <1>3 DEF TapeOK
<1>5. D \in SUBSET DOMAIN E
  BY <1>1 DEF Due
<1>6. ~(q <= cur)
  <2> SUFFICES ASSUME q <= cur PROVE FALSE
    OBVIOUS
  <2>1. PICK i \in D : E[i].payload.type = "delta" /\ E[i].payload.delta.sequence = q
    BY <1>3, <1>4
  <2>2. E[i].payload = p
    BY <1>3, <1>5, <2>1
  <2> QED
    BY <1>4, <2>1, <2>2
<1>7. q - 1 <= cur
  <2>1. CASE q = b + 1
    BY <1>3, <1>4, <2>1
  <2>2. CASE q # b + 1
    <3>1. PICK j \in DOMAIN E : /\ j < n /\ E[j].payload.type = "delta"
                                /\ E[j].payload.delta.sequence = q - 1
      BY <1>3, <2>2
    <3>2. E[j].scheduled_at <= E[n].scheduled_at
      <4>1. j <= n
        BY <1>1, <3>1
      <4> QED
        BY <1>1, <4>1 DEF Gapfree
    <3>3. ~(through # None /\ E[j].scheduled_at > through)
      <4>1. E[j].scheduled_at \in Int /\ E[n].scheduled_at \in Int
        BY <1>1
      <4> QED
        BY <3>2, <4>1
    <3>4. j \in D
      BY <1>1, <3>1, <3>3 DEF Due
    <3> QED
      BY <1>4, <3>1, <3>4
  <2> QED
    BY <2>1, <2>2
<1>8. cur = q - 1
  <2>1. cur \in Int /\ q \in Int
    BY <1>3, <1>4
  <2> HIDE DEF cur, q
  <2> QED
    BY <1>6, <1>7, <2>1
<1>9. p.delta.contract = s.initial_book.contract
  <2>1. ContractOf(p) = s.initial_book.contract
    BY <1>1 DEF Gapfree, MarketEventLineage
  <2> QED
    BY <2>1 DEF ContractOf
<1>10. cur # None /\ q # None /\ q = cur + 1 /\ p.delta.previous_sequence = cur
  <2>1. cur \in Int /\ q \in Int /\ cur = q - 1 /\ p.delta.previous_sequence = q - 1
    BY <1>3, <1>4, <1>8
  <2> HIDE DEF cur, q
  <2> QED
    BY <2>1, NoneDiffers
<1>11. DeltaApplies(w.book, p.delta)
  BY <1>4, <1>9, <1>10 DEF DeltaApplies, SameLineage, SequenceFollows
<1>12. DeltaError(w, p.delta) = None
  BY <1>4, <1>11 DEF DeltaError, SnapshotRefused
<1> QED
  BY <1>3, <1>8, <1>12

\* One event of such a tape.
LEMMA TapeStep ==
  ASSUME NEW s, IsScenario(s), Gapfree(s), NEW through \in Int \cup {None},
         NEW n \in 1..Len(s.market_events), TapeOK(s, through, n - 1)
  PROVE  TapeOK(s, through, n)
<1> DEFINE E == s.market_events
           b == s.initial_book.sequence
           D == Due(s, through, n - 1)
           late == through # None /\ E[n].scheduled_at > through
           w == ProjectionWalk(s, through)[n - 1]
           v == ProjectionWalk(s, through)[n]
           p == E[n].payload
<1>1. Len(E) \in Nat /\ DOMAIN E = 1..Len(E) /\ n \in Nat /\ n > 0 /\ n \in DOMAIN E
  BY DEF IsScenario, IsSequence
<1>2. v = IF late THEN w ELSE ApplyEvent(w, E[n])
  BY <1>1, ProjectionStep
<1>3. Due(s, through, n) = IF late THEN D ELSE D \cup {n}
  BY <1>1, DueStep
<1>4. /\ DOMAIN w = {"book", "is_valid", "seen", "raised"}
      /\ w.raised = None /\ w.is_valid = TRUE /\ w.book.contract = s.initial_book.contract
      /\ w.seen = {E[i].payload : i \in D}
      /\ b \in Int =>
           /\ w.book.sequence \in Int /\ w.book.sequence >= b
           /\ \A i \in D :
                E[i].payload.type = "delta" => E[i].payload.delta.sequence <= w.book.sequence
           /\ \A q \in Int : b < q /\ q <= w.book.sequence =>
                \E i \in D : E[i].payload.type = "delta" /\ E[i].payload.delta.sequence = q
  BY DEF TapeOK
<1>5. ASSUME /\ DOMAIN v = {"book", "is_valid", "seen", "raised"}
             /\ v.raised = None /\ v.is_valid = TRUE /\ v.book.contract = s.initial_book.contract
             /\ v.seen = {E[i].payload : i \in Due(s, through, n)}
             /\ b \in Int =>
                  /\ v.book.sequence \in Int /\ v.book.sequence >= b
                  /\ \A i \in Due(s, through, n) :
                       E[i].payload.type = "delta" => E[i].payload.delta.sequence <= v.book.sequence
                  /\ \A q \in Int : b < q /\ q <= v.book.sequence =>
                       \E i \in Due(s, through, n) :
                         E[i].payload.type = "delta" /\ E[i].payload.delta.sequence = q
      PROVE  TapeOK(s, through, n)
  BY <1>5 DEF TapeOK
<1> HIDE DEF w, v, D, late
<1>6. CASE late
  BY <1>2, <1>3, <1>4, <1>5, <1>6
<1>7. CASE ~late
  <2>1. v = ApplyEvent(w, E[n]) /\ Due(s, through, n) = D \cup {n}
    BY <1>2, <1>3, <1>7
  <2>2. {E[i].payload : i \in D \cup {n}} = w.seen \cup {p}
    BY <1>4
  <2>3. p.type \in {"trade", "delta"}
    <3>1. IsPayload(p)
      BY <1>1 DEF IsScenario, IsMarketEvent
    <3>2. p.type # "snapshot"
      BY <1>1 DEF Gapfree, TapeFollows
    <3> QED
      BY <3>1, <3>2 DEF IsPayload
  <2>4. CASE p \in w.seen
    <3>1. v = w
      BY <1>4, <2>1, <2>4 DEF ApplyEvent
    <3>2. v.seen = {E[i].payload : i \in D \cup {n}}
      BY <2>2, <2>4, <3>1
    <3>3. PICK j \in D : E[j].payload = p
      BY <1>4, <2>4
    <3>4. b \in Int =>
           /\ \A i \in D \cup {n} :
                E[i].payload.type = "delta" => E[i].payload.delta.sequence <= w.book.sequence
           /\ \A q \in Int : b < q /\ q <= w.book.sequence =>
                \E i \in D \cup {n} : E[i].payload.type = "delta" /\ E[i].payload.delta.sequence = q
      BY <1>4, <3>3
    <3> QED
      BY <1>4, <1>5, <2>1, <3>1, <3>2, <3>4
  <2>5. CASE p \notin w.seen /\ p.type = "trade"
    <3>1. v = [w EXCEPT !.seen = @ \cup {p}]
      BY <1>4, <2>1, <2>5 DEF ApplyEvent
    <3>2. /\ DOMAIN v = {"book", "is_valid", "seen", "raised"} /\ v.book = w.book
          /\ v.is_valid = w.is_valid /\ v.raised = w.raised /\ v.seen = w.seen \cup {p}
      BY <1>4, <3>1
    <3>3. E[n].payload.type # "delta"
      BY <2>5
    <3>4. b \in Int =>
           /\ \A i \in D \cup {n} :
                E[i].payload.type = "delta" => E[i].payload.delta.sequence <= w.book.sequence
           /\ \A q \in Int : b < q /\ q <= w.book.sequence =>
                \E i \in D \cup {n} : E[i].payload.type = "delta" /\ E[i].payload.delta.sequence = q
      BY <1>4, <3>3
    <3>5. v.seen = {E[i].payload : i \in Due(s, through, n)}
      BY <2>1, <2>2, <3>2
    <3>6. /\ DOMAIN v = {"book", "is_valid", "seen", "raised"}
          /\ v.raised = None /\ v.is_valid = TRUE /\ v.book.contract = s.initial_book.contract
      BY <1>4, <3>2
    <3>7. b \in Int =>
           /\ v.book.sequence \in Int /\ v.book.sequence >= b
           /\ \A i \in Due(s, through, n) :
                E[i].payload.type = "delta" => E[i].payload.delta.sequence <= v.book.sequence
           /\ \A q \in Int : b < q /\ q <= v.book.sequence =>
                \E i \in Due(s, through, n) :
                  E[i].payload.type = "delta" /\ E[i].payload.delta.sequence = q
      BY <1>4, <2>1, <3>2, <3>4
    <3> QED
      BY <1>5, <3>5, <3>6, <3>7
  <2>6. CASE p \notin w.seen /\ p.type = "delta"
    <3> DEFINE d == p.delta.sequence
    <3>1. /\ b \in Int /\ d \in Int /\ w.book.sequence = d - 1 /\ DeltaError(w, p.delta) = None
      <4>1. p = s.market_events[n].payload /\ w = ProjectionWalk(s, through)[n - 1]
        BY DEF w
      <4>2. ~(through # None /\ s.market_events[n].scheduled_at > through)
        BY <1>7 DEF late
      <4> HIDE DEF p
      <4> QED
        BY <2>6, <4>1, <4>2, DeltaFollowsTape
    <3>2. v = [w EXCEPT !.seen = @ \cup {p}, !.book = apply_order_book_delta(@, p.delta)]
      BY <1>4, <2>1, <2>6, <3>1 DEF ApplyEvent
    <3>3. /\ apply_order_book_delta(w.book, p.delta).contract = w.book.contract
          /\ apply_order_book_delta(w.book, p.delta).sequence = d
      <4>1. d # None
        BY <3>1, NoneDiffers
      <4> QED
        BY <4>1 DEF apply_order_book_delta
    <3>4. /\ DOMAIN v = {"book", "is_valid", "seen", "raised"}
          /\ v.book.contract = w.book.contract /\ v.book.sequence = d
          /\ v.is_valid = w.is_valid /\ v.raised = w.raised /\ v.seen = w.seen \cup {p}
      BY <1>4, <3>2, <3>3
    <3>5. E[n].payload.type = "delta" /\ E[n].payload.delta.sequence = d
      BY <2>6
    <3> DEFINE cur == w.book.sequence
    <3>6. /\ cur >= b /\ cur \in Int
          /\ \A i \in D : E[i].payload.type = "delta" => E[i].payload.delta.sequence <= cur
          /\ \A q \in Int : b < q /\ q <= cur =>
                \E i \in D : E[i].payload.type = "delta" /\ E[i].payload.delta.sequence = q
      BY <1>4, <3>1
    <3>7. \A i \in D : E[i].payload.type = "delta" => E[i].payload.delta.sequence \in Int
      <4> SUFFICES ASSUME NEW i \in D, E[i].payload.type = "delta"
                   PROVE  E[i].payload.delta.sequence \in Int
        OBVIOUS
      <4>1. i \in DOMAIN E
        BY <1>1 DEF D, Due
      <4> QED
        BY <4>1 DEF Gapfree, TapeFollows
    <3> HIDE DEF d, cur
    <3>8. ASSUME NEW i \in D \cup {n}, E[i].payload.type = "delta"
          PROVE  E[i].payload.delta.sequence <= d
      <4>1. CASE i \in D
        <5>1. E[i].payload.delta.sequence <= cur /\ E[i].payload.delta.sequence \in Int
          BY <3>6, <3>7, <3>8, <4>1
        <5> QED
          BY <3>1, <3>6, <5>1 DEF cur
      <4>2. CASE i = n
        BY <3>1, <3>5, <4>2
      <4> QED
        BY <4>1, <4>2
    <3>9. ASSUME NEW q \in Int, b < q, q <= d
          PROVE  \E i \in D \cup {n} :
                   E[i].payload.type = "delta" /\ E[i].payload.delta.sequence = q
      <4>1. CASE q = d
        BY <3>5, <4>1
      <4>2. CASE q # d
        <5>1. q <= cur
          BY <3>1, <3>9, <4>2 DEF cur
        <5> QED
          BY <3>6, <3>9, <5>1
      <4> QED
        BY <4>1, <4>2
    <3>10. d \in Int /\ d >= b
      BY <3>1, <3>6 DEF cur
    <3>11. v.seen = {E[i].payload : i \in Due(s, through, n)}
      BY <2>1, <2>2, <3>4
    <3>12. /\ v.book.sequence \in Int /\ v.book.sequence >= b
           /\ \A i \in Due(s, through, n) :
                E[i].payload.type = "delta" => E[i].payload.delta.sequence <= v.book.sequence
           /\ \A q \in Int : b < q /\ q <= v.book.sequence =>
                \E i \in Due(s, through, n) :
                  E[i].payload.type = "delta" /\ E[i].payload.delta.sequence = q
      <4>1. v.book.sequence = d /\ Due(s, through, n) = D \cup {n}
        BY <2>1, <3>4
      <4> QED
        BY <3>8, <3>9, <3>10, <4>1
    <3>13. /\ DOMAIN v = {"book", "is_valid", "seen", "raised"}
           /\ v.raised = None /\ v.is_valid = TRUE /\ v.book.contract = s.initial_book.contract
      BY <1>4, <3>4
    <3> QED
      BY <1>5, <3>11, <3>12, <3>13
  <2> QED
    BY <2>3, <2>4, <2>5, <2>6
<1> QED
  BY <1>6, <1>7

\* No projection of such a tape raises.
LEMMA TapeNeverRaises ==
  ASSUME NEW s, IsScenario(s), Gapfree(s), NEW through \in Int \cup {None}
  PROVE  ProjectBookUntil(s, through).raised = None
<1> DEFINE m == Len(s.market_events)
           Bad == {n \in 0..m : ~TapeOK(s, through, n)}
<1>1. m \in Nat
  BY DEF IsScenario, IsSequence
<1>2. TapeOK(s, through, 0)
  <2> DEFINE w == ProjectionWalk(s, through)[0]
  <2>1. w = [book |-> s.initial_book, is_valid |-> TRUE, seen |-> {}, raised |-> None]
    BY <1>1, ProjectionStep
  <2>2. /\ DOMAIN w = {"book", "is_valid", "seen", "raised"} /\ w.book = s.initial_book
        /\ w.is_valid = TRUE /\ w.seen = {} /\ w.raised = None
    BY <2>1
  <2> HIDE DEF w
  <2>3. Due(s, through, 0) = {}
    BY DEF Due
  <2>4. s.initial_book.sequence \in Int =>
          \A q \in Int : ~(s.initial_book.sequence < q /\ q <= s.initial_book.sequence)
    OBVIOUS
  <2> QED
    BY <2>2, <2>3, <2>4 DEF TapeOK, w
<1>3. ASSUME Bad # {} PROVE FALSE
  <2>1. Bad \in SUBSET Nat
    BY <1>1
  <2> HIDE DEF Bad
  <2>2. PICK n \in Bad : \A k \in Bad : n <= k
    BY <1>3, <2>1, LeastNat
  <2>3. n \in 0..m /\ ~TapeOK(s, through, n) /\ n # 0
    BY <1>2, <2>2 DEF Bad
  <2>4. n \in 1..m /\ n - 1 \in 0..m /\ n - 1 < n
    BY <1>1, <2>3
  <2>5. n - 1 \notin Bad
    BY <2>1, <2>2, <2>4
  <2>6. TapeOK(s, through, n - 1)
    BY <2>4, <2>5 DEF Bad
  <2>7. TapeOK(s, through, n)
    BY <2>4, <2>6, TapeStep
  <2> QED
    BY <2>3, <2>7
<1>4. TapeOK(s, through, m)
  BY <1>1, <1>3
<1> QED
  BY <1>4 DEF TapeOK, ProjectBookUntil

-----------------------------------------------------------------------------
(* The tape of a completed replay                                          *)

\* Numbers that grow are no smaller than their places.
LEMMA GrowingBounds ==
  ASSUME NEW m \in Nat, NEW f \in [1..m -> Int], \A i \in 1..m : f[i] >= 1,
         \A i, j \in 1..m : i < j => f[i] < f[j]
  PROVE  \A i \in 1..m : f[i] >= i
<1> DEFINE Bad == {i \in 1..m : f[i] < i}
<1>1. ASSUME Bad # {} PROVE FALSE
  <2>1. Bad \in SUBSET Nat
    OBVIOUS
  <2> HIDE DEF Bad
  <2>2. PICK n \in Bad : \A k \in Bad : n <= k
    BY <1>1, <2>1, LeastNat
  <2>3. n \in 1..m /\ f[n] < n /\ f[n] >= 1 /\ f[n] \in Int
    BY <2>2 DEF Bad
  <2>4. n - 1 \in 1..m /\ n - 1 < n
    BY <2>3
  <2>5. f[n - 1] < f[n] /\ f[n - 1] \in Int
    BY <2>3, <2>4
  <2>6. n - 1 \in Bad
    BY <2>3, <2>4, <2>5 DEF Bad
  <2> QED
    BY <2>1, <2>2, <2>4, <2>6
<1> QED
  BY <1>1

\* Among as many places, they are the places.
LEMMA GrowingFills ==
  ASSUME NEW m \in Nat, NEW f \in [1..m -> 1..m],
         \A i, j \in 1..m : i < j => f[i] < f[j]
  PROVE  \A i \in 1..m : f[i] = i
<1> DEFINE g == [i \in 1..m |-> m + 1 - f[m + 1 - i]]
<1>1. \A i \in 1..m : f[i] \in Int /\ f[i] >= 1 /\ f[i] <= m
  OBVIOUS
<1>2. \A i \in 1..m : f[i] >= i
  <2>1. f \in [1..m -> Int]
    BY <1>1
  <2> QED
    BY <1>1, <2>1, GrowingBounds
<1>3. \A i \in 1..m : m + 1 - i \in 1..m /\ m + 1 - (m + 1 - i) = i
  OBVIOUS
<1>4. g \in [1..m -> Int] /\ \A i \in 1..m : g[i] = m + 1 - f[m + 1 - i] /\ g[i] >= 1
  BY <1>1, <1>3
<1>5. ASSUME NEW i \in 1..m, NEW j \in 1..m, i < j PROVE g[i] < g[j]
  <2>1. m + 1 - j < m + 1 - i
    BY <1>5
  <2>2. f[m + 1 - j] < f[m + 1 - i]
    BY <1>3, <2>1
  <2>3. f[m + 1 - j] \in Int /\ f[m + 1 - i] \in Int
    BY <1>1, <1>3
  <2> QED
    BY <1>4, <2>2, <2>3
<1> HIDE DEF g
<1>6. \A i \in 1..m : g[i] >= i
  BY <1>4, <1>5, GrowingBounds
<1>7. ASSUME NEW i \in 1..m PROVE f[i] = i
  <2>1. g[m + 1 - i] >= m + 1 - i /\ g[m + 1 - i] = m + 1 - f[i]
    BY <1>3, <1>4, <1>6
  <2>2. f[i] >= i /\ f[i] \in Int
    BY <1>1, <1>2
  <2> QED
    BY <2>1, <2>2
<1> QED
  BY <1>7

\* Events that are numbered by their places stay where they are.
LEMMA NumberedStay ==
  ASSUME NEW items, IsSequence(items), items = [i \in DOMAIN items |-> items[i]],
         \A i \in DOMAIN items : items[i].sequence = i
  PROVE  SortedBySequence(items) = items
<1> DEFINE k == Len(items)
           t == SortedBySequence(items)
           f == [n \in 1..k |-> t[n].sequence]
<1>1. k \in Nat /\ DOMAIN items = 1..k
  BY DEF IsSequence
<1>2. (\A i \in DOMAIN items : items[i].sequence \in Int) /\ UniqueSequences(items)
  BY <1>1 DEF UniqueSequences
<1>3. /\ IsSequence(t) /\ Len(t) = k
      /\ \A n \in 1..k : \E i \in 1..k : t[n] = items[i]
      /\ \A m, n \in 1..k : m < n => t[m].sequence < t[n].sequence
  BY <1>2, SortedItems
<1>4. DOMAIN t = 1..k
  BY <1>3 DEF IsSequence
<1>5. t = [n \in 1..k |-> t[n]]
  BY <1>1 DEF SortedBySequence
<1> HIDE DEF t
<1>6. \A n \in 1..k : f[n] = t[n].sequence /\ f[n] \in 1..k /\ t[n] = items[f[n]]
  BY <1>1, <1>3
<1>7. f \in [1..k -> 1..k] /\ \A m, n \in 1..k : m < n => f[m] < f[n]
  BY <1>3, <1>6
<1> HIDE DEF f
<1>8. \A n \in 1..k : f[n] = n
  BY <1>1, <1>7, GrowingFills
<1>9. \A n \in 1..k : t[n] = items[n]
  BY <1>6, <1>8
<1>10. items = [n \in 1..k |-> items[n]]
  BY <1>1
<1> QED
  BY <1>5, <1>9, <1>10 DEF t

\* The clock readings of a run grow, and the clock is not behind the last.
TimesOK ==
  stage \in {"advancing", "publishing", "completed"} =>
    /\ \A i, j \in DOMAIN published[runs] : i <= j =>
         published[runs][i].at <= published[runs][j].at
    /\ \A i \in DOMAIN published[runs] : published[runs][i].at <= clock

\* A scenario that follows a completed replay has the published events, all of its contract.
ReplayedOK ==
  stage = "completed" /\ phase # "new" =>
    /\ IsScenario(scenario) /\ scenario.market_events = Collected
    /\ MarketEventLineage(Collected, scenario.initial_book)

\* A run that raises for a gap projected its book up to some time, or to the end.
GapOK ==
  reason = "book_gap" =>
    \E t \in Int \cup {None} : ProjectBookUntil(scenario, t).raised = "book_gap"

\* What is true of replayed scenarios in every reachable state.
GapInv == TimesOK /\ ReplayedOK /\ GapOK

\* An order for which the run raises for a gap.
LEMMA OrderGap ==
  ASSUME RunnerInv, MoreOrders, OrderError(NextOrder(NextAction)) = "book_gap"
  PROVE  \E t \in Int \cup {None} : ProjectBookUntil(scenario, t).raised = "book_gap"
<1> DEFINE s == scenario
           action == NextAction
           out == NextOrder(NextAction)
           c == MatchingCancel(scenario, NextAction, used_cancel_sequences)
           a == OrderAdmission(s, action)
           p == ProjectBookUntil(s, a.activates_at)
           sequence == Len(order_results)
<1>1. /\ out.raised = None => ResultOK(scenario, out.result, NextAction, Len(order_results), c)
      /\ Constructed(s) /\ IsOrderAction(action)
  BY NextOrderOK
<1>2. out.raised = "book_gap"
  <2> HIDE DEF out, c
  <2>1. out.raised = None => OrderResultValid(out.result)
    BY <1>1 DEF ResultOK
  <2>2. "book_gap" # None
    BY NoneDiffers DEF Reasons
  <2> QED
    BY <2>1, <2>2 DEF OrderError, out
<1>3. out = AdmittedOrder(s, sequence, action, a, c)
  BY DEF NextOrder, RunOrderAction, OrderAdmission
<1>4. "book_gap" # None /\ "book_gap" # "book_invalid" /\ "book_gap" # "winner_count"
  BY NoneDiffers DEF Reasons
<1> HIDE DEF a, c, out, s, action, sequence
<1>5. ~rejected(a) /\ ~(c # None /\ c.scheduled_at < a.activates_at)
  BY <1>2, <1>3, <1>4 DEF AdmittedOrder
<1>6. out = ActivatedOrder(s, sequence, action, a, c, p)
  BY <1>3, <1>5 DEF AdmittedOrder
<1> HIDE DEF p
<1>7. p.raised = "book_gap"
  BY <1>2, <1>4, <1>6 DEF ActivatedOrder, PricedResult
<1>8. a.activates_at \in Int \cup {None}
  <2>1. \/ a.activates_at = None
        \/ a.activates_at = action.scheduled_at + s.configuration.fixed_latency_ms
    BY DEF a, OrderAdmission, admit_order, activation_time
  <2>2. ~rejected(a) /\ a.activates_at # None => s.configuration.fixed_latency_ms \in Nat
    <3>1. ConfigurationError(s.configuration) = None
      BY DEF RunnerInv, ScenarioOK, MoreOrders, s
    <3>2. "latency" # None /\ "fill_model" # None
      BY NoneDiffers DEF Reasons
    <3> QED
      BY <1>1, <3>1, <3>2 DEF ConfigurationError, Constructed, IsScenario, IsConfiguration
  <2>3. action.scheduled_at \in Int
    BY <1>1 DEF IsOrderAction
  <2> QED
    BY <1>5, <2>1, <2>2, <2>3
<1> QED
  BY <1>7, <1>8 DEF p, s

\* A step of replay keeps the readings in order.
LEMMA ReplayTimes ==
  ASSUME ReplayInv, TimesOK, ReplayStep
  PROVE  TimesOK'
<1>1. /\ runs \in Nat /\ published \in Seq(Seq(Seen)) /\ Len(published) = runs /\ clock \in Int
      /\ \A n \in 1..runs : published[n] \in Seq(Seen)
      /\ \A n \in 1..runs : \A i \in DOMAIN published[n] : published[n][i].at \in Int
  <2>1. /\ runs \in Nat /\ published \in Seq(Seq(Seen)) /\ Len(published) = runs /\ clock \in Int
    BY DEF ReplayInv, PublishedOK, LoopOK
  <2>2. \A n \in 1..runs : published[n] \in Seq(Seen)
    BY <2>1
  <2>3. \A e \in Seen : e.at \in Int
    BY DEF Seen
  <2>4. \A n \in 1..runs : \A i \in DOMAIN published[n] : published[n][i] \in Seen
    BY <2>2
  <2> QED
    BY <2>1, <2>2, <2>3, <2>4
<1>2. CASE StartReplay \/ OrderingRaises
  <2>1. published' = Append(published, <<>>) /\ runs' = runs + 1
    BY <1>2 DEF StartReplay, OrderingRaises
  <2> DEFINE T == Seq(Seen)
  <2>2. <<>> \in T /\ DOMAIN <<>> = {}
    OBVIOUS
  <2>3. published \in Seq(T)
    BY <1>1
  <2> HIDE DEF T
  <2>4. published'[runs'] = <<>>
    BY <1>1, <2>1, <2>2, <2>3
  <2> QED
    BY <2>2, <2>4 DEF TimesOK
<1>3. CASE TimeReversed \/ PublishFails \/ SessionRefused \/ ResetClock
  BY <1>3 DEF TimeReversed, PublishFails, SessionRefused, ResetClock, TimesOK
<1>4. CASE CompleteReplay
  BY <1>4 DEF CompleteReplay, TimesOK
<1>5. ASSUME stage \in {"advancing", "publishing"}
      PROVE  /\ runs \in 1..runs
             /\ \A i, j \in DOMAIN published[runs] : i <= j =>
                  published[runs][i].at <= published[runs][j].at
             /\ \A i \in DOMAIN published[runs] : published[runs][i].at <= clock
  BY <1>1, <1>5 DEF ReplayInv, LoopOK, TimesOK
<1>6. CASE AdvanceClock \/ SleepOnClock
  <2>1. /\ stage \in {"advancing", "publishing"} /\ published' = published /\ runs' = runs
        /\ clock' >= clock /\ clock' \in Int
    <3>1. LoopOK'
      BY <1>6, QuietKeeps DEF ReplayInv
    <3>2. clock' \in Int
      BY <3>1 DEF LoopOK
    <3>3. CASE AdvanceClock
      BY <3>2, <3>3 DEF AdvanceClock, AdvancesClock
    <3>4. CASE SleepOnClock
      BY <1>1, <3>2, <3>4, ManifestAssumption DEF SleepOnClock, ManifestAssumption
    <3> QED
      BY <1>6, <3>2, <3>3, <3>4
  <2>2. \A i \in DOMAIN published[runs] : published[runs][i].at <= clock'
    BY <1>1, <1>5, <2>1
  <2> QED
    BY <1>5, <2>1, <2>2 DEF TimesOK
<1>7. CASE PublishEvent
  <2> DEFINE was == published[runs]
             x == [event |-> ordered[processed + 1], at |-> clock]
             now == Append(was, x)
  <2>1. /\ stage = "publishing" /\ runs' = runs /\ clock' = clock
        /\ published' = [published EXCEPT ![runs] = now]
    BY <1>7 DEF PublishEvent
  <2>2. /\ runs \in 1..runs /\ was \in Seq(Seen)
        /\ \A i, j \in DOMAIN was : i <= j => was[i].at <= was[j].at
        /\ \A i \in DOMAIN was : was[i].at <= clock
    BY <1>1, <1>5, <2>1
  <2>3. published'[runs'] = now
    BY <1>1, <2>1, <2>2
  <2>4. x.at = clock
    OBVIOUS
  <2> HIDE DEF x
  <2>5. /\ Len(was) \in Nat /\ DOMAIN was = 1..Len(was) /\ DOMAIN now = 1..(Len(was) + 1)
        /\ now[Len(was) + 1] = x /\ \A i \in 1..Len(was) : now[i] = was[i]
    BY <2>2
  <2> HIDE DEF now
  <2>6. \A i \in DOMAIN was : was[i].at \in Int
    BY <1>1, <2>2
  <2> HIDE DEF was
  <2>7. ASSUME NEW i \in DOMAIN now PROVE now[i].at <= clock
    <3>1. CASE i = Len(was) + 1
      BY <1>1, <2>4, <2>5, <3>1
    <3>2. CASE i # Len(was) + 1
      <4>1. i \in DOMAIN was /\ now[i] = was[i]
        BY <2>5, <3>2
      <4> QED
        BY <2>2, <4>1
    <3> QED
      BY <3>1, <3>2
  <2>8. ASSUME NEW i \in DOMAIN now, NEW j \in DOMAIN now, i <= j
        PROVE  now[i].at <= now[j].at
    <3>1. CASE j = Len(was) + 1
      BY <2>4, <2>5, <2>7, <3>1
    <3>2. CASE j # Len(was) + 1
      <4>1. i \in DOMAIN was /\ j \in DOMAIN was /\ now[i] = was[i] /\ now[j] = was[j]
        BY <2>5, <2>8, <3>2
      <4> QED
        BY <2>2, <2>8, <4>1
    <3> QED
      BY <3>1, <3>2
  <2> QED
    BY <2>1, <2>3, <2>7, <2>8 DEF TimesOK
<1> QED
  BY <1>2, <1>3, <1>4, <1>6, <1>7 DEF ReplayStep

\* A scenario made of the published events has them in their order.
LEMMA DefineReplayedKeeps ==
  ASSUME ReplayInv, RunnerInv, GapInv, DefineReplayed
  PROVE  GapInv'
<1>1. PICK plan \in Plans : DefineScenario([plan EXCEPT !.market_events = Collected])
  BY DEF DefineReplayed
<1> DEFINE s == [plan EXCEPT !.market_events = Collected]
<1>2. /\ stage = "completed" /\ PayloadsOK /\ UNCHANGED replayVars
      /\ ScenarioError(s) = None /\ scenario' = SimulationScenario(s) /\ reason' = reason
      /\ phase = "new"
  BY <1>1 DEF DefineReplayed, RunnerInv, DefineScenario
<1>3. IsScenario(s) /\ s.market_events = Collected
  BY <1>2, ReplayedScenario
<1> HIDE DEF s
<1>4. /\ IsSequence(Collected) /\ \A i \in DOMAIN Collected : Collected[i].sequence = i
  BY <1>2, CollectedEvents
<1>5. Collected = [i \in DOMAIN Collected |-> Collected[i]]
  BY DEF Collected
<1>6. SortedBySequence(Collected) = Collected
  BY <1>4, <1>5, NumberedStay
<1>7. /\ IsScenario(scenario') /\ scenario'.market_events = Collected
      /\ scenario'.initial_book = s.initial_book
  BY <1>2, <1>3, <1>6, ConstructedScenario
<1>8. MarketEventLineage(Collected, s.initial_book)
  <2>1. /\ None # "initial_book_invalid" /\ None # "sequence_duplicate"
        /\ None # "market_event_mismatch"
    BY NoneDiffers DEF Reasons
  <2> QED
    BY <1>2, <1>3, <2>1 DEF ScenarioError
<1>9. Collected' = Collected
  BY <1>2 DEF Collected, replayVars
<1>10. ReplayedOK'
  BY <1>7, <1>8, <1>9 DEF ReplayedOK
<1>11. GapOK'
  <2>1. reason # "book_gap"
    <3>1. reason = None
      BY <1>2 DEF RunnerInv, ScenarioOK
    <3>2. None # "book_gap"
      BY NoneDiffers DEF Reasons
    <3> QED
      BY <3>1, <3>2
  <2> QED
    BY <1>2, <2>1 DEF GapOK
<1>12. TimesOK'
  BY <1>2 DEF GapInv, TimesOK, replayVars
<1> QED
  BY <1>10, <1>11, <1>12 DEF GapInv

\* A scenario written by hand follows no replay.
LEMMA DefineFixtureKeeps ==
  ASSUME RunnerInv, GapInv, DefineFixture
  PROVE  GapInv'
<1>1. PICK family \in Fixtures : \E s \in family : DefineScenario(s) \/ RefuseScenario(s)
  BY DEF DefineFixture
<1>2. PICK s \in family : DefineScenario(s) \/ RefuseScenario(s)
  BY <1>1
<1>3. stage = "idle" /\ UNCHANGED replayVars /\ phase = "new"
  BY DEF DefineFixture
<1>4. TimesOK' /\ ReplayedOK'
  BY <1>3 DEF TimesOK, ReplayedOK, replayVars
<1>5. reason' # "book_gap"
  <2>1. reason # "book_gap"
    <3>1. reason = None
      BY <1>3 DEF RunnerInv, ScenarioOK
    <3>2. None # "book_gap"
      BY NoneDiffers DEF Reasons
    <3> QED
      BY <3>1, <3>2
  <2>2. CASE DefineScenario(s)
    BY <2>1, <2>2 DEF DefineScenario
  <2>3. CASE RefuseScenario(s)
    <3>1. None # "book_gap"
      BY NoneDiffers DEF Reasons
    <3> QED
      BY <2>3, <3>1 DEF RefuseScenario, Raise, ScenarioError
  <2> QED
    BY <1>2, <2>2, <2>3
<1> QED
  BY <1>4, <1>5 DEF GapInv, GapOK

\* The runner leaves its scenario alone, and raises for a gap where a projection has one.
LEMMA RunStepKeeps ==
  ASSUME RunnerInv, GapInv, RunStep, UNCHANGED replayVars
  PROVE  GapInv'
<1>1. scenario' = scenario /\ phase # "new"
  BY DEF RunStep, StartRun, RefuseConfiguration, FinalBookRaises, RunOrder, OrderRaises,
         FinishRun, FinishRaises, Raise, MoreOrders, LoopDone
<1>2. Collected' = Collected /\ stage' = stage
  BY DEF Collected, replayVars
<1>3. TimesOK' /\ ReplayedOK'
  BY <1>1, <1>2 DEF GapInv, TimesOK, ReplayedOK, replayVars
<1>4. CASE StartRun \/ RunOrder \/ FinishRun
  <2>1. reason' = reason
    BY <1>4 DEF StartRun, RunOrder, FinishRun
  <2> QED
    BY <1>1, <1>3, <2>1 DEF GapInv, GapOK
<1>5. "book_gap" # None
  BY NoneDiffers DEF Reasons
<1>6. CASE RefuseConfiguration
  <2>1. reason' # "book_gap"
    BY <1>5, <1>6 DEF RefuseConfiguration, Raise, ConfigurationError
  <2> QED
    BY <1>3, <2>1 DEF GapInv, GapOK
<1>7. CASE FinishRaises
  <2>1. reason' # "book_gap"
    BY <1>5, <1>7 DEF FinishRaises, Raise, FinishError
  <2> QED
    BY <1>3, <2>1 DEF GapInv, GapOK
<1>8. CASE FinalBookRaises
  <2>1. reason' = ProjectBookUntil(scenario, None).raised
    BY <1>8 DEF FinalBookRaises, Raise
  <2> QED
    BY <1>1, <1>3, <2>1 DEF GapInv, GapOK
<1>9. CASE OrderRaises
  <2>1. MoreOrders /\ reason' = OrderError(NextOrder(NextAction))
    BY <1>9 DEF OrderRaises, Raise
  <2>2. reason' = "book_gap" =>
          \E t \in Int \cup {None} : ProjectBookUntil(scenario, t).raised = "book_gap"
    BY <2>1, OrderGap
  <2> QED
    BY <1>1, <1>3, <2>2 DEF GapInv, GapOK
<1> QED
  BY <1>4, <1>6, <1>7, <1>8, <1>9 DEF RunStep

\* Every step keeps what is true of replayed scenarios.
LEMMA GapNextInv == ReplayInv /\ RunnerInv /\ GapInv /\ [Next]_vars => GapInv'
<1> SUFFICES ASSUME ReplayInv, RunnerInv, GapInv, [Next]_vars PROVE GapInv'
  OBVIOUS
<1>1. CASE ReplayFirst
  <2>1. phase = "new" /\ UNCHANGED scenarioVars
    BY <1>1 DEF ReplayFirst
  <2>2. phase' = "new" /\ reason' = reason /\ scenario' = scenario
    BY <2>1 DEF scenarioVars
  <2>3. TimesOK'
    <3>1. CASE ReplayStep
      BY <3>1, ReplayTimes DEF GapInv
    <3>2. CASE ~ReplayStep
      BY <1>1, <3>2 DEF ReplayFirst, Load, RefuseDataset, TimesOK
    <3> QED
      BY <3>1, <3>2
  <2> QED
    BY <2>2, <2>3 DEF GapInv, ReplayedOK, GapOK
<1>2. CASE DefineReplayed
  BY <1>2, DefineReplayedKeeps
<1>3. CASE DefineFixture
  BY <1>3, DefineFixtureKeeps
<1>4. CASE Simulate
  BY <1>4, RunStepKeeps DEF Simulate
<1>5. CASE UNCHANGED vars
  BY <1>5 DEF vars, replayVars, scenarioVars, GapInv, TimesOK, ReplayedOK, GapOK, Collected
<1> QED
  BY <1>1, <1>2, <1>3, <1>4, <1>5 DEF Next

\* What is true of replayed scenarios in every state.
LEMMA GapInductive == Spec => []GapInv
<1>1. Init => GapInv
  <2> SUFFICES ASSUME Init PROVE GapInv
    OBVIOUS
  <2>1. None # "book_gap"
    BY NoneDiffers DEF Reasons
  <2> QED
    BY <2>1 DEF Init, ReplayInit, ScenarioInit, GapInv, TimesOK, ReplayedOK, GapOK
<1> QED
  BY <1>1, GapNextInv, ReplayInductive, RunnerInductive, PTL DEF Spec

\* The change that another one follows was published before it.
LEMMA FollowedPublished ==
  ASSUME ReplayInv, stage = "completed", NEW i \in DOMAIN published[runs],
         NEW k \in DOMAIN Dataset, NEW e, e = published[runs][i].event,
         NEW q \in Int, e.exchange_sequence = q, Dataset[k].exchange_sequence = q - 1,
         Dataset[k].occurred_at <= e.occurred_at
  PROVE  \E j \in DOMAIN published[runs] : j < i /\ published[runs][j].event = Dataset[k]
<1> DEFINE seen == published[runs]
           d == Dataset[k]
<1>1. /\ runs \in Nat /\ runs # 0 /\ published \in Seq(Seq(Seen)) /\ Len(published) = runs
      /\ ParsedEvents(Dataset)
  BY DEF ReplayInv, PublishedOK, LoopOK, DatasetOK
<1>2. runs \in 1..runs /\ seen \in Seq(Seen)
  BY <1>1
<1>3. /\ Len(seen) \in Nat /\ DOMAIN seen = 1..Len(seen) /\ i \in Nat /\ seen[i] \in Seen
  BY <1>2
<1>4. d.occurred_at \in Int /\ e.occurred_at \in Int
  <2>1. \A n \in DOMAIN Dataset : Dataset[n].occurred_at \in Int
    BY <1>1 DEF ParsedEvents, IsEvent
  <2>2. e \in {Dataset[n] : n \in DOMAIN Dataset}
    BY <1>3 DEF Seen
  <2> QED
    BY <2>1, <2>2
<1>5. KeyBefore(ExchangeSequenceKey(d), ExchangeSequenceKey(e))
  <2>1. q # Missing /\ q - 1 # Missing
    BY ManifestAssumption DEF ManifestAssumption
  <2>2. ExchangeSequenceKey(d) = <<0, q - 1>> /\ ExchangeSequenceKey(e) = <<0, q>>
    BY <2>1 DEF ExchangeSequenceKey
  <2>3. /\ 2 \in DOMAIN <<0, q - 1>> /\ q - 1 < q
        /\ \A j \in 1..(2 - 1) : <<0, q - 1>>[j] = <<0, q>>[j]
    OBVIOUS
  <2>4. <<0, q - 1>>[2] < <<0, q>>[2]
    OBVIOUS
  <2> QED
    BY <2>2, <2>3, <2>4 DEF KeyBefore
<1>6. PublishedInKeyOrder
  BY KeyOrderKept
<1>7. \E j \in 1..(i - 1) : seen[j].event = d
  <2>1. \/ d.occurred_at < e.occurred_at
        \/ /\ d.occurred_at = e.occurred_at
           /\ KeyBefore(ExchangeSequenceKey(d), ExchangeSequenceKey(e))
    BY <1>4, <1>5
  <2> QED
    BY <1>2, <1>6, <2>1 DEF PublishedInKeyOrder
<1>8. PICK j \in 1..(i - 1) : seen[j].event = d
  BY <1>7
<1>9. j \in DOMAIN seen /\ j < i
  BY <1>3
<1> QED
  BY <1>8, <1>9

\* The events published from a gapless recording are a tape without gaps.
LEMMA ReplayedTape ==
  ASSUME ReplayInv, RunnerInv, GapInv, stage = "completed", phase # "new",
         Gapless(Dataset, scenario.initial_book)
  PROVE  IsScenario(scenario) /\ Gapfree(scenario)
<1> DEFINE s == scenario
           E == Collected
           seen == published[runs]
           D == Dataset
           b == s.initial_book.sequence
<1>1. IsScenario(s) /\ s.market_events = E /\ MarketEventLineage(E, s.initial_book)
  BY DEF GapInv, ReplayedOK
<1>2. seen \in Seq(Seen)
  <2>1. runs \in 1..Len(published) /\ published \in Seq(Seq(Seen))
    BY DEF ReplayInv, PublishedOK, LoopOK
  <2> QED
    BY <2>1
<1>3. DOMAIN seen = 1..Len(seen) /\ Len(seen) \in Nat /\ \A i \in DOMAIN seen : seen[i] \in Seen
  BY <1>2
<1>4. /\ DOMAIN E = DOMAIN seen
      /\ \A i \in DOMAIN E : E[i].scheduled_at = seen[i].at /\ E[i].payload = seen[i].event.payload
  BY DEF Collected
<1>5. \A i \in DOMAIN E : \E k \in DOMAIN D : seen[i].event = D[k]
  BY <1>3, <1>4 DEF Seen
<1>6. \A i, j \in DOMAIN E : i <= j => E[i].scheduled_at <= E[j].scheduled_at
  BY <1>4 DEF GapInv, TimesOK
<1>7. b \in Int \cup {None}
  BY <1>1 DEF IsScenario, IsBook, Snapshots
<1>8. \A k \in DOMAIN D :
        D[k].payload.type = "delta" => D[k].payload.delta.sequence \in Int \cup {None}
  BY DEF RunnerInv, PayloadsOK, IsPayload
<1> HIDE DEF E, D
<1>9. ASSUME NEW i \in DOMAIN E PROVE TapeFollows(s, i)
  <2> DEFINE p == E[i].payload
             q == p.delta.sequence
  <2>1. PICK k \in DOMAIN D : seen[i].event = D[k]
    BY <1>5
  <2>2. p = D[k].payload
    BY <1>4, <2>1
  <2>3. p.type # "snapshot"
    BY <2>2 DEF Gapless, D
  <2>4. ASSUME p.type = "delta"
        PROVE  /\ b \in Int /\ q \in Int /\ q = D[k].exchange_sequence
               /\ p.delta.previous_sequence = q - 1 /\ q > b
               /\ \A n \in DOMAIN D :
                    D[n].payload.type = "delta" /\ D[n].payload.delta.sequence = q
                      => D[n].payload = p
               /\ \/ q = b + 1
                  \/ \E n \in DOMAIN D : /\ D[n].exchange_sequence = q - 1
                                         /\ D[n].payload.type = "delta"
                                         /\ D[n].occurred_at <= D[k].occurred_at
    <3>1. /\ b # None /\ q # None /\ q = D[k].exchange_sequence
          /\ p.delta.previous_sequence = q - 1 /\ q > b
          /\ \A n \in DOMAIN D :
               D[n].payload.type = "delta" /\ D[n].payload.delta.sequence = q
                 => D[n].payload = p
          /\ \/ q = b + 1
             \/ \E n \in DOMAIN D : /\ D[n].exchange_sequence = q - 1
                                    /\ D[n].payload.type = "delta"
                                    /\ D[n].occurred_at <= D[k].occurred_at
      BY <2>2, <2>4 DEF Gapless, D
    <3>2. q \in Int \cup {None}
      BY <1>8, <2>2, <2>4
    <3> HIDE DEF q, p
    <3> QED
      BY <1>7, <3>1, <3>2
  <2>5. ASSUME p.type = "delta"
        PROVE  \A j \in DOMAIN E : E[j].payload.type = "delta" /\ E[j].payload.delta.sequence = q
                 => E[j].payload = p
    BY <1>4, <1>5, <2>4, <2>5
  <2>6. ASSUME p.type = "delta", q # b + 1
        PROVE  \E j \in DOMAIN E : /\ j < i /\ E[j].payload.type = "delta"
                                   /\ E[j].payload.delta.sequence = q - 1
    <3>1. PICK n \in DOMAIN D : /\ D[n].exchange_sequence = q - 1
                                /\ D[n].payload.type = "delta"
                                /\ D[n].occurred_at <= D[k].occurred_at
      BY <2>4, <2>6
    <3>2. D[n].payload.delta.sequence = q - 1
      BY <3>1 DEF Gapless, D
    <3>3. i \in DOMAIN published[runs] /\ q \in Int /\ D[k].exchange_sequence = q
      BY <1>4, <2>4, <2>6
    <3>4. PICK j \in DOMAIN published[runs] : j < i /\ published[runs][j].event = D[n]
      <4> HIDE DEF q, p
      <4> QED
        BY <2>1, <3>1, <3>3, FollowedPublished DEF D
    <3> QED
      BY <1>4, <3>1, <3>2, <3>4
  <2>7. p = s.market_events[i].payload
    BY <1>1
  <2> QED
    BY <1>1, <2>3, <2>4, <2>5, <2>6 DEF TapeFollows
<1> QED
  BY <1>1, <1>6, <1>9 DEF Gapfree

\* Whatever order a gapless stream was recorded in, however it was cut into files and whatever
\* consumers did to the clock, the deltas published from it apply one after the other, at the
\* end and at every order's activation: the runner never raises for a gap
\* (sort_replay_events, _project_book_until).
THEOREM ReplayedBooksHaveNoGapsHolds == Spec => []ReplayedBooksHaveNoGaps
<1>1. ReplayInv /\ RunnerInv /\ GapInv => ReplayedBooksHaveNoGaps
  <2> SUFFICES ASSUME ReplayInv, RunnerInv, GapInv, reason = "book_gap", stage = "completed",
                      Gapless(Dataset, scenario.initial_book)
               PROVE  FALSE
    BY DEF ReplayedBooksHaveNoGaps
  <2>1. "book_gap" # None
    BY NoneDiffers DEF Reasons
  <2>2. phase # "new"
    BY <2>1 DEF RunnerInv, ScenarioOK
  <2>3. IsScenario(scenario) /\ Gapfree(scenario)
    BY <2>2, ReplayedTape
  <2>4. PICK t \in Int \cup {None} : ProjectBookUntil(scenario, t).raised = "book_gap"
    BY DEF GapInv, GapOK
  <2>5. ProjectBookUntil(scenario, t).raised = None
    BY <2>3, TapeNeverRaises
  <2> QED
    BY <2>1, <2>4, <2>5
<1> QED
  BY <1>1, GapInductive, ReplayInductive, RunnerInductive, PTL
=============================================================================
