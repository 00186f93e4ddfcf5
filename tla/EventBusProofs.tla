--------------------------- MODULE EventBusProofs ---------------------------
(***************************************************************************)
(* Proofs about the event bus for every set of subscriptions, names,       *)
(* events and keys, and every bound.                                       *)
(***************************************************************************)
EXTENDS EventBus, FiniteSetTheorems, TLAPS

Items == Events \cup {CLOSED}

\* A subscription that was not constructed yet has no state at all.
Unborn ==
    \A s \in Subs : status[s] = "new" =>
        /\ queue[s] = <<>> /\ pending[s] = 0
        /\ task[s] = "none" /\ current[s] = <<>>
        /\ accepted[s] = <<>> /\ handled[s] = <<>>

\* A constructed subscription has its constructor arguments.
Constructed == \A s \in Subs : status[s] # "new" => spec[s] \in Specs

\* Outside a handler call no event is in hand.
IdleHands == \A s \in Subs : task[s] \in {"none", "waiting"} => current[s] = <<>>

\* A consumer handle, and so every task close() waits for, has its task attached.
Attached ==
    /\ \A n \in Names : handles[n] # None => task[handles[n]] # "none"
    /\ \A s \in closeTasks : task[s] # "none"

\* The inductive invariant.
IInv ==
    /\ TypeOK /\ Unborn /\ Constructed /\ IdleHands /\ Attached
    /\ QueueAccounting /\ ExactlyOnceInOrder /\ RegistryConsistent

\* TRUE of the initial state of every bus.
LEMMA InitIInv == Init => IInv
<1> SUFFICES ASSUME Init PROVE IInv
    OBVIOUS
<1> USE BusAssumption DEF Init
<1>1. TypeOK
  <2>1. <<>> \in Seq(Events) /\ <<>> \in Seq(Events \cup {CLOSED})
    OBVIOUS
  <2>2. queue \in [Subs -> Seq(Events \cup {CLOSED})]
    BY <2>1
  <2>3. /\ current \in [Subs -> Seq(Events)]
        /\ accepted \in [Subs -> Seq(Events)]
        /\ handled \in [Subs -> Seq(Events)]
    BY <2>1
  <2>4. registry \in [Names -> Subs \cup {None}] /\ handles \in [Names -> Subs \cup {None}]
    OBVIOUS
  <2>5. status \in [Subs -> {"new", "open", "closed"}] /\ spec \in [Subs -> Specs \cup {None}]
    OBVIOUS
  <2>6. pending \in [Subs -> Int] /\ failures \in [Subs -> Nat]
    OBVIOUS
  <2> QED
    BY <2>2, <2>3, <2>4, <2>5, <2>6 DEF TypeOK
<1>2. Unborn /\ Constructed /\ IdleHands /\ Attached
    BY DEF Unborn, Constructed, IdleHands, Attached
<1>3. QueueAccounting
    BY DEF QueueAccounting
<1>4. ExactlyOnceInOrder
    BY DEF ExactlyOnceInOrder, InOrder
<1>5. RegistryConsistent
    BY DEF RegistryConsistent
<1> QED
    BY <1>1, <1>2, <1>3, <1>4, <1>5 DEF IInv

\* What the SMT backend needs to know of the queue operations.
LEMMA AppendFacts ==
    ASSUME NEW S, NEW q \in Seq(S), NEW e \in S
    PROVE  /\ Append(q, e) \in Seq(S)
           /\ Len(Append(q, e)) = Len(q) + 1
           /\ \A i \in 1 .. Len(q) : Append(q, e)[i] = q[i]
           /\ Append(q, e)[Len(q) + 1] = e
    OBVIOUS

\* Taking the head off a queue (asyncio.Queue.get) leaves a shorter sequence of the
\* same items.
LEMMA TailFacts ==
    ASSUME NEW S, NEW q \in Seq(S), q # <<>>
    PROVE  /\ Tail(q) \in Seq(S)
           /\ Len(q) \in Nat \ {0}
           /\ Len(Tail(q)) = Len(q) - 1
           /\ \A i \in 1 .. Len(q) - 1 : Tail(q)[i] = q[i + 1]
           /\ Head(q) = q[1]
           /\ Head(q) \in S
    OBVIOUS

\* Appending one element is concatenating a one-element sequence.
LEMMA ConcatOne ==
    ASSUME NEW S, NEW q \in Seq(S), NEW e \in S
    PROVE  q \o <<e>> = Append(q, e)
    OBVIOUS

\* Concatenating the empty sequence changes nothing.
LEMMA ConcatNone ==
    ASSUME NEW S, NEW q \in Seq(S)
    PROVE  q \o <<>> = q
    OBVIOUS

\* Putting an event, taking one, finishing one and putting the sentinel all keep
\* the accepted events in order.
LEMMA InOrderPut ==
    ASSUME NEW acc \in Seq(Events), NEW han \in Seq(Events), NEW cur \in Seq(Events),
           NEW q \in Seq(Items), NEW n \in Nat, Len(q) = n, NEW e \in Events,
           InOrder(acc, han, cur, q, n)
    PROVE  InOrder(Append(acc, e), han, cur, Append(q, e), n + 1)
<1> DEFINE h == Len(han)
           c == Len(cur)
<1>1. h \in Nat /\ c \in Nat /\ Len(acc) = h + c + n /\ Len(acc) \in Nat
    BY DEF InOrder
<1>2. /\ Len(Append(acc, e)) = Len(acc) + 1
      /\ \A i \in 1 .. Len(acc) : Append(acc, e)[i] = acc[i]
      /\ Append(acc, e)[Len(acc) + 1] = e
    BY AppendFacts
<1>3. e \in Items
    BY DEF Items
<1>4. \A i \in 1 .. n : Append(q, e)[i] = q[i]
    BY <1>3, AppendFacts
<1>5. Append(q, e)[n + 1] = e
    BY <1>3, AppendFacts
<1>6. \A i \in 1 .. n + 1 : Append(q, e)[i] = Append(acc, e)[h + c + i]
  <2> TAKE i \in 1 .. n + 1
  <2>1. CASE i \in 1 .. n
    <3>1. h + c + i \in 1 .. Len(acc)
      BY <1>1, <2>1
    <3> QED
      BY <1>2, <1>4, <2>1, <3>1 DEF InOrder
  <2>2. CASE i = n + 1
    BY <1>1, <1>2, <1>5, <2>2
  <2> QED
    BY <1>1, <2>1, <2>2
<1>7. \A i \in 1 .. h : han[i] = Append(acc, e)[i]
    BY <1>1, <1>2 DEF InOrder
<1>8. \A i \in 1 .. c : cur[i] = Append(acc, e)[h + i]
  <2> TAKE i \in 1 .. c
  <2>1. h + i \in 1 .. Len(acc)
    BY <1>1
  <2> QED
    BY <1>2, <2>1 DEF InOrder
<1>9. Len(Append(acc, e)) = Len(han) + Len(cur) + (n + 1)
    BY <1>1, <1>2
<1> QED
    BY <1>6, <1>7, <1>8, <1>9, Zenon DEF InOrder

\* The consumer taking the first queued event for its handler keeps the order: the
\* event moves from the queue to the place of the current one.
LEMMA InOrderTake ==
    ASSUME NEW acc \in Seq(Events), NEW han \in Seq(Events),
           NEW q \in Seq(Items), NEW n \in Nat \ {0}, Len(q) >= n, q # <<>>,
           Head(q) \in Events,
           InOrder(acc, han, <<>>, q, n)
    PROVE  InOrder(acc, han, <<Head(q)>>, Tail(q), n - 1)
<1>1. Len(han) \in Nat /\ Len(acc) = Len(han) + n /\ Len(acc) \in Nat /\ Len(q) \in Nat
    BY DEF InOrder
<1>2. \A i \in 1 .. n : q[i] = acc[Len(han) + i]
    BY <1>1 DEF InOrder
<1>3. Head(q) = acc[Len(han) + 1]
    BY <1>2, TailFacts
<1>4. \A i \in 1 .. n - 1 : Tail(q)[i] = acc[Len(han) + 1 + i]
  <2> TAKE i \in 1 .. n - 1
  <2>1. i + 1 \in 1 .. n /\ i \in 1 .. Len(q) - 1
    BY <1>1
  <2>2. Tail(q)[i] = q[i + 1]
    BY <2>1, TailFacts
  <2>3. q[i + 1] = acc[Len(han) + (i + 1)]
    BY <1>2, <2>1
  <2>4. Len(han) + (i + 1) = Len(han) + 1 + i
    BY <1>1, <2>1
  <2> QED
    BY <2>2, <2>3, <2>4
<1>5. Len(<<Head(q)>>) = 1 /\ \A i \in 1 .. 1 : <<Head(q)>>[i] = acc[Len(han) + i]
    BY <1>3
<1> QED
    BY <1>1, <1>4, <1>5 DEF InOrder

\* The handler ending, well or with an exception, keeps the order: the current event
\* becomes the last handled one.
LEMMA InOrderFinish ==
    ASSUME NEW acc \in Seq(Events), NEW han \in Seq(Events), NEW cur \in Seq(Events),
           NEW q \in Seq(Items), NEW n \in Nat,
           InOrder(acc, han, cur, q, n)
    PROVE  InOrder(acc, han \o cur, <<>>, q, n)
<1>1. /\ Len(han \o cur) = Len(han) + Len(cur)
      /\ \A i \in 1 .. Len(han) : (han \o cur)[i] = han[i]
      /\ \A i \in Len(han) + 1 .. Len(han) + Len(cur) : (han \o cur)[i] = cur[i - Len(han)]
      /\ Len(han) \in Nat /\ Len(cur) \in Nat
    OBVIOUS
<1>2. \A i \in 1 .. Len(han \o cur) : (han \o cur)[i] = acc[i]
  <2> TAKE i \in 1 .. Len(han \o cur)
  <2>1. CASE i \in 1 .. Len(han)
    BY <1>1, <2>1 DEF InOrder
  <2>2. CASE i \in Len(han) + 1 .. Len(han) + Len(cur)
    <3>1. i - Len(han) \in 1 .. Len(cur) /\ Len(han) + (i - Len(han)) = i
      BY <1>1, <2>2
    <3> QED
      BY <1>1, <2>2, <3>1 DEF InOrder
  <2> QED
    BY <1>1, <2>1, <2>2
<1>3. Len(<<>>) = 0
    OBVIOUS
<1>4. Len(acc) = Len(han \o cur) + Len(<<>>) + n
    BY <1>1, <1>3 DEF InOrder
<1>5. \A i \in 1 .. n : q[i] = acc[Len(han \o cur) + Len(<<>>) + i]
    BY <1>1, <1>3 DEF InOrder
<1> QED
    BY <1>2, <1>3, <1>4, <1>5 DEF InOrder

\* The sentinel that close() appends is behind every event and disturbs no order.
LEMMA InOrderClose ==
    ASSUME NEW acc, NEW han, NEW cur, NEW q \in Seq(Items), NEW n \in Nat, Len(q) = n,
           NEW x \in Items, InOrder(acc, han, cur, q, n)
    PROVE  InOrder(acc, han, cur, Append(q, x), n)
<1>1. \A i \in 1 .. n : Append(q, x)[i] = q[i]
    BY AppendFacts
<1> QED
    BY <1>1 DEF InOrder

\* The types and lengths of one constructed subscription.
LEMMA SubFacts ==
    ASSUME IInv, NEW s \in Subs, status[s] # "new"
    PROVE  /\ spec[s] \in Specs /\ spec[s].name \in Names /\ spec[s].size \in Nat \ {0}
           /\ queue[s] \in Seq(Items) /\ pending[s] \in Nat
           /\ accepted[s] \in Seq(Events) /\ handled[s] \in Seq(Events)
           /\ current[s] \in Seq(Events)
           /\ pending[s] <= spec[s].size
           /\ status[s] = "open" => Len(queue[s]) = pending[s]
<1>1. spec[s] \in Specs
    BY DEF IInv, Constructed
<1>2. spec[s].name \in Names /\ spec[s].size \in Nat \ {0}
    BY <1>1, BusAssumption DEF Specs
<1>3. /\ queue[s] \in Seq(Items)
      /\ accepted[s] \in Seq(Events) /\ handled[s] \in Seq(Events)
      /\ current[s] \in Seq(Events)
    BY DEF IInv, TypeOK, Items
<1>4. pending[s] \in 0 .. spec[s].size /\ (status[s] = "open" => Len(queue[s]) = pending[s])
    BY DEF IInv, QueueAccounting
<1> QED
    BY <1>1, <1>2, <1>3, <1>4

-----------------------------------------------------------------------------
\* A step of publish preserves the invariant.
LEMMA PublishIInv ==
    ASSUME IInv, NEW e \in Events, NEW k \in Keys \cup {None},
           PublishBackpressure(e, k) \/ PublishDelivers(e, k)
    PROVE  IInv'
<1> USE DEF subVars, queueVars, taskVars, statVars, closeVars
<1>1. CASE PublishBackpressure(e, k)
    BY <1>1 DEF PublishBackpressure, IInv, TypeOK, Unborn, Constructed, IdleHands,
                Attached, QueueAccounting, ExactlyOnceInOrder, RegistryConsistent
<1>2. CASE PublishDelivers(e, k)
  <2> DEFINE targets == Matching(e, PartitionKey(e, k))
  <2>1. ASSUME NEW s \in targets
        PROVE  /\ s \in Subs /\ status[s] = "open" /\ status[s] # "new"
               /\ pending[s] < spec[s].size
    <3>1. s \in Subs /\ status[s] = "open" /\ status[s] # "new"
      BY DEF Matching
    <3>2. ~(pending[s] >= spec[s].size)
      BY <1>2, <3>1 DEF PublishDelivers, FullAmong, Full
    <3> QED
      BY <3>1, <3>2, SubFacts
  <2>2. Cardinality(targets) \in Nat
    <3>1. targets \subseteq Subs
      BY DEF Matching
    <3> QED
      BY <3>1, BusAssumption, FS_Subset, FS_CardinalityType
  <2> HIDE DEF targets
  <2>3. TypeOK'
    BY <1>2, <2>1, <2>2 DEF PublishDelivers, IInv, TypeOK, targets
  <2>4. Unborn' /\ Constructed' /\ IdleHands' /\ Attached'
    BY <1>2, <2>1
    DEF PublishDelivers, IInv, TypeOK, Unborn, Constructed, IdleHands, Attached, targets
  <2>5. QueueAccounting'
    <3> SUFFICES ASSUME NEW s \in targets PROVE
          /\ pending'[s] \in 0 .. spec[s].size
          /\ \A i \in 1 .. pending'[s] : queue'[s][i] # CLOSED
          /\ Len(queue'[s]) = pending'[s]
      <4>1. \A s \in Subs \ targets : queue'[s] = queue[s] /\ pending'[s] = pending[s]
        BY <1>2 DEF PublishDelivers, targets
      <4>2. status' = status /\ spec' = spec
        BY <1>2 DEF PublishDelivers
      <4>3. \A s \in targets : s \in Subs
        BY <2>1
      <4> QED
        BY <4>1, <4>2, <4>3 DEF IInv, QueueAccounting
    <3>1. /\ queue'[s] = Append(queue[s], e)
          /\ pending'[s] = pending[s] + 1
      BY <1>2, <2>1 DEF PublishDelivers, targets
    <3>0. /\ queue[s] \in Seq(Items) /\ pending[s] \in Nat /\ spec[s].size \in Nat
          /\ Len(queue[s]) = pending[s]
      BY <2>1, SubFacts
    <3>3. \A i \in 1 .. pending[s] : queue[s][i] # CLOSED
      BY <2>1 DEF IInv, QueueAccounting
    <3>2. e \in Items /\ e # CLOSED
      BY BusAssumption DEF Items
    <3> HIDE DEF Items
    <3> QED
      BY <2>1, <3>0, <3>1, <3>2, <3>3, AppendFacts
  <2>6. ExactlyOnceInOrder'
    <3> SUFFICES ASSUME NEW s \in Subs
                 PROVE  InOrder(accepted'[s], handled'[s], current'[s], queue'[s], pending'[s])
      BY DEF ExactlyOnceInOrder
    <3>1. current' = current /\ handled' = handled
      BY <1>2 DEF PublishDelivers
    <3>2. InOrder(accepted[s], handled[s], current[s], queue[s], pending[s])
      BY DEF IInv, ExactlyOnceInOrder
    <3>3. CASE s \notin targets
      <4>1. /\ queue'[s] = queue[s] /\ pending'[s] = pending[s]
            /\ accepted'[s] = accepted[s]
        BY <1>2, <3>3 DEF PublishDelivers, targets
      <4> QED
        BY <3>1, <3>2, <4>1
    <3>4. CASE s \in targets
      <4>1. /\ queue'[s] = Append(queue[s], e)
            /\ accepted'[s] = Append(accepted[s], e)
            /\ pending'[s] = pending[s] + 1
        BY <1>2, <3>4 DEF PublishDelivers, targets
      <4>2. /\ queue[s] \in Seq(Items) /\ pending[s] \in Nat /\ Len(queue[s]) = pending[s]
            /\ accepted[s] \in Seq(Events) /\ handled[s] \in Seq(Events)
            /\ current[s] \in Seq(Events)
        BY <2>1, <3>4, SubFacts
      <4> QED
        BY <3>1, <3>2, <4>1, <4>2, InOrderPut
    <3> QED
      BY <3>3, <3>4
  <2>7. RegistryConsistent'
    BY <1>2 DEF PublishDelivers, IInv, RegistryConsistent
  <2> QED
    BY <2>3, <2>4, <2>5, <2>6, <2>7 DEF IInv
<1> QED
    BY <1>1, <1>2

\* A new subscription starts with empty state under a free name.
LEMMA SubscribeIInv ==
    ASSUME IInv, NEW s \in Subs, NEW args \in Specs,
           Subscribe(s, args) \/ StartConsumer(s, args)
    PROVE  IInv'
<1> USE DEF subVars, queueVars, taskVars, statVars, closeVars
<1>1. /\ ~closed /\ status[s] = "new" /\ registry[args.name] = None
      /\ status' = [status EXCEPT ![s] = "open"]
      /\ spec' = [spec EXCEPT ![s] = args]
      /\ registry' = [registry EXCEPT ![args.name] = s]
      /\ task' \in {task, [task EXCEPT ![s] = "waiting"]}
      /\ handles' \in {handles, [handles EXCEPT ![args.name] = s]}
      /\ UNCHANGED <<queueVars, current, failures, handled, statVars, closeVars>>
    BY DEF Subscribe, StartConsumer, NewSubscription
<1>2. args.name \in Names /\ args.size \in Nat \ {0}
    BY BusAssumption DEF Specs
<1>3. TypeOK'
    BY <1>1, <1>2, ZenonT(60) DEF IInv, TypeOK
<1>4. Unborn' /\ Constructed' /\ IdleHands'
    BY <1>1 DEF IInv, TypeOK, Unborn, Constructed, IdleHands
<1>8. Attached'
  <2>1. \A t \in Subs : task[t] # "none" => task'[t] # "none"
    BY <1>1 DEF IInv, TypeOK
  <2>2. \/ handles' = handles
        \/ handles' = [handles EXCEPT ![args.name] = s] /\ task'[s] # "none"
    <3>1. CASE Subscribe(s, args)
      BY <3>1 DEF Subscribe
    <3>2. CASE StartConsumer(s, args)
      BY <3>2 DEF StartConsumer, IInv, TypeOK
    <3> QED
      BY <3>1, <3>2
  <2>3. closeTasks' = closeTasks /\ \A t \in closeTasks : t \in Subs /\ task[t] # "none"
    BY <1>1 DEF IInv, TypeOK, Attached
  <2>4. ASSUME NEW n \in Names, handles'[n] # None PROVE task'[handles'[n]] # "none"
    <3>1. CASE handles' = handles
      BY <3>1, <2>1, <2>4 DEF IInv, TypeOK, Attached
    <3>2. CASE handles' = [handles EXCEPT ![args.name] = s] /\ task'[s] # "none"
      <4>1. CASE n = args.name
        BY <3>2, <4>1 DEF IInv, TypeOK
      <4>2. CASE n # args.name
        <5>1. handles'[n] = handles[n] /\ handles[n] \in Subs
          BY <3>2, <4>2, <2>4 DEF IInv, TypeOK
        <5> QED
          BY <5>1, <2>1, <2>4 DEF IInv, Attached
      <4> QED
        BY <4>1, <4>2
    <3> QED
      BY <2>2, <3>1, <3>2
  <2> QED
    BY <2>1, <2>3, <2>4 DEF Attached
<1>5. QueueAccounting'
    BY <1>1, <1>2 DEF IInv, TypeOK, Unborn, QueueAccounting
<1>6. ExactlyOnceInOrder'
    BY <1>1 DEF IInv, ExactlyOnceInOrder
<1>7. RegistryConsistent'
  <2>1. \A t \in Subs : /\ t # s => status'[t] = status[t] /\ spec'[t] = spec[t]
                       /\ status'[s] = "open" /\ spec'[s] = args
    BY <1>1 DEF IInv, TypeOK
  <2>2. \A n \in Names : registry'[n] = IF n = args.name THEN s ELSE registry[n]
    BY <1>1 DEF IInv, TypeOK
  <2>3. closed' = FALSE
    BY <1>1 DEF IInv, TypeOK
  <2>4. \A t \in Subs : status[t] = "open" => spec[t].name \in Names
    BY SubFacts
  <2>5. s # None
    BY BusAssumption
  <2>6. \A t \in Subs : status'[t] = "open" => registry'[spec'[t].name] = t
    <3> SUFFICES ASSUME NEW t \in Subs, status'[t] = "open"
                 PROVE  registry'[spec'[t].name] = t
      OBVIOUS
    <3>1. CASE t = s
      BY <3>1, <1>2, <2>1, <2>2
    <3>2. CASE t # s
      <4>1. status[t] = "open" /\ spec'[t] = spec[t] /\ spec[t].name \in Names
        BY <3>2, <2>1, <2>4
      <4>2. registry[spec[t].name] = t
        BY <4>1 DEF IInv, RegistryConsistent
      <4>3. spec[t].name # args.name
        BY <4>2, <1>1, BusAssumption
      <4> QED
        BY <4>1, <4>2, <4>3, <2>2
    <3> QED
      BY <3>1, <3>2
  <2>7. \A n \in Names : registry'[n] # None =>
          status'[registry'[n]] = "open" /\ spec'[registry'[n]].name = n
    <3> SUFFICES ASSUME NEW n \in Names, registry'[n] # None
                 PROVE  status'[registry'[n]] = "open" /\ spec'[registry'[n]].name = n
      OBVIOUS
    <3>1. CASE n = args.name
      BY <3>1, <2>1, <2>2
    <3>2. CASE n # args.name
      <4>1. registry'[n] = registry[n] /\ registry[n] \in Subs
        BY <3>2, <2>2 DEF IInv, TypeOK
      <4>2. status[registry[n]] = "open" /\ spec[registry[n]].name = n
        BY <4>1 DEF IInv, RegistryConsistent
      <4>3. registry[n] # s
        BY <4>2, <1>1
      <4> QED
        BY <4>1, <4>2, <4>3, <2>1
    <3> QED
      BY <3>1, <3>2
  <2> QED
    BY <2>3, <2>6, <2>7 DEF RegistryConsistent
<1> QED
    BY <1>3, <1>4, <1>5, <1>6, <1>7, <1>8 DEF IInv

-----------------------------------------------------------------------------
\* Taking an item from the head of one queue.  cur and han say where the event
\* goes: into the hands of the task, or straight to the owner of the iterator.
LEMMA TakeIInv ==
    ASSUME IInv, NEW s \in Subs,
           TaskTakesEvent(s) \/ TaskTakesSentinel(s) \/ IteratorTakes(s)
    PROVE  IInv'
<1> USE DEF subVars, queueVars, taskVars, statVars, closeVars
<1>1. /\ queue[s] # <<>> /\ queue' = [queue EXCEPT ![s] = Tail(@)]
      /\ current[s] = <<>> /\ task[s] \in {"none", "waiting"} /\ status[s] # "new"
      /\ status' = status /\ spec' = spec /\ registry' = registry /\ closed' = closed
      /\ accepted' = accepted
  <2>1. task[s] \in {"none", "waiting"} /\ queue[s] # <<>>
    BY DEF TaskTakesEvent, TaskTakesSentinel, IteratorTakes
  <2> QED
    BY <2>1 DEF TaskTakesEvent, TaskTakesSentinel, IteratorTakes, IInv, IdleHands, Unborn
<1>2. /\ queue[s] \in Seq(Items) /\ Tail(queue[s]) \in Seq(Items)
      /\ Len(queue[s]) \in Nat \ {0} /\ Len(Tail(queue[s])) = Len(queue[s]) - 1
      /\ \A i \in 1 .. Len(queue[s]) - 1 : Tail(queue[s])[i] = queue[s][i + 1]
      /\ Head(queue[s]) = queue[s][1] /\ Head(queue[s]) \in Items
    BY <1>1, SubFacts, TailFacts
<1>3. /\ pending[s] \in Nat /\ pending[s] <= spec[s].size /\ spec[s].size \in Nat
      /\ accepted[s] \in Seq(Events) /\ handled[s] \in Seq(Events)
    BY <1>1, SubFacts
<1>4. /\ \A i \in 1 .. pending[s] : queue[s][i] # CLOSED
      /\ \/ Len(queue[s]) = pending[s]
         \/ /\ Len(queue[s]) = pending[s] + 1
            /\ queue[s][pending[s] + 1] = CLOSED /\ status[s] = "closed"
    BY <1>1 DEF IInv, QueueAccounting
<1>5. /\ \A t \in Subs \ {s} : queue'[t] = queue[t]
      /\ queue'[s] = Tail(queue[s])
    BY <1>1 DEF IInv, TypeOK
<1>6. InOrder(accepted[s], handled[s], <<>>, queue[s], pending[s])
    BY <1>1 DEF IInv, ExactlyOnceInOrder
<1>7. RegistryConsistent' /\ Constructed'
    BY <1>1 DEF IInv, RegistryConsistent, Constructed
<1>10. Attached'
  <2>1. \A t \in Subs : task[t] # "none" => task'[t] # "none"
    BY DEF TaskTakesEvent, TaskTakesSentinel, IteratorTakes, IInv, TypeOK
  <2>2. handles' = handles /\ closeTasks' = closeTasks
    BY DEF TaskTakesEvent, TaskTakesSentinel, IteratorTakes
  <2> QED
    BY <2>1, <2>2 DEF IInv, TypeOK, Attached
<1>8. CASE Head(queue[s]) # CLOSED
  <2>1. Head(queue[s]) \in Events
    BY <1>2, <1>8 DEF Items
  <2>2. pending[s] \in Nat \ {0} /\ Len(queue[s]) >= pending[s]
    BY <1>2, <1>3, <1>4, <1>8
  <2>3. pending' = [pending EXCEPT ![s] = @ - 1]
    BY <1>8 DEF TaskTakesEvent, TaskTakesSentinel, IteratorTakes
  <2>4. pending'[s] = pending[s] - 1 /\ \A t \in Subs \ {s} : pending'[t] = pending[t]
    BY <2>3 DEF IInv, TypeOK
  <2>5. QueueAccounting'
    <3>1. \A t \in Subs \ {s} : /\ queue'[t] = queue[t] /\ pending'[t] = pending[t]
      BY <1>5, <2>4
    <3>2. pending'[s] \in 0 .. spec[s].size
      BY <1>3, <2>2, <2>4
    <3>3. \A i \in 1 .. pending'[s] : queue'[s][i] # CLOSED
      <4> TAKE i \in 1 .. pending'[s]
      <4>1. i + 1 \in 1 .. pending[s] /\ i \in 1 .. Len(queue[s]) - 1
        BY <1>2, <2>2, <2>4
      <4> QED
        BY <4>1, <1>2, <1>4, <1>5
    <3>4. \/ Len(queue'[s]) = pending'[s]
          \/ /\ Len(queue'[s]) = pending'[s] + 1
             /\ queue'[s][pending'[s] + 1] = CLOSED /\ status[s] = "closed"
      <4>1. CASE Len(queue[s]) = pending[s]
        BY <4>1, <1>2, <1>5, <2>4
      <4>2. CASE Len(queue[s]) = pending[s] + 1 /\ queue[s][pending[s] + 1] = CLOSED
                   /\ status[s] = "closed"
        <5>1. pending'[s] + 1 = pending[s] /\ pending[s] \in 1 .. Len(queue[s]) - 1
          BY <4>2, <2>2, <2>4
        <5> QED
          BY <4>2, <5>1, <1>2, <1>5
      <4> QED
        BY <1>4, <4>1, <4>2
    <3> QED
      BY <1>1, <3>1, <3>2, <3>3, <3>4 DEF IInv, QueueAccounting
  <2>6. InOrder(accepted[s], handled[s], <<Head(queue[s])>>, Tail(queue[s]), pending[s] - 1)
    BY <1>1, <1>2, <1>3, <1>6, <2>1, <2>2, InOrderTake
  <2>7. <<Head(queue[s])>> \in Seq(Events)
    BY <2>1
  <2>8. CASE TaskTakesEvent(s)
    <3>1. current' = [current EXCEPT ![s] = <<Head(queue[s])>>] /\ handled' = handled
      BY <2>8 DEF TaskTakesEvent
    <3>2. TypeOK'
      BY <2>8, <1>2, <2>7 DEF TaskTakesEvent, IInv, TypeOK, Items
    <3>3. Unborn' /\ IdleHands'
      BY <1>1, <2>8 DEF TaskTakesEvent, IInv, TypeOK, Unborn, IdleHands
    <3>4. ExactlyOnceInOrder'
      <4>1. current'[s] = <<Head(queue[s])>> /\ \A t \in Subs \ {s} : current'[t] = current[t]
        BY <3>1 DEF IInv, TypeOK
      <4> QED
        BY <1>1, <1>5, <2>4, <2>6, <3>1, <4>1 DEF IInv, ExactlyOnceInOrder
    <3> QED
      BY <1>7, <1>10, <2>5, <3>2, <3>3, <3>4 DEF IInv
  <2>9. CASE IteratorTakes(s)
    <3>1. current' = current /\ handled' = [handled EXCEPT ![s] = Append(@, Head(queue[s]))]
      BY <1>8, <2>9 DEF IteratorTakes
    <3>2. Append(handled[s], Head(queue[s])) \in Seq(Events)
      BY <1>3, <2>1, AppendFacts
    <3>3. TypeOK'
      BY <2>9, <1>2, <2>3, <3>1, <3>2 DEF IteratorTakes, IInv, TypeOK, Items
    <3>4. Unborn' /\ IdleHands'
      BY <1>1, <2>9, <2>3, <3>1 DEF IteratorTakes, IInv, TypeOK, Unborn, IdleHands
    <3>5. ExactlyOnceInOrder'
      <4>1. /\ handled'[s] = handled[s] \o <<Head(queue[s])>>
            /\ \A t \in Subs \ {s} : handled'[t] = handled[t]
        BY <1>3, <2>1, <3>1, ConcatOne DEF IInv, TypeOK
      <4>2. InOrder(accepted[s], handled'[s], <<>>, Tail(queue[s]), pending[s] - 1)
        <5>1. pending[s] - 1 \in Nat
          BY <2>2
        <5> HIDE DEF Items
        <5>2. ASSUME NEW c \in Seq(Events),
                     InOrder(accepted[s], handled[s], c, Tail(queue[s]), pending[s] - 1)
              PROVE  InOrder(accepted[s], handled[s] \o c, <<>>, Tail(queue[s]), pending[s] - 1)
          BY <1>2, <1>3, <5>1, <5>2, InOrderFinish
        <5> QED
          BY <5>2, <2>6, <2>7, <4>1
      <4> QED
        BY <1>1, <1>5, <2>4, <3>1, <4>1, <4>2 DEF IInv, ExactlyOnceInOrder
    <3> QED
      BY <1>7, <1>10, <2>5, <3>3, <3>4, <3>5 DEF IInv
  <2> QED
    BY <1>8, <2>8, <2>9 DEF TaskTakesSentinel
<1>9. CASE Head(queue[s]) = CLOSED
  <2>1. pending[s] = 0 /\ Len(queue[s]) = 1
    <3>1. ~(1 \in 1 .. pending[s])
      BY <1>2, <1>4, <1>9
    <3>2. pending[s] = 0
      BY <1>3, <3>1
    <3> QED
      BY <1>2, <1>4, <3>2
  <2>2. pending' = pending /\ current' = current /\ handled' = handled
    BY <1>9 DEF TaskTakesEvent, TaskTakesSentinel, IteratorTakes
  <2>3. TypeOK'
    BY <1>2, <1>9, <2>2, ZenonT(60) DEF TaskTakesEvent, TaskTakesSentinel, IteratorTakes, IInv, TypeOK, Items
  <2>4. Unborn' /\ IdleHands'
    BY <1>1, <1>9, <2>2
    DEF TaskTakesEvent, TaskTakesSentinel, IteratorTakes, IInv, TypeOK, Unborn, IdleHands
  <2>5. QueueAccounting'
    BY <1>1, <1>2, <1>5, <2>1, <2>2, <1>3 DEF IInv, QueueAccounting
  <2>6. ExactlyOnceInOrder'
    <3>1. InOrder(accepted[s], handled[s], <<>>, Tail(queue[s]), 0)
      BY <1>6, <2>1 DEF InOrder
    <3> QED
      BY <1>1, <1>5, <2>1, <2>2, <3>1 DEF IInv, ExactlyOnceInOrder
  <2> QED
    BY <1>7, <1>10, <2>3, <2>4, <2>5, <2>6 DEF IInv
<1> QED
    BY <1>8, <1>9

\* A handler call ends, normally or with an exception.
LEMMA HandlerIInv ==
    ASSUME IInv, NEW s \in Subs, NEW failed \in BOOLEAN, HandlerFinishes(s, failed)
    PROVE  IInv'
<1> USE DEF subVars, queueVars, taskVars, statVars, closeVars
<1>1. status[s] # "new"
    BY DEF HandlerFinishes, IInv, Unborn
<1>2. /\ queue[s] \in Seq(Items) /\ pending[s] \in Nat /\ accepted[s] \in Seq(Events)
      /\ handled[s] \in Seq(Events) /\ current[s] \in Seq(Events)
    BY <1>1, SubFacts
<1>3. handled[s] \o current[s] \in Seq(Events)
    BY <1>2
<1>4. TypeOK'
  <2>1. failures' \in [Subs -> Nat]
    <3>1. CASE failed
      BY <3>1 DEF HandlerFinishes, IInv, TypeOK
    <3>2. CASE ~failed
      BY <3>2 DEF HandlerFinishes, IInv, TypeOK
    <3> QED
      BY <3>1, <3>2
  <2>2. handled' \in [Subs -> Seq(Events)] /\ current' \in [Subs -> Seq(Events)]
    BY <1>3 DEF HandlerFinishes, IInv, TypeOK
  <2> QED
    BY <2>1, <2>2 DEF HandlerFinishes, IInv, TypeOK
<1>5. Unborn' /\ IdleHands' /\ Constructed' /\ Attached'
    BY <1>1 DEF HandlerFinishes, IInv, TypeOK, Unborn, IdleHands, Constructed, Attached
<1>6. QueueAccounting' /\ RegistryConsistent'
    BY DEF HandlerFinishes, IInv, QueueAccounting, RegistryConsistent
<1>7. ExactlyOnceInOrder'
  <2>1. /\ handled'[s] = handled[s] \o current[s] /\ current'[s] = <<>>
        /\ \A t \in Subs \ {s} : handled'[t] = handled[t] /\ current'[t] = current[t]
        /\ queue' = queue /\ pending' = pending /\ accepted' = accepted
    BY DEF HandlerFinishes, IInv, TypeOK
  <2>2. InOrder(accepted[s], handled[s] \o current[s], <<>>, queue[s], pending[s])
    BY <1>2, InOrderFinish DEF IInv, ExactlyOnceInOrder
  <2> QED
    BY <2>1, <2>2 DEF IInv, ExactlyOnceInOrder
<1> QED
    BY <1>4, <1>5, <1>6, <1>7 DEF IInv

-----------------------------------------------------------------------------
\* Closing the open members of S keeps the parts of the invariant that speak of
\* queues and of the registry.
LEMMA CloseIInv ==
    ASSUME IInv, NEW S \in SUBSET Subs, CloseSubscriptions(S),
           spec' = spec, pending' = pending, accepted' = accepted,
           current' = current, handled' = handled,
           closed' = closed \/ \A n \in Names : registry'[n] = None,
           closed' \in BOOLEAN
    PROVE  /\ status' \in [Subs -> {"new", "open", "closed"}]
           /\ queue' \in [Subs -> Seq(Items)]
           /\ registry' \in [Names -> Subs \cup {None}]
           /\ \A s \in Subs : status[s] = "new" <=> status'[s] = "new"
           /\ \A s \in Subs : status[s] = "new" => queue'[s] = queue[s]
           /\ Constructed' /\ QueueAccounting' /\ ExactlyOnceInOrder' /\ RegistryConsistent'
<1> DEFINE open == {s \in S : status[s] = "open"}
<1>1. \A s \in Subs : status'[s] = IF s \in open THEN "closed" ELSE status[s]
    BY DEF CloseSubscriptions
<1>2. \A s \in Subs : queue'[s] = IF s \in open THEN Append(queue[s], CLOSED) ELSE queue[s]
    BY DEF CloseSubscriptions
<1>3. \A n \in Names :
        registry'[n] = IF \E s \in open : spec[s].name = n THEN None ELSE registry[n]
    BY DEF CloseSubscriptions
<1>4. \A s \in open : s \in Subs /\ status[s] = "open" /\ status[s] # "new"
    OBVIOUS
<1>5. CLOSED \in Items
    BY DEF Items
<1>6. ASSUME NEW s \in open
      PROVE  /\ Append(queue[s], CLOSED) \in Seq(Items)
             /\ Len(Append(queue[s], CLOSED)) = pending[s] + 1
             /\ \A i \in 1 .. pending[s] : Append(queue[s], CLOSED)[i] = queue[s][i]
             /\ Append(queue[s], CLOSED)[pending[s] + 1] = CLOSED
  <2>1. queue[s] \in Seq(Items) /\ Len(queue[s]) = pending[s]
    BY <1>4, SubFacts
  <2> QED
    BY <2>1, <1>5, AppendFacts
<1>7. status' \in [Subs -> {"new", "open", "closed"}]
    BY DEF CloseSubscriptions, IInv, TypeOK
<1>8. registry' \in [Names -> Subs \cup {None}]
    BY DEF CloseSubscriptions, IInv, TypeOK
<1>9. queue' \in [Subs -> Seq(Items)]
  <2>1. queue' = [s \in Subs |-> IF s \in open THEN Append(queue[s], CLOSED) ELSE queue[s]]
    BY DEF CloseSubscriptions
  <2>2. \A s \in Subs : queue[s] \in Seq(Items)
    BY DEF IInv, TypeOK, Items
  <2> HIDE DEF open
  <2> QED
    BY <2>1, <2>2, <1>6
<1> HIDE DEF open
<1>10. Constructed'
    BY <1>1, <1>4 DEF IInv, Constructed
<1>11. QueueAccounting'
  <2> SUFFICES ASSUME NEW s \in Subs, status'[s] # "new" PROVE
        /\ pending[s] \in 0 .. spec[s].size
        /\ \A i \in 1 .. pending[s] : queue'[s][i] # CLOSED
        /\ \/ Len(queue'[s]) = pending[s]
           \/ /\ Len(queue'[s]) = pending[s] + 1
              /\ queue'[s][pending[s] + 1] = CLOSED
              /\ status'[s] = "closed"
    BY DEF QueueAccounting
  <2>1. status[s] # "new"
    BY <1>1, <1>4
  <2>2. CASE s \in open
    <3>1. pending[s] \in 0 .. spec[s].size /\ \A i \in 1 .. pending[s] : queue[s][i] # CLOSED
      BY <2>1 DEF IInv, QueueAccounting
    <3> QED
      BY <3>1, <2>2, <1>1, <1>2, <1>6
  <2>3. CASE s \notin open
    BY <2>1, <2>3, <1>1, <1>2 DEF IInv, QueueAccounting
  <2> QED
    BY <2>2, <2>3
<1>12. ExactlyOnceInOrder'
  <2> SUFFICES ASSUME NEW s \in Subs
               PROVE  InOrder(accepted[s], handled[s], current[s], queue'[s], pending[s])
    BY DEF ExactlyOnceInOrder
  <2>1. InOrder(accepted[s], handled[s], current[s], queue[s], pending[s])
    BY DEF IInv, ExactlyOnceInOrder
  <2>2. CASE s \in open
    <3>1. queue[s] \in Seq(Items) /\ Len(queue[s]) = pending[s] /\ pending[s] \in Nat
      BY <2>2, <1>4, SubFacts
    <3> QED
      BY <1>2, <1>5, <2>1, <2>2, <3>1, InOrderClose
  <2>3. CASE s \notin open
    BY <1>2, <2>1, <2>3
  <2> QED
    BY <2>2, <2>3
<1>13. RegistryConsistent'
  <2>1. ASSUME NEW s \in Subs, status'[s] = "open" PROVE registry'[spec[s].name] = s
    <3>1. s \notin open /\ status[s] = "open" /\ spec[s].name \in Names
      BY <2>1, <1>1, SubFacts
    <3>2. registry[spec[s].name] = s
      BY <3>1 DEF IInv, RegistryConsistent
    <3>3. \A t \in open : spec[t].name # spec[s].name
      BY <3>1, <3>2, <1>4 DEF IInv, RegistryConsistent
    <3> QED
      BY <3>1, <3>2, <3>3, <1>3
  <2>2. ASSUME NEW n \in Names, registry'[n] # None
        PROVE  status'[registry'[n]] = "open" /\ spec[registry'[n]].name = n
    <3>1. registry'[n] = registry[n] /\ registry[n] \in Subs
          /\ ~ \E s \in open : spec[s].name = n
      BY <2>2, <1>3 DEF IInv, TypeOK
    <3>2. status[registry[n]] = "open" /\ spec[registry[n]].name = n
      BY <2>2, <3>1 DEF IInv, RegistryConsistent
    <3> QED
      BY <3>1, <3>2, <1>1
  <2>3. closed' => \A n \in Names : registry'[n] = None
    BY <1>3 DEF IInv, TypeOK, RegistryConsistent
  <2> QED
    BY <2>1, <2>2, <2>3 DEF RegistryConsistent
<1> QED
    BY <1>1, <1>2, <1>4, <1>7, <1>8, <1>9, <1>10, <1>11, <1>12, <1>13

\* Closing a subscription, a handle or the bus preserves the invariant.
LEMMA ClosersIInv ==
    ASSUME IInv, (\E s \in Subs : SubscriptionClose(s) \/ HandleClose(s)) \/ BusClose
    PROVE  IInv'
<1> USE DEF subVars, queueVars, taskVars, statVars, closeVars
<1>1. /\ spec' = spec /\ pending' = pending /\ accepted' = accepted
      /\ current' = current /\ handled' = handled
      /\ failures' = failures /\ handles' = handles
      /\ published' = published /\ delivered' = delivered /\ backpressure' = backpressure
      /\ task' = task \/ \E s \in Subs : /\ task[s] \notin {"none", "cancelling", "done"}
                                         /\ task' = [task EXCEPT ![s] = "cancelling"]
    BY DEF SubscriptionClose, HandleClose, BusClose
<1>2. PICK S \in SUBSET Subs :
        /\ CloseSubscriptions(S)
        /\ closed' = closed \/ \A n \in Names : registry'[n] = None
        /\ closed' \in BOOLEAN
  <2>1. CASE \E s \in Subs : SubscriptionClose(s) \/ HandleClose(s)
    BY <2>1 DEF SubscriptionClose, HandleClose, IInv, TypeOK
  <2>2. CASE BusClose
    <3> DEFINE R == {s \in Subs : \E n \in Names : registry[n] = s}
    <3>1. CloseSubscriptions(R) /\ closed' = TRUE
      BY <2>2 DEF BusClose
    <3>2. \A n \in Names : registry'[n] = None
      <4> TAKE n \in Names
      <4>1. CASE registry[n] = None
        BY <3>1, <4>1 DEF CloseSubscriptions
      <4>2. CASE registry[n] # None
        <5>1. registry[n] \in R /\ status[registry[n]] = "open" /\ spec[registry[n]].name = n
          BY <4>2 DEF IInv, TypeOK, RegistryConsistent
        <5> QED
          BY <3>1, <5>1 DEF CloseSubscriptions
      <4> QED
        BY <4>1, <4>2
    <3> QED
      BY <3>1, <3>2
  <2> QED
    BY <2>1, <2>2
<1>3. /\ status' \in [Subs -> {"new", "open", "closed"}]
      /\ queue' \in [Subs -> Seq(Items)]
      /\ registry' \in [Names -> Subs \cup {None}]
      /\ \A s \in Subs : status[s] = "new" <=> status'[s] = "new"
      /\ \A s \in Subs : status[s] = "new" => queue'[s] = queue[s]
      /\ Constructed' /\ QueueAccounting' /\ ExactlyOnceInOrder' /\ RegistryConsistent'
    BY <1>1, <1>2, CloseIInv
<1>4. closer' \in {"idle", "waiting", "gathering", "returned"} /\ closeTasks' \subseteq Subs
    BY DEF SubscriptionClose, HandleClose, BusClose, ManagedTasks, IInv, TypeOK
<1>5. task' \in [Subs -> {"none", "waiting", "handling", "cancelling", "done"}]
    BY <1>1 DEF IInv, TypeOK
<1>6. TypeOK'
    BY <1>1, <1>2, <1>3, <1>4, <1>5 DEF IInv, TypeOK, Items
<1>7. Unborn'
  <2> SUFFICES ASSUME NEW s \in Subs, status'[s] = "new" PROVE
        /\ queue'[s] = <<>> /\ pending'[s] = 0
        /\ task'[s] = "none" /\ current'[s] = <<>>
        /\ accepted'[s] = <<>> /\ handled'[s] = <<>>
    BY DEF Unborn
  <2>1. status[s] = "new"
    BY <1>3
  <2>2. task[s] = "none"
    BY <2>1 DEF IInv, Unborn
  <2>3. task'[s] = "none"
    BY <1>1, <2>2 DEF IInv, TypeOK
  <2> QED
    BY <1>1, <1>3, <2>1, <2>3 DEF IInv, Unborn
<1>8. IdleHands'
    BY <1>1 DEF IInv, TypeOK, IdleHands
<1>9. Attached'
  <2>1. \A s \in Subs : task[s] # "none" => task'[s] # "none"
    BY <1>1 DEF IInv, TypeOK
  <2>2. closeTasks' = closeTasks \/ \A s \in closeTasks' : \E n \in Names : handles[n] = s
    BY DEF SubscriptionClose, HandleClose, BusClose, ManagedTasks
  <2>3. closeTasks' \subseteq Subs /\ None \notin Subs
    BY <1>4, BusAssumption
  <2> QED
    BY <1>1, <2>1, <2>2, <2>3 DEF IInv, TypeOK, Attached
<1> QED
    BY <1>3, <1>6, <1>7, <1>8, <1>9 DEF IInv

\* The steps that only move a task or the close() call along.
LEMMA TaskIInv ==
    ASSUME IInv,
           (\E s \in Subs : TaskCancelled(s)) \/ BusCloseReturns \/ BusCloseTimesOut
    PROVE  IInv'
<1> USE DEF subVars, queueVars, taskVars, statVars, closeVars
<1>1. /\ UNCHANGED <<subVars, queueVars, current, failures, handled, statVars, closed,
                     closeTasks, handles>>
      /\ closer' \in {"idle", "waiting", "gathering", "returned"}
      /\ task' \in [Subs -> {"none", "waiting", "handling", "cancelling", "done"}]
    BY DEF TaskCancelled, BusCloseReturns, BusCloseTimesOut, IInv, TypeOK
<1>2. TypeOK'
    BY <1>1 DEF IInv, TypeOK
<1>3. IdleHands'
    BY DEF TaskCancelled, BusCloseReturns, BusCloseTimesOut, IInv, TypeOK, IdleHands
<1>4. \A s \in Subs : task[s] = "none" <=> task'[s] = "none"
    BY DEF TaskCancelled, BusCloseReturns, BusCloseTimesOut, IInv, TypeOK, Attached
<1>6. Unborn' /\ Attached'
    BY <1>1, <1>4 DEF IInv, TypeOK, Unborn, Attached
<1>5. /\ Constructed' /\ QueueAccounting' /\ ExactlyOnceInOrder' /\ RegistryConsistent'
    BY <1>1 DEF IInv, Constructed, QueueAccounting, ExactlyOnceInOrder, RegistryConsistent
<1> QED
    BY <1>2, <1>3, <1>5, <1>6 DEF IInv

-----------------------------------------------------------------------------
\* Every step of the bus preserves the inductive invariant.
LEMMA NextIInv == IInv /\ [Next]_vars => IInv'
<1> SUFFICES ASSUME IInv, [Next]_vars PROVE IInv'
    OBVIOUS
<1>1. CASE UNCHANGED vars
    BY <1>1 DEF vars, subVars, queueVars, taskVars, statVars, closeVars, IInv, TypeOK, Unborn,
                Constructed, IdleHands, Attached, QueueAccounting, ExactlyOnceInOrder,
                RegistryConsistent
<1>2. CASE \E e \in Events, k \in Keys \cup {None} :
             PublishBackpressure(e, k) \/ PublishDelivers(e, k)
    BY <1>2, PublishIInv
<1>3. CASE \E s \in Subs, args \in Specs : Subscribe(s, args) \/ StartConsumer(s, args)
    BY <1>3, SubscribeIInv
<1>4. CASE \E s \in Subs : TaskTakesEvent(s) \/ TaskTakesSentinel(s) \/ IteratorTakes(s)
    BY <1>4, TakeIInv
<1>5. CASE \E s \in Subs : HandlerReturns(s) \/ HandlerRaises(s)
    BY <1>5, HandlerIInv DEF HandlerReturns, HandlerRaises
<1>6. CASE (\E s \in Subs : SubscriptionClose(s) \/ HandleClose(s)) \/ BusClose
    BY <1>6, ClosersIInv
<1>7. CASE (\E s \in Subs : TaskCancelled(s)) \/ BusCloseReturns \/ BusCloseTimesOut
    BY <1>7, TaskIInv
<1> QED
    BY <1>1, <1>2, <1>3, <1>4, <1>5, <1>6, <1>7 DEF Next

\* The inductive invariant holds in every reachable state of the bus.
THEOREM Inductive == Spec => []IInv
    BY InitIInv, NextIInv, PTL DEF Spec

\* publish, the consumers and close() keep every variable of the bus in its type.
THEOREM TypeCorrect == Spec => []TypeOK
<1>1. IInv => TypeOK
    BY DEF IInv
<1> QED
    BY <1>1, Inductive, PTL

\* No queue ever exceeds its bound and close() always finds room for its sentinel.
THEOREM QueueAccountingHolds == Spec => []QueueAccounting
<1>1. IInv => QueueAccounting
    BY DEF IInv
<1> QED
    BY <1>1, Inductive, PTL

\* Every consumer is given what was published to it, once and in order.
THEOREM ExactlyOnceInOrderHolds == Spec => []ExactlyOnceInOrder
<1>1. IInv => ExactlyOnceInOrder
    BY DEF IInv
<1> QED
    BY <1>1, Inductive, PTL

\* The registry and the open subscriptions never disagree.
THEOREM RegistryConsistentHolds == Spec => []RegistryConsistent
<1>1. IInv => RegistryConsistent
    BY DEF IInv
<1> QED
    BY <1>1, Inductive, PTL

-----------------------------------------------------------------------------
\* A publish accepted by two subscriptions keeps one stream a suffix of the other.
LEMMA SuffixAppend ==
    ASSUME NEW a \in Seq(Events), NEW b \in Seq(Events), NEW e \in Events, IsSuffixOf(a, b)
    PROVE  IsSuffixOf(Append(a, e), Append(b, e))
<1>1. /\ Len(a) \in Nat /\ Len(b) \in Nat /\ Len(a) <= Len(b)
      /\ \A i \in 1 .. Len(a) : a[i] = b[Len(b) - Len(a) + i]
    BY DEF IsSuffixOf
<1>2. /\ Len(Append(a, e)) = Len(a) + 1 /\ Len(Append(b, e)) = Len(b) + 1
      /\ \A i \in 1 .. Len(a) : Append(a, e)[i] = a[i]
      /\ \A i \in 1 .. Len(b) : Append(b, e)[i] = b[i]
      /\ Append(a, e)[Len(a) + 1] = e /\ Append(b, e)[Len(b) + 1] = e
    BY AppendFacts
<1>3. \A i \in 1 .. Len(a) + 1 : Append(a, e)[i] = Append(b, e)[Len(b) - Len(a) + i]
  <2> TAKE i \in 1 .. Len(a) + 1
  <2>1. CASE i \in 1 .. Len(a)
    <3>1. Len(b) - Len(a) + i \in 1 .. Len(b)
      BY <1>1, <2>1
    <3> QED
      BY <1>1, <1>2, <2>1, <3>1
  <2>2. CASE i = Len(a) + 1
    <3>1. Len(b) - Len(a) + i = Len(b) + 1
      BY <1>1, <2>2
    <3> QED
      BY <1>2, <2>2, <3>1
  <2> QED
    BY <1>1, <2>1, <2>2
<1>4. (Len(b) + 1) - (Len(a) + 1) = Len(b) - Len(a) /\ Len(a) + 1 <= Len(b) + 1
    BY <1>1
<1> QED
    BY <1>2, <1>3, <1>4 DEF IsSuffixOf

\* Outside publish() nobody's stream moves, and whoever becomes open has seen nothing.
LEMMA QuietSteps ==
    ASSUME IInv, [Next]_vars,
           ~ \E e \in Events, k \in Keys \cup {None} : PublishDelivers(e, k)
    PROVE  /\ accepted' = accepted
           /\ \A s \in Subs : status'[s] = "open" =>
                 \/ status[s] = "open" /\ spec'[s] = spec[s]
                 \/ accepted[s] = <<>>
<1> USE DEF subVars, queueVars, taskVars, statVars, closeVars
<1>1. CASE UNCHANGED vars
    BY <1>1 DEF vars
<1>2. CASE \E e \in Events, k \in Keys \cup {None} : PublishBackpressure(e, k)
    BY <1>2 DEF PublishBackpressure
<1>3. CASE \E s \in Subs, args \in Specs : Subscribe(s, args) \/ StartConsumer(s, args)
    BY <1>3 DEF Subscribe, StartConsumer, NewSubscription, IInv, TypeOK, Unborn
<1>4. CASE \E s \in Subs : \/ TaskTakesEvent(s) \/ TaskTakesSentinel(s) \/ IteratorTakes(s)
                          \/ TaskCancelled(s)
    BY <1>4 DEF TaskTakesEvent, TaskTakesSentinel, IteratorTakes, TaskCancelled
<1>5. CASE \E s \in Subs : HandlerReturns(s) \/ HandlerRaises(s)
    BY <1>5 DEF HandlerReturns, HandlerRaises, HandlerFinishes
<1>6. CASE (\E s \in Subs : SubscriptionClose(s) \/ HandleClose(s)) \/ BusClose
  <2>1. PICK S : CloseSubscriptions(S) /\ spec' = spec /\ accepted' = accepted
    BY <1>6 DEF SubscriptionClose, HandleClose, BusClose
  <2> QED
    BY <2>1 DEF CloseSubscriptions
<1>7. CASE BusCloseReturns \/ BusCloseTimesOut
    BY <1>7 DEF BusCloseReturns, BusCloseTimesOut
<1> QED
    BY <1>1, <1>2, <1>3, <1>4, <1>5, <1>6, <1>7 DEF Next

\* Peers stay in step.
LEMMA NextPeers == IInv /\ PeersSeeTheSameStream /\ [Next]_vars => PeersSeeTheSameStream'
<1> SUFFICES ASSUME IInv, PeersSeeTheSameStream, [Next]_vars,
                    NEW s \in Subs, NEW t \in Subs,
                    status'[s] = "open", status'[t] = "open",
                    spec'[s].type = spec'[t].type, spec'[s].key = spec'[t].key
             PROVE  IsSuffixOf(accepted'[s], accepted'[t]) \/ IsSuffixOf(accepted'[t], accepted'[s])
    BY DEF PeersSeeTheSameStream
<1>1. accepted[s] \in Seq(Events) /\ accepted[t] \in Seq(Events)
    BY DEF IInv, TypeOK
<1>2. CASE \E e \in Events, k \in Keys \cup {None} : PublishDelivers(e, k)
  <2>1. PICK e \in Events, k \in Keys \cup {None} : PublishDelivers(e, k)
    BY <1>2
  <2> DEFINE targets == Matching(e, PartitionKey(e, k))
  <2>2. status' = status /\ spec' = spec
    BY <2>1 DEF PublishDelivers, subVars
  <2>3. IsSuffixOf(accepted[s], accepted[t]) \/ IsSuffixOf(accepted[t], accepted[s])
    BY <2>2 DEF PeersSeeTheSameStream
  <2>4. (\E n \in Names : registry[n] = s) /\ (\E n \in Names : registry[n] = t)
    <3>1. status[s] = "open" /\ status[t] = "open" /\ status[s] # "new" /\ status[t] # "new"
      BY <2>2
    <3>2. spec[s].name \in Names /\ spec[t].name \in Names
      BY <3>1, SubFacts
    <3> QED
      BY <3>1, <3>2 DEF IInv, RegistryConsistent
  <2>5. s \in targets <=> t \in targets
    BY <2>2, <2>4 DEF Matching
  <2>6. \A x \in Subs : accepted'[x] = IF x \in targets THEN Append(accepted[x], e) ELSE accepted[x]
    BY <2>1 DEF PublishDelivers
  <2> HIDE DEF targets
  <2>7. CASE s \in targets
    BY <1>1, <2>3, <2>5, <2>6, <2>7, SuffixAppend
  <2>8. CASE s \notin targets
    BY <2>3, <2>5, <2>6, <2>8
  <2> QED
    BY <2>7, <2>8
<1>3. CASE ~ \E e \in Events, k \in Keys \cup {None} : PublishDelivers(e, k)
  <2>1. accepted' = accepted
    BY <1>3, QuietSteps
  <2>2. /\ (status[s] = "open" /\ spec'[s] = spec[s]) \/ accepted[s] = <<>>
        /\ (status[t] = "open" /\ spec'[t] = spec[t]) \/ accepted[t] = <<>>
    BY <1>3, QuietSteps
  <2>3. \A b \in Seq(Events) : IsSuffixOf(<<>>, b)
    BY DEF IsSuffixOf
  <2> QED
    BY <1>1, <2>1, <2>2, <2>3 DEF PeersSeeTheSameStream
<1> QED
    BY <1>2, <1>3

\* A slow peer never makes two subscriptions to the same events see different streams.
THEOREM PeersSeeTheSameStreamHolds == Spec => []PeersSeeTheSameStream
<1>1. Init => PeersSeeTheSameStream
    BY DEF Init, PeersSeeTheSameStream
<1> QED
    BY <1>1, NextPeers, Inductive, PTL DEF Spec
=============================================================================
