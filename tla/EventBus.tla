------------------------------ MODULE EventBus ------------------------------
(***************************************************************************)
(* The in-process event bus: src/src/pmrp/bus/in_process.py and            *)
(* src/src/pmrp/bus/subscription.py.                                       *)
(*                                                                         *)
(* Every stretch of code between two suspension points of the event loop   *)
(* is one action.  publish() and the part of close() that holds the        *)
(* publish lock never suspend while they hold it, so each is one action.   *)
(* A subscription object is an element of Subs; an event type is the set   *)
(* of its instances (isinstance), so `object' is the set Events itself.    *)
(***************************************************************************)
EXTENDS Integers, Sequences, FiniteSets

CONSTANTS
    Subs,         \* QueuedEventSubscription objects that may be created
    Names,        \* consumer names
    Events,       \* event objects; the same object may be published twice
    EventTypes,   \* event types, each the set of its instances
    Keys,         \* partition keys
    MarketOf,     \* the market_id attribute of an event, None if it has none
    QueueSizes,   \* the queue sizes consumers ask for
    MaxPublish,   \* bound: calls of publish that reach the queues
    None          \* Python's None

CLOSED == "_CLOSED"     \* the sentinel put behind the last event by close()

ASSUME BusAssumption ==
    /\ IsFiniteSet(Subs)
    /\ EventTypes \subseteq SUBSET Events
    /\ MarketOf \in [Events -> Keys \cup {None}]
    /\ QueueSizes \subseteq Nat \ {0}
    /\ MaxPublish \in Nat
    /\ None \notin Subs \cup Keys \cup Events
    /\ CLOSED \notin Events

VARIABLES
    closed,       \* InProcessEventBus._closed
    registry,     \* _subscriptions: the subscription registered for a name
    handles,      \* _consumer_handles: the latest managed consumer of a name
    status,       \* "new" before construction, then "open" or "closed"
    spec,         \* the constructor arguments: name, event type, key, size
    queue,        \* the asyncio.Queue of a subscription
    pending,      \* _pending_events
    task,         \* the consumer task ("none": the caller iterates by hand)
    current,      \* <<e>> while the handler runs on e, <<>> otherwise
    failures,     \* EventConsumerHandle._failure_count
    published,    \* _published_events
    delivered,    \* _delivered_events
    backpressure, \* _backpressure_events
    closer,       \* where the close() call that closed the bus is
    closeTasks,   \* the tasks that call waits for
    accepted,     \* history: events put in a queue, in order
    handled       \* history: events a consumer is finished with, in order

subVars   == <<status, spec, registry>>
queueVars == <<queue, pending, accepted>>
taskVars  == <<task, current, failures, handled>>
statVars  == <<published, delivered, backpressure>>
closeVars == <<closed, closer, closeTasks>>
vars == <<subVars, queueVars, taskVars, statVars, closeVars, handles>>

Specs == [name : Names, type : EventTypes, key : Keys \cup {None}, size : QueueSizes]

TypeOK ==
    /\ closed \in BOOLEAN
    /\ registry \in [Names -> Subs \cup {None}]
    /\ handles \in [Names -> Subs \cup {None}]
    /\ status \in [Subs -> {"new", "open", "closed"}]
    /\ spec \in [Subs -> Specs \cup {None}]
    /\ queue \in [Subs -> Seq(Events \cup {CLOSED})]
    /\ pending \in [Subs -> Int]
    /\ task \in [Subs -> {"none", "waiting", "handling", "cancelling", "done"}]
    /\ current \in [Subs -> Seq(Events)]
    /\ failures \in [Subs -> Nat]
    /\ published \in Nat /\ delivered \in Nat /\ backpressure \in Nat
    /\ closer \in {"idle", "waiting", "gathering", "returned"}
    /\ closeTasks \subseteq Subs
    /\ accepted \in [Subs -> Seq(Events)]
    /\ handled \in [Subs -> Seq(Events)]

Init ==
    /\ closed = FALSE
    /\ registry = [n \in Names |-> None]
    /\ handles = [n \in Names |-> None]
    /\ status = [s \in Subs |-> "new"]
    /\ spec = [s \in Subs |-> None]
    /\ queue = [s \in Subs |-> <<>>]
    /\ pending = [s \in Subs |-> 0]
    /\ task = [s \in Subs |-> "none"]
    /\ current = [s \in Subs |-> <<>>]
    /\ failures = [s \in Subs |-> 0]
    /\ published = 0 /\ delivered = 0 /\ backpressure = 0
    /\ closer = "idle"
    /\ closeTasks = {}
    /\ accepted = [s \in Subs |-> <<>>]
    /\ handled = [s \in Subs |-> <<>>]

-----------------------------------------------------------------------------
(* publish                                                                 *)

PartitionKey(e, explicit) == IF explicit # None THEN explicit ELSE MarketOf[e]

Matching(e, key) ==
    {s \in Subs : /\ \E n \in Names : registry[n] = s
                  /\ status[s] = "open"
                  /\ e \in spec[s].type
                  /\ spec[s].key = None \/ spec[s].key = key}

Full(s) == pending[s] >= spec[s].size

FullAmong(S) == {s \in S : Full(s)}

PublishWithin(bound) == published + backpressure < bound

\* One target is full: nobody receives the event and the caller is told.
PublishBackpressure(e, explicit) ==
    /\ ~closed
    /\ PublishWithin(MaxPublish)
    /\ FullAmong(Matching(e, PartitionKey(e, explicit))) # {}
    /\ backpressure' = backpressure + 1
    /\ UNCHANGED <<subVars, queueVars, taskVars, published, delivered,
                   closeVars, handles>>

\* Mutant of PublishDelivers: no look ahead, the full targets are skipped.
PublishToWhoHasRoom(e, explicit) ==
    LET targets == {s \in Matching(e, PartitionKey(e, explicit)) : ~Full(s)} IN
    /\ ~closed
    /\ PublishWithin(MaxPublish)
    /\ queue' = [s \in Subs |-> IF s \in targets THEN Append(queue[s], e) ELSE queue[s]]
    /\ pending' = [s \in Subs |-> IF s \in targets THEN pending[s] + 1 ELSE pending[s]]
    /\ accepted' = [s \in Subs |-> IF s \in targets THEN Append(accepted[s], e) ELSE accepted[s]]
    /\ published' = published + 1
    /\ delivered' = delivered + Cardinality(targets)
    /\ UNCHANGED <<subVars, taskVars, backpressure, closeVars, handles>>

\* Every target has room: each receives the event.
PublishDelivers(e, explicit) ==
    LET targets == Matching(e, PartitionKey(e, explicit)) IN
    /\ ~closed
    /\ PublishWithin(MaxPublish)
    /\ FullAmong(targets) = {}
    /\ queue' = [s \in Subs |-> IF s \in targets THEN Append(queue[s], e) ELSE queue[s]]
    /\ pending' = [s \in Subs |-> IF s \in targets THEN pending[s] + 1 ELSE pending[s]]
    /\ accepted' = [s \in Subs |-> IF s \in targets THEN Append(accepted[s], e) ELSE accepted[s]]
    /\ published' = published + 1
    /\ delivered' = delivered + Cardinality(targets)
    /\ UNCHANGED <<subVars, taskVars, backpressure, closeVars, handles>>

-----------------------------------------------------------------------------
(* subscribe, start_consumer                                               *)

\* Mutant of NewSubscription: a name in use is not refused.
NewSubscriptionUnchecked(s, args) ==
    /\ ~closed
    /\ status[s] = "new"
    /\ status' = [status EXCEPT ![s] = "open"]
    /\ spec' = [spec EXCEPT ![s] = args]
    /\ registry' = [registry EXCEPT ![args.name] = s]
    /\ UNCHANGED <<queueVars, current, failures, handled, statVars, closeVars>>

\* The checks and the construction subscribe() makes.
NewSubscription(s, args) ==
    /\ ~closed
    /\ status[s] = "new"
    /\ registry[args.name] = None
    /\ status' = [status EXCEPT ![s] = "open"]
    /\ spec' = [spec EXCEPT ![s] = args]
    /\ registry' = [registry EXCEPT ![args.name] = s]
    /\ UNCHANGED <<queueVars, current, failures, handled, statVars, closeVars>>

Subscribe(s, args) ==
    /\ NewSubscription(s, args)
    /\ UNCHANGED <<task, handles>>

StartConsumer(s, args) ==
    /\ NewSubscription(s, args)
    /\ task' = [task EXCEPT ![s] = "waiting"]
    /\ handles' = [handles EXCEPT ![args.name] = s]

-----------------------------------------------------------------------------
(* A consumer, managed by a task or iterated by the subscriber itself      *)

\* Mutant of TaskTakesEvent: the newest event is taken first.
TaskTakesNewest(s) ==
    /\ task[s] = "waiting"
    /\ queue[s] # <<>> /\ queue[s][Len(queue[s])] # CLOSED
    /\ queue' = [queue EXCEPT ![s] = SubSeq(@, 1, Len(@) - 1)]
    /\ pending' = [pending EXCEPT ![s] = @ - 1]
    /\ current' = [current EXCEPT ![s] = <<queue[s][Len(queue[s])]>>]
    /\ task' = [task EXCEPT ![s] = "handling"]
    /\ UNCHANGED <<subVars, accepted, failures, handled, statVars, closeVars, handles>>

\* __anext__ returns an event to the consumer task, which calls its handler.
TaskTakesEvent(s) ==
    /\ task[s] = "waiting"
    /\ queue[s] # <<>> /\ Head(queue[s]) # CLOSED
    /\ queue' = [queue EXCEPT ![s] = Tail(@)]
    /\ pending' = [pending EXCEPT ![s] = @ - 1]
    /\ current' = [current EXCEPT ![s] = <<Head(queue[s])>>]
    /\ task' = [task EXCEPT ![s] = "handling"]
    /\ UNCHANGED <<subVars, accepted, failures, handled, statVars, closeVars, handles>>

\* __anext__ meets the sentinel: the async for loop and the task end.
TaskTakesSentinel(s) ==
    /\ task[s] = "waiting"
    /\ queue[s] # <<>> /\ Head(queue[s]) = CLOSED
    /\ queue' = [queue EXCEPT ![s] = Tail(@)]
    /\ task' = [task EXCEPT ![s] = "done"]
    /\ UNCHANGED <<subVars, pending, accepted, current, failures, handled,
                   statVars, closeVars, handles>>

HandlerFinishes(s, failed) ==
    /\ task[s] = "handling"
    /\ handled' = [handled EXCEPT ![s] = @ \o current[s]]
    /\ current' = [current EXCEPT ![s] = <<>>]
    /\ failures' = [failures EXCEPT ![s] = IF failed THEN @ + 1 ELSE @]
    /\ task' = [task EXCEPT ![s] = "waiting"]
    /\ UNCHANGED <<subVars, queueVars, statVars, closeVars, handles>>

HandlerReturns(s) == HandlerFinishes(s, FALSE)
HandlerRaises(s)  == HandlerFinishes(s, TRUE)

\* The owner of a subscription without a task awaits its next event.
IteratorTakes(s) ==
    /\ status[s] # "new" /\ task[s] = "none"
    /\ queue[s] # <<>>
    /\ queue' = [queue EXCEPT ![s] = Tail(@)]
    /\ IF Head(queue[s]) = CLOSED
       THEN UNCHANGED <<pending, handled>>
       ELSE /\ pending' = [pending EXCEPT ![s] = @ - 1]
            /\ handled' = [handled EXCEPT ![s] = Append(@, Head(queue[s]))]
    /\ UNCHANGED <<subVars, accepted, task, current, failures, statVars,
                   closeVars, handles>>

-----------------------------------------------------------------------------
(* Closing a subscription, a consumer handle, the bus                      *)

\* Mutant of CloseSubscriptions: no sentinel is put behind the last event.
CloseWithoutSentinel(S) ==
    LET open == {s \in S : status[s] = "open"} IN
    /\ status' = [s \in Subs |-> IF s \in open THEN "closed" ELSE status[s]]
    /\ registry' = [n \in Names |->
                      IF \E s \in open : spec[s].name = n THEN None ELSE registry[n]]
    /\ UNCHANGED queue

\* Mutant of CloseSubscriptions: close() is not idempotent.
CloseTwice(S) ==
    /\ status' = [s \in Subs |-> IF s \in S THEN "closed" ELSE status[s]]
    /\ queue' = [s \in Subs |-> IF s \in S THEN Append(queue[s], CLOSED) ELSE queue[s]]
    /\ registry' = [n \in Names |->
                      IF \E s \in S : spec[s].name = n THEN None ELSE registry[n]]

\* QueuedEventSubscription.close() on each open member of S.
CloseSubscriptions(S) ==
    LET open == {s \in S : status[s] = "open"} IN
    /\ status' = [s \in Subs |-> IF s \in open THEN "closed" ELSE status[s]]
    /\ queue' = [s \in Subs |-> IF s \in open THEN Append(queue[s], CLOSED) ELSE queue[s]]
    /\ registry' = [n \in Names |->
                      IF \E s \in open : spec[s].name = n THEN None ELSE registry[n]]

SubscriptionClose(s) ==
    /\ status[s] = "open"
    /\ CloseSubscriptions({s})
    /\ UNCHANGED <<spec, pending, accepted, taskVars, statVars, closeVars, handles>>

\* EventConsumerHandle.close(): close the subscription, cancel the task.
HandleClose(s) ==
    /\ task[s] \notin {"none", "cancelling", "done"}
    /\ CloseSubscriptions({s})
    /\ task' = [task EXCEPT ![s] = "cancelling"]
    /\ UNCHANGED <<spec, pending, accepted, current, failures, handled, statVars,
                   closeVars, handles>>

\* A cancelled task leaves its loop at its suspension point: CancelledError is
\* not an Exception, so consume() does not catch it.  An interrupted event stays
\* in current, the events behind it stay in the queue.
TaskCancelled(s) ==
    /\ task[s] = "cancelling"
    /\ task' = [task EXCEPT ![s] = "done"]
    /\ UNCHANGED <<subVars, queueVars, current, failures, handled, statVars,
                   closeVars, handles>>

ManagedTasks == {s \in Subs : \E n \in Names : handles[n] = s}

\* close() up to its first suspension point.
BusClose ==
    /\ ~closed
    /\ closed' = TRUE
    /\ CloseSubscriptions({s \in Subs : \E n \in Names : registry[n] = s})
    /\ closeTasks' = ManagedTasks
    /\ closer' = IF ManagedTasks = {} THEN "returned" ELSE "waiting"
    /\ UNCHANGED <<spec, pending, accepted, taskVars, statVars, handles>>

AllDone(S) == \A s \in S : task[s] = "done"

\* asyncio.wait, or the gather after it, finds every task finished.
BusCloseReturns ==
    /\ closer \in {"waiting", "gathering"}
    /\ AllDone(closeTasks)
    /\ closer' = "returned"
    /\ UNCHANGED <<subVars, queueVars, taskVars, statVars, closed, closeTasks, handles>>

\* Mutant of BusCloseTimesOut: the tasks that did not finish are not cancelled.
BusCloseForgetsToCancel ==
    /\ closer = "waiting"
    /\ ~AllDone(closeTasks)
    /\ closer' = "gathering"
    /\ UNCHANGED <<subVars, queueVars, taskVars, statVars, closed, closeTasks, handles>>

\* asyncio.wait times out: the unfinished tasks are cancelled and gathered.
BusCloseTimesOut ==
    /\ closer = "waiting"
    /\ ~AllDone(closeTasks)
    /\ task' = [s \in Subs |-> IF s \in closeTasks /\ task[s] # "done"
                               THEN "cancelling" ELSE task[s]]
    /\ closer' = "gathering"
    /\ UNCHANGED <<subVars, queueVars, current, failures, handled, statVars, closed,
                   closeTasks, handles>>

-----------------------------------------------------------------------------
Next ==
    \/ \E e \in Events, k \in Keys \cup {None} :
         PublishBackpressure(e, k) \/ PublishDelivers(e, k)
    \/ \E s \in Subs, args \in Specs : Subscribe(s, args) \/ StartConsumer(s, args)
    \/ \E s \in Subs : \/ TaskTakesEvent(s) \/ TaskTakesSentinel(s)
                       \/ HandlerReturns(s) \/ HandlerRaises(s)
                       \/ IteratorTakes(s) \/ TaskCancelled(s)
                       \/ SubscriptionClose(s) \/ HandleClose(s)
    \/ BusClose \/ BusCloseReturns \/ BusCloseTimesOut

Spec == Init /\ [][Next]_vars

(***************************************************************************)
(* The event loop runs every ready task, delivers cancellations, and fires *)
(* the shutdown timer.  Nothing is assumed of handlers (they may hang), of *)
(* publishers, or of anyone who calls close().                             *)
(***************************************************************************)
LoopFairness ==
    /\ \A s \in Subs : /\ WF_vars(TaskTakesEvent(s) \/ TaskTakesSentinel(s))
                       /\ WF_vars(TaskCancelled(s))
    /\ WF_vars(BusCloseReturns \/ BusCloseTimesOut)

LiveSpec == Spec /\ LoopFairness

\* What ClosedConsumersDrain assumes in addition: every handler finishes.
HandlerFairness ==
    \A s \in Subs : WF_vars(HandlerReturns(s) \/ HandlerRaises(s))

-----------------------------------------------------------------------------
(* Safety                                                                  *)

\* _pending_events counts exactly the events in the queue, never exceeds the
\* queue size the consumer asked for, and the queue (built with maxsize size + 1)
\* always has a place for the sentinel: the put_nowait in close() cannot raise
\* QueueFull, and no event is ever behind the sentinel.
QueueAccounting ==
    \A s \in Subs : status[s] # "new" =>
        /\ pending[s] \in 0 .. spec[s].size
        /\ \A i \in 1 .. pending[s] : queue[s][i] # CLOSED
        /\ \/ Len(queue[s]) = pending[s]
           \/ /\ Len(queue[s]) = pending[s] + 1
              /\ queue[s][pending[s] + 1] = CLOSED
              /\ status[s] = "closed"

\* acc is han, then cur, then the first n items of q.
InOrder(acc, han, cur, q, n) ==
    /\ Len(acc) = Len(han) + Len(cur) + n
    /\ \A i \in 1 .. Len(han) : han[i] = acc[i]
    /\ \A i \in 1 .. Len(cur) : cur[i] = acc[Len(han) + i]
    /\ \A i \in 1 .. n : q[i] = acc[Len(han) + Len(cur) + i]

\* What a consumer has finished, then the event its handler is on, then what its
\* queue still holds, is exactly what publish() put there, in that order: nothing
\* is lost, repeated or overtaken, whatever fails, is cancelled or is closed.
ExactlyOnceInOrder ==
    \A s \in Subs : InOrder(accepted[s], handled[s], current[s], queue[s], pending[s])

\* The registry holds exactly the open subscriptions, each under its own name, so
\* no two open ones share a name and a closed bus has none: the pop in
\* _remove_subscription never evicts a newer subscription of the same name.
RegistryConsistent ==
    /\ \A s \in Subs : status[s] = "open" => registry[spec[s].name] = s
    /\ \A n \in Names : registry[n] # None =>
          /\ status[registry[n]] = "open"
          /\ spec[registry[n]].name = n
    /\ closed => \A n \in Names : registry[n] = None

IsSuffixOf(a, b) ==
    /\ Len(a) <= Len(b)
    /\ \A i \in 1 .. Len(a) : a[i] = b[Len(b) - Len(a) + i]

\* Fan-out is all or nothing: of two open subscriptions to the same type and
\* partition the one that joined later has seen an exact suffix of what the other
\* has, so a full peer never makes the two streams differ.
PeersSeeTheSameStream ==
    \A s, t \in Subs :
        (status[s] = "open" /\ status[t] = "open"
           /\ spec[s].type = spec[t].type /\ spec[s].key = spec[t].key)
        => IsSuffixOf(accepted[s], accepted[t]) \/ IsSuffixOf(accepted[t], accepted[s])

-----------------------------------------------------------------------------
(* Liveness                                                                *)

\* close() returns even when a handler hangs, because the timeout cancels it.
CloseReturns == closed ~> (closer = "returned")

\* If handlers finish, a closed consumer handles everything its queue accepted and
\* then stops, unless somebody cancels it: the sentinel is met, and met last.
ClosedConsumersDrain ==
    HandlerFairness =>
        \A s \in Subs :
            (status[s] = "closed" /\ task[s] \in {"waiting", "handling"})
            ~> (\/ task[s] = "cancelling"
                \/ task[s] = "done" /\ handled[s] = accepted[s])
=============================================================================
