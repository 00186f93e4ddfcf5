--------------------------- MODULE StrategyRuntime ---------------------------
(***************************************************************************)
(* One strategy managed by StrategyRuntime: src/src/pmrp/strategies/       *)
(* runtime.py and lifecycle.py, with the order-intent gate of context.py   *)
(* and the subscription it holds on the event bus.                         *)
(*                                                                         *)
(* Handles of different strategies share only _started, so one is enough.  *)
(* Calls of start() and stop() run as coroutines next to the consumer task *)
(* each start may create; a step of the model is what runs between two     *)
(* suspension points: entering a gather()ed coroutine, and the awaits of   *)
(* initialize, on_event, shutdown and of the consumer task.  The bus       *)
(* publishes without suspending.  The loop runs new coroutines in the      *)
(* order in which they were scheduled (ready), while one that waits for    *)
(* something may wake up at any time.  A subscription and a task are named *)
(* by the start call that creates them.                                    *)
(***************************************************************************)
EXTENDS Integers, Sequences, FiniteSets

CONSTANTS
    Starts,          \* calls of start()
    Stops,           \* calls of stop()
    QueueSize,       \* queue_size of the strategy's subscription
    MaxEvents,       \* bound: events published on the bus
    PublishMayRaise, \* lifecycle events are published and the publisher can raise
    None

ASSUME RuntimeAssumption ==
    /\ QueueSize \in Nat \ {0}
    /\ MaxEvents \in Nat
    /\ PublishMayRaise \in BOOLEAN
    /\ Starts \cap Stops = {}
    /\ None \notin Starts \cup Stops

Calls == Starts \cup Stops

States == {"CREATED", "INITIALIZING", "RUNNING", "DEGRADED", "DRAINING", "STOPPED", "FAILED"}

TerminalStates == {"STOPPED", "FAILED"}

\* ALLOWED_STRATEGY_STATE_TRANSITIONS
AllowedNext ==
    [s \in States |->
       CASE s = "CREATED"      -> {"INITIALIZING", "STOPPED", "FAILED"}
         [] s = "INITIALIZING" -> {"RUNNING", "DEGRADED", "STOPPED", "FAILED"}
         [] s = "RUNNING"      -> {"DEGRADED", "DRAINING", "STOPPED", "FAILED"}
         [] s = "DEGRADED"     -> {"DRAINING", "STOPPED", "FAILED"}
         [] s = "DRAINING"     -> {"STOPPED", "FAILED"}
         [] OTHER              -> {}]

CLOSED == "_CLOSED"
EventKinds == {"subscribed", "other"}  \* by the event type of the envelope

VARIABLES
    started,      \* StrategyRuntime._started
    state,        \* handle.state
    health,       \* handle.health_status
    gate,         \* order_intents_enabled of the strategy's context
    failed,       \* whether handle.failed_events is positive
    subscription, \* handle.subscription
    task,         \* handle.task
    subState,     \* subscription objects: "none", "open", "closed"
    queue,        \* their queues
    taskPc,       \* consumer tasks
    taskSub,      \* the subscription a consumer task reads
    pc,           \* calls of start() and stop()
    ready,        \* coroutines scheduled on the loop that did not run yet
    seen,         \* the health status, or the task, a suspended call holds on to
    published     \* events published on the bus so far

busVars == <<subState, queue, published>>
handleVars == <<state, health, gate, failed, subscription, task>>
vars == <<started, handleVars, busVars, taskPc, taskSub, pc, ready, seen>>

HealthStatuses == {"UNKNOWN", "HEALTHY", "DEGRADED", "UNHEALTHY"}
CallPcs == {"idle", "entering", "initializing", "joining", "shutdown", "returned", "raised"}
TaskPcs == {"none", "created", "reading", "handling", "done", "raised"}

TypeOK ==
    /\ started \in BOOLEAN
    /\ state \in States
    /\ health \in HealthStatuses
    /\ gate \in BOOLEAN
    /\ failed \in BOOLEAN
    /\ subscription \in Starts \cup {None}
    /\ task \in Starts \cup {None}
    /\ subState \in [Starts -> {"none", "open", "closed"}]
    /\ queue \in [Starts -> Seq(EventKinds \cup {CLOSED})]
    /\ taskPc \in [Starts -> TaskPcs]
    /\ taskSub \in [Starts -> Starts \cup {None}]
    /\ pc \in [Calls -> CallPcs]
    /\ ready \in Seq(Calls \X {"call", "task"})
    /\ seen \in [Calls -> [health : HealthStatuses, task : Starts \cup {None}]]
    /\ published \in Nat

\* After register(): the strategy and its context were validated.
Init ==
    /\ started = FALSE
    /\ state = "CREATED"
    /\ health = "UNKNOWN"
    /\ gate = TRUE
    /\ failed = FALSE
    /\ subscription = None
    /\ task = None
    /\ subState = [c \in Starts |-> "none"]
    /\ queue = [c \in Starts |-> <<>>]
    /\ taskPc = [c \in Starts |-> "none"]
    /\ taskSub = [c \in Starts |-> None]
    /\ pc = [c \in Calls |-> "idle"]
    /\ ready = <<>>
    /\ seen = [c \in Calls |-> [health |-> "UNKNOWN", task |-> None]]
    /\ published = 0

-----------------------------------------------------------------------------
(* Helpers                                                                 *)

\* transition_to(next) does not raise.
Allowed(next) == next = state \/ next \in AllowedNext[state]

\* subscription.close() on the subscription the handle points to.
CloseHandleSubscription ==
    LET s == subscription IN
    IF s # None /\ subState[s] = "open"
    THEN /\ subState' = [subState EXCEPT ![s] = "closed"]
         /\ queue' = [queue EXCEPT ![s] = Append(@, CLOSED)]
    ELSE UNCHANGED <<subState, queue>>

\* Mutant of Registered: the bus does not refuse a second subscription.
NothingRegistered == {}

\* The bus knows a subscription under the strategy's consumer name.
Registered == {s \in Starts : subState[s] = "open"}

\* create_task and gather schedule a coroutine behind the ones that are ready.
Schedule(x, kind) == ready' = Append(ready, <<x, kind>>)
RunsNext(x, kind) == ready # <<>> /\ Head(ready) = <<x, kind>> /\ ready' = Tail(ready)

CallEnds(c, how) == pc' = [pc EXCEPT ![c] = how]

\* What publishing a lifecycle event can do to the call that publishes.
PublishOutcomes == IF PublishMayRaise THEN {"returned", "raised"} ELSE {"returned"}

\* _publish_strategy_health_changed is silent when the status is the same.
HealthChangedOutcomes(previous, now) ==
    IF previous = now THEN {"returned"} ELSE PublishOutcomes

-----------------------------------------------------------------------------
(* start()                                                                 *)

StartCall(c) ==
    /\ pc[c] = "idle"
    /\ \/ started /\ CallEnds(c, "returned") /\ UNCHANGED ready
       \/ ~started /\ CallEnds(c, "entering") /\ Schedule(c, "call")
    /\ started' = TRUE
    /\ UNCHANGED <<handleVars, busVars, taskPc, taskSub, seen>>

\* _start_strategy up to the await of initialize().
StartEnters(c) ==
    /\ pc[c] = "entering" /\ RunsNext(c, "call")
    /\ seen' = [seen EXCEPT ![c].health = health]
    /\ \/ /\ state \in TerminalStates \cup {"RUNNING"}
          /\ CallEnds(c, "returned")
          /\ UNCHANGED state
       \/ /\ state \notin TerminalStates \cup {"RUNNING"}
          /\ ~Allowed("INITIALIZING")
          /\ CallEnds(c, "raised")
          /\ UNCHANGED state
       \/ /\ state \notin TerminalStates \cup {"RUNNING"}
          /\ Allowed("INITIALIZING")
          /\ state' = "INITIALIZING"
          /\ CallEnds(c, "initializing")
    /\ UNCHANGED <<started, health, gate, failed, subscription, task, busVars, taskPc, taskSub>>

\* mark_start_failure and the health event.
StartFails(c) ==
    /\ gate' = FALSE
    /\ failed' = TRUE
    /\ \/ /\ Allowed("FAILED")
          /\ state' = "FAILED"
          /\ health' = "UNHEALTHY"
          /\ \E how \in HealthChangedOutcomes(seen[c].health, "UNHEALTHY") : CallEnds(c, how)
       \/ /\ ~Allowed("FAILED")
          /\ CallEnds(c, "raised")
          /\ UNCHANGED <<state, health>>
    /\ UNCHANGED <<subscription, task, busVars, taskPc, taskSub>>

InitializeRaises(c) ==
    /\ pc[c] = "initializing"
    /\ StartFails(c)
    /\ UNCHANGED <<started, ready, seen>>

\* The consumer name is still registered: subscribe() raises.
SubscribeRaises(c) ==
    /\ pc[c] = "initializing"
    /\ Registered # {}
    /\ StartFails(c)
    /\ UNCHANGED <<started, ready, seen>>

\* initialize() returned and the bus accepts the subscription.  The handle is
\* set before transition_to(RUNNING), which raises if stop() came first.
SubscribeSucceeds(c) ==
    /\ pc[c] = "initializing"
    /\ Registered = {}
    /\ subState' = [subState EXCEPT ![c] = "open"]
    /\ subscription' = c
    /\ \/ /\ Allowed("RUNNING")
          /\ state' = "RUNNING"
          /\ health' = "HEALTHY"
          /\ task' = c
          /\ taskPc' = [taskPc EXCEPT ![c] = "created"]
          /\ Schedule(c, "task")
          /\ \E how \in PublishOutcomes : CallEnds(c, how)
       \/ /\ ~Allowed("RUNNING")
          /\ CallEnds(c, "raised")
          /\ UNCHANGED <<state, health, task, taskPc, ready>>
    /\ UNCHANGED <<started, gate, failed, queue, published, taskSub, seen>>

-----------------------------------------------------------------------------
(* The bus and the consumer task                                           *)

\* publish() puts an event in the strategy's queue; a full queue refuses it.
Publish(kind) ==
    /\ published < MaxEvents
    /\ \E s \in Registered : /\ Len(queue[s]) < QueueSize
                             /\ queue' = [queue EXCEPT ![s] = Append(@, kind)]
    /\ published' = published + 1
    /\ UNCHANGED <<started, handleVars, subState, taskPc, taskSub, pc, ready, seen>>

\* The task's first step reads handle.subscription.
TaskBegins(t) ==
    /\ taskPc[t] = "created" /\ RunsNext(t, "task")
    /\ taskSub' = [taskSub EXCEPT ![t] = subscription]
    /\ taskPc' = [taskPc EXCEPT ![t] = IF subscription = None THEN "done" ELSE "reading"]
    /\ UNCHANGED <<started, handleVars, busVars, pc, seen>>

\* Mutant of TaskReads: the state is not looked at.
TaskReadsAlways(t) ==
    LET s == taskSub[t]
        item == Head(queue[s])
    IN
    /\ taskPc[t] = "reading"
    /\ queue[s] # <<>>
    /\ queue' = [queue EXCEPT ![s] = Tail(@)]
    /\ taskPc' = [taskPc EXCEPT ![t] = IF item = CLOSED THEN "done"
                                       ELSE IF item = "other" THEN "reading"
                                       ELSE "handling"]
    /\ UNCHANGED <<started, handleVars, subState, published, taskSub, pc, ready, seen>>

\* One round of the async for loop: the sentinel and a state other than RUNNING
\* end it, an event of another type is ignored, the rest go to on_event().
TaskReads(t) ==
    LET s == taskSub[t]
        item == Head(queue[s])
    IN
    /\ taskPc[t] = "reading"
    /\ queue[s] # <<>>
    /\ queue' = [queue EXCEPT ![s] = Tail(@)]
    /\ taskPc' = [taskPc EXCEPT ![t] = IF item = CLOSED \/ state # "RUNNING" THEN "done"
                                       ELSE IF item = "other" THEN "reading"
                                       ELSE "handling"]
    /\ UNCHANGED <<started, handleVars, subState, published, taskSub, pc, ready, seen>>

OnEventReturns(t) ==
    /\ taskPc[t] = "handling"
    /\ taskPc' = [taskPc EXCEPT ![t] = "reading"]
    /\ UNCHANGED <<started, handleVars, busVars, taskSub, pc, ready, seen>>

\* Mutant of OnEventRaises: the gate is closed after the transition succeeded.
OnEventRaisesLateGate(t) ==
    /\ taskPc[t] = "handling"
    /\ failed' = TRUE
    /\ \/ /\ Allowed("DEGRADED")
          /\ gate' = FALSE
          /\ state' = "DEGRADED"
          /\ health' = "DEGRADED"
          /\ CloseHandleSubscription
          /\ taskPc' = [taskPc EXCEPT ![t] = "done"]
       \/ /\ ~Allowed("DEGRADED")
          /\ taskPc' = [taskPc EXCEPT ![t] = "raised"]
          /\ UNCHANGED <<gate, state, health, subState, queue>>
    /\ UNCHANGED <<started, subscription, task, published, taskSub, pc, ready, seen>>

\* on_event() raises: _degrade_strategy closes the gate first, then leaves
\* RUNNING.  If stop() has moved the strategy on, the transition itself raises
\* and the task dies with that error.
OnEventRaises(t) ==
    /\ taskPc[t] = "handling"
    /\ gate' = FALSE
    /\ failed' = TRUE
    /\ \/ /\ Allowed("DEGRADED")
          /\ state' = "DEGRADED"
          /\ health' = "DEGRADED"
          /\ CloseHandleSubscription
          /\ \E how \in HealthChangedOutcomes(health, "DEGRADED") :
               taskPc' = [taskPc EXCEPT ![t] = IF how = "returned" THEN "done" ELSE "raised"]
       \/ /\ ~Allowed("DEGRADED")
          /\ taskPc' = [taskPc EXCEPT ![t] = "raised"]
          /\ UNCHANGED <<state, health, subState, queue>>
    /\ UNCHANGED <<started, subscription, task, published, taskSub, pc, ready, seen>>

-----------------------------------------------------------------------------
(* stop()                                                                  *)

StopCall(c) ==
    /\ pc[c] = "idle"
    /\ CallEnds(c, "entering")
    /\ Schedule(c, "call")
    /\ started' = FALSE
    /\ UNCHANGED <<handleVars, busVars, taskPc, taskSub, seen>>

\* Mutant of StopEnters: the subscription is not closed.
StopEntersLeavingSubscription(c) ==
    /\ pc[c] = "entering" /\ RunsNext(c, "call")
    /\ \/ /\ state \in TerminalStates
          /\ CallEnds(c, "returned")
          /\ UNCHANGED <<state, subState, queue, seen>>
       \/ /\ state \notin TerminalStates
          /\ seen' = [seen EXCEPT ![c] = [health |-> health, task |-> task]]
          /\ state' = IF state \in {"RUNNING", "DEGRADED"} THEN "DRAINING" ELSE state
          /\ CallEnds(c, IF task = None THEN "shutdown" ELSE "joining")
          /\ UNCHANGED <<subState, queue>>
    /\ UNCHANGED <<started, health, gate, failed, subscription, task, published, taskPc, taskSub>>

\* _stop_strategy up to the await of the consumer task, or of shutdown().
StopEnters(c) ==
    /\ pc[c] = "entering" /\ RunsNext(c, "call")
    /\ \/ /\ state \in TerminalStates
          /\ CallEnds(c, "returned")
          /\ UNCHANGED <<state, subState, queue, seen>>
       \/ /\ state \notin TerminalStates
          /\ seen' = [seen EXCEPT ![c] = [health |-> health, task |-> task]]
          /\ state' = IF state \in {"RUNNING", "DEGRADED"} THEN "DRAINING" ELSE state
          /\ CloseHandleSubscription
          /\ CallEnds(c, IF task = None THEN "shutdown" ELSE "joining")
    /\ UNCHANGED <<started, health, gate, failed, subscription, task, published, taskPc, taskSub>>

\* The awaited consumer task has ended; its exception, if any, is raised here.
StopJoins(c) ==
    /\ pc[c] = "joining"
    /\ taskPc[seen[c].task] \in {"done", "raised"}
    /\ CallEnds(c, IF taskPc[seen[c].task] = "done" THEN "shutdown" ELSE "raised")
    /\ UNCHANGED <<started, handleVars, busVars, taskPc, taskSub, ready, seen>>

ShutdownReturns(c) ==
    /\ pc[c] = "shutdown"
    /\ \/ /\ Allowed("STOPPED")
          /\ state' = "STOPPED"
          /\ health' = "UNKNOWN"
          /\ \E how \in PublishOutcomes : CallEnds(c, how)
       \/ /\ ~Allowed("STOPPED")
          /\ CallEnds(c, "raised")
          /\ UNCHANGED <<state, health>>
    /\ UNCHANGED <<started, gate, failed, subscription, task, busVars, taskPc, taskSub, ready,
                   seen>>

ShutdownRaises(c) ==
    /\ pc[c] = "shutdown"
    /\ \/ /\ Allowed("FAILED")
          /\ state' = "FAILED"
          /\ health' = "UNHEALTHY"
          /\ \E how \in HealthChangedOutcomes(seen[c].health, "UNHEALTHY") : CallEnds(c, how)
       \/ /\ ~Allowed("FAILED")
          /\ CallEnds(c, "raised")
          /\ UNCHANGED <<state, health>>
    /\ UNCHANGED <<started, gate, failed, subscription, task, busVars, taskPc, taskSub, ready,
                   seen>>

-----------------------------------------------------------------------------
StartSteps(c) == \/ StartCall(c) \/ StartEnters(c) \/ InitializeRaises(c)
                 \/ SubscribeRaises(c) \/ SubscribeSucceeds(c)

TaskSteps(t) == \/ TaskBegins(t) \/ TaskReads(t) \/ OnEventReturns(t) \/ OnEventRaises(t)

StopSteps(c) == \/ StopCall(c) \/ StopEnters(c) \/ StopJoins(c)
                \/ ShutdownReturns(c) \/ ShutdownRaises(c)

Next ==
    \/ \E c \in Starts : StartSteps(c) \/ TaskSteps(c)
    \/ \E c \in Stops : StopSteps(c)
    \/ \E kind \in EventKinds : Publish(kind)

Spec == Init /\ [][Next]_vars

(***************************************************************************)
(* The loop runs every ready coroutine and the strategy's own coroutines   *)
(* (initialize, on_event, shutdown) finish.  Nobody is obliged to call     *)
(* start(), stop() or publish().                                           *)
(***************************************************************************)
Fairness ==
    /\ \A c \in Starts : /\ WF_vars(pc[c] # "idle" /\ StartSteps(c))
                         /\ WF_vars(TaskSteps(c))
    /\ \A c \in Stops : WF_vars(pc[c] # "idle" /\ StopSteps(c))

LiveSpec == Spec /\ Fairness

-----------------------------------------------------------------------------
(* Properties                                                              *)

\* docs/01_ARCHITECTURE.md 24.5, events of a strategy are processed sequentially:
\* however start() and stop() overlap, two consumer tasks never run on_event() at
\* once, nor read the bus at once.
OneConsumer ==
    \A t, u \in Starts :
        (taskPc[t] \in {"created", "reading", "handling"}
           /\ taskPc[u] \in {"created", "reading", "handling"}) => t = u

\* Once initialize() or on_event() has failed, the strategy can never again emit
\* an order intent, and no later start() revives it, also when the failure meets a
\* stop() half way.
FailureClosesTheGate ==
    failed => ~gate /\ state \in {"DEGRADED", "DRAINING", "STOPPED", "FAILED"}

\* An event is handed to the strategy only while it is running, never after stop()
\* asked it to drain or a failure degraded it.
EventsOnlyWhileRunning ==
    [][\A t \in Starts : (taskPc[t] # "handling" /\ taskPc'[t] = "handling")
                         => state = "RUNNING" /\ ~failed]_vars

\* A start() that overlapped another one put its own subscription into the handle before
\* the other's consumer task read it: the task consumes one that nobody will close.
Misdirected == \E t \in Starts : taskSub[t] \notin {None, t}

\* Every stop() call ends: it waits for a consumer that is sure to end, unless that
\* consumer was misdirected by overlapping start() calls.
StopEnds ==
    \A c \in Stops : (pc[c] # "idle") ~> (pc[c] \in {"returned", "raised"} \/ Misdirected)

\* runtime.py:150: when a stop() call has ended the strategy is stopped or failed.
StopIsFinal ==
    \A c \in Stops : pc[c] \in {"returned", "raised"} => state \in TerminalStates
=============================================================================
