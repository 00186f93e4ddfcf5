------------------------ MODULE StrategyRuntimeProofs ------------------------
(***************************************************************************)
(* Theorems about one managed strategy, for any number of overlapping      *)
(* start() and stop() calls, any queue size and any number of events.      *)
(***************************************************************************)
EXTENDS StrategyRuntime, SequenceTheorems, TLAPS

-----------------------------------------------------------------------------
(* The inductive invariant                                                 *)

Active == {"created", "reading", "handling"}

\* No consumer task exists before the first transition to RUNNING.
TasksFollowRunning ==
    state \in {"CREATED", "INITIALIZING"} => \A t \in Starts : taskPc[t] = "none"

\* While the strategy is RUNNING its subscription is open, so that the bus refuses a
\* second one.
RunningIsSubscribed ==
    state = "RUNNING" => /\ subscription \in Starts
                         /\ subState[subscription] = "open"

\* A consumer that reads has a subscription to read, and a stop() that joins has a task.
Attached ==
    /\ \A t \in Starts : taskPc[t] \in {"reading", "handling"} => taskSub[t] \in Starts
    /\ \A c \in Stops : pc[c] = "joining" => seen[c].task \in Starts

IInv == /\ TypeOK
        /\ TasksFollowRunning
        /\ RunningIsSubscribed
        /\ Attached
        /\ OneConsumer
        /\ FailureClosesTheGate

-----------------------------------------------------------------------------
(* Lemmas                                                                  *)

\* The transition table, read backwards: from where a strategy may move to a state.
LEMMA Transitions ==
    ASSUME state \in States
    PROVE  /\ Allowed("INITIALIZING") <=> state \in {"CREATED", "INITIALIZING"}
           /\ Allowed("RUNNING") <=> state \in {"INITIALIZING", "RUNNING"}
           /\ Allowed("DEGRADED") <=> state \in {"INITIALIZING", "RUNNING", "DEGRADED"}
           /\ Allowed("STOPPED") <=> state # "FAILED"
           /\ Allowed("FAILED") <=> state # "STOPPED"
BY DEF Allowed, AllowedNext, States

\* Closing the handle's subscription keeps the bus's types.
LEMMA CloseKeepsTypes ==
    ASSUME TypeOK, CloseHandleSubscription
    PROVE  /\ subState' \in [Starts -> {"none", "open", "closed"}]
           /\ queue' \in [Starts -> Seq(EventKinds \cup {CLOSED})]
<1> DEFINE Items == EventKinds \cup {CLOSED}
           s == subscription
<1>1. CASE s # None /\ subState[s] = "open"
  <2>1. s \in Starts /\ queue[s] \in Seq(Items) /\ CLOSED \in Items
    BY <1>1 DEF TypeOK
  <2>2. Append(queue[s], CLOSED) \in Seq(Items)
    BY <2>1, AppendProperties
  <2>3. queue' = [queue EXCEPT ![s] = Append(queue[s], CLOSED)]
    BY <1>1, <2>1 DEF CloseHandleSubscription
  <2>4. subState' = [subState EXCEPT ![s] = "closed"]
    BY <1>1 DEF CloseHandleSubscription
  <2>5. queue \in [Starts -> Seq(Items)]
    BY DEF TypeOK
  <2>6. queue' \in [Starts -> Seq(Items)]
    BY <2>2, <2>3, <2>5, Zenon
  <2> QED
    BY <2>4, <2>6 DEF TypeOK
<1>2. CASE ~(s # None /\ subState[s] = "open")
  BY <1>2 DEF TypeOK, CloseHandleSubscription
<1> QED
  BY <1>1, <1>2

\* Scheduling a coroutine, and running the one at the head, keep the queue's type.
LEMMA ReadyKeepsType ==
    ASSUME TypeOK, NEW x \in Calls, NEW kind \in {"call", "task"}
    PROVE  Schedule(x, kind) \/ RunsNext(x, kind) => ready' \in Seq(Calls \X {"call", "task"})
<1> DEFINE Coroutines == Calls \X {"call", "task"}
<1>1. ready \in Seq(Coroutines) /\ <<x, kind>> \in Coroutines
  BY DEF TypeOK
<1> HIDE DEF Coroutines
<1>2. Append(ready, <<x, kind>>) \in Seq(Coroutines)
  BY <1>1, AppendProperties
<1>3. ready # <<>> => Tail(ready) \in Seq(Coroutines)
  BY <1>1, HeadTailProperties
<1> QED
  BY <1>2, <1>3 DEF Schedule, RunsNext, Coroutines

\* The initial state satisfies the invariant.
LEMMA InitInv == Init => IInv
<1> SUFFICES ASSUME Init PROVE IInv
  OBVIOUS
<1>1. TypeOK
  <2>1. queue \in [Starts -> Seq(EventKinds \cup {CLOSED})]
    BY EmptySeq DEF Init
  <2>2. ready \in Seq(Calls \X {"call", "task"})
    BY EmptySeq DEF Init
  <2> QED
    BY <2>1, <2>2 DEF Init, TypeOK, States, HealthStatuses, CallPcs, TaskPcs
<1> QED
  BY <1>1 DEF Init, IInv, TasksFollowRunning, RunningIsSubscribed, Attached, OneConsumer,
              FailureClosesTheGate, Calls

\* Every outcome of publishing is a way for a call to end.
LEMMA OutcomesEndCalls ==
    /\ PublishOutcomes \subseteq {"returned", "raised"}
    /\ \A a, b : HealthChangedOutcomes(a, b) \subseteq {"returned", "raised"}
BY DEF PublishOutcomes, HealthChangedOutcomes

\* The steps of start() keep the invariant.
LEMMA StartKeepsInv ==
    ASSUME IInv, NEW c \in Starts, StartSteps(c)
    PROVE  IInv'
<1> USE RuntimeAssumption DEF IInv, RuntimeAssumption
<1>a. c \in Calls /\ \A b \in Stops : b # c /\ b \in Calls
  BY DEF Calls
<1>1. CASE StartCall(c)
  <2>1. TypeOK'
    BY <1>a, <1>1, ReadyKeepsType DEF StartCall, TypeOK, CallEnds, CallPcs, handleVars, busVars
  <2> QED
    BY <1>a, <1>1, <2>1 DEF StartCall, CallEnds, handleVars, busVars, TasksFollowRunning,
       RunningIsSubscribed, Attached, OneConsumer, FailureClosesTheGate, TypeOK
<1>2. CASE StartEnters(c)
  <2>0. state' = state \/ (state \in {"CREATED", "INITIALIZING"} /\ state' = "INITIALIZING")
    BY <1>2, Transitions DEF StartEnters, TypeOK
  <2>1. TypeOK'
    <3>1. seen' \in [Calls -> [health : HealthStatuses, task : Starts \cup {None}]]
      BY <1>a, <1>2 DEF StartEnters, TypeOK
    <3>2. ready' \in Seq(Calls \X {"call", "task"})
      BY <1>a, <1>2, ReadyKeepsType DEF StartEnters
    <3>3. pc' \in [Calls -> CallPcs]
      BY <1>a, <1>2 DEF StartEnters, TypeOK, CallEnds, CallPcs
    <3> QED
      BY <1>2, <2>0, <3>1, <3>2, <3>3 DEF StartEnters, TypeOK, busVars, States
  <2>2. Attached'
    BY <1>a, <1>2 DEF StartEnters, Attached, TypeOK, CallEnds
  <2> QED
    BY <1>2, <2>0, <2>1, <2>2 DEF StartEnters, busVars, TasksFollowRunning,
       RunningIsSubscribed, OneConsumer, FailureClosesTheGate
<1>3. ASSUME StartFails(c), UNCHANGED <<started, ready, seen>>
      PROVE  IInv'
  <2>1. /\ gate' = FALSE
        /\ state' \in {"STOPPED", "FAILED"}
        /\ health' \in HealthStatuses
        /\ pc' \in {[pc EXCEPT ![c] = "returned"], [pc EXCEPT ![c] = "raised"]}
        /\ UNCHANGED <<subscription, task, busVars, taskPc, taskSub>>
    BY <1>3, Transitions, OutcomesEndCalls DEF StartFails, TypeOK, CallEnds, HealthStatuses, States
  <2>2. TypeOK'
    BY <1>a, <1>3, <2>1 DEF StartFails, TypeOK, busVars, States, CallPcs
  <2> QED
    BY <1>a, <1>3, <2>1, <2>2 DEF TasksFollowRunning, RunningIsSubscribed, Attached,
       OneConsumer, FailureClosesTheGate, TypeOK
<1>4. CASE SubscribeSucceeds(c)
  <2>1. /\ Registered = {}
        /\ subState' = [subState EXCEPT ![c] = "open"]
        /\ subscription' = c
        /\ UNCHANGED <<started, gate, failed, queue, published, taskSub, seen>>
    BY <1>4 DEF SubscribeSucceeds
  <2>2. pc' \in {[pc EXCEPT ![c] = "returned"], [pc EXCEPT ![c] = "raised"]}
    BY <1>4, OutcomesEndCalls DEF SubscribeSucceeds, CallEnds
  <2>3. state # "RUNNING"
    BY <2>1 DEF Registered, RunningIsSubscribed
  <2>4. \/ /\ state = "INITIALIZING"
           /\ state' = "RUNNING"
           /\ health' = "HEALTHY"
           /\ task' = c
           /\ taskPc' = [taskPc EXCEPT ![c] = "created"]
           /\ Schedule(c, "task")
        \/ UNCHANGED <<state, health, task, taskPc, ready>>
    BY <1>4, <2>3, Transitions DEF SubscribeSucceeds, TypeOK
  <2>5. TypeOK'
    <3>1. ready' \in Seq(Calls \X {"call", "task"})
      BY <1>a, <2>4, ReadyKeepsType DEF TypeOK
    <3> QED
      BY <1>a, <2>1, <2>2, <2>4, <3>1 DEF TypeOK, States, HealthStatuses, CallPcs, TaskPcs
  <2>6. Attached' /\ FailureClosesTheGate'
    BY <1>a, <2>1, <2>2, <2>4 DEF Attached, FailureClosesTheGate, TypeOK
  <2>7. TasksFollowRunning' /\ RunningIsSubscribed' /\ OneConsumer'
    BY <2>1, <2>3, <2>4 DEF TasksFollowRunning, RunningIsSubscribed, OneConsumer, TypeOK
  <2> QED
    BY <2>5, <2>6, <2>7
<1> QED
  BY <1>1, <1>2, <1>3, <1>4 DEF StartSteps, InitializeRaises, SubscribeRaises

\* The steps of a consumer task keep the invariant.
LEMMA TaskKeepsInv ==
    ASSUME IInv, NEW t \in Starts, TaskSteps(t)
    PROVE  IInv'
<1> USE RuntimeAssumption DEF IInv, RuntimeAssumption
<1>a. t \in Calls
  BY DEF Calls
<1>1. CASE TaskBegins(t)
  <2>1. TypeOK'
    BY <1>a, <1>1, ReadyKeepsType DEF TaskBegins, TypeOK, TaskPcs, handleVars, busVars
  <2> QED
    BY <1>1, <2>1 DEF TaskBegins, TypeOK, handleVars, busVars, TasksFollowRunning,
       RunningIsSubscribed, Attached, OneConsumer, FailureClosesTheGate
<1>2. CASE TaskReads(t)
  <2> DEFINE s == taskSub[t]
  <2>1. s \in Starts /\ taskPc[t] = "reading"
    BY <1>2 DEF TaskReads, Attached
  <2>2. /\ queue[s] # <<>>
        /\ queue' = [queue EXCEPT ![s] = Tail(@)]
        /\ \E p \in {"done", "reading", "handling"} : taskPc' = [taskPc EXCEPT ![t] = p]
        /\ UNCHANGED <<started, handleVars, subState, published, taskSub, pc, ready, seen>>
    BY <1>2 DEF TaskReads
  <2>3. queue' \in [Starts -> Seq(EventKinds \cup {CLOSED})]
    BY <2>1, <2>2 DEF TypeOK
  <2>4. TypeOK'
    BY <2>2, <2>3 DEF TypeOK, TaskPcs, handleVars
  <2> QED
    BY <2>1, <2>2, <2>4 DEF TypeOK, handleVars, TasksFollowRunning, RunningIsSubscribed,
       Attached, OneConsumer, FailureClosesTheGate
<1>3. CASE OnEventReturns(t)
  <2>1. TypeOK'
    BY <1>3 DEF OnEventReturns, TypeOK, TaskPcs, handleVars, busVars
  <2> QED
    BY <1>3, <2>1 DEF OnEventReturns, TypeOK, handleVars, busVars, TasksFollowRunning,
       RunningIsSubscribed, Attached, OneConsumer, FailureClosesTheGate
<1>4. CASE OnEventRaises(t)
  <2>1. /\ taskPc[t] = "handling"
        /\ gate' = FALSE
        /\ failed' = TRUE
        /\ UNCHANGED <<started, subscription, task, published, taskSub, pc, ready, seen>>
    BY <1>4 DEF OnEventRaises
  <2>2. \E p \in {"done", "raised"} : taskPc' = [taskPc EXCEPT ![t] = p]
    BY <1>4 DEF OnEventRaises
  <2>3. state \notin {"CREATED", "INITIALIZING"}
    BY <2>1 DEF TasksFollowRunning
  <2>4. state' \in {"DEGRADED", "DRAINING", "STOPPED", "FAILED"}
    BY <1>4, <2>3, Transitions DEF OnEventRaises, TypeOK, States
  <2>5. health' \in HealthStatuses
    BY <1>4 DEF OnEventRaises, TypeOK, HealthStatuses
  <2>6. /\ subState' \in [Starts -> {"none", "open", "closed"}]
        /\ queue' \in [Starts -> Seq(EventKinds \cup {CLOSED})]
    BY <1>4, CloseKeepsTypes DEF OnEventRaises, TypeOK
  <2>7. TypeOK'
    BY <2>1, <2>2, <2>4, <2>5, <2>6, ZenonT(60) DEF TypeOK, States, TaskPcs
  <2> QED
    BY <2>1, <2>2, <2>4, <2>7, SMTT(30) DEF TypeOK, TasksFollowRunning, RunningIsSubscribed,
       Attached, OneConsumer, FailureClosesTheGate
<1> QED
  BY <1>1, <1>2, <1>3, <1>4 DEF TaskSteps

\* The steps of stop() keep the invariant.
LEMMA StopKeepsInv ==
    ASSUME IInv, NEW c \in Stops, StopSteps(c)
    PROVE  IInv'
<1> USE RuntimeAssumption DEF IInv, RuntimeAssumption
<1>a. c \in Calls
  BY DEF Calls
<1>1. CASE StopCall(c)
  <2>1. TypeOK'
    BY <1>a, <1>1, ReadyKeepsType DEF StopCall, TypeOK, CallEnds, CallPcs, handleVars, busVars
  <2> QED
    BY <1>a, <1>1, <2>1 DEF StopCall, CallEnds, handleVars, busVars, TasksFollowRunning,
       RunningIsSubscribed, Attached, OneConsumer, FailureClosesTheGate, TypeOK
<1>2. CASE StopEnters(c)
  <2>1. UNCHANGED <<started, health, gate, failed, subscription, task, published, taskPc, taskSub>>
    BY <1>2 DEF StopEnters
  <2>2. ready' \in Seq(Calls \X {"call", "task"})
    BY <1>a, <1>2, ReadyKeepsType DEF StopEnters
  <2>3. \/ /\ UNCHANGED <<state, subState, queue, seen>>
           /\ pc' = [pc EXCEPT ![c] = "returned"]
        \/ /\ seen' = [seen EXCEPT ![c] = [health |-> health, task |-> task]]
           /\ state' = IF state \in {"RUNNING", "DEGRADED"} THEN "DRAINING" ELSE state
           /\ CloseHandleSubscription
           /\ pc' = [pc EXCEPT ![c] = IF task = None THEN "shutdown" ELSE "joining"]
    BY <1>2 DEF StopEnters, CallEnds
  <2>4. /\ subState' \in [Starts -> {"none", "open", "closed"}]
        /\ queue' \in [Starts -> Seq(EventKinds \cup {CLOSED})]
    BY <2>3, CloseKeepsTypes DEF TypeOK
  <2>5. TypeOK'
    <3>1. seen' \in [Calls -> [health : HealthStatuses, task : Starts \cup {None}]]
      <4>1. [health |-> health, task |-> task] \in [health : HealthStatuses, task : Starts \cup {None}]
        BY DEF TypeOK
      <4>2. seen' \in {seen, [seen EXCEPT ![c] = [health |-> health, task |-> task]]}
        BY <2>3
      <4>3. seen \in [Calls -> [health : HealthStatuses, task : Starts \cup {None}]]
        BY DEF TypeOK
      <4> QED
        BY <4>1, <4>2, <4>3, Zenon
    <3>2. pc' \in [Calls -> CallPcs] /\ state' \in States
      BY <1>a, <2>3 DEF TypeOK, States, CallPcs
    <3> QED
      BY <2>1, <2>2, <2>4, <3>1, <3>2 DEF TypeOK
  <2>6. Attached'
    BY <1>a, <2>1, <2>3 DEF Attached, TypeOK, Calls
  <2> QED
    BY <2>1, <2>3, <2>5, <2>6 DEF TasksFollowRunning, RunningIsSubscribed, OneConsumer,
       FailureClosesTheGate
<1>3. CASE StopJoins(c)
  <2>1. TypeOK'
    BY <1>a, <1>3 DEF StopJoins, TypeOK, CallEnds, CallPcs, handleVars, busVars
  <2> QED
    BY <1>a, <1>3, <2>1 DEF StopJoins, CallEnds, handleVars, busVars, TasksFollowRunning,
       RunningIsSubscribed, Attached, OneConsumer, FailureClosesTheGate, TypeOK
<1>4. CASE ShutdownReturns(c) \/ ShutdownRaises(c)
  <2>1. /\ state' \in {"STOPPED", "FAILED"}
        /\ health' \in HealthStatuses
        /\ pc' \in {[pc EXCEPT ![c] = "returned"], [pc EXCEPT ![c] = "raised"]}
        /\ UNCHANGED <<started, gate, failed, subscription, task, busVars, taskPc, taskSub,
                       ready, seen>>
    BY <1>4, Transitions, OutcomesEndCalls
       DEF ShutdownReturns, ShutdownRaises, TypeOK, CallEnds, HealthStatuses, States
  <2>2. TypeOK'
    <3>1. pc' \in [Calls -> CallPcs] /\ state' \in States
      BY <1>a, <2>1 DEF TypeOK, States, CallPcs
    <3> QED
      BY <2>1, <3>1 DEF TypeOK, busVars
  <2> QED
    BY <1>a, <2>1, <2>2 DEF TasksFollowRunning, RunningIsSubscribed, Attached, OneConsumer,
       FailureClosesTheGate, TypeOK, Calls, busVars
<1> QED
  BY <1>1, <1>2, <1>3, <1>4 DEF StopSteps

\* Every step keeps the invariant.
LEMMA NextInv == IInv /\ [Next]_vars => IInv'
<1> SUFFICES ASSUME IInv, [Next]_vars PROVE IInv'
  OBVIOUS
<1>1. ASSUME NEW kind \in EventKinds, Publish(kind)
      PROVE  IInv'
  <2> USE DEF IInv
  <2>1. queue' \in [Starts -> Seq(EventKinds \cup {CLOSED})]
    BY <1>1 DEF Publish, Registered, TypeOK
  <2>2. TypeOK'
    BY <1>1, <2>1 DEF Publish, TypeOK, handleVars
  <2> QED
    BY <1>1, <2>2 DEF Publish, handleVars, TasksFollowRunning, RunningIsSubscribed, Attached,
       OneConsumer, FailureClosesTheGate
<1>2. CASE UNCHANGED vars
  BY <1>2 DEF vars, handleVars, busVars, IInv, TypeOK, TasksFollowRunning,
     RunningIsSubscribed, Attached, OneConsumer, FailureClosesTheGate
<1> QED
  BY <1>1, <1>2, StartKeepsInv, TaskKeepsInv, StopKeepsInv DEF Next

-----------------------------------------------------------------------------
(* Theorems                                                                *)

\* The invariant holds throughout.
LEMMA Invariance == Spec => []IInv
BY InitInv, NextInv, PTL DEF Spec

\* Every variable keeps its type.
THEOREM TypeCorrect == Spec => []TypeOK
BY Invariance, PTL DEF IInv

\* However start() and stop() overlap, at most one consumer task is alive.
THEOREM ConsumersAreExclusive == Spec => []OneConsumer
BY Invariance, PTL DEF IInv

\* A failure in initialize() or on_event() closes the gate for good.
THEOREM FailureIsFinal == Spec => []FailureClosesTheGate
BY Invariance, PTL DEF IInv

\* No step hands an event to a strategy that is draining, degraded or failed.
THEOREM EventsAreGuarded == Spec => EventsOnlyWhileRunning
<1> DEFINE Guarded == \A t \in Starts : (taskPc[t] # "handling" /\ taskPc'[t] = "handling")
                                        => state = "RUNNING" /\ ~failed
<1>1. IInv /\ [Next]_vars => [Guarded]_vars
  <2> SUFFICES ASSUME IInv, Next, NEW t \in Starts,
                      taskPc[t] # "handling", taskPc'[t] = "handling"
               PROVE  state = "RUNNING" /\ ~failed
    OBVIOUS
  <2>1. \A c \in Starts : ~StartSteps(c)
    BY DEF StartSteps, StartCall, StartEnters, InitializeRaises, SubscribeRaises, StartFails,
           SubscribeSucceeds, IInv, TypeOK
  <2>2. \A c \in Stops : ~StopSteps(c)
    BY DEF StopSteps, StopCall, StopEnters, StopJoins, ShutdownReturns, ShutdownRaises
  <2>3. \A kind \in EventKinds : ~Publish(kind)
    BY DEF Publish
  <2>4. \A u \in Starts : ~TaskBegins(u) /\ ~OnEventReturns(u) /\ ~OnEventRaises(u)
    BY DEF TaskBegins, OnEventReturns, OnEventRaises, IInv, TypeOK
  <2>5. PICK u \in Starts : TaskReads(u)
    BY <2>1, <2>2, <2>3, <2>4 DEF Next, TaskSteps
  <2>6. state = "RUNNING"
    BY <2>5 DEF TaskReads, IInv, TypeOK
  <2> QED
    BY <2>6 DEF IInv, FailureClosesTheGate
<1> QED
  BY <1>1, Invariance, PTL DEF Spec, EventsOnlyWhileRunning
=============================================================================
