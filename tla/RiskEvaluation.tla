--------------------------- MODULE RiskEvaluation ---------------------------
(***************************************************************************)
(* The path of an order intent through the risk service: the caller        *)
(* observes the state of the world, the engine judges it, and one unit of  *)
(* work stores the input snapshot, the decision, the capital reservation,  *)
(* the breaches, the canonical events and their outbox messages            *)
(* (src/src/pmrp/risk/workflow.py, service.py, reservations.py,            *)
(* kill_switches.py and src/src/pmrp/storage/).                            *)
(*                                                                         *)
(* Nothing in the repository builds a RiskContext: the observation below   *)
(* is external, and reads the tables the repository keeps for it.  All     *)
(* intents here share one strategy, exchange, account and currency, so     *)
(* every reservation is within the scope of every sum.                     *)
(***************************************************************************)
EXTENDS RiskRules, FiniteSets, FiniteSetsExt

CONSTANTS
    Attempts,        \* calls of the workflow; a retry is another attempt
    Intents,         \* order intents: records id, idempotency_key, side, ...
    SnapshotIds,     \* risk_input_snapshot_id values
    Requests(_),     \* what the caller of an attempt may ask for: an intent judged on a
                     \* snapshot, with or without an approved order, a reservation,
                     \* persisted events
    Surroundings(_, _), \* contexts an attempt may observe at an instant
    Faults,          \* indices of rules that may raise; 0: none does
    Applies(_, _),   \* _matches_subject: does a switch concern an intent?
    ListOrder,       \* the order list_active sorts by, a sequence of Switches
    ListLimit,       \* its limit
    ApprovalTTL,     \* approval_ttl of the engine, or None
    Skew,            \* how far evaluated_at may lag behind the clock
    Budget,          \* capital left by the least restrictive surroundings
    MaxTime,         \* bound: the last instant
    MaxActivations   \* bound: rows of the kill switch table

VARIABLES
    now,             \* the clock
    pc,              \* where the unit of work of an attempt is
    request,         \* the arguments of the call, None before it
    ctx,             \* the context the caller observed, until it is evaluated
    decision,        \* the RiskDecision the engine returned, its breaches, and
                     \* (history) whether every rule's promise held of the intent
    staged,          \* what the open transaction has written
    snapshots,       \* table risk_input_snapshots: the attempt behind a row
    decisions,       \* table risk_decisions, by attempt
    reservations,    \* table capital_reservations, unique by intent
    breaches,        \* table risk_breaches: failed results, by attempt
    events,          \* table canonical_events, by attempt
    outbox,          \* table outbox_messages, by attempt
    switches,        \* table kill_switches: rows from activation to release
    overtaken        \* history: attempts during which another one reserved

callVars == <<pc, request, ctx, decision, staged>>
tables   == <<snapshots, decisions, reservations, breaches, events, outbox>>
vars == <<now, callVars, tables, switches, overtaken>>

Asks == [intent : Intents, snapshot : SnapshotIds, order : BOOLEAN, reserve : BOOLEAN,
         persist : BOOLEAN]

ASSUME RequestsAssumption == \A a \in Attempts : Requests(a) \subseteq Asks

ASSUME IntentsAssumption == Intents \subseteq OrderIntents

ASSUME EngineAssumption ==
    /\ Faults \subseteq 0 .. Len(Rules)
    /\ ApprovalTTL \in Optional(Nat \ {0})
    /\ Skew \in Nat /\ MaxTime \in Nat /\ Budget \in Nat

ASSUME SurroundingsAssumption ==
    \A a \in Attempts, t \in 0 .. MaxTime : \A s \in Surroundings(a, t) :
        /\ s \in Contexts
        /\ s.strategy_capital # None =>
              s.strategy_capital.max - s.strategy_capital.current
                - s.strategy_capital.open_orders <= Budget

Steps == {"add_records", "add_reservation", "add_artifacts", "commit"}

Decisions == [status : {"approved", "rejected", "error"}, evaluated_at : Int,
              breaches : SUBSET (1 .. Len(Rules) + 1), expires_at : Optional(Int),
              permitted : BOOLEAN]

Rows == [by : Attempts, notional : Nat \ {0}, status : {"active", "released", "expired"},
         created_at : Int, expires_at : Int, released_at : Int \cup {None}]

ASSUME RowsAssumption == None \notin Attempts \cup Rows

TypeOK ==
    /\ now \in 0 .. MaxTime
    /\ pc \in [Attempts -> {"new", "observed", "returned", "raised"} \cup Steps]
    /\ request \in [Attempts -> Optional(Asks)]
    /\ ctx \in [Attempts -> Optional(Contexts)]
    /\ decision \in [Attempts -> Optional(Decisions)]
    /\ staged \in [Attempts -> SUBSET Steps]
    /\ snapshots \in [SnapshotIds -> Attempts \cup {None}]
    /\ decisions \subseteq Attempts
    /\ reservations \in [Intents -> Rows \cup {None}]
    /\ breaches \in [Attempts -> SUBSET (1 .. Len(Rules) + 1)]
    /\ events \subseteq Attempts /\ outbox \subseteq Attempts
    /\ switches \subseteq [switch : Switches, from : Nat, to : Nat \cup {None}]
    /\ overtaken \subseteq Attempts

Init ==
    /\ now = 0
    /\ pc = [a \in Attempts |-> "new"]
    /\ request = [a \in Attempts |-> None]
    /\ ctx = [a \in Attempts |-> None]
    /\ decision = [a \in Attempts |-> None]
    /\ staged = [a \in Attempts |-> {}]
    /\ snapshots = [s \in SnapshotIds |-> None]
    /\ decisions = {}
    /\ reservations = [i \in Intents |-> None]
    /\ breaches = [a \in Attempts |-> {}]
    /\ events = {} /\ outbox = {}
    /\ switches = {}
    /\ overtaken = {}

-----------------------------------------------------------------------------
(* Capital reservations and kill switches                                  *)

Active(i) == reservations[i] # None /\ reservations[i].status = "active"

\* Mutant of Live: a reservation in its last instant is not counted.
LiveBeyond(t) == {i \in Intents : Active(i) /\ reservations[i].expires_at > t + 1}

Live(t) == {i \in Intents : Active(i) /\ reservations[i].expires_at > t}

\* active_notional_sum(as_of = t).
ActiveNotionalSum(t) == MapThenSumSet(LAMBDA i : reservations[i].notional, Live(t))

\* CapitalReservationRepository.release, by whoever cancels the order.
Release(i) ==
    /\ Active(i)
    /\ reservations' = [reservations EXCEPT ![i].status = "released", ![i].released_at = now]
    /\ UNCHANGED <<now, callVars, snapshots, decisions, breaches, events, outbox, switches,
                   overtaken>>

\* Mutant of Expired: the sweep is one instant ahead of active_notional_sum.
ExpiredEarly(i) == Active(i) /\ reservations[i].expires_at <= now + 1

Expired(i) == Active(i) /\ reservations[i].expires_at <= now

\* release_expired(as_of = now).
ReleaseExpired ==
    /\ \E i \in Intents : Expired(i)
    /\ reservations' = [i \in Intents |->
            IF Expired(i) THEN [reservations[i] EXCEPT !.status = "expired", !.released_at = now]
            ELSE reservations[i]]
    /\ UNCHANGED <<now, callVars, snapshots, decisions, breaches, events, outbox, switches,
                   overtaken>>

ActiveSwitches == {w.switch : w \in {x \in switches : x.to = None}}

\* KillSwitchRepository.add; a partial unique index allows one active row each.
ActivateKillSwitch(k) ==
    /\ k \notin ActiveSwitches
    /\ Cardinality(switches) < MaxActivations
    /\ switches' = switches \cup {[switch |-> k, from |-> now, to |-> None]}
    /\ UNCHANGED <<now, callVars, tables, overtaken>>

ReleaseKillSwitch(k) ==
    /\ k \in ActiveSwitches
    /\ switches' = {IF w.switch = k /\ w.to = None THEN [w EXCEPT !.to = now] ELSE w :
                       w \in switches}
    /\ UNCHANGED <<now, callVars, tables, overtaken>>

\* list_active: the first ListLimit active rows.
ListActive ==
    {ListOrder[n] : n \in {m \in DOMAIN ListOrder :
        /\ ListOrder[m] \in ActiveSwitches
        /\ Cardinality({l \in 1 .. m : ListOrder[l] \in ActiveSwitches}) <= ListLimit}}

\* Mutant of ClearState: only switches that concern every intent are looked for.
ClearStateUnscoped(intent) ==
    LET scopes == {k \in ListActive : \A i \in Intents : Applies(k, i)} IN
    [clear |-> scopes = {}, active_scopes |-> scopes, observed_at |-> now]

\* clear_state_for_subject, for the subject of an intent.
ClearState(intent) ==
    LET scopes == {k \in ListActive : Applies(k, intent)} IN
    [clear |-> scopes = {}, active_scopes |-> scopes, observed_at |-> now]

Tick ==
    /\ now < MaxTime
    /\ now' = now + 1
    /\ UNCHANGED <<callVars, tables, switches, overtaken>>

-----------------------------------------------------------------------------
(* The caller (external) observes; the engine decides                      *)

Reserved(state) == IF state = None THEN None
                   ELSE [state EXCEPT !.reserved = ActiveNotionalSum(now)]

\* What the caller sees: the surroundings, completed with the tables.
Observation(s, intent) ==
    [s EXCEPT !.strategy_capital = Reserved(@),
              !.exchange_capital = Reserved(@),
              !.portfolio_gross = Reserved(@),
              !.available_balance = Reserved(@),
              !.open_order_limit = IF @ = None THEN None
                                   ELSE [@ EXCEPT !.reserved = Cardinality(Live(now))],
              !.kill_switch_clear = ClearState(intent)]

Observe(a, r) ==
    /\ pc[a] = "new"
    /\ \E s \in Surroundings(a, now) :
          /\ Observation(s, r.intent) \in Contexts
          /\ ctx' = [ctx EXCEPT ![a] = Observation(s, r.intent)]
    /\ request' = [request EXCEPT ![a] = r]
    /\ pc' = [pc EXCEPT ![a] = "observed"]
    /\ UNCHANGED <<now, decision, staged, tables, switches, overtaken>>

ExpiresAt(status, at) ==
    IF status = "approved" /\ ApprovalTTL # None THEN at + ApprovalTTL ELSE None

\* The unit of work is entered and RiskEngine.evaluate returns a decision.
EvaluateIntent(a, at, fault) ==
    LET c == [ctx[a] EXCEPT !.evaluated_at = at]
        results == FinalResults(request[a].intent, c, fault)
        status == DecisionStatus(results)
    IN
    /\ pc[a] = "observed"
    /\ ctx' = [ctx EXCEPT ![a] = None]
    /\ decision' = [decision EXCEPT ![a] =
            [status |-> status, evaluated_at |-> at, breaches |-> Breaches(results),
             expires_at |-> ExpiresAt(status, at),
             permitted |-> Permitted(request[a].intent, c)]]
    /\ pc' = [pc EXCEPT ![a] = "add_records"]
    /\ UNCHANGED <<now, request, staged, tables, switches, overtaken>>

-----------------------------------------------------------------------------
(* The unit of work                                                        *)

\* An exception, a storage error or a cancellation leaves the async with block:
\* the transaction is rolled back and the caller sees the exception.
RollsBack(a) ==
    /\ pc' = [pc EXCEPT ![a] = "raised"]
    /\ staged' = [staged EXCEPT ![a] = {}]
    /\ request' = [request EXCEPT ![a] = None]
    /\ decision' = [decision EXCEPT ![a] = None]

Flushes(a, next) ==
    /\ staged' = [staged EXCEPT ![a] = @ \cup {pc[a]}]
    /\ pc' = [pc EXCEPT ![a] = next]
    /\ UNCHANGED <<request, decision>>

Skips(a, next) ==
    /\ pc' = [pc EXCEPT ![a] = next]
    /\ UNCHANGED <<request, decision, staged>>

\* Another open transaction holds the same unique key: the flush waits for it.
Blocked(a, step, SameKey(_)) == \E b \in Attempts \ {a} : step \in staged[b] /\ SameKey(b)

\* The input snapshot, then the decision.  The key of a decision is a hash over the
\* snapshot id, so the snapshot's own key has already excluded a second row.
AddRecords(a) ==
    /\ pc[a] = "add_records"
    /\ ~Blocked(a, "add_records", LAMBDA b : request[b].snapshot = request[a].snapshot)
    /\ IF snapshots[request[a].snapshot] = None THEN Flushes(a, "add_reservation")
       ELSE RollsBack(a)
    /\ UNCHANGED <<now, ctx, tables, switches, overtaken>>

ReservationWanted(a) == decision[a].status = "approved" /\ request[a].reserve

\* CapitalReservationFactory.build refuses an approval without an expiry, and a
\* reservation of nothing.
Reservable(a) == decision[a].expires_at # None /\ Notional(request[a].intent) > 0

\* Mutant of IntentFree: no unique constraint on intent_id.
IntentFreeAlways(a) == TRUE

IntentFree(a) == reservations[request[a].intent] = None

AddReservation(a) ==
    /\ pc[a] = "add_reservation"
    /\ \/ /\ ~ReservationWanted(a)
          /\ Skips(a, "add_artifacts")
       \/ /\ ReservationWanted(a)
          /\ ~Blocked(a, "add_reservation", LAMBDA b : request[b].intent = request[a].intent)
          /\ IF Reservable(a) /\ IntentFree(a) THEN Flushes(a, "add_artifacts")
             ELSE RollsBack(a)
    /\ UNCHANGED <<now, ctx, tables, switches, overtaken>>

\* build_evaluation_events refuses an ERROR decision, and an approval for which no
\* approved order was asked.
EventsBuildable(a) ==
    \/ decision[a].status = "rejected"
    \/ decision[a].status = "approved" /\ request[a].order

\* Mutant of AddArtifacts: the events are written in a transaction of their own.
AddArtifactsApart(a) ==
    /\ pc[a] = "add_artifacts"
    /\ IF request[a].persist /\ ~EventsBuildable(a)
       THEN RollsBack(a) /\ UNCHANGED <<events, outbox>>
       ELSE /\ Flushes(a, "commit")
            /\ events' = IF request[a].persist THEN events \cup {a} ELSE events
            /\ outbox' = IF request[a].persist THEN outbox \cup {a} ELSE outbox
    /\ UNCHANGED <<now, ctx, snapshots, decisions, reservations, breaches,
                   switches, overtaken>>

\* The breaches, then the before_commit hook, if any: the canonical events and their
\* outbox messages.  No other transaction can hold the keys of these rows.
AddArtifacts(a) ==
    /\ pc[a] = "add_artifacts"
    /\ IF request[a].persist /\ ~EventsBuildable(a) THEN RollsBack(a)
       ELSE Flushes(a, "commit")
    /\ UNCHANGED <<now, ctx, tables, switches, overtaken>>

Reservation(a) ==
    [by |-> a, notional |-> Notional(request[a].intent), status |-> "active",
     created_at |-> decision[a].evaluated_at, expires_at |-> decision[a].expires_at,
     released_at |-> None]

InFlight == {a \in Attempts : pc[a] \in {"observed"} \cup Steps}

\* What the transaction wrote becomes visible.
Commits(a) ==
    /\ pc[a] = "commit"
    /\ snapshots' = [snapshots EXCEPT ![request[a].snapshot] = a]
    /\ decisions' = decisions \cup {a}
    /\ breaches' = [breaches EXCEPT ![a] = decision[a].breaches]
    /\ IF "add_reservation" \in staged[a]
       THEN /\ reservations' = [reservations EXCEPT ![request[a].intent] = Reservation(a)]
            /\ overtaken' = overtaken \cup (InFlight \ {a})
       ELSE UNCHANGED <<reservations, overtaken>>
    /\ IF request[a].persist
       THEN events' = events \cup {a} /\ outbox' = outbox \cup {a}
       ELSE UNCHANGED <<events, outbox>>
    /\ staged' = [staged EXCEPT ![a] = {}]
    /\ UNCHANGED <<now, request, ctx, decision, switches>>

\* evaluate_and_build_events builds its events only now.
CommitReturns(a) ==
    /\ Commits(a)
    /\ pc' = [pc EXCEPT ![a] = IF EventsBuildable(a) THEN "returned" ELSE "raised"]

\* The commit reaches the database, its acknowledgement does not reach the caller.
CommitUnacknowledged(a) ==
    /\ Commits(a)
    /\ pc' = [pc EXCEPT ![a] = "raised"]

\* A flush or the commit fails, or the call is cancelled while it waits.
Abort(a) ==
    /\ pc[a] \in Steps
    /\ RollsBack(a)
    /\ UNCHANGED <<now, ctx, tables, switches, overtaken>>

-----------------------------------------------------------------------------
Next ==
    \/ Tick
    \/ \E i \in Intents : Release(i)
    \/ ReleaseExpired
    \/ \E k \in Switches : ActivateKillSwitch(k) \/ ReleaseKillSwitch(k)
    \/ \E a \in Attempts :
         \/ \E r \in Requests(a) : Observe(a, r)
         \/ \E at \in (now - Skew) .. now, fault \in Faults : EvaluateIntent(a, at, fault)
         \/ AddRecords(a) \/ AddReservation(a) \/ AddArtifacts(a)
         \/ CommitReturns(a) \/ CommitUnacknowledged(a) \/ Abort(a)

Spec == Init /\ [][Next]_vars

-----------------------------------------------------------------------------
(* Properties                                                              *)

Approved == {a \in decisions : decision[a].status = "approved"}

\* Every stored approval meets every configured limit, on states that were neither
\* future nor stale, and no rule was skipped: neither the order of the rules, nor a
\* rule that raises, nor the special case of a missing price lets one through.
ApprovalsPermitted == \A a \in Approved : decision[a].permitted

\* Capital promised to approvals that can still be acted on.
Outstanding ==
    MapThenSumSet(LAMBDA i : reservations[i].notional,
                  {i \in Intents : /\ reservations[i] # None
                                   /\ reservations[i].status = "active"
                                   /\ reservations[i].expires_at > now})

\* What CapitalReservation is for (reservations.py:34): when no approval reserved
\* capital during the evaluation of another one, the reservations that are still
\* good never exceed the strategy's capital, through retries, releases, expiry
\* and lost acknowledgements.
NoOverspend ==
    (\A a \in Approved : request[a].reserve => a \notin overtaken) => Outstanding <= Budget

\* reservations.py:34, "preventing concurrent approvals from overspending limits",
\* without that restriction.
NoConcurrentOverspend == Outstanding <= Budget

\* An approval that asked for capital has it: its own row, for its own amount and
\* until its own expiry.  So an intent is approved with capital at most once, however
\* often it is retried.
CapitalBacksApprovals ==
    \A a \in Approved : request[a].reserve =>
        LET row == reservations[request[a].intent] IN
        /\ row # None /\ row.by = a
        /\ row.notional = Notional(request[a].intent)
        /\ row.expires_at = decision[a].expires_at

\* All rows of an evaluation appear together or not at all, every event has its
\* outbox message, and a call that returned has stored everything.
CommittedTogether ==
    /\ events = outbox
    /\ \A a \in Attempts :
         /\ a \in decisions <=> \E s \in SnapshotIds : snapshots[s] = a
         /\ a \in events <=> a \in decisions /\ request[a].persist
         /\ breaches[a] = IF a \in decisions THEN decision[a].breaches ELSE {}
         /\ pc[a] = "returned" => a \in decisions
    /\ \A i \in Intents : reservations[i] # None => reservations[i].by \in Approved

\* A kill switch works within max_state_age: nothing is approved at an instant up
\* to which a switch that concerns the intent has been active for longer.
KillSwitchStopsApprovals ==
    (\E n \in 1 .. Len(Rules) : Rules[n] = "kill_switch") =>
        \A a \in Approved : \A w \in switches :
            Applies(w.switch, request[a].intent) =>
                \/ w.from >= decision[a].evaluated_at - MaxStateAge["kill_switch"]
                \/ w.to # None /\ w.to <= decision[a].evaluated_at

\* A reservation is created once and ended once, by a release or, not before its
\* expiry, by the sweep: nothing touches it afterwards.
ReservationsAreFinal ==
    [][\A i \in Intents : reservations[i] # None =>
         \/ reservations'[i] = reservations[i]
         \/ /\ reservations[i].status = "active"
            /\ reservations'[i].status \in {"released", "expired"}
            /\ reservations'[i].status = "expired" => reservations[i].expires_at <= now
            /\ reservations'[i].by = reservations[i].by]_vars
=============================================================================
