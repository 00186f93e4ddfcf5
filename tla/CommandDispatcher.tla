-------------------------- MODULE CommandDispatcher --------------------------
(***************************************************************************)
(* CommandDispatcher.dispatch and the default InMemoryCommandIdempotency-  *)
(* Hook: src/src/pmrp/commands/dispatcher.py and registry.py.              *)
(*                                                                         *)
(* Calls of dispatch() run concurrently on one event loop.  The only place *)
(* a call suspends is the handler: the hook's lock is never contended,     *)
(* because nothing awaits while holding it.  So a call is two atomic       *)
(* steps, up to the handler and after it, and the handlers of different    *)
(* calls overlap freely.  A request stands for the fingerprint of a        *)
(* command; the hook's OrderedDict is the partial function entries plus    *)
(* pos, the position of a key in the dict (0: absent, 1: oldest).          *)
(***************************************************************************)
EXTENDS Integers, FiniteSets

CONSTANTS
    Calls,          \* calls of dispatch()
    Keys,           \* idempotency keys
    Requests,       \* command fingerprints
    RegistryCheck,  \* what the registry says of a request's type and version
    Deadlined,      \* the requests that carry a deadline
    MaxEntries,     \* InMemoryCommandIdempotencyHook(max_entries)
    HookMayRaise,   \* whether the hook in use can raise (the default one cannot)
    None

RegistryAnswers == {"ok", "unknown_command_type", "schema_version_mismatch"}

\* What a handler run leaves behind: its kind, and which call ran it.
HandlerOutcomes == {"result", "handler_rejected", "handler_error"}
Outcomes == [kind : HandlerOutcomes \cup {"deadline_exceeded"}, by : Calls]

Entries == [fingerprint : Requests, status : {"in_progress", "completed", "failed"},
            outcome : Outcomes \cup {None}]

ASSUME DispatcherAssumption ==
    /\ IsFiniteSet(Keys)
    /\ RegistryCheck \in [Requests -> RegistryAnswers]
    /\ Deadlined \subseteq Requests
    /\ MaxEntries \in Nat \ {0}
    /\ HookMayRaise \in BOOLEAN
    /\ None \notin Calls \cup Keys \cup Requests \cup Entries

\* Failures that describe the answered call only.
Refusals == {"unknown_command_type", "schema_version_mismatch", "duplicate_in_progress",
             "idempotency_conflict", "idempotency_rejected", "idempotency_hook_error"}

Refusal(kind) == [kind |-> kind, by |-> None]

Answers == [status : {"completed", "rejected", "failed", "duplicate"}, what : Outcomes]
           \cup [status : {"rejected", "failed"}, what : {Refusal(kind) : kind \in Refusals}]

VARIABLES
    entries,    \* _entries: key to entry, None when absent
    pos,        \* the order of _entries
    cmd,        \* the key and the request of a call
    pc,         \* "new", "running" (in the handler), "answered", "cancelled"
    answer,     \* the CommandDispatchResult
    expired,    \* requests whose deadline the clock has passed
    started,    \* history: the calls whose handler was called
    evictions   \* history: how often a key was evicted

vars == <<entries, pos, cmd, pc, answer, expired, started, evictions>>

TypeOK ==
    /\ entries \in [Keys -> Entries \cup {None}]
    /\ pos \in [Keys -> Int]
    /\ cmd \in [Calls -> [key : Keys, request : Requests] \cup {None}]
    /\ pc \in [Calls -> {"new", "running", "answered", "cancelled"}]
    /\ answer \in [Calls -> Answers \cup {None}]
    /\ expired \subseteq Deadlined
    /\ started \subseteq Calls
    /\ evictions \in [Keys -> Nat]

Init ==
    /\ entries = [k \in Keys |-> None]
    /\ pos = [k \in Keys |-> 0]
    /\ cmd = [c \in Calls |-> None]
    /\ pc = [c \in Calls |-> "new"]
    /\ answer = [c \in Calls |-> None]
    /\ expired = {}
    /\ started = {}
    /\ evictions = [k \in Keys |-> 0]

-----------------------------------------------------------------------------
(* The ordered dictionary                                                  *)

Present == {k \in Keys : entries[k] # None}

\* move_to_end: k becomes the newest of the n keys of the dict.
MoveToEnd(p, k, n) ==
    [j \in Keys |-> IF j = k THEN n
                    ELSE IF p[k] # 0 /\ p[j] > p[k] THEN p[j] - 1 ELSE p[j]]

\* Mutant of Terminal: an entry whose handler is still running may be evicted.
AnyEntry == Present

Terminal == {k \in Present : entries[k].status # "in_progress"}

\* The entry _evict_oldest_terminal_entry removes, when there is one.
OldestTerminal(k) == k \in Terminal /\ \A j \in Terminal : pos[k] <= pos[j]

-----------------------------------------------------------------------------
(* dispatch() up to the handler                                            *)

Issue(c, k, r) ==
    /\ pc[c] = "new"
    /\ cmd' = [cmd EXCEPT ![c] = [key |-> k, request |-> r]]

Reply(c, status, what) ==
    /\ pc' = [pc EXCEPT ![c] = "answered"]
    /\ answer' = [answer EXCEPT ![c] = [status |-> status, what |-> what]]

\* The type is not registered, or registered with another schema version.
RefusedByRegistry(c, k, r) ==
    /\ Issue(c, k, r)
    /\ RegistryCheck[r] # "ok"
    /\ Reply(c, "rejected", Refusal(RegistryCheck[r]))
    /\ UNCHANGED <<entries, pos, expired, started, evictions>>

\* before_dispatch raises: the dispatcher fails closed.
BeforeDispatchRaises(c, k, r) ==
    /\ HookMayRaise
    /\ Issue(c, k, r)
    /\ RegistryCheck[r] = "ok"
    /\ Reply(c, "failed", Refusal("idempotency_hook_error"))
    /\ UNCHANGED <<entries, pos, expired, started, evictions>>

\* Mutant of DuplicateAnswer: the fingerprint is not compared.
DuplicateAnswerUnchecked(c, k, r) ==
    CASE entries[k].status = "in_progress" -> Reply(c, "rejected", Refusal("duplicate_in_progress"))
      [] OTHER -> Reply(c, "duplicate", entries[k].outcome)

\* The answer to a command whose key is in the dict.
DuplicateAnswer(c, k, r) ==
    CASE entries[k].fingerprint # r -> Reply(c, "rejected", Refusal("idempotency_conflict"))
      [] entries[k].fingerprint = r /\ entries[k].status = "in_progress" ->
            Reply(c, "rejected", Refusal("duplicate_in_progress"))
      [] OTHER -> Reply(c, "duplicate", entries[k].outcome)

\* The key is known: no handler runs.
AnsweredFromEntry(c, k, r) ==
    /\ Issue(c, k, r)
    /\ RegistryCheck[r] = "ok"
    /\ entries[k] # None
    /\ pos' = MoveToEnd(pos, k, Cardinality(Present))
    /\ DuplicateAnswer(c, k, r)
    /\ UNCHANGED <<entries, expired, started, evictions>>

\* No room and nothing to evict.
RefusedAtCapacity(c, k, r) ==
    /\ Issue(c, k, r)
    /\ RegistryCheck[r] = "ok"
    /\ entries[k] = None
    /\ Cardinality(Present) >= MaxEntries
    /\ Terminal = {}
    /\ Reply(c, "rejected", Refusal("idempotency_rejected"))
    /\ UNCHANGED <<entries, pos, expired, started, evictions>>

\* The key is claimed once the keys in old are forgotten.  The deadline is looked
\* at after the claim: an expired command leaves a failed entry behind.
ClaimedWithout(c, k, r, old) ==
    LET kept == [j \in Keys |-> IF j \in old THEN None ELSE entries[j]]
        order == [j \in Keys |->
                    IF j \in old THEN 0
                    ELSE IF \E i \in old : pos[j] > pos[i] THEN pos[j] - 1 ELSE pos[j]]
        failure == [kind |-> "deadline_exceeded", by |-> c]
        claim == [fingerprint |-> r, status |-> "in_progress", outcome |-> None]
    IN
    /\ pos' = [order EXCEPT ![k] = Cardinality(Present \ old) + 1]
    /\ evictions' = [j \in Keys |-> IF j \in old THEN evictions[j] + 1 ELSE evictions[j]]
    /\ \/ /\ r \notin expired
          /\ entries' = [kept EXCEPT ![k] = claim]
          /\ pc' = [pc EXCEPT ![c] = "running"]
          /\ started' = started \cup {c}
          /\ UNCHANGED answer
       \/ /\ r \in expired
          /\ entries' = [kept EXCEPT ![k] = [claim EXCEPT !.status = "failed",
                                                         !.outcome = failure]]
          /\ Reply(c, "rejected", failure)
          /\ UNCHANGED started
       \/ /\ r \in expired /\ HookMayRaise \* record_failure raises
          /\ entries' = [kept EXCEPT ![k] = claim]
          /\ Reply(c, "failed", Refusal("idempotency_hook_error"))
          /\ UNCHANGED started
    /\ UNCHANGED expired

Claim(c, k, r) ==
    /\ Issue(c, k, r)
    /\ RegistryCheck[r] = "ok"
    /\ entries[k] = None
    /\ Cardinality(Present) < MaxEntries
    /\ ClaimedWithout(c, k, r, {})

\* A full dict makes room by forgetting its oldest finished command.  (It never
\* holds more than MaxEntries, see CommandDispatcherProofs, so one eviction is enough.)
ClaimEvicting(c, k, r, old) ==
    /\ Issue(c, k, r)
    /\ RegistryCheck[r] = "ok"
    /\ entries[k] = None
    /\ Cardinality(Present) >= MaxEntries
    /\ OldestTerminal(old)
    /\ ClaimedWithout(c, k, r, {old})

-----------------------------------------------------------------------------
(* dispatch() after the handler                                            *)

StatusOf(kind) == CASE kind = "result" -> "completed"
                    [] kind = "handler_rejected" -> "rejected"
                    [] kind = "handler_error" -> "failed"

\* Mutant of Recorded: a failure forgets the claim instead of recording it.
RecordedUnlessFailed(c, outcome) ==
    IF outcome.kind = "result"
    THEN [fingerprint |-> cmd[c].request, status |-> "completed", outcome |-> outcome]
    ELSE None

\* The entry record_success or record_failure writes.
Recorded(c, outcome) ==
    [fingerprint |-> cmd[c].request,
     status |-> IF outcome.kind = "result" THEN "completed" ELSE "failed",
     outcome |-> outcome]

\* The handler returns, raises CommandRejectedError, or raises anything else.
\* The key is still in the dict (see ClaimHeld), so the write does not enlarge
\* it and _trim_to_capacity has nothing to do.
HandlerEnds(c, kind) ==
    LET k == cmd[c].key
        outcome == [kind |-> kind, by |-> c]
    IN
    /\ pc[c] = "running"
    /\ entries' = [entries EXCEPT ![k] = Recorded(c, outcome)]
    /\ pos' = MoveToEnd(pos, k, Cardinality(Present \cup {k}))
    /\ Reply(c, StatusOf(kind), outcome)
    /\ UNCHANGED <<cmd, expired, started, evictions>>

\* The handler ended but record_success or record_failure raises.
RecordRaises(c) ==
    /\ HookMayRaise
    /\ pc[c] = "running"
    /\ Reply(c, "failed", Refusal("idempotency_hook_error"))
    /\ UNCHANGED <<entries, pos, cmd, expired, started, evictions>>

\* The task that awaits dispatch() is cancelled inside the handler.
\* CancelledError is no Exception: nothing is recorded.
Cancelled(c) ==
    /\ pc[c] = "running"
    /\ pc' = [pc EXCEPT ![c] = "cancelled"]
    /\ UNCHANGED <<entries, pos, cmd, answer, expired, started, evictions>>

DeadlinePasses(r) ==
    /\ r \in Deadlined \ expired
    /\ expired' = expired \cup {r}
    /\ UNCHANGED <<entries, pos, cmd, pc, answer, started, evictions>>

-----------------------------------------------------------------------------
Next ==
    \/ \E c \in Calls, k \in Keys, r \in Requests :
         \/ RefusedByRegistry(c, k, r)
         \/ BeforeDispatchRaises(c, k, r)
         \/ AnsweredFromEntry(c, k, r)
         \/ RefusedAtCapacity(c, k, r)
         \/ Claim(c, k, r)
         \/ \E old \in Keys : ClaimEvicting(c, k, r, old)
    \/ \E c \in Calls :
         \/ \E kind \in HandlerOutcomes : HandlerEnds(c, kind)
         \/ RecordRaises(c)
         \/ Cancelled(c)
    \/ \E r \in Requests : DeadlinePasses(r)

Spec == Init /\ [][Next]_vars

-----------------------------------------------------------------------------
(* Properties                                                              *)

\* While a handler runs, its key is in the dict as in progress under its own
\* fingerprint: no eviction, no conflicting command and no other call has touched it,
\* and no other handler runs for the key.
ClaimHeld ==
    \A c \in Calls : pc[c] = "running" =>
        /\ \A d \in Calls : pc[d] = "running" /\ cmd[d].key = cmd[c].key => d = c
        /\ entries[cmd[c].key] # None
        /\ entries[cmd[c].key].status = "in_progress"
        /\ entries[cmd[c].key].fingerprint = cmd[c].request

\* A duplicate is answered with the outcome of the same request under the same
\* key, obtained by an earlier call, and never with another command's.
DuplicatesRepeatTheOutcome ==
    \A c \in Calls : (answer[c] # None /\ answer[c].status = "duplicate") =>
        LET d == answer[c].what.by IN
        /\ d # c
        /\ cmd[d] = cmd[c]
        /\ pc[d] = "answered"
        /\ answer[d].what = answer[c].what

StartedFor(k) == {c \in started : cmd[c].key = k}

\* A key's handler runs once, and once more for every time its entry was evicted:
\* retries, conflicts, deadlines, failures and cancellations add no run.
OneRunPerRetention ==
    \A k \in Keys : Cardinality(StartedFor(k)) <= 1 + evictions[k]

\* What docs/02_ENGINEERING.md asks of cancellation: work that was cut short leaves
\* no claim behind.
NoOrphanedClaim ==
    \A k \in Present : entries[k].status = "in_progress" =>
        \E c \in Calls : pc[c] = "running" /\ cmd[c].key = k
=============================================================================
