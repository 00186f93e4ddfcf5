----------------------- MODULE CommandDispatcherProofs -----------------------
(***************************************************************************)
(* Theorems about the command dispatcher and its idempotency hook, for any *)
(* set of calls, keys and requests, any registry, any capacity of the hook *)
(* and any hook failures.                                                  *)
(***************************************************************************)
EXTENDS CommandDispatcher, FiniteSetTheorems, TLAPS

-----------------------------------------------------------------------------
(* The inductive invariant                                                 *)

Commands == [key : Keys, request : Requests]

\* A call that was made has its command; one that was not has no answer and has
\* started no handler.
CallsOK ==
    \A c \in Calls :
        /\ pc[c] # "new" => cmd[c] \in Commands
        /\ pc[c] # "answered" => answer[c] = None
        /\ c \in started => pc[c] # "new"

\* A finished entry holds the outcome of the call that finished it, which was made
\* with the entry's key and fingerprint and was answered with that very outcome.
EntriesOK ==
    \A k \in Present : entries[k].status # "in_progress" =>
        /\ entries[k].outcome \in Outcomes
        /\ LET d == entries[k].outcome.by IN
           /\ cmd[d] = [key |-> k, request |-> entries[k].fingerprint]
           /\ pc[d] = "answered"
           /\ answer[d].what = entries[k].outcome

\* The runs of a key's handler, counted against the entry that is there and the ones
\* that were evicted.
RunsCounted ==
    /\ IsFiniteSet(started)
    /\ \A k \in Keys :
         Cardinality(StartedFor(k)) <= evictions[k] + (IF entries[k] = None THEN 0 ELSE 1)

\* max_entries is never exceeded, so one eviction always makes room and
\* _trim_to_capacity has nothing to do after a record.
CapacityBound == Cardinality(Present) <= MaxEntries

IInv == /\ TypeOK
        /\ CallsOK
        /\ EntriesOK
        /\ ClaimHeld
        /\ DuplicatesRepeatTheOutcome
        /\ RunsCounted
        /\ CapacityBound

-----------------------------------------------------------------------------
(* Lemmas                                                                  *)

\* The initial state satisfies the invariant.
LEMMA InitInv == Init => IInv
<1> SUFFICES ASSUME Init PROVE IInv
  OBVIOUS
<1> USE DispatcherAssumption DEF DispatcherAssumption
<1>1. TypeOK
  BY DEF Init, TypeOK
<1>2. Present = {}
  BY DEF Init, Present
<1>3. CallsOK /\ EntriesOK /\ ClaimHeld /\ DuplicatesRepeatTheOutcome
  BY <1>2 DEF Init, CallsOK, EntriesOK, ClaimHeld, DuplicatesRepeatTheOutcome
<1>4. RunsCounted
  <2>1. \A k \in Keys : StartedFor(k) = {}
    BY DEF Init, StartedFor
  <2> QED
    BY <2>1, FS_EmptySet DEF Init, RunsCounted
<1>5. CapacityBound
  BY <1>2, FS_EmptySet DEF CapacityBound
<1> QED
  BY <1>1, <1>3, <1>4, <1>5 DEF IInv

\* What every step that answers a new call without touching the dict's entries keeps: the
\* call is answered, and a duplicate's answer is the outcome of the entry.
LEMMA AnswerKeepsInv ==
    ASSUME IInv, NEW c \in Calls, NEW k \in Keys, NEW r \in Requests, NEW status, NEW what,
           Issue(c, k, r), Reply(c, status, what),
           [status |-> status, what |-> what] \in Answers,
           status = "duplicate" =>
               /\ k \in Present
               /\ entries[k].status # "in_progress"
               /\ entries[k].fingerprint = r
               /\ what = entries[k].outcome,
           pos' \in [Keys -> Int],
           UNCHANGED <<entries, expired, started, evictions>>
    PROVE  IInv'
<1> USE DEF IInv
<1>1. /\ cmd' = [cmd EXCEPT ![c] = [key |-> k, request |-> r]]
      /\ pc' = [pc EXCEPT ![c] = "answered"]
      /\ answer' = [answer EXCEPT ![c] = [status |-> status, what |-> what]]
      /\ pc[c] = "new"
  BY DEF Issue, Reply
<1>2. TypeOK'
  BY <1>1 DEF TypeOK
<1>3. Present' = Present
  BY DEF Present
<1>4. CallsOK'
  BY <1>1 DEF CallsOK, TypeOK, Commands
<1>5. EntriesOK'
  <2> SUFFICES ASSUME NEW j \in Present, entries[j].status # "in_progress"
               PROVE  /\ entries[j].outcome \in Outcomes
                      /\ LET d == entries[j].outcome.by IN
                         /\ cmd'[d] = [key |-> j, request |-> entries[j].fingerprint]
                         /\ pc'[d] = "answered"
                         /\ answer'[d].what = entries[j].outcome
    BY <1>3 DEF EntriesOK
  <2> DEFINE d == entries[j].outcome.by
  <2>1. /\ entries[j].outcome \in Outcomes
        /\ d \in Calls
        /\ cmd[d] = [key |-> j, request |-> entries[j].fingerprint]
        /\ pc[d] = "answered"
        /\ answer[d].what = entries[j].outcome
    BY DEF EntriesOK, Outcomes
  <2>2. d # c
    BY <1>1, <2>1
  <2> QED
    BY <1>1, <2>1, <2>2 DEF TypeOK
<1>6. ClaimHeld'
  BY <1>1 DEF ClaimHeld, TypeOK
<1>7. DuplicatesRepeatTheOutcome'
  <2> SUFFICES ASSUME NEW b \in Calls, answer'[b] # None, answer'[b].status = "duplicate"
               PROVE  LET d == answer'[b].what.by IN
                      /\ d # b
                      /\ cmd'[d] = cmd'[b]
                      /\ pc'[d] = "answered"
                      /\ answer'[d].what = answer'[b].what
    BY DEF DuplicatesRepeatTheOutcome
  <2> DEFINE d == answer'[b].what.by
  <2>1. CASE b = c
    <3>1. answer'[b] = [status |-> status, what |-> what]
      BY <1>1, <2>1 DEF TypeOK
    <3>2. /\ k \in Present
          /\ entries[k].status # "in_progress"
          /\ entries[k].fingerprint = r
          /\ what = entries[k].outcome
      BY <3>1
    <3>3. /\ d \in Calls
          /\ cmd[d] = [key |-> k, request |-> r]
          /\ pc[d] = "answered"
          /\ answer[d].what = what
      BY <3>1, <3>2 DEF EntriesOK, Outcomes
    <3>4. d # c
      BY <1>1, <3>3
    <3> QED
      BY <1>1, <2>1, <3>1, <3>3, <3>4 DEF TypeOK
  <2>2. CASE b # c
    <3>1. answer'[b] = answer[b] /\ cmd'[b] = cmd[b]
      BY <1>1, <2>2 DEF TypeOK
    <3>2. /\ d # b
          /\ cmd[d] = cmd[b]
          /\ pc[d] = "answered"
          /\ answer[d].what = answer[b].what
      BY <3>1 DEF DuplicatesRepeatTheOutcome
    <3>3. d \in Calls
      BY <3>1 DEF TypeOK, Answers, Outcomes, Refusal
    <3>4. d # c
      BY <1>1, <3>2
    <3> QED
      BY <1>1, <3>1, <3>2, <3>3, <3>4 DEF TypeOK
  <2> QED
    BY <2>1, <2>2
<1>8. RunsCounted'
  <2>1. \A j \in Keys : StartedFor(j)' = StartedFor(j)
    BY <1>1 DEF StartedFor, CallsOK, TypeOK
  <2> QED
    BY <2>1 DEF RunsCounted
<1>9. CapacityBound'
  BY <1>3 DEF CapacityBound
<1> QED
  BY <1>2, <1>4, <1>5, <1>6, <1>7, <1>8, <1>9

\* The dict is finite, and so is every part of it.
LEMMA PresentIsFinite ==
    \A S \in SUBSET Present : IsFiniteSet(S) /\ Cardinality(S) \in Nat
BY DispatcherAssumption, FS_Subset, FS_CardinalityType DEF DispatcherAssumption, Present

\* One more element makes a finite set larger by one at most.
LEMMA AddOne ==
    ASSUME NEW S, IsFiniteSet(S), NEW x
    PROVE  Cardinality(S \cup {x}) <= Cardinality(S) + 1
<1>1. Cardinality(S) \in Nat
  BY FS_CardinalityType
<1>2. Cardinality(S \cup {x}) = IF x \in S THEN Cardinality(S) ELSE Cardinality(S) + 1
  BY FS_AddElement
<1> QED
  BY <1>1, <1>2

\* Claiming a key that is absent keeps the invariant, whichever finished entries are
\* evicted to make room.
LEMMA ClaimKeepsInv ==
    ASSUME IInv, NEW c \in Calls, NEW k \in Keys, NEW r \in Requests,
           NEW old \in SUBSET Terminal,
           Issue(c, k, r), entries[k] = None, Cardinality(Present \ old) < MaxEntries,
           ClaimedWithout(c, k, r, old)
    PROVE  IInv'
<1> USE DispatcherAssumption DEF IInv, DispatcherAssumption
<1> DEFINE failure == [kind |-> "deadline_exceeded", by |-> c]
           claim == [fingerprint |-> r, status |-> "in_progress", outcome |-> None]
           refused == [fingerprint |-> r, status |-> "failed", outcome |-> failure]
<1>1. /\ pc[c] = "new"
      /\ cmd' = [cmd EXCEPT ![c] = [key |-> k, request |-> r]]
  BY DEF Issue
<1>2. old \in SUBSET Present /\ k \notin old /\ k \notin Present
  BY DEF Terminal, Present
<1>3. /\ evictions' = [j \in Keys |-> IF j \in old THEN evictions[j] + 1 ELSE evictions[j]]
      /\ UNCHANGED expired
  BY DEF ClaimedWithout
<1>4. \/ /\ entries'[k] = claim
         /\ pc' = [pc EXCEPT ![c] = "running"]
         /\ started' = started \cup {c}
         /\ UNCHANGED answer
      \/ /\ entries'[k] = refused
         /\ pc' = [pc EXCEPT ![c] = "answered"]
         /\ answer' = [answer EXCEPT ![c] = [status |-> "rejected", what |-> failure]]
         /\ UNCHANGED started
      \/ /\ entries'[k] = claim
         /\ pc' = [pc EXCEPT ![c] = "answered"]
         /\ answer' = [answer EXCEPT ![c] = [status |-> "failed",
                                             what |-> Refusal("idempotency_hook_error")]]
         /\ UNCHANGED started
  BY ZenonT(60) DEF ClaimedWithout, Reply
<1>5. \A j \in Keys : j # k => entries'[j] = IF j \in old THEN None ELSE entries[j]
  BY DEF ClaimedWithout
<1>6. claim \in Entries /\ refused \in Entries /\ claim # None /\ refused # None
  BY DEF Entries, Outcomes
<1>7. entries' \in [Keys -> Entries \cup {None}]
  <2>1. entries' = [j \in Keys |-> entries'[j]]
    BY DEF ClaimedWithout
  <2> QED
    BY <2>1, <1>4, <1>5, <1>6 DEF TypeOK
<1>8. Present' = (Present \ old) \cup {k}
  BY <1>2, <1>4, <1>5, <1>6 DEF Present
<1>9. TypeOK'
  <2>1. pos' \in [Keys -> Int]
    <3>1. Cardinality(Present \ old) + 1 \in Int
      BY PresentIsFinite
    <3>2. \A j \in Keys : pos[j] \in Int
      BY DEF TypeOK
    <3> QED
      BY <3>1, <3>2 DEF ClaimedWithout
  <2>2. cmd' \in [Calls -> Commands \cup {None}]
    BY <1>1 DEF TypeOK, Commands
  <2>3. pc' \in [Calls -> {"new", "running", "answered", "cancelled"}]
    BY <1>4 DEF TypeOK
  <2>4. answer' \in [Calls -> Answers \cup {None}]
    BY <1>4 DEF TypeOK, Answers, Outcomes, Refusals
  <2>5. expired' \subseteq Deadlined /\ started' \subseteq Calls
    BY <1>3, <1>4 DEF TypeOK
  <2>6. evictions' \in [Keys -> Nat]
    BY <1>3 DEF TypeOK
  <2> QED
    BY <1>7, <2>1, <2>2, <2>3, <2>4, <2>5, <2>6 DEF TypeOK, Commands
<1>10. CallsOK'
  BY <1>1, <1>4 DEF CallsOK, TypeOK, Commands
<1>11. EntriesOK'
  <2> SUFFICES ASSUME NEW j \in Present', entries'[j].status # "in_progress"
               PROVE  /\ entries'[j].outcome \in Outcomes
                      /\ LET d == entries'[j].outcome.by IN
                         /\ cmd'[d] = [key |-> j, request |-> entries'[j].fingerprint]
                         /\ pc'[d] = "answered"
                         /\ answer'[d].what = entries'[j].outcome
    BY DEF EntriesOK
  <2>1. CASE j = k
    BY <1>1, <1>4, <2>1 DEF TypeOK, Outcomes
  <2>2. CASE j # k
    <3> DEFINE d == entries[j].outcome.by
    <3>1. j \in Present /\ j \in Keys /\ entries'[j] = entries[j]
      BY <1>5, <1>8, <2>2 DEF Present
    <3>2. /\ entries[j].outcome \in Outcomes
          /\ d \in Calls
          /\ cmd[d] = [key |-> j, request |-> entries[j].fingerprint]
          /\ pc[d] = "answered"
          /\ answer[d].what = entries[j].outcome
      BY <3>1 DEF EntriesOK, Outcomes
    <3>3. d # c
      BY <1>1, <3>2
    <3>4. cmd'[d] = cmd[d] /\ pc'[d] = pc[d] /\ answer'[d] = answer[d]
      BY <1>1, <1>4, <3>2, <3>3 DEF TypeOK
    <3> QED
      BY <3>1, <3>2, <3>4
  <2> QED
    BY <2>1, <2>2
<1>12. ClaimHeld'
  <2> SUFFICES ASSUME NEW b \in Calls, pc'[b] = "running"
               PROVE  /\ \A d \in Calls : pc'[d] = "running" /\ cmd'[d].key = cmd'[b].key => d = b
                      /\ entries'[cmd'[b].key] # None
                      /\ entries'[cmd'[b].key].status = "in_progress"
                      /\ entries'[cmd'[b].key].fingerprint = cmd'[b].request
    BY DEF ClaimHeld
  <2>1. \A d \in Calls : d # c => cmd'[d] = cmd[d] /\ pc'[d] = pc[d]
    BY <1>1, <1>4 DEF TypeOK
  <2>2. cmd'[c] = [key |-> k, request |-> r]
    BY <1>1 DEF TypeOK
  <2>3. \A d \in Calls : pc[d] = "running" => cmd[d].key \in Keys /\ cmd[d].key # k
    BY <1>2 DEF ClaimHeld, CallsOK, Commands, Present
  <2>4. CASE b = c
    <3>1. entries'[k] = claim
      BY <1>4, <2>4 DEF TypeOK
    <3> QED
      BY <1>6, <2>1, <2>2, <2>3, <2>4, <3>1
  <2>5. CASE b # c
    <3>1. pc[b] = "running" /\ cmd'[b] = cmd[b]
      BY <2>1, <2>5
    <3>2. cmd[b].key \notin old
      BY <3>1 DEF ClaimHeld, Terminal
    <3>3. entries'[cmd[b].key] = entries[cmd[b].key]
      BY <1>5, <2>3, <3>1, <3>2
    <3>4. \A d \in Calls : pc'[d] = "running" /\ cmd'[d].key = cmd'[b].key => d = b
      BY <2>1, <2>2, <2>3, <2>5, <3>1 DEF ClaimHeld
    <3> QED
      BY <3>1, <3>3, <3>4 DEF ClaimHeld
  <2> QED
    BY <2>4, <2>5
<1>13. DuplicatesRepeatTheOutcome'
  <2> SUFFICES ASSUME NEW b \in Calls, answer'[b] # None, answer'[b].status = "duplicate"
               PROVE  LET d == answer'[b].what.by IN
                      /\ d # b
                      /\ cmd'[d] = cmd'[b]
                      /\ pc'[d] = "answered"
                      /\ answer'[d].what = answer'[b].what
    BY DEF DuplicatesRepeatTheOutcome
  <2> DEFINE d == answer[b].what.by
  <2>1. b # c
    BY <1>1, <1>4 DEF TypeOK, CallsOK
  <2>2. answer'[b] = answer[b] /\ cmd'[b] = cmd[b]
    BY <1>1, <1>4, <2>1 DEF TypeOK
  <2>3. /\ d # b
        /\ cmd[d] = cmd[b]
        /\ pc[d] = "answered"
        /\ answer[d].what = answer[b].what
    BY <2>2 DEF DuplicatesRepeatTheOutcome
  <2>4. d \in Calls
    BY <2>2 DEF TypeOK, Answers, Outcomes, Refusal
  <2>5. d # c
    BY <1>1, <2>3
  <2>6. cmd'[d] = cmd[d] /\ pc'[d] = pc[d] /\ answer'[d] = answer[d]
    BY <1>1, <1>4, <2>4, <2>5 DEF TypeOK
  <2> QED
    BY <2>2, <2>3, <2>6
<1>14. RunsCounted'
  <2>1. c \notin started
    BY <1>1 DEF CallsOK
  <2>2. IsFiniteSet(started')
    BY <1>4, FS_AddElement DEF RunsCounted
  <2>3. \A j \in Keys : j # k => StartedFor(j)' = StartedFor(j)
    BY <1>1, <1>4, <2>1 DEF StartedFor, TypeOK
  <2>4. StartedFor(k)' \in {StartedFor(k), StartedFor(k) \cup {c}}
    BY <1>1, <1>4, <2>1 DEF StartedFor, TypeOK
  <2>5. \A j \in Keys : IsFiniteSet(StartedFor(j)) /\ Cardinality(StartedFor(j)) \in Nat
    BY FS_Subset, FS_CardinalityType DEF RunsCounted, StartedFor
  <2>6. Cardinality(StartedFor(k)') <= Cardinality(StartedFor(k)) + 1
    <3>1. CASE StartedFor(k)' = StartedFor(k)
      BY <2>5, <3>1
    <3>2. CASE StartedFor(k)' = StartedFor(k) \cup {c}
      BY <2>5, <3>2, AddOne
    <3> QED
      BY <2>4, <3>1, <3>2
  <2>7. Cardinality(StartedFor(k)') <= evictions'[k] + 1
    <3>1. Cardinality(StartedFor(k)') \in Nat
      BY <2>4, <2>5, FS_AddElement, FS_CardinalityType
    <3> QED
      BY <1>2, <1>3, <2>5, <2>6, <3>1 DEF RunsCounted, TypeOK
  <2>8. entries'[k] # None
    BY <1>4, <1>6
  <2>9. ASSUME NEW j \in Keys, j # k
        PROVE  Cardinality(StartedFor(j)') <= evictions'[j] + (IF entries'[j] = None THEN 0 ELSE 1)
    <3>1. CASE j \in old
      <4>1. entries[j] # None /\ entries'[j] = None
        BY <1>2, <1>5, <2>9, <3>1 DEF Present
      <4> QED
        BY <1>3, <2>3, <2>5, <2>9, <3>1, <4>1 DEF RunsCounted, TypeOK
    <3>2. CASE j \notin old
      BY <1>3, <1>5, <2>3, <2>9, <3>2 DEF RunsCounted
    <3> QED
      BY <3>1, <3>2
  <2> QED
    BY <2>2, <2>7, <2>8, <2>9 DEF RunsCounted
<1>15. CapacityBound'
  <2>1. IsFiniteSet(Present \ old) /\ Cardinality(Present \ old) \in Nat
    BY PresentIsFinite
  <2>2. Cardinality((Present \ old) \cup {k}) = Cardinality(Present \ old) + 1
    BY <1>2, <2>1, FS_AddElement
  <2> QED
    BY <1>8, <2>1, <2>2 DEF CapacityBound
<1> QED
  BY <1>9, <1>10, <1>11, <1>12, <1>13, <1>14, <1>15

\* A handler that ends keeps the invariant: its claim is still there to be overwritten.
LEMMA HandlerEndsKeepsInv ==
    ASSUME IInv, NEW c \in Calls, NEW kind \in HandlerOutcomes, HandlerEnds(c, kind)
    PROVE  IInv'
<1> USE DispatcherAssumption DEF IInv, DispatcherAssumption
<1> DEFINE k == cmd[c].key
           outcome == [kind |-> kind, by |-> c]
           done == [fingerprint |-> cmd[c].request,
                    status |-> IF kind = "result" THEN "completed" ELSE "failed",
                    outcome |-> outcome]
<1>1. /\ pc[c] = "running"
      /\ entries' = [entries EXCEPT ![k] = done]
      /\ pos' = MoveToEnd(pos, k, Cardinality(Present \cup {k}))
      /\ pc' = [pc EXCEPT ![c] = "answered"]
      /\ answer' = [answer EXCEPT ![c] = [status |-> StatusOf(kind), what |-> outcome]]
      /\ UNCHANGED <<cmd, expired, started, evictions>>
  BY DEF HandlerEnds, Reply, Recorded
<1>2. k \in Keys /\ cmd[c] = [key |-> k, request |-> cmd[c].request] /\ cmd[c].request \in Requests
  BY <1>1 DEF CallsOK, Commands
<1>3. k \in Present /\ entries[k].status = "in_progress"
  BY <1>1, <1>2 DEF ClaimHeld, Present
<1>4. outcome \in Outcomes
  BY DEF Outcomes
<1>5. done \in Entries /\ done # None
  BY <1>2, <1>4 DEF Entries
<1>6. Present' = Present
  BY <1>1, <1>2, <1>3, <1>5 DEF Present, TypeOK
<1>7. /\ StatusOf(kind) \in {"completed", "rejected", "failed"}
      /\ [status |-> StatusOf(kind), what |-> outcome] \in Answers
  BY <1>4 DEF HandlerOutcomes, StatusOf, Answers
<1>8. TypeOK'
  <2>1. Cardinality(Present \cup {k}) \in Int
    <3>1. Present \cup {k} = Present
      BY <1>3
    <3> QED
      BY <3>1, PresentIsFinite
  <2>2. pos' \in [Keys -> Int]
    BY <1>1, <2>1 DEF TypeOK, MoveToEnd
  <2> QED
    BY <1>1, <1>5, <1>7, <2>2 DEF TypeOK
<1>9. CallsOK'
  BY <1>1 DEF CallsOK, TypeOK
<1>10. EntriesOK'
  <2> SUFFICES ASSUME NEW j \in Present, entries'[j].status # "in_progress"
               PROVE  /\ entries'[j].outcome \in Outcomes
                      /\ LET d == entries'[j].outcome.by IN
                         /\ cmd'[d] = [key |-> j, request |-> entries'[j].fingerprint]
                         /\ pc'[d] = "answered"
                         /\ answer'[d].what = entries'[j].outcome
    BY <1>6 DEF EntriesOK
  <2>1. CASE j = k
    BY <1>1, <1>2, <1>4, <2>1 DEF TypeOK
  <2>2. CASE j # k
    <3> DEFINE d == entries[j].outcome.by
    <3>1. entries'[j] = entries[j]
      BY <1>1, <2>2 DEF TypeOK, Present
    <3>2. /\ entries[j].outcome \in Outcomes
          /\ d \in Calls
          /\ cmd[d] = [key |-> j, request |-> entries[j].fingerprint]
          /\ pc[d] = "answered"
          /\ answer[d].what = entries[j].outcome
      BY <3>1 DEF EntriesOK, Outcomes
    <3>3. pc'[d] = pc[d] /\ answer'[d] = answer[d] /\ cmd' = cmd
      BY <1>1, <3>2 DEF TypeOK
    <3> QED
      BY <3>1, <3>2, <3>3
  <2> QED
    BY <2>1, <2>2
<1>11. ClaimHeld'
  <2>1. ASSUME NEW b \in Calls, pc'[b] = "running"
        PROVE  /\ pc[b] = "running" /\ b # c /\ cmd' = cmd
               /\ entries'[cmd[b].key] = entries[cmd[b].key]
    <3>1. pc[b] = "running" /\ b # c /\ cmd' = cmd
      BY <1>1, <2>1 DEF TypeOK
    <3>2. cmd[b].key # k /\ cmd[b].key \in Keys
      BY <1>1, <3>1 DEF ClaimHeld, CallsOK, Commands
    <3> QED
      BY <1>1, <3>1, <3>2 DEF TypeOK
  <2> QED
    BY <2>1 DEF ClaimHeld
<1>12. DuplicatesRepeatTheOutcome'
  <2> SUFFICES ASSUME NEW b \in Calls, answer'[b] # None, answer'[b].status = "duplicate"
               PROVE  LET d == answer'[b].what.by IN
                      /\ d # b
                      /\ cmd[d] = cmd[b]
                      /\ pc'[d] = "answered"
                      /\ answer'[d].what = answer'[b].what
    BY <1>1 DEF DuplicatesRepeatTheOutcome
  <2> DEFINE d == answer[b].what.by
  <2>1. b # c /\ answer'[b] = answer[b]
    BY <1>1, <1>7 DEF TypeOK
  <2>2. /\ d # b
        /\ cmd[d] = cmd[b]
        /\ pc[d] = "answered"
        /\ answer[d].what = answer[b].what
    BY <2>1 DEF DuplicatesRepeatTheOutcome
  <2>3. d \in Calls
    BY <2>1 DEF TypeOK, Answers, Outcomes, Refusal
  <2>4. pc'[d] = pc[d] /\ answer'[d] = answer[d]
    BY <1>1, <2>2, <2>3 DEF TypeOK
  <2> QED
    BY <2>1, <2>2, <2>4
<1>13. RunsCounted'
  <2>1. \A j \in Keys : StartedFor(j)' = StartedFor(j) /\ (entries'[j] = None <=> entries[j] = None)
    BY <1>1, <1>3, <1>5 DEF StartedFor, TypeOK, Present
  <2> QED
    BY <1>1, <2>1 DEF RunsCounted
<1>14. CapacityBound'
  BY <1>6 DEF CapacityBound
<1> QED
  BY <1>8, <1>9, <1>10, <1>11, <1>12, <1>13, <1>14

\* A hook that raises while it records, and a cancellation, end a run and leave the
\* entry in progress.
LEMMA UnrecordedEndKeepsInv ==
    ASSUME IInv, NEW c \in Calls, RecordRaises(c) \/ Cancelled(c)
    PROVE  IInv'
<1> USE DEF IInv
<1>1. /\ pc[c] = "running"
      /\ UNCHANGED <<entries, pos, cmd, expired, started, evictions>>
      /\ pc' \in {[pc EXCEPT ![c] = "answered"], [pc EXCEPT ![c] = "cancelled"]}
      /\ pc'[c] = "cancelled" => UNCHANGED answer
      /\ \/ UNCHANGED answer
         \/ answer' = [answer EXCEPT ![c] = [status |-> "failed",
                                             what |-> Refusal("idempotency_hook_error")]]
  BY DEF RecordRaises, Cancelled, Reply, TypeOK
<1>2. TypeOK'
  BY <1>1 DEF TypeOK, Answers, Refusals
<1>3. Present' = Present
  BY <1>1 DEF Present
<1>4. CallsOK'
  BY <1>1 DEF CallsOK, TypeOK
<1>5. \A d \in Calls : pc[d] = "answered" => pc'[d] = "answered" /\ answer'[d] = answer[d]
  BY <1>1 DEF TypeOK
<1>6. EntriesOK'
  BY <1>1, <1>3, <1>5 DEF EntriesOK, Outcomes
<1>7. ClaimHeld'
  BY <1>1 DEF ClaimHeld, TypeOK
<1>8. DuplicatesRepeatTheOutcome'
  <2> SUFFICES ASSUME NEW b \in Calls, answer'[b] # None, answer'[b].status = "duplicate"
               PROVE  LET d == answer'[b].what.by IN
                      /\ d # b
                      /\ cmd[d] = cmd[b]
                      /\ pc'[d] = "answered"
                      /\ answer'[d].what = answer'[b].what
    BY <1>1 DEF DuplicatesRepeatTheOutcome
  <2>1. answer'[b] = answer[b]
    BY <1>1 DEF TypeOK
  <2>2. answer[b].what.by \in Calls
    BY <2>1 DEF TypeOK, Answers, Outcomes, Refusal
  <2> QED
    BY <1>5, <2>1, <2>2 DEF DuplicatesRepeatTheOutcome
<1>9. RunsCounted'
  BY <1>1 DEF RunsCounted, StartedFor
<1>10. CapacityBound'
  BY <1>3 DEF CapacityBound
<1> QED
  BY <1>2, <1>4, <1>6, <1>7, <1>8, <1>9, <1>10

\* Every step keeps the invariant.
LEMMA NextInv == IInv /\ [Next]_vars => IInv'
<1> SUFFICES ASSUME IInv, [Next]_vars PROVE IInv'
  OBVIOUS
<1> USE DispatcherAssumption DEF DispatcherAssumption
<1>1. ASSUME NEW c \in Calls, NEW k \in Keys, NEW r \in Requests, RefusedByRegistry(c, k, r)
      PROVE  IInv'
  <2>1. /\ Issue(c, k, r)
        /\ Reply(c, "rejected", Refusal(RegistryCheck[r]))
        /\ RegistryCheck[r] \in Refusals
        /\ UNCHANGED <<entries, pos, expired, started, evictions>>
    BY <1>1 DEF RefusedByRegistry, RegistryAnswers, Refusals
  <2>2. [status |-> "rejected", what |-> Refusal(RegistryCheck[r])] \in Answers
    BY <2>1 DEF Answers
  <2> QED
    BY <2>1, <2>2, AnswerKeepsInv DEF IInv, TypeOK
<1>2. ASSUME NEW c \in Calls, NEW k \in Keys, NEW r \in Requests, BeforeDispatchRaises(c, k, r)
      PROVE  IInv'
  <2>1. [status |-> "failed", what |-> Refusal("idempotency_hook_error")] \in Answers
    BY DEF Answers, Refusals
  <2> QED
    BY <1>2, <2>1, AnswerKeepsInv DEF BeforeDispatchRaises, IInv, TypeOK
<1>3. ASSUME NEW c \in Calls, NEW k \in Keys, NEW r \in Requests, AnsweredFromEntry(c, k, r)
      PROVE  IInv'
  <2>1. k \in Present /\ Issue(c, k, r) /\ UNCHANGED <<entries, expired, started, evictions>>
    BY <1>3 DEF AnsweredFromEntry, Present
  <2>2. pos' \in [Keys -> Int]
    BY <1>3, PresentIsFinite DEF AnsweredFromEntry, MoveToEnd, IInv, TypeOK
  <2>3. CASE entries[k].fingerprint # r
    <3>1. Reply(c, "rejected", Refusal("idempotency_conflict"))
      BY <1>3, <2>3 DEF AnsweredFromEntry, DuplicateAnswer
    <3>2. [status |-> "rejected", what |-> Refusal("idempotency_conflict")] \in Answers
      BY DEF Answers, Refusals
    <3> QED
      BY <2>1, <2>2, <3>1, <3>2, AnswerKeepsInv
  <2>4. CASE entries[k].fingerprint = r /\ entries[k].status = "in_progress"
    <3>1. Reply(c, "rejected", Refusal("duplicate_in_progress"))
      BY <1>3, <2>4 DEF AnsweredFromEntry, DuplicateAnswer
    <3>2. [status |-> "rejected", what |-> Refusal("duplicate_in_progress")] \in Answers
      BY DEF Answers, Refusals
    <3> QED
      BY <2>1, <2>2, <3>1, <3>2, AnswerKeepsInv
  <2>5. CASE entries[k].fingerprint = r /\ entries[k].status # "in_progress"
    <3>1. Reply(c, "duplicate", entries[k].outcome)
      BY <1>3, <2>5 DEF AnsweredFromEntry, DuplicateAnswer
    <3>2. [status |-> "duplicate", what |-> entries[k].outcome] \in Answers
      BY <2>1, <2>5 DEF Answers, IInv, EntriesOK
    <3> QED
      BY <2>1, <2>2, <2>5, <3>1, <3>2, AnswerKeepsInv
  <2> QED
    BY <2>3, <2>4, <2>5
<1>4. ASSUME NEW c \in Calls, NEW k \in Keys, NEW r \in Requests, RefusedAtCapacity(c, k, r)
      PROVE  IInv'
  <2>1. [status |-> "rejected", what |-> Refusal("idempotency_rejected")] \in Answers
    BY DEF Answers, Refusals
  <2> QED
    BY <1>4, <2>1, AnswerKeepsInv DEF RefusedAtCapacity, IInv, TypeOK
<1>5. ASSUME NEW c \in Calls, NEW k \in Keys, NEW r \in Requests, Claim(c, k, r)
      PROVE  IInv'
  <2>1. Present \ {} = Present
    OBVIOUS
  <2> QED
    BY <1>5, <2>1, ClaimKeepsInv DEF Claim
<1>6. ASSUME NEW c \in Calls, NEW k \in Keys, NEW r \in Requests, NEW old \in Keys,
             ClaimEvicting(c, k, r, old)
      PROVE  IInv'
  <2>1. {old} \in SUBSET Terminal /\ old \in Present
    BY <1>6 DEF ClaimEvicting, OldestTerminal, Terminal
  <2>2. Cardinality(Present \ {old}) < MaxEntries
    <3>1. IsFiniteSet(Present) /\ Cardinality(Present) \in Nat
      BY PresentIsFinite
    <3>2. Cardinality(Present \ {old}) = Cardinality(Present) - 1
      BY <2>1, <3>1, FS_RemoveElement
    <3> QED
      BY <3>1, <3>2 DEF IInv, CapacityBound
  <2> QED
    BY <1>6, <2>1, <2>2, ClaimKeepsInv DEF ClaimEvicting
<1>7. ASSUME NEW r \in Requests, DeadlinePasses(r)
      PROVE  IInv'
  <2>1. /\ expired' \subseteq Deadlined
        /\ UNCHANGED <<entries, pos, cmd, pc, answer, started, evictions>>
    BY <1>7 DEF DeadlinePasses, IInv, TypeOK
  <2> QED
    BY <2>1 DEF IInv, TypeOK, CallsOK, EntriesOK, ClaimHeld, DuplicatesRepeatTheOutcome,
                RunsCounted, StartedFor, CapacityBound, Present
<1>8. CASE UNCHANGED vars
  BY <1>8 DEF vars, IInv, TypeOK, CallsOK, EntriesOK, ClaimHeld, DuplicatesRepeatTheOutcome,
              RunsCounted, StartedFor, CapacityBound, Present
<1> QED
  BY <1>1, <1>2, <1>3, <1>4, <1>5, <1>6, <1>7, <1>8, HandlerEndsKeepsInv,
     UnrecordedEndKeepsInv DEF Next

-----------------------------------------------------------------------------
(* Theorems                                                                *)

\* The invariant holds throughout.
LEMMA Invariance == Spec => []IInv
BY InitInv, NextInv, PTL DEF Spec

\* Every variable keeps its type; in particular an answer is one dispatch() may give.
THEOREM TypeCorrect == Spec => []TypeOK
BY Invariance, PTL DEF IInv

\* A running handler's claim is never evicted, overwritten or shared.
THEOREM ClaimIsHeld == Spec => []ClaimHeld
BY Invariance, PTL DEF IInv

\* A duplicate is answered with what the same command under the same key produced.
THEOREM DuplicatesAreFaithful == Spec => []DuplicatesRepeatTheOutcome
BY Invariance, PTL DEF IInv

\* A key's handler runs at most once per retention of its entry.
THEOREM HandlerRunsOncePerRetention == Spec => []OneRunPerRetention
<1>1. IInv => OneRunPerRetention
  <2> SUFFICES ASSUME IInv, NEW k \in Keys
               PROVE  Cardinality(StartedFor(k)) <= 1 + evictions[k]
    BY DEF OneRunPerRetention
  <2>1. Cardinality(StartedFor(k)) \in Nat /\ evictions[k] \in Nat
    BY FS_Subset, FS_CardinalityType DEF IInv, RunsCounted, StartedFor, TypeOK
  <2>2. Cardinality(StartedFor(k)) <= evictions[k] + (IF entries[k] = None THEN 0 ELSE 1)
    BY DEF IInv, RunsCounted
  <2> QED
    BY <2>1, <2>2
<1> QED
  BY <1>1, Invariance, PTL

\* The hook never holds more than max_entries entries, so making room for one by evicting
\* one is enough, and the trim after a record never evicts anything.
THEOREM CapacityIsKept == Spec => []CapacityBound
BY Invariance, PTL DEF IInv
=============================================================================
