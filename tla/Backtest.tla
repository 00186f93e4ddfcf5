------------------------------ MODULE Backtest ------------------------------
(***************************************************************************)
(* Replay and simulation together: the market data a completed replay      *)
(* published becomes the market events of a scenario, sequenced in the     *)
(* order of publication and scheduled at the time of the replay clock.     *)
(* The caller that collects them is not part of the repository yet         *)
(* (docs/01_ARCHITECTURE.md runs a strategy unchanged in both); scenarios  *)
(* written by hand, as the tests write them, are the other way in.         *)
(***************************************************************************)
EXTENDS Replay, ScenarioRun

CONSTANTS Recordings,   \* [files, paths, created_at]: a recorded stream and how it is loaded
          Plans,        \* what a caller adds to the published events
          Fixtures      \* families of scenarios written by hand

(* Events, books, actions and configurations are instances of the          *)
(* canonical schemas when a scenario gets them.                            *)
ASSUME SchemaAssumption ==
  /\ \A r \in Recordings : \A i \in DOMAIN FlattenSeq(r.files) :
       IsPayload(FlattenSeq(r.files)[i].payload)
  /\ \A plan \in Plans : IsScenario(plan)
  /\ \A family \in Fixtures : \A s \in family : IsScenario(s)

vars == <<replayVars, scenarioVars>>

Init == ReplayInit /\ ScenarioInit

(* The subscriber that turns published events into scheduled ones. *)
Collected ==
  LET seen == published[runs]
  IN  [i \in DOMAIN seen |-> [sequence |-> i, scheduled_at |-> seen[i].at,
                              payload |-> seen[i].event.payload]]

ReplayFirst ==
  /\ phase = "new"
  /\ \/ \E r \in Recordings : Load(r.files, r.paths, r.created_at)
     \/ \E r \in Recordings : RefuseDataset(r.files, r.paths, r.created_at)
     \/ ReplayStep
  /\ UNCHANGED scenarioVars

DefineReplayed ==
  /\ stage = "completed" /\ phase = "new"
  /\ \E plan \in Plans : DefineScenario([plan EXCEPT !.market_events = Collected])
  /\ UNCHANGED replayVars

(* A scenario written by hand meets no clock: one is enough for it. *)
DefineFixture ==
  /\ stage = "idle" /\ phase = "new" /\ clock = Manifest.starts_at
  /\ \E family \in Fixtures : \E s \in family : DefineScenario(s) \/ RefuseScenario(s)
  /\ UNCHANGED replayVars

Simulate == RunStep /\ UNCHANGED replayVars

Next == ReplayFirst \/ DefineReplayed \/ DefineFixture \/ Simulate

Spec == Init /\ [][Next]_vars

TypeOK == ReplayTypeOK /\ ScenarioTypeOK

(* A recording that holds every change of a sequenced book, each with the  *)
(* exchange's sequence and none before the one it follows, in whatever     *)
(* order and however often they were written.                              *)
Gapless(events, book) ==
  \A i \in DOMAIN events :
    LET p == events[i].payload
    IN  /\ p.type # "snapshot"
        /\ p.type = "delta" =>
             /\ book.sequence # None /\ p.delta.sequence # None
             /\ p.delta.sequence = events[i].exchange_sequence
             /\ p.delta.previous_sequence = p.delta.sequence - 1
             /\ p.delta.sequence > book.sequence
             /\ \A j \in DOMAIN events :
                  events[j].payload.type = "delta"
                    /\ events[j].payload.delta.sequence = p.delta.sequence
                  => events[j].payload = p
             /\ \/ p.delta.sequence = book.sequence + 1
                \/ \E j \in DOMAIN events :
                     /\ events[j].exchange_sequence = p.delta.sequence - 1
                     /\ events[j].payload.type = "delta"
                     /\ events[j].occurred_at <= events[i].occurred_at

(* Replay and the scenario's projection fit: whatever order a gapless      *)
(* stream was recorded in, the deltas published from it apply one after    *)
(* the other, at the end and at every order's activation.  The sorter's    *)
(* tie-break by exchange sequence and the projection's filter by time are  *)
(* in different packages.                                                  *)
ReplayedBooksHaveNoGaps ==
  reason = "book_gap" /\ stage = "completed" => ~Gapless(Dataset, scenario.initial_book)
=============================================================================
