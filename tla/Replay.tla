------------------------------- MODULE Replay -------------------------------
(***************************************************************************)
(* Replay of a recorded event stream: replay/loader.py loads a dataset and *)
(* checks it against its manifest, replay/sorter.py orders it, and         *)
(* replay/engine.py advances the injected ReplayClock to each event and    *)
(* publishes it on the event bus.  A publication that fails ends the run   *)
(* without a session; nothing stops a caller from running the dataset      *)
(* again on the same clock.                                                *)
(***************************************************************************)
EXTENDS Integers, Sequences, SequencesExt, FiniteSets

CONSTANTS Missing,     \* an absent attribute, and the session before there is one
          Manifest,
          ClockTimes,  \* the times a caller may build the clock at
          MaxRuns      \* bound: calls of ReplayEngine.run

(* ReplayManifest.validate_manifest, and ReplayClock._normalize_replay_time *)
(* of the time the clock is built at (build_replay_clock).                 *)
ASSUME ManifestAssumption ==
  /\ Manifest.starts_at \in Int /\ Manifest.ends_at \in Int
  /\ Manifest.starts_at < Manifest.ends_at
  /\ ClockTimes \subseteq Manifest.starts_at .. Manifest.ends_at
  /\ MaxRuns \in Nat /\ Missing \notin Int

VARIABLES stage,      \* idle, loaded, advancing, publishing, completed, failed, refused
          files,      \* the event files, in the order they were recorded
          created_at, \* ReplayManifest.created_at of the dataset
          ordered,    \* ordered_events of the current run
          processed,  \* processed_events of the current run
          clock,      \* ReplayClock._current_time
          published,  \* what subscribers saw of each run: event and clock
          runs,       \* calls of ReplayEngine.run so far
          session     \* the ReplaySession returned

replayVars == <<stage, files, created_at, ordered, processed, clock, published, runs, session>>

-----------------------------------------------------------------------------
(* Ordering *)

(* _exchange_sequence_key refuses a sequence that is not a natural number. *)
SequenceKeyValid(event) == event.exchange_sequence # Missing => event.exchange_sequence >= 0

(* _source_partition refuses a name that is empty or not stripped, here a  *)
(* number below zero.                                                      *)
PartitionValid(event) == event.partition # Missing => event.partition >= 0

OrderingKeyValid(event) == SequenceKeyValid(event) /\ PartitionValid(event)

(* _source_partition: no partition is the empty name, before all others. *)
SourcePartition(event) == IF event.partition = Missing THEN -1 ELSE event.partition

(* A bug: the exchange's sequence does not count. *)
NoSequenceKey(event) == <<0, 0>>

(* _exchange_sequence_key: events with a sequence come before those        *)
(* without.                                                                *)
ExchangeSequenceKey(event) ==
  IF event.exchange_sequence = Missing THEN <<1, 0>> ELSE <<0, event.exchange_sequence>>

(* A bug: arrival decides before the exchange's sequence does. *)
ArrivalOrderingKey(event) ==
  <<event.occurred_at, event.received_at, ExchangeSequenceKey(event)[1],
    ExchangeSequenceKey(event)[2], SourcePartition(event), event.event_id>>

(* replay_event_ordering_key; partitions and event ids, strings in the     *)
(* code, are numbered in their order.                                      *)
replay_event_ordering_key(event) ==
  <<event.occurred_at, ExchangeSequenceKey(event)[1], ExchangeSequenceKey(event)[2],
    event.received_at, SourcePartition(event), event.event_id>>

KeyBefore(a, b) ==
  \E i \in DOMAIN a : a[i] < b[i] /\ \A j \in 1..(i - 1) : a[j] = b[j]

(* sort_replay_events: sorted() is stable, so an event's place is one more *)
(* than the number of those that come before it by their key or, with the  *)
(* same key, in the dataset.                                               *)
Precedes(events, i, j) ==
  LET a == replay_event_ordering_key(events[i])
      b == replay_event_ordering_key(events[j])
  IN  KeyBefore(a, b) \/ (i < j /\ ~KeyBefore(b, a))

Place(events, i) == Cardinality({j \in DOMAIN events : Precedes(events, j, i)}) + 1

sort_replay_events(events) ==
  [n \in DOMAIN events |-> events[CHOOSE i \in DOMAIN events : Place(events, i) = n]]

-----------------------------------------------------------------------------
(* Loading *)

(* calculate_replay_dataset_checksum digests the events in the order they  *)
(* were loaded: the sequence itself stands for it.                         *)
DatasetChecksum(events) == events

(* _try_parse_event_line: what EventEnvelope makes of the fields that order *)
(* and time an event.                                                      *)
IsEvent(event) ==
  /\ event.occurred_at \in Int /\ event.received_at \in Int /\ event.event_id \in Int
  /\ event.exchange_sequence \in Int \cup {Missing}
  /\ event.partition \in Int \cup {Missing}

(* load_replay_events_jsonl: a tuple of events. *)
ParsedEvents(events) ==
  /\ Len(events) \in Nat /\ DOMAIN events = 1..Len(events)
  /\ \A i \in DOMAIN events : IsEvent(events[i])

(* ReplayDataset.validate_dataset *)
DatasetValid(events) ==
  \A i \in DOMAIN events :
    /\ events[i].replay_session_id = Manifest.replay_session_id
    /\ Manifest.starts_at <= events[i].occurred_at
    /\ events[i].occurred_at <= Manifest.ends_at

ReplayInit ==
  /\ stage = "idle" /\ files = <<>> /\ created_at = Missing /\ ordered = <<>> /\ processed = 0
  /\ clock \in ClockTimes
  /\ published = <<>> /\ runs = 0 /\ session = Missing

(* load_replay_dataset: `paths` names the recorded files in the order the  *)
(* caller passes them; the manifest's checksum is that of the recording.   *)
Load(recorded, paths, created) ==
  LET events == FlattenSeq([i \in DOMAIN paths |-> recorded[paths[i]]])
  IN  /\ stage = "idle"
      /\ paths # <<>> /\ \A i \in DOMAIN paths : recorded[paths[i]] # <<>>
      /\ DatasetChecksum(events) = DatasetChecksum(FlattenSeq(recorded))
      /\ ParsedEvents(events) /\ DatasetValid(events)
      /\ stage' = "loaded" /\ files' = recorded /\ created_at' = created
      /\ UNCHANGED <<ordered, processed, clock, published, runs, session>>

RefuseDataset(recorded, paths, created) ==
  LET events == FlattenSeq([i \in DOMAIN paths |-> recorded[paths[i]]])
  IN  /\ stage = "idle"
      /\ \/ paths = <<>>
         \/ \E i \in DOMAIN paths : recorded[paths[i]] = <<>>
         \/ DatasetChecksum(events) # DatasetChecksum(FlattenSeq(recorded))
         \/ ~ParsedEvents(events) \/ ~DatasetValid(events)
      /\ stage' = "refused" /\ files' = recorded /\ created_at' = created
      /\ UNCHANGED <<ordered, processed, clock, published, runs, session>>

Dataset == FlattenSeq(files)

-----------------------------------------------------------------------------
(* The engine *)

(* run up to its loop: sorting raises on an invalid sequence before        *)
(* anything is published.                                                  *)
StartReplay ==
  /\ stage \in {"loaded", "failed"} /\ runs < MaxRuns
  /\ \A i \in DOMAIN Dataset : OrderingKeyValid(Dataset[i])
  /\ stage' = "advancing" /\ runs' = runs + 1
  /\ ordered' = sort_replay_events(Dataset) /\ processed' = 0
  /\ published' = Append(published, <<>>)
  /\ UNCHANGED <<files, created_at, clock, session>>

OrderingRaises ==
  /\ stage \in {"loaded", "failed"} /\ runs < MaxRuns
  /\ \E i \in DOMAIN Dataset : ~OrderingKeyValid(Dataset[i])
  /\ stage' = "refused" /\ runs' = runs + 1
  /\ published' = Append(published, <<>>)
  /\ UNCHANGED <<files, created_at, ordered, processed, clock, session>>

(* advance_replay_clock_to_event refuses to move the clock backward; the   *)
(* window was checked when the dataset was loaded.                         *)
AdvancesClock(event) == event.occurred_at >= clock

AdvanceClock ==
  /\ stage = "advancing" /\ processed < Len(ordered)
  /\ AdvancesClock(ordered[processed + 1])
  /\ clock' = ordered[processed + 1].occurred_at
  /\ stage' = "publishing"
  /\ UNCHANGED <<files, created_at, ordered, processed, published, runs, session>>

TimeReversed ==
  /\ stage = "advancing" /\ processed < Len(ordered)
  /\ ~AdvancesClock(ordered[processed + 1])
  /\ stage' = "failed"
  /\ UNCHANGED <<files, created_at, ordered, processed, clock, published, runs, session>>

(* The event bus delivers the event while the engine awaits it ... *)
PublishEvent ==
  /\ stage = "publishing"
  /\ published' = [published EXCEPT ![runs] =
                      Append(@, [event |-> ordered[processed + 1], at |-> clock])]
  /\ processed' = processed + 1 /\ stage' = "advancing"
  /\ UNCHANGED <<files, created_at, ordered, clock, runs, session>>

(* A bug: the engine goes on with the next event. *)
SkipEvent ==
  /\ stage = "publishing"
  /\ processed' = processed + 1 /\ stage' = "advancing"
  /\ UNCHANGED <<files, created_at, ordered, clock, published, runs, session>>

(* ... or it raises, a subscriber's full queue for one, and so does run:   *)
(* the clock keeps the time of the event nobody saw.                       *)
PublishFails ==
  /\ stage = "publishing"
  /\ stage' = "failed"
  /\ UNCHANGED <<files, created_at, ordered, processed, clock, published, runs, session>>

(* A consumer of the bus that sleeps on the injected clock takes it ahead  *)
(* (ReplayClock.sleep, advance).                                           *)
SleepOnClock ==
  /\ stage \in {"advancing", "publishing"}
  /\ clock' \in (clock + 1)..Manifest.ends_at
  /\ UNCHANGED <<stage, files, created_at, ordered, processed, published, runs, session>>

(* The completed session; its start is the window's. *)
CompleteReplay ==
  /\ stage = "advancing" /\ processed = Len(ordered)
  /\ created_at <= Manifest.starts_at
  /\ session' = [state |-> "completed", current_time |-> clock, completed_at |-> clock,
                 started_at |-> Manifest.starts_at, processed_events |-> processed,
                 result_checksum |-> ordered]
  /\ stage' = "completed"
  /\ UNCHANGED <<files, created_at, ordered, processed, clock, published, runs>>

(* validate_session_lifecycle refuses a session that starts before its     *)
(* manifest was created: after everything was published, run raises.       *)
SessionRefused ==
  /\ stage = "advancing" /\ processed = Len(ordered)
  /\ created_at > Manifest.starts_at
  /\ stage' = "failed"
  /\ UNCHANGED <<files, created_at, ordered, processed, clock, published, runs, session>>

(* ReplayClock.reset, between two runs. *)
ResetClock ==
  /\ stage = "failed" /\ clock # Manifest.starts_at
  /\ clock' = Manifest.starts_at
  /\ UNCHANGED <<stage, files, created_at, ordered, processed, published, runs, session>>

ReplayStep == \/ StartReplay \/ OrderingRaises \/ AdvanceClock \/ TimeReversed
              \/ PublishEvent \/ PublishFails \/ SleepOnClock
              \/ CompleteReplay \/ SessionRefused \/ ResetClock

-----------------------------------------------------------------------------
(* Properties *)

ReplayTypeOK ==
  /\ stage \in {"idle", "loaded", "advancing", "publishing", "completed", "failed", "refused"}
  /\ clock \in Manifest.starts_at .. Manifest.ends_at
  /\ processed \in 0..Len(ordered) /\ runs \in 0..MaxRuns
  /\ session # Missing <=> stage = "completed"

(* What a run publishes does not depend on how the stream was cut into     *)
(* files or recorded: every event is published after all events whose      *)
(* ordering key is smaller, and none before the clock has reached its      *)
(* time, whatever consumers do to the clock (docs/01_ARCHITECTURE.md:1838, *)
(* "may use only data available at the replay clock time").                *)
PublishedInKeyOrder ==
  \A n \in 1..runs :
    LET seen == published[n]
        Key(i) == replay_event_ordering_key(seen[i].event)
        Smaller(i) == {k \in DOMAIN Dataset :
                         LET a == Dataset[k] b == seen[i].event
                         IN  \/ a.occurred_at < b.occurred_at
                             \/ /\ a.occurred_at = b.occurred_at
                                /\ KeyBefore(ExchangeSequenceKey(a), ExchangeSequenceKey(b))}
    IN  \A i \in DOMAIN seen :
          /\ seen[i].at >= seen[i].event.occurred_at
          /\ \A k \in Smaller(i) : \E j \in 1..(i - 1) : seen[j].event = Dataset[k]
          /\ \A j \in 1..(i - 1) : ~KeyBefore(Key(i), Key(j))

(* A session is only returned for a run that published the whole dataset,  *)
(* each event as often as it was recorded, and it ends no earlier than any *)
(* of its events: a failed publication never leaves a completed session.   *)
CompletedSessionIsWhole ==
  session # Missing =>
    LET seen == published[runs]
        Count(s, e) == Cardinality({i \in DOMAIN s : s[i] = e})
        events == [i \in DOMAIN seen |-> seen[i].event]
    IN  /\ \A k \in DOMAIN Dataset :
             Count(events, Dataset[k]) = Count(Dataset, Dataset[k])
        /\ session.processed_events = Len(Dataset)
        /\ \A i \in DOMAIN seen : session.completed_at >= events[i].occurred_at
        /\ session.result_checksum = events
=============================================================================
