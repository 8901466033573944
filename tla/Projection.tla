------------------------------- MODULE Projection -------------------------------
(* What one Kafka event does to the Postgres rows of one call: the statements   *)
(* EventProjector runs inside one transaction, as operators on the record db.   *)
(* Every statement but the insertion of the idempotency key and the watermarks  *)
(* names the call, so the rows of one call are enough; the log positions and    *)
(* the outbox rows are those of that call too.                                  *)
(*                                                                              *)
(* An event is a record                                                         *)
(*   [id, key, type, turn, stage, measurements, expected, duration]             *)
(* where measurements is a sequence of [type, qty] (usage events), expected a   *)
(* set of <<turn, usage type>> (the barrier's manifest) and duration the length *)
(* of the call (call.ended).                                                    *)
EXTENDS Naturals, Integers, Sequences, FiniteSets, FiniteSetsExt, SequencesExt

CONSTANTS
  UnitPrice,      \* pricing_catalog: raw usage type -> price, a partial function
  PlatformRate    \* billing_platform_rate_per_minute_usd

ASSUME PriceAssumption == \A t \in DOMAIN UnitPrice : UnitPrice[t] \in Nat
ASSUME RateAssumption  == PlatformRate \in Nat

NoManifest == [event |-> "none"]
NoFinal    == [status |-> "none"]

(* The metered columns of call_usage_rollups.                                   *)
RollupColumns ==
  {"stt_audio_seconds", "llm_input_tokens", "llm_output_tokens",
   "tts_characters", "tts_audio_seconds", "telephony_seconds"}

EmptyDb ==
  [keys         |-> {},                  \* idempotency_keys
   timeline     |-> {},                  \* call_events, by event id
   call         |-> [status |-> "absent", stage |-> "none", corked |-> FALSE,
                     ended |-> FALSE],
   metrics      |-> <<>>,                \* pipeline_metrics
   records      |-> {},                  \* usage_records
   usage        |-> {},                  \* call_usage_events
   rollup       |-> [c \in RollupColumns |-> 0],
   manifest     |-> NoManifest,
   expectations |-> {},
   billing      |-> [exists |-> FALSE, duration |-> 0, fee |-> 0, cost |-> 0,
                     total |-> 0, status |-> "OPEN"],
   watermark    |-> <<>>,                \* topic -> last projected offset
   final        |-> NoFinal,             \* final_call_billing_records
   adjustments  |-> {},
   outbox       |-> <<>>]

IsUsage(e)   == e.type \in {"usage.stt", "usage.llm", "usage.tts",
                            "usage.finalization_barrier"}
IsBarrier(e) == e.type = "usage.finalization_barrier"

(* Mutant of Normalized: the stage of an audio minute is not looked at.         *)
NormalizedWithoutStage(type, stage) ==
  CASE type = "audio_minute"                         -> "call_duration_seconds"
    [] type \in {"input_token", "cached_input_token"} -> "llm_input_tokens"
    [] type = "output_token"                         -> "llm_output_tokens"
    [] OTHER                                         -> type

(* _normalized_usage_type: cached and uncached input tokens share one column,   *)
(* and audio minutes are the session's unless the stage is stt.                 *)
Normalized(type, stage) ==
  CASE type = "audio_minute" /\ stage = "stt"        -> "stt_audio_seconds"
    [] type = "audio_minute" /\ stage # "stt"        -> "call_duration_seconds"
    [] type \in {"input_token", "cached_input_token"} -> "llm_input_tokens"
    [] type = "output_token"                         -> "llm_output_tokens"
    [] type = "input_text_token"                     -> "tts_characters"
    [] type = "output_audio_token"                   -> "tts_audio_seconds"
    [] OTHER                                         -> type

(* _project_usage raises when the catalog has no price for a measurement.       *)
Priced(e) == \A i \in DOMAIN e.measurements : e.measurements[i].type \in DOMAIN UnitPrice

(* SUM(cost_usd) over a set of usage_records.                                   *)
TotalCost(records) == MapThenSumSet(LAMBDA r : r.cost, records)

--------------------------------------------------------------------------------
(* Mutant of UpdateCallBilling: a finalized row is left alone.                  *)
UpdateOpenBilling(db, durations, finalized) ==
  LET old  == db.billing
      fee  == IF durations = {} THEN old.fee
              ELSE (CHOOSE d \in durations : TRUE) * PlatformRate
      cost == TotalCost(db.records)
  IN  IF old.status = "FINALIZED" THEN db
      ELSE [db EXCEPT !.billing =
              [exists |-> TRUE, cost |-> cost, fee |-> fee, total |-> fee + cost,
               duration |-> IF durations = {} THEN old.duration ELSE CHOOSE d \in durations : TRUE,
               status |-> IF finalized THEN "FINALIZED" ELSE old.status]]

(* _update_call_billing: the row is inserted if absent, the fee set when a      *)
(* duration is given, the status when the call is over, and the cost is         *)
(* recomputed from the records (never incremented).                             *)
UpdateCallBilling(db, durations, finalized) ==
  LET old  == db.billing
      fee  == IF durations = {} THEN old.fee
              ELSE (CHOOSE d \in durations : TRUE) * PlatformRate
      cost == TotalCost(db.records)
  IN  [db EXCEPT !.billing =
         [exists   |-> TRUE,
          duration |-> IF durations = {} THEN old.duration ELSE CHOOSE d \in durations : TRUE,
          fee      |-> fee,
          cost     |-> cost,
          total    |-> fee + cost,
          status   |-> IF finalized THEN "FINALIZED" ELSE old.status]]

(* _project_call: the row of calls, by the type of the event.                   *)
ProjectStarted(db, e) ==
  [db EXCEPT !.call = [@ EXCEPT !.status = "CALL_STARTED",
                                !.stage = IF db.call.status = "absent" THEN e.stage ELSE @]]

ProjectEnded(db, e) ==
  IF db.call.status \in {"absent", "CALL_FAILED"}      \* "UPDATE 0": return
  THEN db
  ELSE UpdateCallBilling(
         [db EXCEPT !.call = [@ EXCEPT !.status = "CALL_COMPLETED", !.stage = e.stage,
                                       !.ended = TRUE]],
         {e.duration}, TRUE)

ProjectFailed(db, e) ==
  UpdateCallBilling(
    IF db.call.status = "absent" THEN db
    ELSE [db EXCEPT !.call = [@ EXCEPT !.status = "CALL_FAILED", !.stage = e.stage,
                                       !.ended = TRUE]],
    {}, TRUE)

ProjectProgress(db, e) ==
  IF db.call.status = "absent" THEN db
  ELSE [db EXCEPT !.call =
         [@ EXCEPT !.stage  = e.stage,
                   !.corked = \/ e.type = "pipeline.corked"
                              \/ @ /\ e.type # "pipeline.uncorked",
                   !.status = IF @ = "CALL_STARTED" THEN "IN_PROGRESS" ELSE @]]

ProjectCall(db, e) ==
  CASE e.type = "billing.usage_recorded" -> db
    [] e.type = "call.started"           -> ProjectStarted(db, e)
    [] e.type = "call.ended"             -> ProjectEnded(db, e)
    [] e.type = "call.failed"            -> ProjectFailed(db, e)
    [] OTHER                             -> ProjectProgress(db, e)

(* _project_metric: stages that report a latency leave a row.                   *)
ProjectMetric(db, e) ==
  IF e.type \in {"stt.final_transcript", "llm.final_response"}
  THEN [db EXCEPT !.metrics = Append(@, e.id)]
  ELSE db

--------------------------------------------------------------------------------
(* _project_usage, one measurement: the record and the normalized usage row are *)
(* unique by event and usage type, the rollup is incremented in any case.       *)
RecordMeasurement(db, e, m) ==
  LET norm  == Normalized(m.type, e.stage)
      fresh == \A r \in db.records : <<r.event, r.type>> # <<e.id, m.type>>
  IN  [db EXCEPT
        !.records = IF fresh THEN @ \cup {[event |-> e.id, type |-> m.type, stage |-> e.stage,
                                           qty |-> m.qty, cost |-> m.qty * UnitPrice[m.type]]}
                             ELSE @,
        !.usage   = IF fresh THEN @ \cup {[event |-> e.id, type |-> m.type, turn |-> e.turn,
                                           norm |-> norm, qty |-> m.qty]}
                             ELSE @,
        !.rollup  = [c \in RollupColumns |-> @[c] + IF c = norm THEN m.qty ELSE 0]]

(* _enqueue_billing_event: an outbox row whose id derives from the source event.*)
EnqueueBillingEvent(db, e) ==
  LET row == [event |-> <<"billing", e.id>>, topic |-> "billing-events",
              total |-> db.billing.total, published |-> FALSE]
  IN  IF \E i \in DOMAIN db.outbox : db.outbox[i].event = row.event
      THEN db ELSE [db EXCEPT !.outbox = Append(@, row)]

ProjectMeasurements(db, e) ==
  LET recorded == FoldLeft(LAMBDA d, m : RecordMeasurement(d, e, m), db, e.measurements)
  IN  EnqueueBillingEvent(UpdateCallBilling(recorded, {}, FALSE), e)

(* _project_usage_manifest: the barrier's own position becomes the offset the   *)
(* projection must reach; a second barrier replaces the manifest and adds to    *)
(* the expectations.                                                            *)
ProjectManifest(db, e, offset) ==
  [db EXCEPT !.manifest     = [event |-> e.id, offset |-> offset],
             !.expectations = @ \cup e.expected]

ProjectUsage(db, e, offset) ==
  CASE ~IsUsage(e)  -> db
    [] IsBarrier(e) -> ProjectManifest(db, e, offset)
    [] OTHER        -> ProjectMeasurements(db, e)

--------------------------------------------------------------------------------
(* Mutant of IsDuplicate: the key is not looked up.                             *)
NeverDuplicate(db, e) == FALSE

(* _project_one: a key that is already there stops the event.                   *)
IsDuplicate(db, e) == e.key \in db.keys

ProjectOne(db, e, offset) ==
  IF IsDuplicate(db, e) THEN db
  ELSE LET keyed == [db EXCEPT !.keys = @ \cup {e.key}, !.timeline = @ \cup {e.id}]
       IN  ProjectUsage(ProjectMetric(ProjectCall(keyed, e), e), e, offset)

(* The result of a batch: the events that were inserted, those of them that end *)
(* the call, those that are usage, those that found the final bill written, and *)
(* the duplicates.                                                              *)
NoResult == [inserted |-> <<>>, ended |-> <<>>, usage |-> FALSE, late |-> <<>>,
             duplicates |-> <<>>]

Classified(db, result, e) ==
  IF IsDuplicate(db, e) THEN [result EXCEPT !.duplicates = Append(@, e)]
  ELSE [result EXCEPT
         !.inserted = Append(@, e),
         !.ended    = IF e.type = "call.ended" THEN Append(@, e) ELSE @,
         !.usage    = @ \/ IsUsage(e),
         !.late     = IF IsUsage(e) /\ ~IsBarrier(e) /\ db.final # NoFinal
                      THEN Append(@, e) ELSE @]

(* GREATEST(last_projected_offset, offset), for the topic of one item.          *)
Advanced(watermark, item) ==
  [t \in DOMAIN watermark \cup {item.topic} |->
     IF t # item.topic THEN watermark[t]
     ELSE IF t \in DOMAIN watermark /\ watermark[t] >= item.offset THEN watermark[t]
     ELSE item.offset]

(* project_batch: an item is [event, topic, offset]; one transaction projects   *)
(* them in order and moves the watermarks.                                      *)
ProjectBatch(db, items) ==
  FoldLeft(LAMBDA acc, item :
             [db     |-> [ProjectOne(acc.db, item.event, item.offset)
                            EXCEPT !.watermark = Advanced(@, item)],
              result |-> Classified(acc.db, acc.result, item.event)],
           [db |-> db, result |-> NoResult], items)

(* The statements of the transaction raise for a price that is missing, unless  *)
(* the event is a duplicate, whose measurements are not read.                   *)
BatchRaises(db, items) ==
  \E i \in DOMAIN items : ~IsDuplicate(db, items[i].event) /\ ~Priced(items[i].event)

--------------------------------------------------------------------------------
(* handle_batch, as the list of calls the event worker makes after the          *)
(* projection: the workflow of each ended call and its signal, the hint, the    *)
(* adjustment of each late usage event, a notice for each duplicate that is not *)
(* itself a notice.                                                             *)
IsNotice(e) == e.type = "duplicate_event.ignored"

Calls(kind, events) == [i \in DOMAIN events |-> [kind |-> kind, event |-> events[i]]]

Todo(result) ==
  FlattenSeq([i \in DOMAIN result.ended |->
                <<[kind |-> "start", event |-> result.ended[i]],
                  [kind |-> "ended", event |-> result.ended[i]]>>])
    \o (IF result.usage THEN <<[kind |-> "hint", event |-> result.inserted[1]]>> ELSE <<>>)
    \o Calls("adjust", result.late)
    \o FlattenSeq([i \in DOMAIN result.duplicates |->
                     IF IsNotice(result.duplicates[i]) THEN <<>>
                     ELSE <<[kind |-> "notice", event |-> result.duplicates[i]]>>])
================================================================================
