# VoiceMesh in TLA+

VoiceMesh is a realtime voice assistant: a session worker runs one call over a
WebSocket (VAD, streaming STT, LLM, TTS, playback), publishes events to Kafka,
and a set of workers project them into Postgres, bill them and run durable
actions in Temporal. This directory holds TLA+ models of that code, their TLC
configurations, and proofs checked by TLAPS. Paths below are relative to the
repository, mostly to `apps/` or `apps/api/`; line numbers are those of the
modelled commit.

## The system

| Component | State | Operations | Interacts through | Module |
|---|---|---|---|---|
| Flow-controlled queue, `pipeline/backpressure.py` | items, running depth, cork and hard-limit flags, closed/cancelled | `put`, `get`, `flush`, `close`, `cancel`, two waits | one asyncio condition; the `on_state_change` callback | `FlushLoop`, `FlowQueue`, `FlowControlledQueue`, `OrderedChannel` |
| Response pipeline, `pipeline/stream_module.py` 901-1318 | two queues, phrase buffer, chunk numbers, conversation | tasks `_produce_llm`, `_consume_tts`, `_consume_transport`; gather under a timeout | the queues; the hard-limit callback cancels from inside a producer | `ResponsePipeline` |
| Barge-in, `pipeline/barge_in.py`, `stream_module.py` 282-645, 1320-1549 | coordinator, `ResponseController`, `PipelineState`, last interruption | audio frames, `client.barge_in_candidate`, `playback.*`, turn processing, `_cancel_response` | the message loop, one message at a time | `BargeInSession` |
| Demo browser, `dashboard/src/app/demo/page.tsx` | playing response, scheduled sources, muted responses | play, duck or stop, report | the WebSocket, ordered each way | `BargeInSession` |
| Turn detector, `stages/vad.py`, `stream_module.py` 282-392 | QUIET, STARTING, SPEAKING, STOPPING, durations, buffered frames, statistics of a turn | `update` per frame, `audio.end_turn`, the noise filter | the message loop; the STT session | `TurnDetector` |
| STT session, `providers/openai_stt.py` | audio not yet committed, pending commit, reader task | start, append, commit, close | WebSocket to the provider | `SttSession` |
| Call events, `stream_module.py` 1551-1670, `events/schemas.py` | sequence number, expected usage | `emit`, finalization barrier, verdict | Kafka, keyed by call | `CallEvents` |
| Event worker, `worker/event_worker.py`, `events/kafka_consumer.py` | the batch in memory, offsets in Kafka | poll, project, call Temporal, commit | Kafka, projector, Temporal client | `EventWorker` |
| Projector, `db/projector.py` | calls, usage, rollups, bill, manifest, watermarks, idempotency keys, outbox rows | one transaction per batch | Postgres | `Projection`, `UsageLedger`, `ProjectionTransactions` |
| Outbox, `db/outbox.py` | rows, published or not | `publish_batch` | Postgres, Kafka | `OutboxPublisher` |
| Billing workflows, `worker/durable_workflows.py`, `activities.py` | the wait for usage; final record, adjustments | readiness check, finalization, adjustment | Temporal, Postgres | `BillingFinalization` |
| Durable action workflow, same files | state of the workflow, row of `tool_invocations` | create, poll, cancel, with retries and signals | Temporal, Postgres, external HTTP | `DurableAction` |
| Webhook workflow, same files | delivery row, attempt rows | POST with backoff | Temporal, Postgres, external HTTP | `WebhookDelivery` |
| Analytics, `analytics/clickhouse/` | row buffer, offsets | add, flush, retry, commit | Kafka, ClickHouse | `AnalyticsWriter` |
| API, dashboard, telemetry, configuration | little of their own | CRUD, display, metrics | HTTP, Postgres | none |

How they hang together: a call is a chain of hand-overs, and each module covers one
link with what is on its two ends.

    microphone -> TurnDetector -> SttSession -> BargeInSession / ResponsePipeline
                                   (FlowQueue between the tasks)    -> browser
    tasks of the call -> CallEvents -> Kafka -> EventWorker (Projection) -> Postgres
                                             \-> AnalyticsWriter -> ClickHouse
    EventWorker -> BillingFinalization -> OutboxPublisher -> Kafka
                                       \-> WebhookDelivery
    tools route -> DurableAction -> OutboxPublisher

### What makes each part correct

- **Queue**: the depth is the weight of the items; cork and release follow the
  watermarks; the capacity holds with several producers; no wakeup is lost;
  nobody waits on a stopped queue; items stay in order.
- **Pipeline**: the browser hears the chunks of a response in order without
  gaps; a cancelled response is silent; every task ends whichever of them fails;
  a hang of a provider ends in a timeout; a response is recorded once.
- **Barge-in**: the copies of "the active response" agree; a fence never lifts;
  a candidate is decided once and by speech evidence.
- **Turns**: a turn starts and ends where the durations say, over any history; the
  transcription hears all of it and nothing of the next one.
- **Transcription**: a transcript belongs to the turn that takes it, although
  nothing on the wire says so; a commit always comes back.
- **Events of a call**: numbers differ, the manifest names what is in Kafka and
  nothing else, the call has one verdict.
- **Usage**: each event counts once whatever is redelivered, and the sums, kept
  incrementally by several transactions, are the sums of what was counted; the
  watermark means that everything below it is there.
- **Billing**: a bill that calls itself final is complete; what is late is in an
  adjustment; the two ledgers agree but for their rounding.
- **Delivery**: no offset is committed past an event that was not handled; what is
  committed in Postgres is published; repetitions have a cause.
- **Durable action, webhook**: what is said in the end is what happened outside; a
  cancellation is not lost; the row ends as the workflow does.

### What is hard to test here

Interleavings at every `await` between the three tasks of a response and the
hard-limit callbacks; a check made before an await and used after it; messages
from the browser that were overtaken by a cancellation; tasks orphaned by the
failure of another, that outlive the call; a timeout that hits a `finally` clause;
the same fact kept in three objects; a transcript that arrives after its turn was
given up; two transactions that recompute one sum; redelivery and crashes between
two commits in the workers; an attempt that Temporal gave up and that still runs.
`PROJECT.json` lists them one by one under `hazards`, with the properties that
cover each, or the reason why none does.

## Modules

### FlowQueue, FlowControlledQueue, OrderedChannel

`FlowQueue` is the data structure: a queue is one record, and each operator is
one critical section of the Python class, given as the queue it leaves behind.
`Observed`/`Transition` are `_observe_locked`; the loop of `flush` is `Scan`, in the
module `FlushLoop`, which has no parameters: the lemmas about it serve every queue.

`FlowControlledQueue` puts producers and one consumer around it. `put` is three
steps, because it awaits twice: `Put` (the call), `PassCork` (the end of
`wait_until_uncorked`), `Enqueue` or `Refuse` (the second critical section). A
wait is an action that is disabled while the condition of the loop holds. `told`
is the argument of the last `on_state_change`; `got` is a history variable, what
`get` returned last of each producer. A producer's items are numbered by its
puts. `bypass_cork` is only used by the pipeline for `EndOfStream`, whose weight
is 0, and the model allows it for weight 0 only.

`OrderedChannel` is the abstract specification: a bounded channel that delivers
each producer's items in order, at most once, and loses them only when someone
discards them. `ChannelSpec` is its specification under the obvious mapping
(items without weights; open while neither closed nor cancelled), checked as a
property of the queue and proved for every instance.

### ResponsePipeline

One response. It uses two instances of `FlowQueue`, `TextQ` and `AudioQ`.
`pc[t]` says where the task awaits:

| pc | llm | tts | transport |
|---|---|---|---|
| `stream` | next token | | |
| `get`, `got` | | `get`; the sends between `get` and looking at the item | the same |
| `synth` | | next audio of a phrase | |
| `cork`, `put` | the two waits of `put` | the same | |
| `eos` | `put(EndOfStream)` in the `finally` | the same | |
| `after` | events published after the loop | the same | the same |
| `done`, `raised`, `killed` | returned, raised, cancelled | | |

`callback[t]` is the hard-limit callback running inside the `put` of task `t`:
publish the transition, cancel the active response, flush the text queue, flush
the audio queue, mark the response interrupted, each after an await in which the
other tasks run. `parent` is the message loop: `gather` returns when all are
done, raises with the first task that does, or times out (`TimeoutFires`: the
tasks get a `CancelledError` where they wait and still run their `finally`;
`TimeoutEnds`: gather is over). `entries` is the status of the response's entries
in `_conversation`.

Any provider stream may end, hang or raise; any event or message that is not
sent through `_safe_send_json` may fail, and then raises in the task that sent
it: when a task starts (`LlmNeverStarts`, `TtsNeverStarts`), in the callback of a
queue (`CallbackRaises`, `TtsRaises`), when audio is sent, and at the end
(`Publish`).

Data is abstracted: text is a number of tokens, a chunk its sequence number, a
weight any of a small set. Only the policy `cancel_response` is modelled; the
others the configuration accepts are acted on by no code.

### BargeInSession

The call between responses. A handler of the message loop is one step: the loop
handles one message at a time, and while a response is generated it handles
none, so a generation is `TurnAccepted`, then `SendAudio`, `HardLimit` and
`GenerationEnds` (what `ResponsePipeline` shows of it from outside).

The operators on `coord` are the methods of `BargeInCoordinator`. `active` is the
`ResponseController`'s active response, `shown` that of `PipelineState`: they are
assigned separately in the code. Responses and browser candidates are numbered in
the order they are created; the candidate `backend-<response>` has the negative of
its response as identifier. The turn detector is three states (STOPPING is handled
like SPEAKING by every handler), and `evidence` says which thresholds a frame of
speech meets: none, those for a browser candidate, or also those without one.

The browser is the demo page: it plays what is not muted, stops at
`pipeline.response_cancelled`, sends a candidate (and goes on ducked, or stops)
and reports `playback.done` when its last source ends, a stopped one included.
`resolving` and `resolved` happen in one step, so the state RESOLVING is never
seen between two.

`playback.progress` changes only a cursor and is left out; so are the end of the
call and failures (a failure ends the call). The time windows of
`_restore_recent_response_for_candidate` and of the echo grace are
nondeterministic.

### TurnDetector

`SmoothedTurnDetector.update` and what `_handle_audio` does around it for a frame:
`Update` is the detector's next state (`OnSpeech`, `OnQuiet`, `Counted` are its
branches), `TurnAudio` what is appended to the transcription session, with the
frames heard while speech was on trial and their comparison by value, `Hear` the
whole handler. `EndTurn` is the message `audio.end_turn`. `IsNoise` is the filter of
`_noise_turn_reason` with its thresholds as constants and the transcript one of four
kinds. A frame is `[speech, ms, wave]`: the answer of the classifier, which is not
modelled, its length, and what its samples are compared by. The history `heard`
keeps all frames; the reference definitions `Sustained`, `LongPause`, `InTurn` and
`Began` say over that history where turns are, with no reference to the detector.

### SttSession

The receive loop (`call`), the session object with its two futures and its reader
task (`sess`), the provider (`provider`), and the events between provider and reader
(`channel`). `Commit` is the end of a turn: the pending future is made and the
buffer handed over; `Read` is one turn of the reader (`Dispatch` is its `match`);
`TimesOut` is the timeout of the wait. A commit takes whatever transcript completes
next. That this is its own is a fact about the whole protocol: a commit that times
out raises, the raise ends the call, so there never is a next commit. `results`
remembers which audio each transcript was made of.

### CallEvents

The publications of a call that decide its bill, by the main task and by the three
tasks of a response. `Emit` takes a number and begins to publish; `Publish` and
`PublishFails` end it (with or without effect in Kafka). The generation measures
itself once; the synthesis once per phrase, between which it is running again, and not
at all when the text was empty or the response was cancelled (`Finish`). `Expect` adds
to the expectations after the usage event was published; `EndCall` publishes the barrier
with the manifest of that moment, `FailCall` the failure. `GatherRaises` leaves the
tasks running: they go on behind the end of the call. `cutOff` remembers whether the
call ended in the middle of a response; `ManifestIsComplete` needs that.

`MCCall` checks the three together: each has the other two as its environment in
every order, so a behaviour chooses one and the others stay where they begin.

### Projection, UsageLedger, EventWorker

`Projection` is the code of `EventProjector` for one event as operators on `db`, the
rows of one call: `ProjectOne` is `_project_one`, with the statements in the order
the code has them and each condition on what was read; `ProjectBatch` folds it over a
batch and sets the watermarks. Decimals are naturals;
prices a function; the rows keep the columns that something reads.

`EventWorker` is the loop around it: the session publishes a script of events to
partitioned topics, the consumer polls a batch (any mix of topics, each in order),
`Project` is the transaction with the three attempts of `_retry` (an attempt may fail
with effect or without), then `handle_batch` makes the calls to Temporal and Kafka
that the result asks for, one step each, then `Commit` writes the offsets. `Crash`
ends a consumer at any step; the next starts from the committed offsets. A plan
(`Plans`) is a script with bounds on what goes wrong.

Two histories are what `FollowUpsStart` needs to be exact. `lost` has the calls that a
consumer had still to make when it ended, and those of a transaction whose answer was
lost: it did insert, but the next attempt finds duplicates only. `bills` has the attempts
of `finalize_call_billing`, which `BillingFinalization` has in detail. `ReadBill` and
`WriteBill` are its two ends, with transactions of the worker between them; there may
be several attempts, and one that was given up may write after its successor. `open` says
that an attempt found no bill when it read, `before` what was in Postgres when the bill
was first written, and `Slipped` what came in between: it found no bill, so asked for no
adjustment.

`UsageLedger` is the abstract specification: a set of events counted once each, and
the sums over it. `IsLedger` says that the worker implements it under
`counted <- {e : e.key \in db.keys}` and the sums of the rollup and of the cost.

### ProjectionTransactions

The projector again, with its transactions broken into statements and several
workers at the same time. What Postgres does is part of the model, taken from how
READ COMMITTED is used there: a row written by an open transaction blocks its next
writer (`Needs`, `Waiting`, `queue`), a statement sees what was committed when it
began (`Visible`, `seen`: the sum a blocked `UPDATE` has read before it waited), a
cycle of waiting transactions loses a member (`Deadlocked`). The plans are the two
ways two workers meet in one call: members of a group with partitions of different
topics, and a worker that was given up while it still works on its batch. Data is
abstracted to the rows that two workers touch.

### BillingFinalization

The call's bill from the projection of its usage on, on top of `Projection`. The
projector is one step per event. `load_billing_readiness` is four reads
(`ReadManifest`, `ReadWatermark`, `ReadExpectations`, `ReadPresent`),
`finalize_call_billing` two reads and an upsert (`FinalizeReadsUsage`,
`FinalizeReadsDuration`, `FinalizeWrites`), an adjustment two reads and an insert;
between any two the projector goes on. `Elapsed` is the arithmetic of the
wait. An attempt that is retried goes on and may still write
(`FinalizeRetried`): `attempts` keeps all of them.

Money is a natural number of units, small enough for every price and for the fee of a
second to be whole. `Cent` is a cent in these units and `Cents` is `cents()`: half a cent
goes up. `Component` is the chain of conditions of `_billing_component_costs`, and
`ProviderCents` rounds each of its four sums for itself. `PlatformCents` rounds the fee,
at the rate that is written into the activities (`ActivityRate`, not the configured
`PlatformRate` of the projector), for the duration of `call_billing` or, without one,
the time between the timestamps of the call (`Lasted`, `plan.span`). Durations are whole
seconds. The timestamps come with the row of the call, which is read with the records:
they do not change once the end of the call is projected.

### DurableAction, WebhookDelivery

`DurableAction` is `DurableActionWorkflow`: `wf.at` names the activity or the wait
it is at, `_transition` is `persist` then `emit`. An activity's attempt may fail
before or after its effect; after `MaximumAttempts` the workflow ends FAILED, and one
in the transition itself ends it for good (`crashed`). A timed-out write of the row
may be done later (`late`). `asked` is when the user cancelled: before the external id
was known (`early`), while it was polled (`open`), or after the last poll (`late`).

`external` is the service. Every attempt of `create_external_action` and
`cancel_external_action` sends a request of its own (`Send`); one that was given up may
be handled later (`Handles`), its answer may be lost (`HangsUp`), and an answer goes only
to the attempt that asked. `config.keyed` says whether the service honours the
`Idempotency-Key`. The mock customer does not: a repeated create starts the action
again, a repeated cancel makes `cancelled` of `cannot_cancel`, and `again` remembers it.
A service other than the mock may answer a cancellation with `failed`, or with
`accepted` and decide later or never (`ExternalDefers`, `ExternalDecides`);
`CancelAnswers` takes any answer but `cannot_cancel` and `failed` for CANCELLED, as the
code does. `VerdictIsRight` says what is left then: the workflow's last state is how
the action stands unless the service did something again or put its decision off, and
`RepeatsAreRetries` that it does something again only for a retry, if it ignores the key.

`WebhookDelivery` is the workflow and the executions of its activities. Temporal
repeats an execution that raised or timed out, under the same attempt number and
without limit; an execution that timed out may still run (`execs`). The backoff is a
sleep and is left out.

`MCWorkflows` checks both, one in each behaviour.

### OutboxPublisher, AnalyticsWriter

`OutboxPublisher` has transactions that add rows (`Begin`, `CommitOf`: `created_at`
is the time of the beginning, so rows may become visible behind younger ones) and
publishers that fetch a batch of the oldest, publish a row, and mark it in a statement
of its own. `hit` counts the faults that met a row while it was in hand.

`AnalyticsWriter` is the consumer of the analytics worker: normalize a batch, add its
rows to the writer's buffer, which is flushed when full and at the end, retry with
doubled delays until the sum is used up, commit. ClickHouse goes away (`Down`) and
comes back; an insert may fail with its rows stored (`InsertUnanswered`). A record that
is no event raises in the consumer, wherever in the fetch it is (`DecodeFails`). Then
the process has ended, as it has when its first ping fails (`PingFails`), when an outage
outlasts the delays (`Retry`) or in a `Crash`; `Run` is somebody who starts it again.

`MCDelivery` checks both, one in each behaviour.

### Proof modules

Each extends the module that a run checks, so a theorem is about the very
specification the run explores.

| Module | About |
|---|---|
| `FlowControlledQueue_proofs` | the loop of `flush`, and what appending, popping and keeping do to the weight of a sequence; the queue, and that it implements `OrderedChannel` |
| `Session_proofs` | one response; the session between responses |
| `Call_proofs` | the events of a call; the transcription session; the turn detector and its sums |
| `Workflows_proofs` | the durable action; the webhook |
| `Delivery_proofs` | the outbox; the analytics worker |
| `EventWorker_proofs` | the poll and the transaction as loops; the event worker; sums over sets, and that the worker implements `UsageLedger` |
| `Transactions_proofs` | sums over rows; what each statement and commit leaves of the other transactions |
| `Billing_proofs` | the projection of an event; the bill of a call and its adjustments; what records cost, as a sum over usage |

## Runs

Every run finishes within three minutes with two workers. The invariant `Inv` of a
run (of the instance module, where there is one) is its type invariant together with
facts every other property leans on; the parts have names and comments of their own in
the modules.

| Run | Module, configuration | Instance | Shows |
|---|---|---|---|
| `queue` | `FlowControlledQueue` | 2 producers, 3 puts each, weights 0, 1, 3, marks 0/3/5, 2 items | `Inv` (types, capacity, depth, cork, callback), `Hysteresis`, `Overshoot`, the refinement `ChannelSpec`, `PutsReturn` |
| `pipeline` | `ResponsePipeline` | 3 tokens, 3 chunks, weights 1, 2, marks 0/2/3, 2 items | `SentInOrder`, `CompleteDelivery`, `OneCancellation`, `SilentAfterCancel`, `ResponseEnds` |
| `session` | `MCBargeInSession`, `BargeInSession_safety` | 2 responses, 2 candidates, 2 messages in flight each way | `ResponseAgreed`, `FenceHolds`, one decision per candidate (`SessionInv`) |
| `call` | `MCCall` | 2 turns and 2 faults; or 6 frames of 4 kinds; or 2 commits of up to 2 chunks and 2 faults | `ManifestIsExact`, `DetectsTurns`, `AudioIsWhole`, `TranscriptIsOwn`, `CommitEnds` |
| `worker` | `MCEventWorker`, `EventWorker` | 3 to 5 events in 3 topics, batches of 2; the plans combine a lost answer, a crash, a replay, three failed attempts, two attempts of the bill | `CaughtUpIsComplete`, `FollowUpsStart`, the refinement `IsLedger`, `EventuallyCaughtUp` |
| `transactions` | `MCProjectionTransactions`, `ProjectionTransactions` | 3 workers, up to 4 events in a batch, 2 calls, 1 fault | `SumsAreRight`, `NeverGoesBack`, `EveryEventIsProjected` |
| `billing` | `MCBillingFinalization`, `BillingFinalization` | one late event and a retry, or two late events and an end that says no duration; amounts of half a cent, rates 1 and 2; 3 units of waiting | `Inv` (types, `LedgersAgree`), `ReadyIsComplete`, `AdjustmentsAreCurrent`, `FinalizationEnds` |
| `workflows` | `MCWorkflows` | 2 attempts of an activity, 4 units of runtime; or 3 attempts of a webhook; 2 faults | `CancelIsHonoured`, `VerdictIsRight`, `EveryWorkflowEnds` |
| `delivery` | `MCDelivery` | 2 publishers, 3 rows, 1 fault; or 4 events, 2 outages, 2 faults | `AtLeastOnce`, `OnlyFaultsDisturb`, `EverythingArrives` |
| `pipeline_spoken_prefix` | `ResponsePipeline_finding` | 2 tokens, 2 chunks | violates `OnlySpokenPrefix` |
| `session_deaf` | `BargeInSession_deaf` | 2 responses, 1 candidate | violates `SustainedSpeechCancels` |
| `billing_addup` | `BillingFinalization_addup` | two late events | violates `AdjustmentsAddUp` |

### Why the bounds are enough

*Queue.* Two producers are the least for one to overtake another between the cork
check and the append; three puts of each fill the queue, cork it, release it and cork
it again. Weights below, at and above the distance between the marks occur, and a low
mark of 0. *Pipeline.* Three tokens cork the text queue, reach its hard limit and
fill it, and leave one to be put behind the flush; the same for chunks. *Session.*
Two responses are the least for a message to name one that is no longer the last, two
candidates for one to arrive while another is pending. *Turns.* Six frames are enough
for a turn, its pause and the start of the next, for a pause resumed just before its
end, and for `audio.end_turn` in the middle; frames of two lengths hit and pass each
threshold. *Transcription.* Two commits are the least for one to take the other's
transcript. *Events.* Two turns and two failed publications let one task fail while
another publishes. *Worker.* The script has every kind of event with an effect on the
bill, in three partitions, so that batches end and mix everywhere; each plan uses up
what `_retry` tolerates or more. Two attempts are the least for one to write what it read
before the other's bill; they have a script without a barrier of their own, since nothing
in the worker depends on both. *Transactions.* Three workers are the least for a
cycle of two with one waiting beside it; the calls are named in different orders.
*Billing.* Two late events are the least for one adjustment to contain the other. The
prices and durations put each of speech, its recognition, the model and the fee half a cent
above a whole one, so that the rounding of each is seen, and two plans let the
duration be that of the bill or that of the timestamps.
*Workflows.* Two attempts are the least to lose the first and have the second; three
attempts of the webhook give a middle one. *Delivery.* Three rows and batches of two
leave one behind; two publishers fetch the same rows.

### Deadlock

It is checked in `transactions`, where `Idle` is the only stop: a transaction that is
stuck is an error. Everywhere else the system may really stop: a queue is idle when the
bounded puts are used up, a response waits for a provider that never answers,
a call falls silent or is over, the worker waits for records, a workflow has ended. What
must not get stuck there is stated as a liveness property, `ResponseEnds` for a response.

### Fairness

Weak fairness throughout, of steps that something is obliged to run:

- queue and pipeline: a coroutine whose wait is over. Every critical section that can
  end a wait calls `notify_all` before it releases the lock. That the consumer goes on
  (`ConsumerRuns`), that providers answer (`ProvidersAnswer`) and that the timer of
  `wait_for` fires (`TimerRuns`) are antecedents of the properties that need them: a
  stopped queue releases its producers without a consumer, and a turn ends without an
  answer of a provider;
- transcription: the reader, the timers and the receive loop; nothing of the provider;
- worker: whenever it has work again and again, it does something. `run_worker`
  restarts a consumer that ended. A poison record is work that never ends, so
  `EventuallyCaughtUp` has `Projectable` as its antecedent;
- transactions: every statement that can run runs, Postgres serves the waiters of a row
  in order and its deadlock detector wakes up;
- workflows: Temporal goes on with what it has; the service handles what it was asked;
  nothing obliges the user to cancel or the receiver to accept;
- outbox and analytics: open transactions commit, publishers go on, ClickHouse comes
  back. Nothing in the repository starts the analytics worker again when it has ended,
  so `Run` has no fairness: `EventuallyStored` says that either the process has ended for
  good, which takes a crash, an outage or an undecodable record, or everything is stored
  that is not held back by such a record. It holds back what is behind it and, as a
  batch is handled only when all of a fetch was decoded, up to a batch in front of it.

`BargeInSession` states no fairness: nothing obliges a browser to report anything.

## Where the code and its documentation differ

Three differences are runs that TLC ends with a counterexample:

1. **The unspoken suffix stays in the context** (`OnlySpokenPrefix`). A response is
   recorded as `completed` with its full text when its generation ends
   (`stream_module.py:1052-1065`). A barge-in during its playback adds an entry
   `interrupted` with the spoken prefix (`:1538`), and `_llm_context` (`:875`) sends
   both. `docs/barge-in.md:87` says the next LLM turn receives only the prefix.
2. **A noise turn deafens the coordinator** (`SustainedSpeechCancels`). A turn ignored
   as noise calls `resolved`, which clears the coordinator's active response while the
   assistant still plays; backend speech alone then cancels nothing.
   `docs/failure_modes.md:45` says that user speech during playback cancels it.
3. **Adjustments do not add up** (`AdjustmentsAddUp`). The delta of every adjustment is
   the recomputed total minus the original one (`activities.py:768`); adjustments made
   before are not subtracted, so a second late event charges the first again.

The others were met while modelling. The behaviour is in the models, and where a property
of a run would be broken by it, the property names it as an exception; each paragraph says
which.

*Session.* A candidate for a response that is no longer active makes `confirm` return
the transition of a rejection, which `_confirm_barge_in_from_vad` takes for a
confirmation (`OnlyConfirmedFences`; `docs/barge-in.md:36`). A playback that the browser
stops for a candidate reports `playback.done`, which finishes the response, and
sustained speech is looked at only while one is active, so the candidate stays pending
until a quiet frame rejects it (`CandidateDecided`; `docs/vad-and-endpointing.md:114`).
`drop_oldest` and `fail_turn` are accepted as hard-limit policies and implemented
nowhere; `reject_expired` never rejects anything.

*Turns and transcription.* `audio.end_turn` commits a turn and does not tell the
detector: the quiet frames after it are committed again under the same `turn_id`, and
judged by statistics that count the speech committed before (`stream_module.py:762`;
`docs/vad-and-endpointing.md:58`). When `start` fails after the connection is open, or
`_end_call` raises, nothing closes the session (`openai_stt.py:104`,
`stream_module.py:276`).

*Events of a call.* When the browser goes away in the middle of a response, `gather`
ends with the exception of the transport task and leaves the generation running: its
usage follows the barrier, and no manifest has it (`BarrierIsLast`;
`docs/billing.md:35`). Hence `cutOff` in `ManifestIsComplete`.

*Worker.* The workflows are started from what a projection reports as inserted. If the
acknowledgement of its commit is lost, or the worker dies before the start, the events
come again as duplicates and nothing starts the finalization or the adjustment
(`event_worker.py:71`, `:97`; `docs/temporal-workflows.md:34`). `FollowUpsStart` exempts
these very calls by name (`IsLost`), and nothing else of the same batch or call. A
measurement without a price raises, the consumer restarts and fetches the same record, for ever (`projector.py:398`; `docs/events.md:173` describes a
dead-letter path). Hence `Projectable`.

*Billing.* Usage projected between the read of `finalize_call_billing` and its write is in
neither the bill nor an adjustment (`activities.py:646`; `docs/billing.md:43`): `Slipped`
in `FollowUpsStart`. A retry of it rewrites the final record (`:686`;
`docs/temporal-workflows.md:61`) and may count what has its adjustment already, so
`AdjustedIsLate` speaks of the attempts that found no bill. The activities round each
component and the fee to whole cents (`:118`, `:653`) where the projector keeps decimals,
and charge a fixed rate per minute where the projector has the configured one
(`docs/billing.md:60`, `:62`): the two ledgers of an ordinary call differ, and
`LedgersAgree` says by how much at most. A hint ends a wait at once and
counts as a whole one, so seven hints close a bill with warnings
(`durable_workflows.py:283`; `docs/temporal-workflows.md:100`).

*Workflows.* A cancellation that arrives during the last wait of the poll loop is
answered with TIMED_OUT and never sent (`durable_workflows.py:137`). An exhausted create
ends the action FAILED although a cancellation waits for its answer (`:85`). Hence
`OutOfTime` and `Ended` in `CancelIsHonoured`. An answer to a cancellation other than
`cannot_cancel` and `failed` counts as CANCELLED, a mere `accepted` or no status at all
too (`:156`-`:162`): `VerdictIsRight` exempts it by name. So it does what a service that
ignores the idempotency key did again for a retry: an action created twice may go on
after it was cancelled, completed or refused, and one that was refused may be answered
as cancelled the second time (`mock_customer.py:16`, `:34`). A repeated `emit_tool_event` makes a new
event id and is announced twice (`activities.py:365`; `docs/events.md:129`). A write of
the row that timed out may put an old state in place of the last one (`:310`, `:861`).
The row of a webhook attempt is written after its POST, so a POST can be without one
(`:908`; `docs/temporal-workflows.md:46`).

*Delivery.* A row is marked after it was published and may be published again
(`outbox.py:55`; `docs/architecture.md:309` says once, `docs/failure_modes.md:55` at
least once). An outage of ClickHouse that outlasts the retries, half a minute by
default, ends the analytics worker, which nothing starts again
(`analytics/clickhouse/consumer.py:110`; `docs/clickhouse-cloud.md:20` has the consumer
retry later). A record it cannot decode ends it at the same offset every time
(`kafka_consumer.py:126`).

## Proofs

### The queue

Checked by TLAPS for every set of producers, every set of weights, all watermarks
with `Low < High <= Hard` and every capacity:

| Theorem | Statement |
|---|---|
| `TypeCorrect` | `Spec => []TypeOK` |
| `WatermarksHold` | `Spec => []Hysteresis` |
| `DepthIsExact` | `Spec => []DepthIsWeight` |
| `CapacityHolds` | `Spec => []Capacity` |
| `CorkNeverIdle` | `Spec => []CorkedHasWork` |
| `OvershootBounded` | `Spec => []Overshoot` |
| `CallbackAgrees` | `Spec => []ToldMatches` |
| `QueueSound` | `Spec => []Inv`, the invariant of the run: all but the watermarks and the overshoot |
| `QueueIsChannel` | `Spec => ChannelSpec`: the queue implements `OrderedChannel` |
| `RoomForOneEach` | if `Hard` is at least `High` plus the heaviest item once per producer, `Spec => [](q.depth < Hard)` |

Assumptions: the producers are finitely many (so that those past the cork check can
be counted), weights are naturals up to `MaxWeight` (`put` clamps at 0), the
watermarks are ordered (the constructor raises otherwise), the capacity is positive.
`RoomForOneEach` tells an operator when the hard-limit policy can never fire.

The inductive invariant is

    IInv == QInv /\ BypassIsFree /\ Overshoot
    QInv == TypeOK /\ Hysteresis /\ DepthIsWeight /\ Capacity /\ ToldMatches

`Hysteresis` needs nothing but types, because every critical section that changes
the depth ends in `_observe_locked`. `ToldMatches` needs it: a transition is told
only when a flag changes. `CorkedHasWork` follows from it and `DepthIsWeight`: a
corked queue has positive depth, so it has an item. `Overshoot` counts the producers
in `Past`: one enters by passing the cork, when the depth is below `High`; a `put`
spends one of them and adds at most `MaxWeight`; `flush` and `get` lower the depth
only because it is exact (`DepthIsWeight`, through `FlushedSound` and `PoppedSound`);
an item that bypasses the cork is not counted in `Past`, and adds nothing because of
`BypassIsFree`. The first lemmas of the module unfold the loop of `flush` one
position at a time and show that appending, popping and keeping change the weight of
the items by exactly what the code adds to or subtracts from the running depth.

The refinement needs one invariant more, `Serials`: what is queued or was delivered of
a producer is of a put that is over. The channel accepts an item only if it is younger
than all it has of that producer, and nothing but this says so of the item in a
producer's hand. Every step of the queue is then a `Send`, `Receive`, `Discard` or
`Shut` of the channel, or changes nothing the channel has: the waits, the callback and
a `put` that is refused.

### The session

Checked by TLAPS for every number of responses, candidates and messages in flight,
and both kinds of client:

| Theorem | Statement |
|---|---|
| `SessionTypeCorrect` | `SessionSpec => []SessionTypeOK` |
| `SessionShownIsActive` | `SessionSpec => []ShownIsActive` |
| `SessionFenceHolds` | `SessionSpec => []FenceHolds` |
| `SessionCoordinatorFollows` | `SessionSpec => []CoordinatorFollows` |
| `SessionCandidatePending` | `SessionSpec => []CandidatePending` |
| `SessionSound` | `SessionSpec => []SessionInv`: shape and candidates, as the run checks them |
| `SessionResponseAgreed` | `SessionSpec => []ResponseAgreed` |

The inductive invariant adds three parts to the five:

    TurnTaking == SessionTypeOK /\ ShownIsActive /\ FenceHolds /\ CoordinatorFollows
                  /\ CandidatePending /\ Known /\ Named /\ Ordered

`FenceHolds` alone is not inductive: a response about to start must not be cancelled
already, so `Known` says that only started responses are. `CandidatePending` needs the
order of the messages: a stale candidate is marked as decided when it arrives, and it
could be the pending one if the candidates on their way were not all later
(`Ordered`). It also needs the fence. `confirm` without a browser candidate makes one
up whose id may have been decided before; the coordinator is then for a moment
inconsistent, and only because `_cancel_response` never meets a response that is
already cancelled (`FenceHolds`, `ShownIsActive`) and the coordinator follows that
very response (`CoordinatorFollows`) is the candidate always dropped in the same step
(lemma `CancelKeeps`). `Named` says that sounds and pending candidates belong to a
response. The invariant was first checked by TLC on the instance of the run `session`.

### One response

Checked by TLAPS for every number of tokens and chunks, all weights and watermarks of
both queues, and every capacity:

| Theorem | Statement |
|---|---|
| `PipelineIsSound` | `Spec => []Inv` |
| `PipelineSendsInOrder` | `Spec => []SentInOrder` |
| `PipelineDeliversAll` | `Spec => []CompleteDelivery` |
| `PipelineCancelsOnce` | `Spec => []OneCancellation` |
| `PipelineFallsSilent` | `Spec => SilentAfterCancel` |
| `PipelineInvariant` | `Spec => []PipelineInv` |

    PipelineInv == TypeOK /\ Places /\ TextEnds /\ AudioEnds /\ Voicing /\ SentInOrder
                   /\ Sending /\ Cancelling /\ InterruptedIsFinal /\ CompleteDelivery

That a response that ends normally was spoken in full is a statement about its last
state; what carries it is an account of every state before. `Voicing` says where the
tokens are: spoken, in the phrase buffer, in the hand of `tts`, in the queue, or about
to be put by `llm`; as long as the response is active and nothing failed they add up
to what the provider has sent. `Sending` says the same of the chunks, and that they
are numbered through in this order from the socket back to `tts`. Both accounts leave
out an `EndOfStream`, which is why `TextEnds` and `AudioEnds` are needed: nothing
follows one, it is put when the producer is past its loop, and the consumer that took
it left nothing behind. A flush breaks the accounts, but only after the response was
cancelled (`Cancelling`), and a cancelled response is out of all of them. That at most
one callback cancels is not a matter of the queues: two may reach their hard limit at
once, and the response decides (`Cancelling`).

### The call

Checked by TLAPS for every number of turns, chunks and faults, and every set of frames,
thresholds and limits:

| Theorem | Statement |
|---|---|
| `CallManifestIsExact` | `CallSpec => []ManifestIsExact` |
| `CallEndsOnce` | `CallSpec => [](TypeOK /\ NumbersDiffer /\ OneVerdict)` |
| `CallTranscriptIsOwn` | `CallSpec => []TranscriptIsOwn` |
| `CallDetectsTurns` | `CallSpec => []DetectsTurns` |
| `CallAudioIsWhole` | `CallSpec => []AudioIsWhole` |
| `CallInvariant` | `CallSpec => []Inv`, with the types `CallSttTypes` and `CallTurnTypes` |
| `CallEventsInvariant`, `CallSttInvariant`, `CallTurnInvariant` | the three inductive invariants |

    EventsInv == EventsShape /\ Says /\ Course /\ Numbered /\ Published /\ Accounted /\ Verdict
    SttInv    == SttShape /\ Present /\ Awaited /\ TranscriptIsOwn
    TurnInv   == TurnShape /\ Detects(heard, det) /\ StatsOfTurn(heard, det)
                 /\ AudioOfTurns(heard, GivenOf(commits, audio), det, pending)

A manifest is exact in two directions. `Published` is the one: what is expected, or
will be with the next step of its task, is in the log. `Accounted` is the other: what
is in the log is expected, or will be; unless the call is `Doomed`, because a task
raised between its publication and its expectation, and then no barrier comes that
cuts nothing off. `Course` ties the tasks of a response to the main task; it is where
`cutOff` enters.

A transcript carries no name of its turn. `SttInv` follows the audio instead: the
provider holds audio of this turn only (`Present`), and as long as a commit is awaited
there is exactly one transcript of it, being made or on its way, with no delta of the
turn behind it (`Awaited`). The next turn begins only after it was read, or never,
since a commit that timed out ends the call.

The detector has three counters, and the reference for it looks back over everything
that was heard. The bridge is the run the history ends with (`LastRun`): it is unique
and holds every other run that reaches the end (`LastRunIsLongest`), so it alone decides
whether speech is sustained or a pause is long (`RunDecides`), and `Detects` says that
the detector's counters are its duration. A turn after one frame more is then the turn
before it, unless a pause became long, or a new one (`TurnGoesOn`, `BeganNext`), which
is what the four states do. The pause needs care: the first quiet frame of a pause never
ends the turn, however long the frame, in the code as in the reference.
Nothing is assumed of the thresholds: with `vad_min_speech_ms` 0 the first frame of
speech starts a turn, and the theorem covers it.

`AudioOfTurns` says where each frame of a turn went. On trial, the frames kept are
exactly the run (`pending`), and none of them was given; with the frame that starts the
turn they all are, in one span that begins after everything given before (`AddedIs`,
`SpanAdds`). The one frame that may be missing is the one whose samples an earlier frame
of the run has, since `frame not in pending` compares values. Commits move audio and lose
none (`GivenMore`), whether the detector or a message ends the turn.

Durations are sums of the community modules' folds, which choose the order in which they
add. `SumExists` and `SumTakes` show that the order does not matter, by induction on the
size of the set, and `MsMore` that a duration grows by each frame's own. The induction is
`NatSetInduction`, over a set of naturals and not a predicate.

### The workflows

Checked by TLAPS for every number of attempts and faults, poll interval and runtime:

| Theorem | Statement |
|---|---|
| `WorkflowsHonourCancel` | `WorkflowsSpec => []CancelIsHonoured` |
| `WorkflowsVerdict` | `WorkflowsSpec => []VerdictIsRight` |
| `WorkflowsInv` | `WorkflowsSpec => []Inv` |
| `ActionHonoursCancel` | the cancellation, for the action's own specification |

    ActionInv  == Place /\ Shape /\ Honest /\ Answers /\ Heeded /\ Written /\ Retries
    WebhookInv == DeliveryShape /\ ExecutionsFit /\ DeliveryHonest /\ DeliveryWritten
                  /\ PostsAreCounted

The properties speak of the last state of a workflow, the invariants of every point on
the way. `Place` says which state goes with which place in `run()`; `Honest`, what a
workflow that was told something knows of the service today, when the service may have
gone on; `Answers`, that an answer is there only for the activity that asked;
`Retries`, that without a fault every request was sent once and is on its way only
while its activity waits; `Heeded`, that a cancellation that came early is never polled past and that
one that came in time meets another look; `Written`, that the row and the event are
there once a transition is over, or that a late write has replaced the row. For the
webhook, `DeliveryWritten` has the row of every attempt that is over, and
`PostsAreCounted` bounds the POSTs by attempts and faults: an execution that was given
up and still runs may POST once more, and it is counted while it may.

### Delivery

Checked by TLAPS for every number of rows, publishers, events and faults, every batch
size and limit of the retries:

| Theorem | Statement |
|---|---|
| `DeliveryAtLeastOnce` | `DeliverySpec => []AtLeastOnce` |
| `DeliveryOnlyFaults` | `DeliverySpec => []OnlyFaultsDisturb` |

    AnalyticsInv == AnalyticsTypes /\ BatchInHand /\ StoredBehind /\ RowsExplained
    OutboxInv    == OutboxTypes /\ ClockPaid /\ Held /\ Repeats /\ InOrder

The analytics worker: the batch in memory is that of the events behind the committed
offset, and an insert has all of it (`BatchInHand`; the buffer never flushes a part,
because a batch has at most `clickhouse_batch_max_rows` events, which is the
assumption `BatchSize <= MaxRows`: both are set from it). What is committed, or done
and about to be, is stored (`StoredBehind`), and an event has as many rows as faults
met it, and one more once an attempt counts (`RowsExplained`).

The outbox: what is marked, or about to be, Kafka has taken (`Held`). `Repeats` counts:
until a row is marked it is in Kafka once for each fault that met it and for each
publisher between its send and its mark (`Marking`); from then on each of the other
publishers that has it in its batch may add one (`Due`). `InOrder` says of every place
a row can be in, topic or batch, that an older row that no fault met is before it: a
publisher fetches the oldest rows, and what it does not fetch was marked.
`ClockPaid` bounds the clock by the steps of the rows.

### The event worker

Checked by TLAPS for any finite set of topics that has the three the session publishes
to, every batch size, every script and any number of replays, failed attempts, lost
answers, crashes and attempts of the bill:

| Theorem | Statement |
|---|---|
| `WorkerIsLedger` | `Spec => IsLedger`: the worker implements `UsageLedger` |
| `CaughtUpCalls` | `Spec => []CaughtUpIsComplete` |
| `FollowUpsAreStarted` | `Spec => []FollowUpsStart` |
| `WorkerSafe` | `Spec => []Inv`: types, `CommittedIsProjected`, `AdjustedIsLate` |
| `WorkerInvariant` | `Spec => []WInv` |
| `BooksBalance` | `Spec => []Balanced(db)` |

    WInv == Shapes /\ TypeOK /\ Logged /\ Published /\ Sound(db)
            /\ InOrder(db, consumer.buffer) /\ Covered /\ Stored /\ CommittedIsProjected
            /\ NoticesTell /\ AdjustsLate /\ AdjustedIsLate
            /\ BillingAsked /\ UsageAsked /\ EndedIsBilled /\ LateFollows /\ BillsTell

An offset says how far a consumer has read, and the rows say what was projected; the
two agree only through the batch in memory. `Covered`: what lies below the consumer's
position is in Postgres or in the batch; `Stored`: from the transaction on, all of the
batch is in Postgres; so the commit writes an offset below which everything is. A crash
throws the batch away and the position with it, and `CommittedIsProjected` is what the
next consumer starts from.

That a manifest is complete is decided when the barrier is projected, not when it is
read, and rests on order. `Logged` says that a partition has the session's events in the
order of the script, with repetitions and notices between; `InOrder`, that a batch has
the records of a topic in the order of their offsets and everything before the first of
them is in Postgres. So a barrier is projected when all before it is (`Ripe`), its
expectations name only usage before it, and `Sound` says of the rows that a stored key
has its records and each record its normalized row (`UsageCounted`, `RowPair`). What the
barrier leaves, `ExpectedMet` and `ManifestBehind`, nothing takes away.

The follow-ups need the calls that are still to be made or that nobody will make any more
(`Due`): an event in Postgres has its workflow, or a call in `consumer.todo` will start it,
or it is in `lost` (`BillingAsked`, `UsageAsked`). A commit is made when `todo` is empty, so
what is missing behind an offset is lost.

The bill is read at one moment and written at another, by any of its attempts, and
`LateIsAdjusted` speaks of the bill that is there now. `LateFollows` says the same without
it: committed usage was in Postgres before the first bill, or has its adjustment, or its
call is lost. `BillsTell` makes the one of the other: the bill is that of an attempt; if the
attempt found a bill when it read, it read all that was there before the first one, and if
it found none, what it missed of that has slipped by definition. For `AdjustedIsLate` the same
part says that what an attempt has read has its key stored, and an event whose key is stored
is a duplicate from then on, for which nothing is asked. So the events for which an adjustment
is asked once there is a bill are in no attempt that read before (`AdjustsLate`).

The first lemmas are about loops: `FetchedIs`, what a poll puts together from the topics;
`OneProjects` and `BatchProjects`, what a transaction makes of the rows and of its result,
one event at a time, since the calls are made of the result (`TodoIs`).

The refinement needs sums. The rollup is incremented per measurement, the cost is the sum
over the records, and the ledger has the sum over the counted events of what each adds
over its measurements: three sums over three kinds of things. `MapThenSumSet` is a fold
whose function is not given but chosen, so `SumLoopDef` first shows that there is one
(by the number of elements), `LoopsAgree` that the sum over a set is the same inside a
larger one, and `SumMore` that one element more adds its amount. Then `Entered` says after
each measurement how far the three are, `EventEnters` after a whole event, and `Ledgered`
after each step of a batch (`BatchLedger`):

    Ledgered(d) == Booked(d) /\ IsFiniteSet(CountedIn(d)) /\ Balanced(d)
    Balanced(d) == /\ d.billing.cost = TotalCost(d.records)
                   /\ TotalCost(d.records) = SumFn(Adds("cost"), CountedIn(d))
                   /\ \A c \in RollupColumns : d.rollup[c] = SumFn(Adds(c), CountedIn(d))

It depends on `WInv`: the record and the rollup of a measurement are written by different
rules, the one unless there is a record of the event and the type, the other in any case.
They agree because an event whose key is not stored has no record (`RecordsKeyed` in
`Sound`) and measures a type once. Keys are never forgotten, so the events that a step adds
are those that the ledger counts in that step.

Assumptions (`WorkerAssumption`, `PlansAssumption`): the session publishes usage with
at least one measurement, and each type once in an event (as the three emissions of
`stream_module.py` list them), on one topic with the barrier, and expects only usage it
has published before (`_expect_usage` is called after the publication; the theorem
`CallManifestIsExact` says so of the session) and under the names the session has for
it (`ExpectedNames`; the lemma `NamesAgree` shows that the projector normalizes to the
same); equal keys or ids mean equal events, whichever the script, and the key of a notice
is nobody else's.

### The transactions

Checked by TLAPS for every number of workers and faults, and every plan of what they
fetch:

| Theorem | Statement |
|---|---|
| `TransactionsSum` | `Spec => []SumsAreRight` |
| `TransactionsNeverGoBack` | `Spec => NeverGoesBack` |
| `TransactionsAreSound` | `Spec => []Inv`: shape and row locks, `WatermarkMeansProjected` |
| `TransactionsInvariant` | `Spec => []TxInv` |

    TxInv    == Shape /\ Stored /\ \A w \in Workers : Sound(w)
    Sound(w) == Placed(w) /\ RowsOK(mine[w]) /\ Keyed(w) /\ Projected(w)
                /\ InOrder(Visible(w)) /\ Marked(w) /\ Counted(w) /\ Priced(w) /\ Judged(w)

The properties speak of the committed rows (`Stored`); `Sound` says the same of what each
open transaction sees and has done so far, so that a commit has nothing left to show. What
has to be shown is that the statements of one transaction, and its commit, leave the others
sound. `Shape` has the reason: no row is in two open transactions.

That is enough for the rollup: it is incremented from what the transaction sees, and who adds
a record has the rollup of the call until the commit, so nobody else's record comes between
(`Counted`, lemma `SumOver` and those before it, by induction on the number of rows). It is
not enough for the cost, which `SumRecords` reads and `WriteCost` writes after a wait in which
others commit. `Priced` says why the sum is still right. An event of usage comes to the sum
with the rollup in its hands, and then no other transaction adds a record. `call.ended` and
`call.failed` come without the rollup, but `CloseBill` has taken the bill; who adds a record
must write the bill after it and before the commit, so cannot have committed since.

The order of the log gives the rest. A worker has everything before its batch in Postgres, and
everything before its event in Postgres or in its transaction (`Projected`), so an event is
never there without all before it in its topic (`InOrder`): `Marked` follows, and so does the
verdict. `_project_call` sets `STARTED` without a look at the row, and only because
`call.started` is before `call.failed` in the same partition, and is projected once (`Keyed`),
does it never take a failure back (`Judged`).

Assumptions: `TransactionsAssumption` gives the plans their shape. `LogAssumption` is what
Kafka and the session promise: a key names one event; `call.started` is in the partition of the
call's other lifecycle events and before them; a consumer fetches a topic in the order of its
offsets, from the first that is not committed, so in a plan, which tells everything since the
topics began, everything before an event it fetches has been fetched by it or, after a
rebalance, again. The same owner may fetch an event any number of times, and any number of
workers may have the same partition: that is what the plans of the run do.

### The bill

Checked by TLAPS for every content of the two topics, every catalog of prices and any
number of attempts:

| Theorem | Statement |
|---|---|
| `FinalizedIsComplete` | `Spec => []ReadyIsComplete` |
| `BillInvariant` | `Spec => []BillInv` |
| `LedgersOfACallAgree` | `Spec => []Inv`: types, `LedgersAgree`, whatever the two rates |
| `LedgerInvariant` | `Spec => []LedgerInv` |
| `AdjustmentsKeepUp` | `Spec => []AdjustmentsAreCurrent` |
| `AdjustInvariant` | `Spec => []AdjustInv` |

    BillInv == Places /\ RecordedBehind /\ KeysBehind /\ ManifestBehind /\ Shapes
               /\ AttemptsComplete /\ ReadyIsComplete

The readiness is found by four statements, and the bill written by others, on a later
snapshot, perhaps by an attempt that was started again. `ManifestBehind` carries it
from the one to the other: a manifest that anybody has seen means that the barrier is
behind the projector, for good. Usage and barrier are in one partition, so what the
session published before the barrier is behind the projector too, and has its records
(`RecordedBehind`). A duplicate is not projected, so that step needs `KeysBehind`: its
key was left by an equal event of the same topic, whose records are there. What an
attempt reads from then on is complete (`AttemptsComplete`), and so is what it writes.

The first part of the module says what the projection of one event does (`OneProjects`):
it takes no record away, leaves a record of an event it measures, and touches neither
the final bill nor, for all but a barrier, the manifest. The loops over measurements
and batches are folds; `RecordUnfold` and `BatchOfOne` take them one step at a time.

    LedgerInv == TypeOK /\ Totals(db) /\ IsCall(db) /\ RecordsKeyed /\ AttemptsAgree
                 /\ FinalAgrees /\ TodoTells /\ Course

Two programs add up the same call: the projector recomputes `call_billing` with every
event (`Totals`), the finalization reads the records, then the duration, rounds what they
come to and writes the sum an unbounded time later. `Snapshot` says what becomes of the
first read: unless records of other events have come since, its cents are still those of
the records. It is kept because a new event adds records under a new id only: one that has
records has its key in Postgres (`RecordsKeyed`), and is not projected again. The second
read is of a fee that no longer changes: a workflow starts because the end of the call was
projected (`TodoTells`, `Course`, `EndKeyed`), which sets the duration and the timestamps,
and a call ends once. So a record that counts all there is has the rounded cost of the
records and the rounded fee (`FinalAgrees`).

How far that is from the projector's total is arithmetic (`InvLedgers`). `Near` says that
`cents()` is off by half a cent at most, from what division leaves (`Division`), and
`RoundedNear` that four of them are off by two cents. The four components must be all there
is: `ComponentsAreAll` shows that their costs add up to that of all records, one record at a
time (`CostInMore`), since `Component` gives each record one of the four. Nothing is assumed
of the two rates: `LedgersAgree` replaces the projector's fee by one at the rate of the
activities, and what is left is the rounding of five amounts. With the rates equal and a
duration reported, it is a statement about the two totals themselves.

    AdjustInv == Costed /\ KeyedBehind /\ StartedKnown /\ AdjustShapes
                 /\ CountsWithin /\ InsertedBehind /\ SomeCurrent

An adjustment reads the charges of a moment and writes them later, while the projector
goes on and other adjustments do the same; its answer may be lost and it starts again.
What it has written must include its own event and all usage before it in the log, and
when all is at rest the largest of the rows must be the charges. Three things carry this.
The records cost in each component what the projected usage costs in it, each event once
(`Costed`; `Charged` is what one event adds, `OwedIsRounded` gives the rounded sums over events
the form the property has). An adjustment has started only once there is a final bill, and then
the duration no longer changes and the charges only grow, also after rounding, which keeps the
order (`Mono`, `RoundedMono`), so what was read stays between the rounded cost of the
usage up to its event and the charges of now (`CountsWithin`): the event and what precedes
its first occurrence in the log were projected before the adjustment started
(`UpToProjected`). And one adjustment, perhaps not yet finished, misses nothing
(`SomeCurrent`): a new usage event that changes the charges is followed by the call that
starts an adjustment of its own (`TodoOfLate`), which has not read yet (`ProjectAdjust`);
one that reads counts all there is (`MoveAdjust`); and nothing else moves the charges
(`CalmAdjust`). It is named by no variable: any step may pass the part to another.

Assumptions (`PlansAssumption`): the type of an event decides its topic; usage comes
with measurements of types the catalog has (without a price the projection raises, the
partition stops, and nothing later is projected), and of a type once, as each of the
three places in `stream_module.py` that publish usage lists them; the barrier is once in
the log, since a session emits it once through an idempotent producer; equal keys or ids
mean equal events, which may be in the log again; a call ends once and then does not also
fail, which `CallEndsOnce` says of the session (`_end_call` returns when `_failed` is set, and
the only other writer of a failed call, `CallWorkflow`, is started by nothing); duration and
span are naturals, and the rate of the activities is positive, so that a cent is more than
nothing (`ActivityRateAssumption`).

### Only model-checked

Liveness, of every run, is out of the prover's reach: it needs ENABLED.

## Not modelled, and why

- **Metrics, tracing, logging** decide nothing.
- **LLM and TTS adapters** are single HTTP streams without state between calls; the
  models have what they may do: yield, end, hang, raise.
- **API, authentication, agents, tool configuration**: handlers of one or two
  statements over Postgres. What they start (a cancellation, a replay, a durable
  action) is an action of the module it starts something in.
- **`ToolExecutor`, synchronous path**: one sequential method without state.
- **`CallWorkflow`, `CallCompletionWorkflow`, `start_webhook_delivery`,
  `flush_if_due`**: called by nothing.
- **Dashboard**, besides the demo call: it displays.
- **Failure injection** and **configuration**: what can be injected is among the faults
  of the models; thresholds and limits are their constants.
- **Schema and repository**, besides `_retry`, the unique keys and the outbox: single
  statements.
- **Floats and decimals**: weights, durations and money are naturals in the models, so that
  only the rounding of the bill to cents is covered, and no other: quantities times prices
  and the projector's fee are exact.
- **Columns of the bill**: an upsert keeps `telephony_cost_cents` of the first write and
  replaces the total (`activities.py:686`); no usage of that component is published. The models
  have the total only.
- **Classifiers** under the turn detector (webrtcvad, energy): their answer is an input.

## Plan

The models of the table are written, their safety and liveness properties are checked,
and every safety property that holds is proved, of the components as the table of proof
modules has them. What a next step would be:

1. The liveness properties, when the prover has ENABLED.
2. What is exempted by name in `FollowUpsStart`, `VerdictIsRight` and `CancelIsHonoured`,
   checked without the exemption once the code has been changed there.
