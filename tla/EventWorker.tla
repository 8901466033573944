------------------------------ MODULE EventWorker -------------------------------
(* The event worker: a Kafka consumer that buffers records into batches, one    *)
(* Postgres transaction per batch, then the calls to Temporal and Kafka that    *)
(* the result asks for, then the commit of the offsets. The session publishes   *)
(* its events in order; anything may be delivered again: a replay of an event,  *)
(* a retry of a transaction whose acknowledgement was lost, a batch whose       *)
(* offsets were not committed when the worker failed.                           *)
EXTENDS Projection

CONSTANTS
  Topic,          \* the topics the worker subscribes to, one partition each
  BatchSize,      \* kafka_consumer_batch_size
  Plans           \* what may happen, a set of records: the script of the session, a
                  \* sequence of [topic, event], and the bounds on what goes wrong

Attempts == 3     \* the attempts of PostgresRepository._retry

ASSUME WorkerAssumption ==
  /\ BatchSize \in Nat \ {0}
  /\ IsFiniteSet(Topic) /\ {"call-events", "usage-events", "pipeline-events"} \subseteq Topic
  /\ \A p \in Plans :
       /\ \A i \in DOMAIN p.script : p.script[i].topic \in Topic
       /\ {p.replays, p.dbFailures, p.unanswered, p.crashes, p.bills} \subseteq Nat

IsMetered(e) == IsUsage(e) /\ ~IsBarrier(e)

(* What the session adds to its expectations when it has published the usage u: *)
(* names of its own, one for each kind of measurement in a stage.               *)
ExpectedNames ==
  {<<"stt", "audio_minute", "stt_audio_seconds">>,
   <<"llm", "input_token", "llm_input_tokens">>, <<"llm", "output_token", "llm_output_tokens">>,
   <<"tts", "input_text_token", "tts_characters">>,
   <<"tts", "output_audio_token", "tts_audio_seconds">>}

ExpectedOf(u) ==
  {<<u.turn, n[3]>> : n \in
     {x \in ExpectedNames : x[1] = u.stage /\ \E m \in DOMAIN u.measurements :
                             x[2] = u.measurements[m].type}}

(* What a session publishes: usage with its measurements, one of each type, on  *)
(* one topic with the barriers, which expect no other usage than what was       *)
(* published before. Keys and ids tell events apart, in whichever plan they are,*)
(* and no key is that of a notice.                                              *)
ASSUME PlansAssumption ==
  /\ \A p \in Plans :
       /\ Len(p.script) \in Nat /\ DOMAIN p.script = 1..Len(p.script)
       /\ \A i \in 1..Len(p.script) :
            LET e == p.script[i].event
            IN  /\ Len(e.measurements) \in Nat /\ DOMAIN e.measurements = 1..Len(e.measurements)
                /\ IsMetered(e) =>
                     /\ Len(e.measurements) > 0
                     /\ \A m, n \in DOMAIN e.measurements :
                          /\ e.measurements[m].qty \in Nat
                          /\ e.measurements[m].type = e.measurements[n].type => m = n
                /\ IsBarrier(e) =>
                     /\ p.script[i].topic = "usage-events"
                     /\ \A x \in e.expected : \E j \in 1..(i - 1) :
                          /\ p.script[j].topic = "usage-events"
                          /\ IsMetered(p.script[j].event)
                          /\ x \in ExpectedOf(p.script[j].event)
  /\ \A p, q \in Plans : \A i \in 1..Len(p.script), j \in 1..Len(q.script) :
       LET e == p.script[i].event
           f == q.script[j].event
       IN  /\ e.key = f.key \/ e.id = f.id => e = f
           /\ e.key # <<"duplicate", f.id>>

VARIABLES
  plan,           \* the plan of this behaviour
  sent,           \* how much of the script the session has published
  log,            \* the Kafka partitions: topic -> sequence of events
  committed,      \* the consumer group's offsets, in Kafka
  consumer,       \* [phase, position, buffer, attempt, todo]: one incarnation
  db,             \* the rows of the call in Postgres
  temporal,       \* [billing, ended, hinted, adjusting]: what Temporal was told
  bills,          \* the attempts of finalize_call_billing, in the order of their reads:
                  \* [read, open, written]
  before,         \* the events with records when the bill was first written
  lost,           \* the calls that no consumer will make any more
  replays, dbFailures, unanswered, crashes

session  == <<plan, sent, log>>
billing  == <<bills, before>>
budgets  == <<replays, dbFailures, unanswered, crashes>>
vars     == <<session, committed, consumer, db, temporal, billing, lost, budgets>>

Script         == plan.script       \* what the session publishes
MaxReplays     == plan.replays      \* bound: events published again (the replay route)
MaxDbFailures  == plan.dbFailures   \* bound: attempts of a transaction that fail
MaxUnanswered  == plan.unanswered   \* bound: commits whose acknowledgement is lost
MaxCrashes     == plan.crashes      \* bound: exceptions and crashes that end a consumer
MaxBills       == plan.bills        \* bound: attempts of the activity that writes the bill

Stopped == [phase |-> "stopped", position |-> [t \in Topic |-> 0], buffer |-> <<>>,
            attempt |-> 0, todo |-> <<>>]

Init ==
  /\ plan \in Plans
  /\ sent = 0
  /\ log = [t \in Topic |-> <<>>]
  /\ committed = [t \in Topic |-> 0]
  /\ consumer = Stopped
  /\ db = EmptyDb
  /\ temporal = [billing |-> FALSE, ended |-> FALSE, hinted |-> FALSE, adjusting |-> {}]
  /\ bills = <<>> /\ before = {} /\ lost = {}
  /\ replays = 0 /\ dbFailures = 0 /\ unanswered = 0 /\ crashes = 0

--------------------------------------------------------------------------------
(* The session: emit awaits each publication before the next one.               *)
Publish ==
  /\ sent < Len(Script)
  /\ sent' = sent + 1
  /\ log' = [log EXCEPT ![Script[sent + 1].topic] = Append(@, Script[sent + 1].event)]
  /\ UNCHANGED <<plan, committed, consumer, db, temporal, billing, lost, budgets>>

(* The replay route publishes the last persisted event again, with its id and   *)
(* its key.                                                                     *)
Replay ==
  /\ replays < MaxReplays
  /\ \E i \in 1..sent :
       /\ Script[i].event.id \in db.timeline
       /\ log' = [log EXCEPT ![Script[i].topic] = Append(@, Script[i].event)]
  /\ replays' = replays + 1
  /\ UNCHANGED <<plan, sent, committed, consumer, db, temporal, billing, lost, dbFailures,
                 unanswered, crashes>>

--------------------------------------------------------------------------------
(* Mutant of Start: auto_offset_reset is latest and the offsets are ignored.    *)
StartLatest ==
  /\ consumer.phase = "stopped"
  /\ consumer' = [Stopped EXCEPT !.phase = "polling", !.position = [t \in Topic |-> Len(log[t])]]
  /\ UNCHANGED <<session, committed, db, temporal, billing, lost, budgets>>

(* run_worker's loop makes a new consumer, which starts at the group's offsets. *)
Start ==
  /\ consumer.phase = "stopped"
  /\ consumer' = [Stopped EXCEPT !.phase = "polling", !.position = committed]
  /\ UNCHANGED <<session, committed, db, temporal, billing, lost, budgets>>

(* The records a poll may return: some of each topic, in an order of topics     *)
(* that the client picks.                                                       *)
Fetched(count, order) ==
  FlattenSeq([i \in DOMAIN order |->
    [k \in 1..count[order[i]] |->
       [topic  |-> order[i],
        offset |-> consumer.position[order[i]] + k - 1,
        event  |-> log[order[i]][consumer.position[order[i]] + k]]]])

Fetches ==
  {count \in [Topic -> 0..(BatchSize - Len(consumer.buffer))] :
     /\ \A t \in Topic : consumer.position[t] + count[t] <= Len(log[t])
     /\ MapThenSumSet(LAMBDA t : count[t], Topic) <= BatchSize - Len(consumer.buffer)}

Decodes(items) == \A i \in DOMAIN items : items[i].event.type # "malformed"

(* Mutant of Poll: the new records replace the buffered ones.                   *)
PollForgetting ==
  /\ consumer.phase = "polling"
  /\ \E count \in Fetches : \E order \in SetToSeqs({t \in Topic : count[t] > 0}) :
     \E timedOut \in BOOLEAN :
       LET items == Fetched(count, order)
       IN  /\ items # <<>>
           /\ Decodes(items)
           /\ consumer' = [consumer EXCEPT
                !.position = [t \in Topic |-> @[t] + count[t]],
                !.buffer   = items,
                !.phase    = IF timedOut THEN "projecting" ELSE "polling"]
  /\ UNCHANGED <<session, committed, db, temporal, billing, lost, budgets>>

(* A batch is due when this poll brought a barrier, when the batch is full or   *)
(* when its time is up; a record that does not decode ends the consumer.        *)
Poll ==
  /\ consumer.phase = "polling"
  /\ \E count \in Fetches : \E order \in SetToSeqs({t \in Topic : count[t] > 0}) :
     \E timedOut \in BOOLEAN :
       LET items  == Fetched(count, order)
           buffer == consumer.buffer \o items
           due    == \/ \E i \in DOMAIN items : IsBarrier(items[i].event)
                     \/ timedOut
                     \/ Len(buffer) >= BatchSize
       IN  /\ buffer # <<>>
           /\ items # <<>> \/ timedOut
           /\ Decodes(items)
           /\ consumer' = [consumer EXCEPT
                !.position = [t \in Topic |-> @[t] + count[t]],
                !.buffer   = buffer,
                !.phase    = IF due THEN "projecting" ELSE "polling"]
  /\ UNCHANGED <<session, committed, db, temporal, billing, lost, budgets>>

(* _decode_records raises; run's finally stops the consumer and the loop of     *)
(* run_worker starts another one a second later.                                *)
PollPoison ==
  /\ consumer.phase = "polling"
  /\ Len(consumer.buffer) < BatchSize
  /\ \E t \in Topic :
       /\ consumer.position[t] < Len(log[t])
       /\ log[t][consumer.position[t] + 1].type = "malformed"
  /\ consumer' = Stopped
  /\ UNCHANGED <<session, committed, db, temporal, billing, lost, budgets>>

--------------------------------------------------------------------------------
(* The notice of a duplicate: a new event, with a key of the duplicate's.       *)
Notice(e) ==
  [id |-> <<"notice", e.id, Len(log["pipeline-events"])>>, key |-> <<"duplicate", e.id>>,
   type |-> "duplicate_event.ignored", turn |-> e.turn, stage |-> "idempotency",
   measurements |-> <<>>, expected |-> {}, duration |-> 0]

Projected == ProjectBatch(db, consumer.buffer)

(* The transaction commits and the worker learns its result.                    *)
Project ==
  /\ consumer.phase = "projecting"
  /\ ~BatchRaises(db, consumer.buffer)
  /\ db' = Projected.db
  /\ consumer' = [consumer EXCEPT !.phase = "handling", !.attempt = 0,
                                          !.todo = Todo(Projected.result)]
  /\ UNCHANGED <<session, committed, temporal, billing, lost, budgets>>

(* A PostgresError, OSError or TimeoutError: _retry tries again, and raises     *)
(* after the third attempt.                                                     *)
AfterFailure ==
  IF consumer.attempt + 1 < Attempts
  THEN [consumer EXCEPT !.attempt = @ + 1]
  ELSE Stopped

(* The transaction did not commit.                                              *)
ProjectFails ==
  /\ consumer.phase = "projecting"
  /\ dbFailures < MaxDbFailures
  /\ dbFailures' = dbFailures + 1
  /\ consumer' = AfterFailure
  /\ UNCHANGED <<session, committed, db, temporal, billing, lost, replays, unanswered, crashes>>

(* The transaction committed and the connection was lost before the answer: the *)
(* next attempt finds every key in the table, and asks for none of the calls    *)
(* that this one would have.                                                    *)
CommitUnanswered ==
  /\ consumer.phase = "projecting"
  /\ ~BatchRaises(db, consumer.buffer)
  /\ unanswered < MaxUnanswered
  /\ unanswered' = unanswered + 1
  /\ db' = Projected.db
  /\ lost' = lost \cup ToSet(Todo(Projected.result))
  /\ consumer' = AfterFailure
  /\ UNCHANGED <<session, committed, temporal, billing, replays, dbFailures, crashes>>

(* A ValueError is not retried: the batch rolls back and the consumer ends.     *)
ProjectRaises ==
  /\ consumer.phase = "projecting"
  /\ BatchRaises(db, consumer.buffer)
  /\ consumer' = Stopped
  /\ UNCHANGED <<session, committed, db, temporal, billing, lost, budgets>>

--------------------------------------------------------------------------------
Calling(kind) ==
  /\ consumer.phase = "handling"
  /\ consumer.todo # <<>>
  /\ Head(consumer.todo).kind = kind
  /\ consumer' = [consumer EXCEPT !.todo = Tail(@)]

(* start_billing_finalization: a second start of the same id is ignored.        *)
StartBilling ==
  /\ Calling("start")
  /\ temporal' = [temporal EXCEPT !.billing = TRUE]
  /\ UNCHANGED <<session, committed, db, billing, lost, budgets>>

SignalEnded ==
  /\ Calling("ended")
  /\ temporal' = [temporal EXCEPT !.ended = TRUE]
  /\ UNCHANGED <<session, committed, db, billing, lost, budgets>>

(* signal_usage_projection swallows its failure: without a workflow there is    *)
(* nobody to hint.                                                              *)
HintUsage ==
  /\ Calling("hint")
  /\ temporal' = [temporal EXCEPT !.hinted = @ \/ temporal.billing]
  /\ UNCHANGED <<session, committed, db, billing, lost, budgets>>

StartAdjustment ==
  /\ Calling("adjust")
  /\ temporal' = [temporal EXCEPT !.adjusting = @ \cup {Head(consumer.todo).event.id}]
  /\ UNCHANGED <<session, committed, db, billing, lost, budgets>>

PublishNotice ==
  /\ Calling("notice")
  /\ log' = [log EXCEPT !["pipeline-events"] = Append(@, Notice(Head(consumer.todo).event))]
  /\ UNCHANGED <<plan, sent, committed, db, temporal, billing, lost, budgets>>

(* Mutant of Commit: before the calls that follow the projection.               *)
CommitEarly ==
  /\ consumer.phase = "handling"
  /\ committed' = consumer.position
  /\ consumer' = [consumer EXCEPT !.phase = IF consumer.todo = <<>> THEN "polling" ELSE @,
                                  !.buffer = IF consumer.todo = <<>> THEN <<>> ELSE @]
  /\ UNCHANGED <<session, db, temporal, billing, lost, budgets>>

(* _commit_batch: the highest offset of each topic of the batch, plus one.      *)
Commit ==
  /\ consumer.phase = "handling"
  /\ consumer.todo = <<>>
  /\ committed' = [t \in Topic |->
       LET ends == {consumer.buffer[i].offset + 1 :
                      i \in {j \in DOMAIN consumer.buffer : consumer.buffer[j].topic = t}}
       IN  IF ends = {} THEN committed[t] ELSE Max(ends)]
  /\ consumer' = [consumer EXCEPT !.phase = "polling", !.buffer = <<>>]
  /\ UNCHANGED <<session, db, temporal, billing, lost, budgets>>

(* The process dies, a call to Temporal or Kafka raises, or the commit of the   *)
(* offsets is refused: what the consumer held in memory is gone.                *)
Crash ==
  /\ crashes < MaxCrashes
  /\ consumer.phase # "stopped"
  /\ crashes' = crashes + 1
  /\ lost' = lost \cup ToSet(consumer.todo)
  /\ consumer' = Stopped
  /\ UNCHANGED <<session, committed, db, temporal, billing, replays, dbFailures, unanswered>>

(* finalize_call_billing, run by the finalization workflow some time after its  *)
(* start (BillingFinalization has the detail): an attempt raises without a row  *)
(* of calls, and reads the records in a statement of its own.                   *)
ReadBill ==
  /\ temporal.billing
  /\ db.call.status # "absent"
  /\ Len(bills) < MaxBills
  /\ bills' = Append(bills, [read    |-> {r.event : r \in db.records},
                            open    |-> db.final = NoFinal,
                            written |-> FALSE])
  /\ UNCHANGED <<session, committed, consumer, db, temporal, before, lost, budgets>>

(* The upsert of an attempt: a retry writes the row again, and an attempt that  *)
(* was given up may still write after its retry.                                *)
WriteBill ==
  /\ \E i \in DOMAIN bills :
       /\ ~bills[i].written
       /\ db' = [db EXCEPT !.final = [status |-> "FINALIZED", counted |-> bills[i].read]]
       /\ bills' = [bills EXCEPT ![i].written = TRUE]
  /\ before' = IF db.final = NoFinal THEN {r.event : r \in db.records} ELSE before
  /\ UNCHANGED <<session, committed, consumer, temporal, lost, budgets>>

Worker ==
  \/ Start \/ Poll \/ PollPoison
  \/ Project \/ ProjectRaises
  \/ StartBilling \/ SignalEnded \/ HintUsage \/ StartAdjustment \/ PublishNotice
  \/ Commit

Next ==
  \/ Publish \/ Replay
  \/ Worker
  \/ ProjectFails \/ CommitUnanswered \/ Crash
  \/ ReadBill \/ WriteBill

Spec == Init /\ [][Next]_vars

(* The worker has something to do: start a consumer, fetch, finish a batch.     *)
(* It is ENABLED Worker, written out because TLC takes long to evaluate ENABLED *)
(* of a whole transaction.                                                      *)
HasWork ==
  \/ consumer.phase # "polling"
  \/ consumer.buffer # <<>>
  \/ \E t \in Topic : consumer.position[t] < Len(log[t])

(* The session publishes and the worker's loop runs (the second conjunct is     *)
(* WF_vars(Worker)); failures are bounded and never owed.                       *)
FairSpec ==
  /\ Spec
  /\ WF_vars(Publish)
  /\ []<>~HasWork \/ []<><<Worker>>_vars

--------------------------------------------------------------------------------
(* Every variable has its type: offsets are within the logs, and the consumer   *)
(* holds a batch exactly between a poll and the commit.                         *)
TypeOK ==
  /\ sent \in 0..Len(Script)
  /\ \A t \in Topic : consumer.position[t] <= Len(log[t]) /\ committed[t] <= Len(log[t])
  /\ consumer.phase \in {"stopped", "polling", "projecting", "handling"}
  /\ consumer.phase \in {"projecting", "handling"} => consumer.buffer # <<>>
  /\ consumer.phase # "handling" => consumer.todo = <<>>
  /\ consumer.attempt \in 0..Attempts
  /\ temporal.billing \in BOOLEAN /\ temporal.ended \in BOOLEAN

(* The measured usage of the scripts, and what one event adds to each sum.      *)
Measured ==
  {e \in UNION {{p.script[i].event : i \in DOMAIN p.script} : p \in Plans} :
     IsUsage(e) /\ ~IsBarrier(e) /\ Priced(e)}

AddedBy(e, column) ==
  MapThenSumSet(
    LAMBDA i : LET m == e.measurements[i] IN
                 IF column = "cost" THEN m.qty * UnitPrice[m.type]
                 ELSE IF Normalized(m.type, e.stage) = column THEN m.qty ELSE 0,
    DOMAIN e.measurements)

Columns == RollupColumns \cup {"cost"}

Ledger == INSTANCE UsageLedger WITH
  Counted <- Measured,
  Column  <- Columns,
  Amount  <- [e \in Measured |-> [c \in Columns |-> AddedBy(e, c)]],
  counted <- {e \in Measured : e.key \in db.keys},
  sums    <- [c \in Columns |-> IF c = "cost" THEN db.billing.cost ELSE db.rollup[c]]

(* Replays, retried transactions and redelivered batches count nothing twice    *)
(* and lose nothing: the rollup, incremented per measurement, and the cost,     *)
(* recomputed per event, are at every moment the sums over the events whose     *)
(* keys are stored.                                                             *)
IsLedger == Ledger!Spec

(* Offsets are committed only past events that are in Postgres.                 *)
CommittedIsProjected ==
  \A t \in Topic : \A k \in 1..committed[t] : log[t][k].key \in db.keys

(* What load_billing_readiness relies on: once the watermark has reached the    *)
(* barrier's offset, every usage event the session published before the barrier *)
(* is projected, and every <<turn, usage type>> the manifest expects has its    *)
(* row under the normalized name.                                               *)
CaughtUpIsComplete ==
  LET m == db.manifest
      t == "usage-events"
  IN  (m # NoManifest /\ t \in DOMAIN db.watermark /\ db.watermark[t] >= m.offset) =>
        /\ \A k \in 1..m.offset : log[t][k].key \in db.keys
        /\ \A x \in db.expectations : \E u \in db.usage : <<u.turn, u.norm>> = x

(* A call that a failure took away, after the transaction that asked for it and *)
(* before it was made: the redelivered batch finds duplicates only.             *)
IsLost(kind, e) == [kind |-> kind, event |-> e] \in lost

(* An ended call whose record is committed has its finalization workflow, with  *)
(* its signal, unless a failure took the call away: nothing else starts it.     *)
EndedIsBilled ==
  \A k \in 1..committed["call-events"] :
    LET e == log["call-events"][k] IN
      e.type = "call.ended" => /\ temporal.billing \/ IsLost("start", e)
                               /\ temporal.ended \/ IsLost("ended", e)

(* The events that were projected after an attempt had read the records and     *)
(* before the bill was first written: they are in neither.                      *)
Slipped == {x \in before : \E i \in DOMAIN bills :
                            bills[i].open /\ bills[i].written /\ x \notin bills[i].read}

(* Usage whose record is committed is in the final bill or has an adjustment    *)
(* workflow, unless it slipped between the read and the write of the bill or a  *)
(* failure took the call away.                                                  *)
LateIsAdjusted ==
  db.final # NoFinal =>
    \A k \in 1..committed["usage-events"] :
      LET e == log["usage-events"][k] IN
        e \in Measured => \/ e.id \in db.final.counted \cup temporal.adjusting
                         \/ e.id \in Slipped \/ IsLost("adjust", e)

(* No event is adjusted that an attempt had counted before there was a bill: a  *)
(* retry that reads later may count what has been adjusted already.             *)
AdjustedIsLate ==
  \A i \in DOMAIN bills : bills[i].open => temporal.adjusting \cap bills[i].read = {}

(* The shape of the state, and what the commits and the workflows may rely on *)
(* at every moment.                                                           *)
Inv == TypeOK /\ CommittedIsProjected /\ AdjustedIsLate

(* What has to follow from an event was started before its record is          *)
(* committed, after which nobody would start it; what is missing was lost in  *)
(* one of the named ways.                                                     *)
FollowUpsStart == EndedIsBilled /\ LateIsAdjusted

(* A record that cannot be projected is fetched and refused for ever, and the   *)
(* records behind it are never reached.                                         *)
Projectable == \A i \in DOMAIN Script : Priced(Script[i].event) /\ Decodes(<<Script[i]>>)

(* However many bounded failures there are, everything the session publishes is *)
(* in the end projected.                                                        *)
EventuallyProjected ==
  Projectable => <>(\A i \in DOMAIN Script : Script[i].event.key \in db.keys)

(* The worker comes to rest with every offset committed: redelivery does not    *)
(* feed on the notices it publishes.                                            *)
EventuallyCommitted ==
  Projectable => <>[](\A t \in Topic : committed[t] = Len(log[t]))

(* The worker catches up with everything that was published, and comes to     *)
(* rest.                                                                      *)
EventuallyCaughtUp == EventuallyProjected /\ EventuallyCommitted
================================================================================
