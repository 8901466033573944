-------------------------- MODULE BillingFinalization --------------------------
(* The bill of one call, from the projection of its usage to the final record   *)
(* and its adjustments: the event worker projects one event at a time and makes *)
(* the calls to Temporal that follow, BillingFinalizationWorkflow waits for the *)
(* usage and writes the final record, a BillingAdjustmentWorkflow per late      *)
(* usage event writes the difference. An activity reads in several statements,  *)
(* each on a connection and a snapshot of its own, and is attempted again when  *)
(* its answer is lost or late.                                                  *)
EXTENDS Projection

CONSTANTS
  Plans,          \* what is in Kafka and may go wrong: a set of [usage, calls, retries, span]
  Required,       \* billing_required_usage_types
  WaitTimeout,    \* billing_usage_wait_seconds
  Settle,         \* billing_usage_settle_seconds
  ActivityRate    \* Decimal("0.05") a minute, as units of money a second

ASSUME ActivityRateAssumption == ActivityRate \in Nat \ {0}

ASSUME WaitAssumption ==
  /\ WaitTimeout \in Nat \ {0}
  /\ Settle \in Nat
  /\ \A p \in Plans : p.retries \in Nat

(* What is in Kafka. The type of an event decides its topic. A session emits    *)
(* usage with its measurements, one of a type and of types the catalog has, and *)
(* one barrier, which an idempotent producer leaves once in the log, and ends   *)
(* once or fails. Other records may be there twice: the idempotency key and the *)
(* id say which are the same. The span of a call is the time between its first  *)
(* and its last event by their timestamps, its duration what the last one says. *)
ASSUME PlansAssumption ==
  \A p \in Plans :
    /\ p.span \in Nat
    /\ Len(p.usage) \in Nat /\ DOMAIN p.usage = 1..Len(p.usage)
    /\ Len(p.calls) \in Nat /\ DOMAIN p.calls = 1..Len(p.calls)
    /\ \A i \in 1..Len(p.usage) :
         /\ IsUsage(p.usage[i])
         /\ p.usage[i].measurements \in Seq([type : DOMAIN UnitPrice, qty : Nat])
         /\ IsBarrier(p.usage[i]) \/ p.usage[i].measurements # <<>>
         /\ \A m, n \in DOMAIN p.usage[i].measurements :
              p.usage[i].measurements[m].type = p.usage[i].measurements[n].type => m = n
    /\ \A i \in 1..Len(p.calls) : ~IsUsage(p.calls[i]) /\ p.calls[i].duration \in Nat
    /\ \A i, j \in 1..Len(p.usage) :
         /\ IsBarrier(p.usage[i]) /\ IsBarrier(p.usage[j]) => i = j
         /\ p.usage[i].key = p.usage[j].key \/ p.usage[i].id = p.usage[j].id =>
              p.usage[i] = p.usage[j]
    /\ \A i, j \in 1..Len(p.calls) :
         p.calls[i].type = "call.ended" =>
           /\ p.calls[j].type # "call.failed"
           /\ p.calls[j].type = "call.ended" => p.calls[i] = p.calls[j]
    /\ \A i \in 1..Len(p.usage), j \in 1..Len(p.calls) : p.usage[i].key # p.calls[j].key

Policy == "FINALIZED_WITH_WARNINGS"      \* billing_missing_usage_policy

VARIABLES
  plan,           \* the plan of this behaviour
  db,             \* the rows of the call in Postgres
  position,       \* topic -> records projected
  todo,           \* the calls the worker still makes for the last batch
  wf,             \* the finalization workflow
  attempts,       \* attempts of finalize_call_billing, the current one last
  adjusting,      \* late event -> its adjustment workflow
  retries

vars == <<plan, db, position, todo, wf, attempts, adjusting, retries>>

UsageLog   == plan.usage       \* the records of usage-events, in the order of their offsets
CallLog    == plan.calls       \* the records of call-events
MaxRetries == plan.retries     \* bound: attempts of activities whose answer is lost or late

Log == [t \in {"usage-events", "call-events"} |->
          IF t = "usage-events" THEN UsageLog ELSE CallLog]

Late == {UsageLog[i].id : i \in DOMAIN UsageLog}

NoAdjustment == [at |-> "absent", base |-> 0, counted |-> 0, delta |-> 0]

Init ==
  /\ plan \in Plans
  /\ db = EmptyDb
  /\ position = [t \in DOMAIN Log |-> 0]
  /\ todo = <<>>
  /\ wf = [at |-> "absent", manifest |-> NoManifest, caughtUp |-> FALSE, missing |-> {},
           elapsed |-> 0, updates |-> 0, observed |-> 0, ready |-> FALSE]
  /\ attempts = <<>>
  /\ adjusting = [e \in Late |-> NoAdjustment]
  /\ retries = 0

Running == wf.at \notin {"absent", "done"}

(* Money: five cents a minute are 60 * ActivityRate units. cents() rounds half  *)
(* a cent up.                                                                   *)
Cent     == 12 * ActivityRate
Cents(n) == (2 * n + Cent) \div (2 * Cent)

(* _billing_component_costs: the component of a usage record goes by its stage  *)
(* and its raw usage type, and each component is rounded on its own.            *)
TokenTypes == {"input_token", "cached_input_token", "output_token", "output_audio_token"}

Component(stage, type) ==
  IF stage = "stt" \/ type = "audio_minute" THEN "stt"
  ELSE IF stage = "tts" \/ type = "input_text_token" THEN "tts"
  ELSE IF /\ stage # "llm" /\ type \notin TokenTypes
          /\ stage \in {"transport", "telephony"} \/ type = "telephony_seconds"
       THEN "telephony" ELSE "llm"

CostIn(c, records) == TotalCost({r \in records : Component(r.stage, r.type) = c})

ProviderCents(records) ==
  Cents(CostIn("stt", records)) + Cents(CostIn("llm", records))
    + Cents(CostIn("tts", records)) + Cents(CostIn("telephony", records))

(* The duration of call_billing, or without one the span of the call; and its   *)
(* fee, at a rate of the activities' own.                                       *)
Lasted == IF db.billing.duration # 0 THEN db.billing.duration
          ELSE IF db.call.ended THEN plan.span ELSE 0

PlatformCents == Cents(Lasted * ActivityRate)

--------------------------------------------------------------------------------
(* The event worker: one transaction, then the calls of its result.             *)
Project ==
  /\ todo = <<>>
  /\ \E t \in DOMAIN Log :
       /\ position[t] < Len(Log[t])
       /\ LET item == [topic |-> t, offset |-> position[t], event |-> Log[t][position[t] + 1]]
              done == ProjectBatch(db, <<item>>)
          IN  /\ db' = done.db
              /\ todo' = Todo(done.result)
       /\ position' = [position EXCEPT ![t] = @ + 1]
  /\ UNCHANGED <<plan, wf, attempts, adjusting, retries>>

Calling(kind) ==
  /\ todo # <<>>
  /\ Head(todo).kind = kind
  /\ todo' = Tail(todo)

(* The input says that the call has ended, so the workflow does not wait for    *)
(* the signal.                                                                  *)
StartFinalization ==
  /\ Calling("start")
  /\ wf' = IF wf.at = "absent" THEN [wf EXCEPT !.at = "manifest"] ELSE wf
  /\ UNCHANGED <<db, plan, position, attempts, adjusting, retries>>

SignalEnded ==
  /\ Calling("ended")
  /\ UNCHANGED <<db, plan, position, wf, attempts, adjusting, retries>>

(* UsageProjectionUpdated; without a running workflow the signal is dropped.    *)
Hint ==
  /\ Calling("hint")
  /\ wf' = IF Running THEN [wf EXCEPT !.updates = @ + 1] ELSE wf
  /\ UNCHANGED <<db, plan, position, attempts, adjusting, retries>>

StartAdjustment ==
  /\ Calling("adjust")
  /\ adjusting' = [adjusting EXCEPT ![Head(todo).event.id].at = "final"]
  /\ UNCHANGED <<db, plan, position, wf, attempts, retries>>

--------------------------------------------------------------------------------
(* load_billing_readiness: the manifest, the watermark, the expectations        *)
(* without a usage row, the usage types that are there.                         *)
Read(at, then) ==
  /\ wf.at = at
  /\ wf' = then
  /\ UNCHANGED <<db, plan, position, todo, attempts, adjusting, retries>>

ReadManifest ==
  Read("manifest", [wf EXCEPT !.at = IF db.manifest = NoManifest THEN "expectations"
                                     ELSE "watermark",
                              !.manifest = db.manifest, !.caughtUp = FALSE])

ReadWatermark ==
  Read("watermark", [wf EXCEPT !.at = "expectations",
                               !.caughtUp = /\ "usage-events" \in DOMAIN db.watermark
                                            /\ db.watermark["usage-events"] >= wf.manifest.offset])

ReadExpectations ==
  Read("expectations", [wf EXCEPT !.at = "present",
                                  !.missing = db.expectations \ {<<u.turn, u.norm>> : u \in db.usage}])

ReadPresent ==
  Read("present", [wf EXCEPT !.at = "decide",
                             !.missing = @ \cup (Required \ {u.norm : u \in db.usage})])

(* Mutant of Ready: the manifest is not asked for.                              *)
ReadyWithoutManifest == wf.missing = {}

Ready ==
  /\ wf.manifest # NoManifest
  /\ wf.caughtUp
  /\ wf.missing = {}

(* max(1, settle_seconds or 2)                                                  *)
Wait == IF Settle = 0 THEN 2 ELSE Settle

(* The workflow goes on with the answer: it finalizes, or waits for the next    *)
(* hint from here on.                                                           *)
Decide ==
  /\ wf.at = "decide"
  /\ wf' = IF Ready THEN [wf EXCEPT !.at = "finalizing", !.ready = TRUE]
           ELSE [wf EXCEPT !.at = "waiting", !.observed = wf.updates]
  /\ attempts' = IF Ready THEN <<[at |-> "usage", counted |-> {}, cost |-> 0, fee |-> 0]>>
                 ELSE attempts
  /\ UNCHANGED <<db, plan, position, todo, adjusting, retries>>

ElapsedByHints(woken)  == IF woken THEN wf.elapsed + Wait ELSE wf.elapsed

(* The wait counts in full, whether a hint ended it or the timer.               *)
Elapsed(woken) == wf.elapsed + Wait

Wake ==
  /\ wf.at = "waiting"
  /\ \E woken \in BOOLEAN :
       LET over == Elapsed(woken) > WaitTimeout
       IN  /\ woken => wf.updates > wf.observed
           /\ wf' = [wf EXCEPT !.elapsed = Elapsed(woken),
                               !.at = IF over THEN "finalizing" ELSE "manifest"]
           /\ attempts' = IF over THEN <<[at |-> "usage", counted |-> {}, cost |-> 0, fee |-> 0]>>
                          ELSE attempts
  /\ UNCHANGED <<db, plan, position, todo, adjusting, retries>>

--------------------------------------------------------------------------------
(* finalize_call_billing: an attempt reads the records, then the duration, and  *)
(* writes. Without a row of the call it raises. Temporal starts another when    *)
(* the answer is lost or late; the old one may still be running, and its answer *)
(* counts for nothing. The timestamps of the call are read with the records but *)
(* have not changed since its end was projected.                                *)
At(i, at) == attempts[i].at = at

FinalizeReadsUsage ==
  /\ \E i \in DOMAIN attempts :
       /\ At(i, "usage")
       /\ db.call.status # "absent"
       /\ attempts' = [attempts EXCEPT
            ![i] = [@ EXCEPT !.at = "duration", !.counted = {r.event : r \in db.records},
                             !.cost = ProviderCents(db.records)]]
  /\ UNCHANGED <<db, plan, position, todo, wf, adjusting, retries>>

FinalizeReadsDuration ==
  /\ \E i \in DOMAIN attempts :
       /\ At(i, "duration")
       /\ attempts' = [attempts EXCEPT
            ![i] = [@ EXCEPT !.at = "write", !.fee = PlatformCents]]
  /\ UNCHANGED <<db, plan, position, todo, wf, adjusting, retries>>

(* The upsert replaces the totals, the status and the warnings of a record that *)
(* is already there.                                                            *)
FinalizeWrites ==
  /\ \E i \in DOMAIN attempts :
       /\ At(i, "write")
       /\ db' = [db EXCEPT !.final =
                   [status  |-> IF wf.ready THEN "FINALIZED" ELSE Policy,
                    total   |-> attempts[i].fee + attempts[i].cost,
                    counted |-> attempts[i].counted]]
       /\ attempts' = [attempts EXCEPT ![i].at = "answer"]
  /\ UNCHANGED <<plan, position, todo, wf, adjusting, retries>>

FinalizeAnswers ==
  /\ wf.at = "finalizing"
  /\ At(Len(attempts), "answer")
  /\ wf' = [wf EXCEPT !.at = "emitting"]
  /\ UNCHANGED <<db, plan, position, todo, attempts, adjusting, retries>>

FinalizeRetried ==
  /\ wf.at = "finalizing"
  /\ retries < MaxRetries
  /\ retries' = retries + 1
  /\ attempts' = Append(attempts, [at |-> "usage", counted |-> {}, cost |-> 0, fee |-> 0])
  /\ UNCHANGED <<db, plan, position, todo, wf, adjusting>>

(* emit_workflow_event: the event gets a new id with every attempt.             *)
Announced(type, id) ==
  [db EXCEPT !.outbox = Append(@, [event |-> <<type, id, retries>>, topic |-> "billing-events",
                                   total |-> 0, published |-> FALSE])]

EmitFinalized ==
  /\ wf.at = "emitting"
  /\ db' = Announced("billing.finalized", "call")
  /\ \/ wf' = [wf EXCEPT !.at = "done"] /\ UNCHANGED retries
     \/ retries < MaxRetries /\ retries' = retries + 1 /\ UNCHANGED wf
  /\ UNCHANGED <<plan, position, todo, attempts, adjusting>>

--------------------------------------------------------------------------------
(* create_billing_adjustment, for the late event e: the final record is read,   *)
(* the records, the duration, and the difference inserted.                      *)
Adjust(e, at, then) ==
  /\ adjusting[e].at = at
  /\ adjusting' = [adjusting EXCEPT ![e] = then]
  /\ UNCHANGED <<plan, position, todo, wf, attempts>>

AdjustReadsFinal ==
  \E e \in Late :
    /\ db.call.status # "absent" /\ db.final # NoFinal
    /\ Adjust(e, "final", [adjusting[e] EXCEPT !.at = "usage", !.base = db.final.total])
    /\ UNCHANGED <<db, retries>>

(* Mutant of AdjustReadsUsage: the records that the final bill counted.         *)
AdjustReadsBilled ==
  \E e \in Late :
    /\ Adjust(e, "usage", [adjusting[e] EXCEPT !.at = "insert",
         !.counted = ProviderCents({r \in db.records : r.event \in db.final.counted})
                       + PlatformCents])
    /\ UNCHANGED <<db, retries>>

(* The records and the duration; the latter has not changed since the end of    *)
(* the call, which is projected before there is a final record.                 *)
AdjustReadsUsage ==
  \E e \in Late :
    /\ Adjust(e, "usage", [adjusting[e] EXCEPT !.at = "insert",
                             !.counted = ProviderCents(db.records) + PlatformCents])
    /\ UNCHANGED <<db, retries>>

(* ON CONFLICT (call_id, source_event_id) DO NOTHING                            *)
Adjusted(e) == \E a \in db.adjustments : a.event = e

AdjustInserts ==
  \E e \in Late :
    LET delta == adjusting[e].counted - adjusting[e].base IN
      /\ Adjust(e, "insert", [adjusting[e] EXCEPT !.at = "emit", !.delta = delta])
      /\ db' = IF Adjusted(e) THEN db
               ELSE [db EXCEPT !.adjustments =
                       @ \cup {[event |-> e, previous |-> adjusting[e].base,
                                recomputed |-> adjusting[e].counted, delta |-> delta]}]
      /\ UNCHANGED retries

(* An attempt is given up, before or after its insertion, and starts again.     *)
AdjustRetried ==
  \E e \in Late :
    /\ adjusting[e].at \in {"usage", "insert", "emit"}
    /\ Adjust(e, adjusting[e].at, [adjusting[e] EXCEPT !.at = "final"])
    /\ retries < MaxRetries /\ retries' = retries + 1
    /\ UNCHANGED db

AdjustEmits ==
  \E e \in Late :
    /\ Adjust(e, "emit", [adjusting[e] EXCEPT !.at = "done"])
    /\ db' = Announced("billing.adjustment_created", e)
    /\ UNCHANGED retries

--------------------------------------------------------------------------------
Worker == Project \/ StartFinalization \/ SignalEnded \/ Hint \/ StartAdjustment

Finalization ==
  \/ ReadManifest \/ ReadWatermark \/ ReadExpectations \/ ReadPresent \/ Decide \/ Wake
  \/ FinalizeReadsUsage \/ FinalizeReadsDuration \/ FinalizeWrites \/ FinalizeAnswers
  \/ EmitFinalized

Adjustment == AdjustReadsFinal \/ AdjustReadsUsage \/ AdjustInserts \/ AdjustEmits

Next == Worker \/ Finalization \/ Adjustment \/ FinalizeRetried \/ AdjustRetried

Spec == Init /\ [][Next]_vars

(* Temporal keeps the workflow and its activities going; the worker and Kafka   *)
(* may stop at any time, and no retry is owed.                                  *)
FairSpec == Spec /\ WF_vars(Finalization)

--------------------------------------------------------------------------------
(* Every variable has its type.                                                 *)
TypeOK ==
  /\ position \in [DOMAIN Log -> Nat]
  /\ \A t \in DOMAIN Log : position[t] <= Len(Log[t])
  /\ wf.at \in {"absent", "manifest", "watermark", "expectations", "present", "decide",
                "waiting", "finalizing", "emitting", "done"}
  /\ wf.elapsed \in 0..(WaitTimeout + Wait)
  /\ wf.observed \in 0..wf.updates
  /\ wf.at \in {"finalizing", "emitting", "done"} <=> attempts # <<>>
  /\ wf.at \in {"emitting", "done"} => db.final # NoFinal
  /\ \A e \in Late : adjusting[e].at # "absent" => db.final # NoFinal
  /\ retries \in 0..MaxRetries

IsMeasured(e) == IsUsage(e) /\ ~IsBarrier(e)

Measured == {i \in DOMAIN UsageLog : IsMeasured(UsageLog[i])}

(* What an event costs in a component, and what is owed for some events.        *)
CostOf(e, c) ==
  MapThenSumSet(LAMBDA k : IF Component(e.stage, e.measurements[k].type) = c
                           THEN e.measurements[k].qty * UnitPrice[e.measurements[k].type] ELSE 0,
                DOMAIN e.measurements)

OwedIn(c, events) == Cents(MapThenSumSet(LAMBDA e : CostOf(e, c), events))

Owed(events) ==
  OwedIn("stt", events) + OwedIn("llm", events) + OwedIn("tts", events)
    + OwedIn("telephony", events)

(* What the call costs by the records that are in the database.                 *)
Charges == ProviderCents(db.records) + PlatformCents

AtRest ==
  /\ todo = <<>>
  /\ wf.at = "done"
  /\ \A i \in DOMAIN attempts : At(i, "answer")
  /\ \A e \in Late : adjusting[e].at \in {"absent", "done"}

(* A bill that calls itself FINALIZED counts every usage event the session      *)
(* published before its barrier, whatever the reads of the readiness check and  *)
(* of the finalization interleave with.                                         *)
ReadyIsComplete ==
  db.final.status = "FINALIZED" =>
    \A i \in Measured :
      (\E j \in DOMAIN UsageLog : j > i /\ IsBarrier(UsageLog[j])) =>
        UsageLog[i].id \in db.final.counted

(* The two ledgers of a call agree, as far as their rounding and their rates    *)
(* let them: a final record that counts all usage is within half a cent for     *)
(* each of its five amounts of what the projector keeps unrounded in            *)
(* call_billing, its fee put at the rate of the activities.                     *)
LedgersAgree ==
  (db.final # NoFinal /\ db.final.counted = {r.event : r \in db.records}) =>
    LET exact == db.billing.total - db.billing.fee + Lasted * ActivityRate
        off   == 2 * (Cent * db.final.total - exact)
    IN  off <= 5 * Cent /\ -off <= 5 * Cent

(* The shape of the state, and the agreement of the ledgers in it.            *)
Inv == TypeOK /\ LedgersAgree

(* An adjustment workflow that got past its insertion left the row of its own   *)
(* event, and the row's total counts all usage that was published up to where   *)
(* the event is first in the log.                                               *)
First(i) == \A j \in 1..(i - 1) : UsageLog[j] # UsageLog[i]

UpTo(i) == {UsageLog[j] : j \in Measured \cap 1..i}

AdjustmentCoversItsEvent ==
  \A i \in Measured :
    First(i) /\ adjusting[UsageLog[i].id].at \in {"emit", "done"} =>
      \E a \in db.adjustments :
        a.event = UsageLog[i].id /\ a.recomputed >= Owed(UpTo(i))

(* When everything has come to rest, the newest adjustment has caught up with   *)
(* all charges, including those that slipped in while the bill was written.     *)
NewestAdjustmentIsCurrent ==
  (AtRest /\ db.adjustments # {}) => Charges = Max({a.recomputed : a \in db.adjustments})

(* The adjustments of a call keep up with its usage, each at once and the     *)
(* newest of all in the end.                                                  *)
AdjustmentsAreCurrent == AdjustmentCoversItsEvent /\ NewestAdjustmentIsCurrent

(* When everything has come to rest, the final record and its adjustments add   *)
(* up to the charges, if all usage is in the one or the others.                 *)
AdjustmentsAddUp ==
  (AtRest /\ \A r \in db.records : r.event \in db.final.counted \/ Adjusted(r.event)) =>
    Charges = db.final.total + MapThenSumSet(LAMBDA a : a.delta, db.adjustments)

(* Once started, the workflow comes to its end even if the barrier and the      *)
(* usage never arrive.                                                          *)
FinalizationEnds == wf.at = "manifest" ~> wf.at = "done"
================================================================================
