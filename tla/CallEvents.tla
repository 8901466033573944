------------------------------- MODULE CallEvents -------------------------------
(* What one call tells Kafka: the events that decide its life and its bill, as  *)
(* the session's main task and the three tasks of a response publish them, the  *)
(* usage each turn is expected to have, and the manifest of those expectations  *)
(* that the finalization barrier carries. The events in between that decide     *)
(* nothing here are left out.                                                   *)
EXTENDS Naturals, Sequences, FiniteSets, SequencesExt

CONSTANTS
  MaxTurns,        \* bound: turns of the call
  MaxPhrases,      \* bound: phrases whose usage Kafka has
  MaxFaults        \* bound: publications that raise

ASSUME CallEventsAssumption ==
  MaxTurns \in Nat /\ MaxPhrases \in Nat /\ MaxFaults \in Nat

Response == {"llm", "tts", "transport"}
Tasks    == Response \cup {"main"}
Ended    == {"done", "raised", "disconnected"}      \* of a task of a response
None     == [type |-> "none"]

VARIABLES
  at,              \* task -> where it is
  sending,         \* task -> the event it is publishing
  sequence,        \* state.sequence_number
  turn,            \* state.turn_id, counted
  expected,        \* _usage_expectations: a set of [turn, type]
  hasFailed,       \* _failed
  log,             \* what Kafka has of the call, in its order
  cutOff,          \* whether the call ended with a response that was not complete
  faults

session == <<at, sending, sequence, turn, expected, hasFailed>>
vars    == <<session, log, cutOff, faults>>

Init ==
  /\ at = [t \in Tasks |-> IF t = "main" THEN "open" ELSE "done"]
  /\ sending = [t \in Tasks |-> None]
  /\ sequence = 0 /\ turn = 0
  /\ expected = {}
  /\ hasFailed = FALSE /\ cutOff = FALSE
  /\ log = <<>>
  /\ faults = 0

--------------------------------------------------------------------------------
(* emit takes the next number and makes the event, then awaits Kafka.           *)
Emit(t, type, of) ==
  /\ sequence' = sequence + 1
  /\ sending' = [sending EXCEPT ![t] =
       [type |-> type, turn |-> of, number |-> sequence + 1, manifest |-> expected]]

(* Where a task goes on when its publication has returned, or has raised. What  *)
(* the publication of call.failed raises is suppressed.                         *)
Returned(t) ==
  CASE at[t] = "starting" -> "listening"
    [] at[t] = "measured" -> "expecting"
    [] at[t] = "failed"   -> "finally"
    [] at[t] = "barrier"  -> "ending"
    [] at[t] = "ended"    -> "closed"

RaisedTo(t) ==
  CASE t # "main" -> "raised"
    [] t = "main" /\ at[t] \in {"starting", "measured"} -> "failing"
    [] t = "main" /\ at[t] = "failed" -> "finally"
    [] t = "main" /\ at[t] \in {"barrier", "ended"} -> "closed"

Publish(t) ==
  /\ sending[t] # None
  /\ log' = Append(log, sending[t])
  /\ sending' = [sending EXCEPT ![t] = None]
  /\ at' = [at EXCEPT ![t] = Returned(t)]
  /\ UNCHANGED <<sequence, turn, expected, hasFailed, cutOff, faults>>

(* send_and_wait raises, whether or not Kafka has the event.                    *)
PublishFails(t) ==
  /\ sending[t] # None /\ faults < MaxFaults
  /\ faults' = faults + 1
  /\ log' \in {log, Append(log, sending[t])}
  /\ sending' = [sending EXCEPT ![t] = None]
  /\ at' = [at EXCEPT ![t] = RaisedTo(t)]
  /\ UNCHANGED <<sequence, turn, expected, hasFailed, cutOff>>

UsageOf(t) == CASE t = "main" -> "usage.stt" [] t = "llm" -> "usage.llm" [] t = "tts" -> "usage.tts"

At(type) == {i \in DOMAIN log : log[i].type = type}
Usage    == {i \in DOMAIN log : log[i].type \in {"usage.stt", "usage.llm", "usage.tts"}}
Of(i)    == [turn |-> log[i].turn, type |-> log[i].type]


(* Mutant of Measure: what is about to be published is expected already.        *)
MeasureExpecting(t) ==
  /\ at[t] = "running"
  /\ t = "tts" => Cardinality(At("usage.tts")) < MaxPhrases
  /\ Emit(t, UsageOf(t), turn)
  /\ at' = [at EXCEPT ![t] = "measured"]
  /\ expected' = expected \cup {[turn |-> turn, type |-> UsageOf(t)]}
  /\ UNCHANGED <<turn, hasFailed, log, cutOff, faults>>

(* The generation, or the synthesis of one phrase, is complete and its usage is *)
(* published.                                                                   *)
Measure(t) ==
  /\ at[t] = "running"
  /\ t = "tts" => Cardinality(At("usage.tts")) < MaxPhrases
  /\ Emit(t, UsageOf(t), turn)
  /\ at' = [at EXCEPT ![t] = "measured"]
  /\ UNCHANGED <<turn, expected, hasFailed, log, cutOff, faults>>

(* Where a task goes on when its usage is expected: the synthesis to its next   *)
(* phrase.                                                                      *)
Expected(t) == CASE t = "main" -> "deciding" [] t = "llm" -> "done" [] t = "tts" -> "running"

(* emit has told the browser too and returned; _expect_usage.                   *)
Expect(t) ==
  /\ at[t] = "expecting"
  /\ expected' = expected \cup {[turn |-> turn, type |-> UsageOf(t)]}
  /\ at' = [at EXCEPT ![t] = Expected(t)]
  /\ UNCHANGED <<sending, sequence, turn, hasFailed, log, cutOff, faults>>

(* The transport has sent its last chunk. The synthesis is at the end of the    *)
(* text, however many phrases that had: none if nothing was to be said, or the  *)
(* response was cancelled; or it finds a queue closed.                          *)
Finish(t) ==
  /\ at[t] = "running" /\ t \in {"tts", "transport"}
  /\ at' = [at EXCEPT ![t] = "done"]
  /\ UNCHANGED <<sending, sequence, turn, expected, hasFailed, log, cutOff, faults>>

(* A provider fails; or the browser is gone when the generation or the          *)
(* transport sends it something.                                                *)
Raise(t) ==
  /\ at[t] = "running"
  /\ \E why \in {"raised", "disconnected"} :
       /\ why = "disconnected" => t # "tts"
       /\ at' = [at EXCEPT ![t] = why]
  /\ UNCHANGED <<sending, sequence, turn, expected, hasFailed, log, cutOff, faults>>

--------------------------------------------------------------------------------
(* The main task: one turn after another, each handled to its end.              *)
Move(from, to) ==
  /\ at["main"] \in from
  /\ at' = [at EXCEPT !["main"] = to]
  /\ UNCHANGED <<sending, sequence, turn, expected, hasFailed, log, cutOff, faults>>

Open ==
  /\ at["main"] = "open"
  /\ Emit("main", "call.started", 0)
  /\ at' = [at EXCEPT !["main"] = "starting"]
  /\ UNCHANGED <<turn, expected, hasFailed, log, cutOff, faults>>

(* A turn has been transcribed.                                                 *)
Transcribe ==
  /\ at["main"] = "listening" /\ turn < MaxTurns
  /\ turn' = turn + 1
  /\ Emit("main", UsageOf("main"), turn + 1)
  /\ at' = [at EXCEPT !["main"] = "measured"]
  /\ UNCHANGED <<expected, hasFailed, log, cutOff, faults>>

(* It is noise or a backchannel.                                                *)
Ignore == Move({"deciding"}, "listening")

(* It is answered: three tasks are started and gathered.                        *)
Respond ==
  /\ at["main"] = "deciding"
  /\ at' = [t \in Tasks |-> IF t = "main" THEN "gather" ELSE "running"]
  /\ UNCHANGED <<sending, sequence, turn, expected, hasFailed, log, cutOff, faults>>

Gathered == (\A t \in Response : at[t] = "done") /\ Move({"gather"}, "listening")

(* gather raises what the first task raised; the others run on. A disconnection *)
(* is the end of the call, anything else its failure.                           *)
GatherRaises ==
  \/ (\E t \in Response : at[t] = "raised") /\ Move({"gather"}, "failing")
  \/ (\E t \in Response : at[t] = "disconnected") /\ Move({"gather"}, "finally")

(* wait_for runs out and cancels the tasks, which may be publishing.            *)
GatherTimesOut ==
  /\ at["main"] = "gather"
  /\ \E landed \in SUBSET {t \in Response : sending[t] # None} :
     \E order \in SetToSeqs(landed) :
       log' = log \o [i \in DOMAIN order |-> sending[order[i]]]
  /\ sending' = [t \in Tasks |-> None]
  /\ at' = [t \in Tasks |-> CASE t = "main" -> "failing"
                              [] t # "main" /\ at[t] \in Ended -> at[t]
                              [] OTHER -> "done"]
  /\ UNCHANGED <<sequence, turn, expected, hasFailed, cutOff, faults>>

(* A provider or the transport raises in the main task; call.end, or the        *)
(* browser is gone.                                                             *)
MainRaises == Move({"open", "listening", "deciding"}, "failing")
HangUp     == Move({"listening", "deciding"}, "finally")

FailCall ==
  /\ at["main"] = "failing"
  /\ hasFailed' = TRUE
  /\ Emit("main", "call.failed", 0)
  /\ at' = [at EXCEPT !["main"] = "failed"]
  /\ UNCHANGED <<turn, expected, log, cutOff, faults>>

(* Mutant of EndCall: a failed call has a barrier too.                          *)
EndCallAnyhow ==
  /\ at["main"] = "finally"
  /\ Emit("main", "barrier", 0)
  /\ at' = [at EXCEPT !["main"] = "barrier"]
  /\ cutOff' = (\E t \in Response : at[t] # "done")
  /\ UNCHANGED <<turn, expected, hasFailed, log, faults>>

(* _end_call: nothing for a failed call, else the barrier with the manifest of  *)
(* this moment.                                                                 *)
EndCall ==
  /\ at["main"] = "finally"
  /\ IF hasFailed
     THEN /\ at' = [at EXCEPT !["main"] = "closed"]
          /\ UNCHANGED <<sending, sequence, cutOff>>
     ELSE /\ Emit("main", "barrier", 0)
          /\ at' = [at EXCEPT !["main"] = "barrier"]
          /\ cutOff' = (\E t \in Response : at[t] # "done")
  /\ UNCHANGED <<turn, expected, hasFailed, log, faults>>

EndedCall ==
  /\ at["main"] = "ending"
  /\ Emit("main", "call.ended", 0)
  /\ at' = [at EXCEPT !["main"] = "ended"]
  /\ UNCHANGED <<turn, expected, hasFailed, log, cutOff, faults>>

Next ==
  \/ \E t \in Tasks : Publish(t) \/ PublishFails(t)
  \/ \E t \in {"llm", "tts"} : Measure(t)
  \/ \E t \in {"main", "llm", "tts"} : Expect(t)
  \/ \E t \in Response : Finish(t) \/ Raise(t)
  \/ Open \/ Transcribe \/ Ignore \/ Respond \/ Gathered \/ GatherRaises \/ GatherTimesOut
  \/ MainRaises \/ HangUp \/ FailCall \/ EndCall \/ EndedCall

Spec == Init /\ [][Next]_vars

--------------------------------------------------------------------------------
(* Every variable has its type; a task publishes exactly where it should.       *)
TypeOK ==
  /\ \A t \in Response : at[t] \in Ended \cup {"running", "measured", "expecting"}
  /\ at["main"] \in {"open", "starting", "listening", "measured", "expecting", "deciding",
                     "gather", "failing", "failed", "finally", "barrier", "ending", "ended", "closed"}
  /\ \A t \in Tasks :
       sending[t] # None <=> at[t] \in {"starting", "measured", "failed", "barrier", "ended"}
  /\ sequence \in Nat /\ turn \in 0..MaxTurns /\ faults \in 0..MaxFaults
  /\ \A e \in expected : e.turn \in 1..turn

(* No two events of a call have the same number, from which their idempotency   *)
(* keys are made: the projector would drop the second as a duplicate.           *)
NumbersDiffer == \A i, j \in DOMAIN log : log[i].number = log[j].number => i = j

(* The manifest expects only usage that Kafka has in front of the barrier: a    *)
(* finalization never waits for an event that may not come.                     *)
ExpectedIsPublished ==
  \A b \in At("barrier") : \A e \in log[b].manifest : \E i \in Usage : i < b /\ Of(i) = e

(* Unless the call ended in the middle of a response, every usage event is in   *)
(* front of the barrier and the manifest expects it.                            *)
ManifestIsComplete ==
  ~cutOff => \A b \in At("barrier") : \A i \in Usage : i < b /\ Of(i) \in log[b].manifest

(* What the manifest expects is exactly what the finalization will find in    *)
(* front of the barrier.                                                      *)
ManifestIsExact == ExpectedIsPublished /\ ManifestIsComplete

(* A call fails or ends, not both, and ends behind its barrier.                 *)
OneVerdict ==
  /\ At("call.failed") # {} => At("barrier") = {} /\ At("call.ended") = {}
  /\ \A i \in At("call.ended") : \E b \in At("barrier") : b < i
  /\ Cardinality(At("barrier")) <= 1

(* docs/billing.md and docs/events.md: the barrier is behind all usage of the   *)
(* call. It is not when a response goes on behind the end of its turn (README). *)
BarrierIsLast == \A b \in At("barrier") : \A i \in Usage : i < b
================================================================================
