------------------------------- MODULE SttSession -------------------------------
(* The transcription session of a call: the receive loop that appends audio and *)
(* commits it at the end of a turn, the task that reads the provider's events,  *)
(* the two futures between them, and the provider. Events carry no turn and     *)
(* item ids are not compared, so a commit takes the next transcript for its own.*)
EXTENDS Naturals, Sequences, SequencesExt

CONSTANTS
  MaxTurns,          \* bound: turns of the call
  MaxChunks,         \* bound: chunks of audio of a commit
  MaxFaults          \* bound: what goes wrong

(* What the constants are.                                                      *)
SttAssumption == MaxTurns \in Nat /\ MaxChunks \in Nat /\ MaxFaults \in Nat

VARIABLES
  call,              \* where the receive loop is, and the turn
  sess,              \* OpenAIStreamingSTTSession
  provider,          \* its audio buffer and the committed items it works on
  channel,           \* its events that were not read yet
  results,           \* the transcripts the call took
  shown,             \* turn of a partial transcript and turn it was shown for
  faults

vars == <<call, sess, provider, channel, results, shown, faults>>

Init ==
  /\ call = [at |-> "start", turn |-> 0]
  /\ sess = [ws |-> "none", reader |-> "none", ready |-> "none", pending |-> "none",
             got |-> <<>>, buffered |-> 0, seconds |-> 0]
  /\ provider = [up |-> FALSE, buffer |-> <<>>, items |-> {}]
  /\ channel = <<>>
  /\ results = {}
  /\ shown = {}
  /\ faults = 0

Fault == faults < MaxFaults /\ faults' = faults + 1

(* An exception ends the receive loop; a failed call has nothing to publish on  *)
(* its way out.                                                                 *)
Leave == call' = [call EXCEPT !.at = "failed"]

--------------------------------------------------------------------------------
(* start: connect, the reader task, session.update, and the wait for the answer.*)
Connect ==
  /\ call.at = "start"
  /\ call' = [call EXCEPT !.at = "starting"]
  /\ sess' = [sess EXCEPT !.ws = "open", !.reader = "running", !.ready = "waiting"]
  /\ provider' = [provider EXCEPT !.up = TRUE]
  /\ channel' = <<[type |-> "updated"]>>
  /\ UNCHANGED <<results, shown, faults>>

Started ==
  /\ call.at = "starting" /\ sess.ready = "set"
  /\ call' = [call EXCEPT !.at = "idle"]
  /\ UNCHANGED <<sess, provider, channel, results, shown, faults>>

(* It raises: the future has the exception, or ten seconds are over. The call   *)
(* has no session then, and closes none.                                        *)
StartRaises ==
  /\ call.at = "starting"
  /\ \/ sess.ready = "error" /\ UNCHANGED faults
     \/ sess.ready = "waiting" /\ Fault
  /\ call' = [call EXCEPT !.at = "over"]
  /\ UNCHANGED <<sess, provider, channel, results, shown>>

(* A send on a connection that is not open raises, and the call fails.          *)
Sends(to) ==
  IF provider.up THEN provider' = to /\ UNCHANGED call
  ELSE Leave /\ UNCHANGED provider

(* The first audio of a turn, or of what a turn still says after audio.end_turn.*)
Speak ==
  /\ call.at = "idle"
  /\ \E turn \in {call.turn, call.turn + 1} :
       /\ turn \in 1..MaxTurns
       /\ call' = [at |-> "speaking", turn |-> turn]
  /\ UNCHANGED <<sess, provider, channel, results, shown, faults>>

AppendAudio ==
  /\ call.at = "speaking" /\ sess.buffered < MaxChunks
  /\ sess' = [sess EXCEPT !.buffered = @ + 1]
  /\ Sends([provider EXCEPT !.buffer = Append(@, call.turn)])
  /\ UNCHANGED <<channel, results, shown, faults>>

(* commit with nothing buffered: an empty transcript, nothing is asked.         *)
CommitNothing ==
  /\ call.at = "speaking" /\ sess.buffered = 0
  /\ call' = [call EXCEPT !.at = "idle"]
  /\ UNCHANGED <<sess, provider, channel, results, shown, faults>>

Commit ==
  /\ call.at = "speaking" /\ sess.buffered > 0
  /\ sess' = [sess EXCEPT !.pending = "waiting", !.seconds = sess.buffered, !.buffered = 0]
  /\ IF provider.up
     THEN /\ provider' = [provider EXCEPT !.buffer = <<>>, !.items = @ \cup {provider.buffer}]
          /\ call' = [call EXCEPT !.at = "committing"]
     ELSE Leave /\ UNCHANGED provider
  /\ UNCHANGED <<channel, results, shown, faults>>

(* The failure injector raises before anything is sent.                         *)
CommitRaises ==
  /\ call.at = "speaking" /\ sess.buffered > 0
  /\ Fault
  /\ Leave
  /\ UNCHANGED <<sess, provider, channel, results, shown>>

(* The transcript, the seconds it is charged for, and what it was made of.      *)
TakeResult ==
  /\ call.at = "committing" /\ sess.pending = "set"
  /\ results' = results \cup {[turn |-> call.turn, item |-> sess.got, seconds |-> sess.seconds]}
  /\ call' = [call EXCEPT !.at = "idle"]
  /\ UNCHANGED <<sess, provider, channel, shown, faults>>

TakeError ==
  /\ call.at = "committing" /\ sess.pending = "error"
  /\ Leave
  /\ UNCHANGED <<sess, provider, channel, results, shown, faults>>

(* Mutant of TimesOut: the turn is given up and the call goes on.               *)
TimesOutTurn ==
  /\ call.at = "committing"
  /\ call' = [call EXCEPT !.at = "idle"]
  /\ UNCHANGED <<sess, provider, channel, results, shown, faults>>

(* Mutant of TimesOut: the timeout is for the sending only.                     *)
TimesOutSending ==
  /\ call.at = "committing" /\ sess.pending = "none"
  /\ Leave
  /\ UNCHANGED <<sess, provider, channel, results, shown, faults>>

(* turn_timeout_seconds are over: the call fails.                               *)
TimesOut ==
  /\ call.at = "committing"
  /\ Leave
  /\ UNCHANGED <<sess, provider, channel, results, shown, faults>>

(* call.end, or the browser has gone.                                           *)
HangUp ==
  /\ call.at \in {"idle", "speaking"}
  /\ call' = [call EXCEPT !.at = "ending"]
  /\ UNCHANGED <<sess, provider, channel, results, shown, faults>>

Close ==
  /\ call.at \in {"ending", "failed"}
  /\ call' = [call EXCEPT !.at = "over"]
  /\ sess' = [sess EXCEPT !.ws = "closed", !.reader = "ended"]
  /\ provider' = [provider EXCEPT !.up = FALSE]
  /\ UNCHANGED <<channel, results, shown, faults>>

(* _end_call raises (Kafka) in the finally clause that would close the session. *)
EndRaises ==
  /\ call.at = "ending"
  /\ Fault
  /\ call' = [call EXCEPT !.at = "over"]
  /\ UNCHANGED <<sess, provider, channel, results, shown>>

Loop ==
  \/ Connect \/ Started \/ StartRaises \/ Speak \/ AppendAudio
  \/ CommitNothing \/ Commit \/ CommitRaises \/ TakeResult \/ TakeError
  \/ HangUp \/ Close \/ EndRaises

--------------------------------------------------------------------------------
FailPending(s) ==
  [s EXCEPT !.ready = IF @ = "waiting" THEN "error" ELSE @,
            !.pending = IF @ = "waiting" THEN "error" ELSE @]

(* What an event does; one of another type, conversation.item....failed among   *)
(* them, does nothing.                                                          *)
Dispatch(e) ==
  CASE e.type = "updated"   -> [sess EXCEPT !.ready = IF @ = "waiting" THEN "set" ELSE @]
    [] e.type = "completed" -> IF sess.pending = "waiting"
                               THEN [sess EXCEPT !.pending = "set", !.got = e.item] ELSE sess
    [] e.type = "error"     -> FailPending(sess)
    [] e.type = "aborted"   -> [FailPending(sess) EXCEPT !.reader = "ended"]
    [] e.type = "closed"    -> [sess EXCEPT !.reader = "ended"]
    [] OTHER                -> sess

Read ==
  /\ sess.reader = "running" /\ channel # <<>>
  /\ LET e == Head(channel)
     IN  /\ sess' = Dispatch(e)
         /\ shown' = IF e.type = "delta" THEN shown \cup {<<e.item, call.turn>>} ELSE shown
  /\ channel' = Tail(channel)
  /\ UNCHANGED <<call, provider, results, faults>>

(* An event that does not decode, or a partial transcript that cannot be shown, *)
(* ends the reader with an exception.                                           *)
ReaderRaises ==
  /\ sess.reader = "running" /\ channel # <<>>
  /\ Fault
  /\ sess' = [FailPending(sess) EXCEPT !.reader = "ended"]
  /\ UNCHANGED <<call, provider, channel, results, shown>>

--------------------------------------------------------------------------------
(* The provider: its events keep their order, items may be done in any order.   *)
Tell(e) == channel' = Append(channel, e)

Partial ==
  /\ provider.up
  /\ \A i \in 1..Len(channel) : channel[i].type # "delta"
  /\ \E audio \in provider.items \cup {provider.buffer} :
       audio # <<>> /\ Tell([type |-> "delta", item |-> Last(audio)])
  /\ UNCHANGED <<call, sess, provider, results, shown, faults>>

Transcribes ==
  /\ provider.up
  /\ \E item \in provider.items :
       /\ provider' = [provider EXCEPT !.items = @ \ {item}]
       /\ Tell([type |-> "completed", item |-> item])
  /\ UNCHANGED <<call, sess, results, shown, faults>>

(* It cannot transcribe an item, reports an error, or closes the connection.    *)
ProviderFails ==
  /\ provider.up
  /\ Fault
  /\ \/ \E item \in provider.items :
          /\ provider' = [provider EXCEPT !.items = @ \ {item}]
          /\ Tell([type |-> "failed"])
     \/ Tell([type |-> "error"]) /\ UNCHANGED provider
     \/ \E how \in {"closed", "aborted"} :
          Tell([type |-> how]) /\ provider' = [provider EXCEPT !.up = FALSE]
  /\ UNCHANGED <<call, sess, results, shown>>

Next == Loop \/ TimesOut \/ Read \/ ReaderRaises \/ Partial \/ Transcribes \/ ProviderFails

Spec == Init /\ [][Next]_vars

(* The event loop and its timers go on; the provider owes nothing.              *)
FairSpec ==
  Spec /\ WF_vars(TimesOut) /\ WF_vars(TakeResult \/ TakeError \/ Close) /\ WF_vars(Read)

--------------------------------------------------------------------------------
(* Every variable has its type; what is buffered here is what the provider has. *)
TypeOK ==
  /\ call.at \in {"start", "starting", "idle", "speaking", "committing", "ending", "failed",
                  "over"}
  /\ call.turn \in 0..MaxTurns
  /\ sess.pending \in {"none", "waiting", "set", "error"}
  /\ call.at \in {"idle", "speaking"} /\ provider.up => sess.buffered = Len(provider.buffer)
  /\ sess.buffered \in 0..MaxChunks
  /\ faults \in 0..MaxFaults

(* A turn takes the transcript of its own audio, all of it and nothing else,    *)
(* and is charged for as much as there was.                                     *)
TranscriptIsOwn ==
  \A r \in results : r.item # <<>> /\ ToSet(r.item) = {r.turn} /\ r.seconds = Len(r.item)

(* A partial transcript is shown for the turn it was spoken in.                 *)
PartialIsOwn == \A s \in shown : s[1] = s[2]

(* A commit comes to its end, whatever becomes of the reader and the provider.  *)
CommitEnds == call.at = "committing" ~> call.at # "committing"
================================================================================
