-------------------------- MODULE ResponsePipeline --------------------------
(***************************************************************************)
(* One assistant response: StreamModule._run_llm_tts_transport and the     *)
(* three tasks it starts (apps/api/pipeline/stream_module.py).             *)
(*                                                                         *)
(*   _produce_llm --text--> _consume_tts --audio--> _consume_transport     *)
(*                                                                         *)
(* text and audio are FlowControlledQueues.  put calls _on_backpressure    *)
(* when it crosses a watermark; at the hard limit that callback cancels    *)
(* the response from inside the very task that put the item, in several    *)
(* awaits, while the other tasks run on.  The call's message loop waits in *)
(* gather under a timeout, so a barge-in reaches a response only after the *)
(* gather has returned and while the browser still plays.                  *)
(*                                                                         *)
(* A step runs from one await to the next.  The policy of the hard limit   *)
(* is "cancel_response", the default; the code acts on no other.           *)
(***************************************************************************)
EXTENDS Integers, Sequences, FiniteSets

CONSTANTS
  TextLow, TextHigh, TextHard,     \* watermarks of llm_to_tts
  AudioLow, AudioHigh, AudioHard,  \* watermarks of tts_to_transport
  MaxItems,                        \* flow_queue_max_items
  TextWeights, AudioWeights,       \* what one token or chunk may weigh
  MaxTokens, MaxChunks             \* bounds on the providers' output

ASSUME PipelineAssumption ==
  /\ MaxItems \in Nat \ {0} /\ MaxTokens \in Nat /\ MaxChunks \in Nat
  /\ TextWeights \subseteq Nat /\ AudioWeights \subseteq Nat
  /\ \A c \in {<<TextLow, TextHigh, TextHard>>, <<AudioLow, AudioHigh, AudioHard>>} :
       c \in Nat \X Nat \X Nat /\ c[1] < c[2] /\ c[2] <= c[3]

VARIABLES
  text, audio,  \* the two queues
  pc,           \* where each task waits
  fate,         \* how llm and tts end once their finally clause is over
  held,         \* the item tts and transport took from their queue
  tokens,       \* tokens generated
  buffer,       \* tokens in the phrase buffer of tts
  voiced,       \* tokens handed to the TTS provider
  made,         \* audio chunks numbered so far (_response_audio_sequences)
  sent,         \* numbers of the chunks given to the browser, in order
  response,     \* ResponseController's view of the response
  callback,     \* where the hard-limit callback of llm and tts stands
  entries,      \* status of the response's entries in _conversation
  parent        \* the message loop: in gather, timed out, returned, failed

vars == <<text, audio, pc, fate, held, tokens, buffer, voiced, made, sent,
          response, callback, entries, parent>>

TextQ == INSTANCE FlowQueue WITH Low <- TextLow, High <- TextHigh, Hard <- TextHard
AudioQ == INSTANCE FlowQueue WITH Low <- AudioLow, High <- AudioHigh, Hard <- AudioHard

Tasks == {"llm", "tts", "transport"}
Stages == {"llm", "tts"}
Final == {"done", "raised", "killed"}

EndOfStream == 0  \* chunks are numbered from 1

Chunks(q) == {q.items[i].item : i \in DOMAIN q.items} \ {EndOfStream}

Active == response = "active"
Live == parent \in {"gather", "expired"}

Init ==
  /\ text = TextQ!EmptyQueue /\ audio = AudioQ!EmptyQueue
  /\ pc = [llm |-> "stream", tts |-> "get", transport |-> "get"]
  /\ fate = [t \in Stages |-> "done"]
  /\ held = [tts |-> EndOfStream, transport |-> EndOfStream]
  /\ tokens = 0 /\ buffer = 0 /\ voiced = 0 /\ made = 0
  /\ sent = <<>>
  /\ response = "active"
  /\ callback = [t \in Stages |-> "none"]
  /\ entries = <<>>
  /\ parent = "gather"

(* Task t may take its next step: it is not inside its callback. *)
At(t, where) == pc[t] = where /\ (t \in Stages => callback[t] = "none")
Goto(t, where) == pc' = [pc EXCEPT ![t] = where]

(* The task leaves its try block for its finally clause. *)
Leave(t, how) ==
  /\ Goto(t, "eos")
  /\ fate' = [fate EXCEPT ![t] = how]

(* A task that did not raise still publishes its last events. *)
AfterEos(t) == IF fate[t] = "done" THEN "after" ELSE fate[t]

(* put's transition is told; only the hard limit changes anything here. *)
Tell(t, transition) ==
  callback' = IF transition = "hard_limit"
              THEN [callback EXCEPT ![t] = "told"] ELSE callback

-----------------------------------------------------------------------------
(* _produce_llm                                                            *)

(* The provider yields a token; a response no longer active stops here. *)
LlmToken ==
  /\ At("llm", "stream")
  /\ tokens < MaxTokens
  /\ tokens' = tokens + 1
  /\ IF Active THEN Goto("llm", "cork") /\ UNCHANGED fate
     ELSE Leave("llm", "done")
  /\ UNCHANGED <<text, audio, held, buffer, voiced, made, sent, response,
                 callback, entries, parent>>

(* wait_if_corked, twice in a row: the second wait is the one that counts. *)
LlmCork ==
  /\ At("llm", "cork")
  /\ ~text.corked \/ TextQ!Stopped(text)
  /\ Goto("llm", "put")
  /\ UNCHANGED <<text, audio, fate, held, tokens, buffer, voiced, made, sent,
                 response, callback, entries, parent>>

LlmPut ==
  /\ At("llm", "put")
  /\ \/ /\ TextQ!Stopped(text)
        /\ UNCHANGED <<text, callback>>
     \/ /\ ~TextQ!Stopped(text) /\ ~TextQ!Full(text)
        /\ \E w \in TextWeights :
             LET new == TextQ!Appended(text, tokens, w)
             IN text' = TextQ!Observed(new) /\ Tell("llm", TextQ!Transition(new))
  /\ Goto("llm", "stream")
  /\ UNCHANGED <<audio, fate, held, tokens, buffer, voiced, made, sent,
                 response, entries, parent>>

(* The token stream ends, or it or a send to the browser raises. *)
LlmStreamEnds ==
  /\ At("llm", "stream")
  /\ \E how \in {"done", "raised"} : Leave("llm", how)
  /\ UNCHANGED <<text, audio, held, tokens, buffer, voiced, made, sent,
                 response, callback, entries, parent>>

(* Mutant of LlmEos: the entry is appended whatever happened meanwhile. *)
LlmEosUnchecked ==
  /\ At("llm", "eos")
  /\ \/ TextQ!Stopped(text) /\ UNCHANGED text
     \/ /\ ~TextQ!Stopped(text) /\ ~TextQ!Full(text)
        /\ text' = TextQ!Observed(TextQ!Appended(text, EndOfStream, 0))
  /\ Goto("llm", AfterEos("llm"))
  /\ entries' = IF fate["llm"] = "done" THEN Append(entries, "completed") ELSE entries
  /\ UNCHANGED <<audio, fate, held, tokens, buffer, voiced, made, sent,
                 response, callback, parent>>

(* The finally clause puts EndOfStream, past the cork but not past a full  *)
(* queue.  A task that did not raise then records the response, with no    *)
(* await in between, unless it is marked interrupted already.              *)
LlmEos ==
  /\ At("llm", "eos")
  /\ \/ TextQ!Stopped(text) /\ UNCHANGED text
     \/ /\ ~TextQ!Stopped(text) /\ ~TextQ!Full(text)
        /\ text' = TextQ!Observed(TextQ!Appended(text, EndOfStream, 0))
  /\ Goto("llm", AfterEos("llm"))
  /\ entries' = IF fate["llm"] = "done" /\ entries = <<>>
                THEN <<"completed">> ELSE entries
  /\ UNCHANGED <<audio, fate, held, tokens, buffer, voiced, made, sent,
                 response, callback, parent>>

(* Its first event is not published: the task raises outside its try. *)
LlmNeverStarts ==
  /\ At("llm", "stream")
  /\ tokens = 0
  /\ Goto("llm", "raised")
  /\ UNCHANGED <<text, audio, fate, held, tokens, buffer, voiced, made, sent,
                 response, callback, entries, parent>>

LlmNext ==
  \/ LlmNeverStarts \/ LlmToken \/ LlmCork \/ LlmPut \/ LlmStreamEnds \/ LlmEos

-----------------------------------------------------------------------------
(* _consume_tts and _synthesize_phrase                                     *)

(* get; the state is sent to the browser before the item is looked at. *)
TtsGet ==
  /\ At("tts", "get")
  /\ text.items # <<>>
  /\ held' = [held EXCEPT !["tts"] = Head(text.items).item]
  /\ text' = TextQ!Observed(TextQ!Popped(text))
  /\ Goto("tts", "got")
  /\ UNCHANGED <<audio, fate, tokens, buffer, voiced, made, sent, response,
                 callback, entries, parent>>

(* QueueClosed: the task returns through its finally clause. *)
TtsClosed ==
  /\ At("tts", "get")
  /\ text.items = <<>> /\ TextQ!Stopped(text)
  /\ Leave("tts", "done")
  /\ UNCHANGED <<text, audio, held, tokens, buffer, voiced, made, sent,
                 response, callback, entries, parent>>

(* A phrase of n tokens goes to the provider. *)
Synthesize(n) ==
  /\ voiced' = voiced + n
  /\ buffer' = 0
  /\ Goto("tts", "synth")
  /\ UNCHANGED fate

(* Likewise: nothing was taken from the queue. *)
TtsNeverStarts ==
  /\ At("tts", "get")
  /\ held["tts"] = EndOfStream
  /\ Goto("tts", "raised")
  /\ UNCHANGED <<text, audio, fate, held, tokens, buffer, voiced, made, sent,
                 response, callback, entries, parent>>

(* The callback of get, or the event about a dropped chunk, fails. *)
TtsRaises ==
  /\ At("tts", "got")
  /\ Leave("tts", "raised")
  /\ UNCHANGED <<text, audio, held, tokens, buffer, voiced, made, sent,
                 response, callback, entries, parent>>

(* A text chunk: dropped when stale, else buffered; the buffer is spoken   *)
(* when it ends a sentence or is long enough.                              *)
TtsText ==
  /\ At("tts", "got")
  /\ held["tts"] # EndOfStream
  /\ \/ Active /\ Synthesize(buffer + 1)
     \/ /\ buffer' = IF Active THEN buffer + 1 ELSE buffer
        /\ Goto("tts", "get")
        /\ UNCHANGED <<voiced, fate>>
  /\ UNCHANGED <<text, audio, held, tokens, made, sent, response, callback,
                 entries, parent>>

(* Mutant of TtsLast: the unfinished phrase is forgotten. *)
TtsLastForgets ==
  /\ At("tts", "got")
  /\ held["tts"] = EndOfStream
  /\ Leave("tts", "done")
  /\ UNCHANGED <<text, audio, held, tokens, buffer, voiced, made, sent,
                 response, callback, entries, parent>>

(* EndOfStream: what is left in the buffer is spoken, if not stale. *)
TtsLast ==
  /\ At("tts", "got")
  /\ held["tts"] = EndOfStream
  /\ IF buffer > 0 /\ Active THEN Synthesize(buffer)
     ELSE Leave("tts", "done") /\ UNCHANGED <<buffer, voiced>>
  /\ UNCHANGED <<text, audio, held, tokens, made, sent, response, callback,
                 entries, parent>>

(* The provider yields audio: numbered if the response is still active. *)
TtsAudio ==
  /\ At("tts", "synth")
  /\ Active
  /\ made < MaxChunks
  /\ made' = made + 1
  /\ Goto("tts", "cork")
  /\ UNCHANGED <<text, audio, fate, held, tokens, buffer, voiced, sent,
                 response, callback, entries, parent>>

TtsCork ==
  /\ At("tts", "cork")
  /\ ~audio.corked \/ AudioQ!Stopped(audio)
  /\ Goto("tts", "put")
  /\ UNCHANGED <<text, audio, fate, held, tokens, buffer, voiced, made, sent,
                 response, callback, entries, parent>>

TtsPut ==
  /\ At("tts", "put")
  /\ \/ /\ AudioQ!Stopped(audio)
        /\ UNCHANGED <<audio, callback>>
     \/ /\ ~AudioQ!Stopped(audio) /\ ~AudioQ!Full(audio)
        /\ \E w \in AudioWeights :
             LET new == AudioQ!Appended(audio, made, w)
             IN audio' = AudioQ!Observed(new) /\ Tell("tts", AudioQ!Transition(new))
  /\ Goto("tts", "synth")
  /\ UNCHANGED <<text, fate, held, tokens, buffer, voiced, made, sent,
                 response, entries, parent>>

(* The phrase is finished, or the provider raises. *)
TtsPhraseEnds ==
  /\ At("tts", "synth")
  /\ \/ held["tts"] # EndOfStream /\ Goto("tts", "get") /\ UNCHANGED fate
     \/ held["tts"] = EndOfStream /\ Leave("tts", "done")
     \/ Leave("tts", "raised")
  /\ UNCHANGED <<text, audio, held, tokens, buffer, voiced, made, sent,
                 response, callback, entries, parent>>

TtsEos ==
  /\ At("tts", "eos")
  /\ \/ AudioQ!Stopped(audio) /\ UNCHANGED audio
     \/ /\ ~AudioQ!Stopped(audio) /\ ~AudioQ!Full(audio)
        /\ audio' = AudioQ!Observed(AudioQ!Appended(audio, EndOfStream, 0))
  /\ Goto("tts", AfterEos("tts"))
  /\ UNCHANGED <<text, fate, held, tokens, buffer, voiced, made, sent,
                 response, callback, entries, parent>>

TtsNext ==
  \/ TtsNeverStarts \/ TtsGet \/ TtsClosed \/ TtsRaises \/ TtsText \/ TtsLast \/ TtsAudio
  \/ TtsCork \/ TtsPut \/ TtsPhraseEnds \/ TtsEos

-----------------------------------------------------------------------------
(* _consume_transport                                                      *)

TransportGet ==
  /\ At("transport", "get")
  /\ audio.items # <<>>
  /\ held' = [held EXCEPT !["transport"] = Head(audio.items).item]
  /\ audio' = AudioQ!Observed(AudioQ!Popped(audio))
  /\ Goto("transport", "got")
  /\ UNCHANGED <<text, fate, tokens, buffer, voiced, made, sent, response,
                 callback, entries, parent>>

TransportClosed ==
  /\ At("transport", "get")
  /\ audio.items = <<>> /\ AudioQ!Stopped(audio)
  /\ Goto("transport", "done")
  /\ UNCHANGED <<text, audio, fate, held, tokens, buffer, voiced, made, sent,
                 response, callback, entries, parent>>

(* Mutant of TransportSend: no fence. *)
TransportSendUnfenced ==
  /\ At("transport", "got")
  /\ \/ /\ held["transport"] = EndOfStream
        /\ Goto("transport", "after")
        /\ UNCHANGED sent
     \/ /\ held["transport"] # EndOfStream
        /\ sent' = Append(sent, held["transport"])
        /\ Goto("transport", "get")
  /\ UNCHANGED <<text, audio, fate, held, tokens, buffer, voiced, made,
                 response, callback, entries, parent>>

(* The fence is checked and the chunk handed to send_audio with no await   *)
(* in between.  A send to a browser that is gone raises, and so does the   *)
(* callback of get or the event about a dropped chunk.                     *)
TransportSend ==
  /\ At("transport", "got")
  /\ \/ /\ held["transport"] = EndOfStream
        /\ Goto("transport", "after")
        /\ UNCHANGED sent
     \/ /\ held["transport"] # EndOfStream
        /\ sent' = IF Active THEN Append(sent, held["transport"]) ELSE sent
        /\ Goto("transport", "get")
     \/ /\ held["transport"] # EndOfStream
        /\ Goto("transport", "raised")
        /\ UNCHANGED sent
  /\ UNCHANGED <<text, audio, fate, held, tokens, buffer, voiced, made,
                 response, callback, entries, parent>>

(* The last events of a task are published, or one of them is not. *)
Publish(t) ==
  /\ At(t, "after")
  /\ \E how \in {"done", "raised"} : Goto(t, how)
  /\ UNCHANGED <<text, audio, fate, held, tokens, buffer, voiced, made, sent,
                 response, callback, entries, parent>>

PublishNext == \E t \in Tasks : Publish(t)

TransportNext == TransportGet \/ TransportClosed \/ TransportSend

-----------------------------------------------------------------------------
(* _on_backpressure at the hard limit, and _cancel_response                *)

(* Mutant of CancelBegins: the response is cancelled again. *)
CancelBeginsAgain(t) ==
  /\ callback[t] = "told"
  /\ response' = "cancelled"
  /\ callback' = [callback EXCEPT ![t] = IF Live THEN "flushText" ELSE "none"]
  /\ entries' = IF ~Live /\ "interrupted" \notin {entries[i] : i \in DOMAIN entries}
                THEN Append(entries, "interrupted") ELSE entries
  /\ UNCHANGED <<text, audio, pc, fate, held, tokens, buffer, voiced, made,
                 sent, parent>>

(* The transition has been published; whatever response is active NOW is   *)
(* cancelled.  Without live queues there is nothing to flush and the       *)
(* response is marked in the same step.                                    *)
CancelBegins(t) ==
  /\ callback[t] = "told"
  /\ IF ~Active
     THEN callback' = [callback EXCEPT ![t] = "none"] /\ UNCHANGED <<response, entries>>
     ELSE /\ response' = "cancelled"
          /\ callback' = [callback EXCEPT ![t] = IF Live THEN "flushText" ELSE "none"]
          /\ entries' = IF Live THEN entries ELSE Append(entries, "interrupted")
  /\ UNCHANGED <<text, audio, pc, fate, held, tokens, buffer, voiced, made,
                 sent, parent>>

CancelFlushesText(t) ==
  /\ callback[t] = "flushText"
  /\ text' = TextQ!Observed(TextQ!Flushed(text, Chunks(text)))
  /\ callback' = [callback EXCEPT ![t] = "flushAudio"]
  /\ UNCHANGED <<audio, pc, fate, held, tokens, buffer, voiced, made, sent,
                 response, entries, parent>>

CancelFlushesAudio(t) ==
  /\ callback[t] = "flushAudio"
  /\ audio' = AudioQ!Observed(AudioQ!Flushed(audio, Chunks(audio)))
  /\ callback' = [callback EXCEPT ![t] = "mark"]
  /\ UNCHANGED <<text, pc, fate, held, tokens, buffer, voiced, made, sent,
                 response, entries, parent>>

(* _mark_response_interrupted *)
CancelMarks(t) ==
  /\ callback[t] = "mark"
  /\ entries' = Append(entries, "interrupted")
  /\ callback' = [callback EXCEPT ![t] = "none"]
  /\ UNCHANGED <<text, audio, pc, fate, held, tokens, buffer, voiced, made,
                 sent, response, parent>>

(* An event or message fails: put raises in the task that called it, the   *)
(* response not cancelled yet, or cancelled and not marked.                *)
CallbackRaises(t) ==
  /\ callback[t] \in {"told", "flushAudio", "mark"}
  /\ callback' = [callback EXCEPT ![t] = "none"]
  /\ Leave(t, "raised")
  /\ UNCHANGED <<text, audio, held, tokens, buffer, voiced, made, sent,
                 response, entries, parent>>

CancelNext ==
  \E t \in Stages :
    CancelBegins(t) \/ CancelFlushesText(t) \/ CancelFlushesAudio(t) \/ CancelMarks(t)
    \/ CallbackRaises(t)

-----------------------------------------------------------------------------
(* The message loop                                                        *)

AllDone == \A t \in Tasks : pc[t] = "done"
SomeRaised == \E t \in Tasks : pc[t] = "raised"

CloseQueues == text' = TextQ!Closed(text) /\ audio' = AudioQ!Closed(audio)

GatherReturns ==
  /\ parent = "gather"
  /\ AllDone
  /\ CloseQueues
  /\ parent' = "returned"
  /\ UNCHANGED <<pc, fate, held, tokens, buffer, voiced, made, sent, response,
                 callback, entries>>

(* Mutant of GatherRaises: the queues stay open. *)
GatherRaisesOnly ==
  /\ parent = "gather"
  /\ SomeRaised
  /\ parent' = "failed"
  /\ UNCHANGED <<text, audio, pc, fate, held, tokens, buffer, voiced, made, sent,
                 response, callback, entries>>

(* gather raises with the first task that does; the others are left        *)
(* running, and nobody waits for them any more.                            *)
GatherRaises ==
  /\ parent = "gather"
  /\ SomeRaised
  /\ CloseQueues
  /\ parent' = "failed"
  /\ UNCHANGED <<pc, fate, held, tokens, buffer, voiced, made, sent, response,
                 callback, entries>>

(* wait_for cancels the gather: CancelledError wherever a task waits.  The *)
(* finally clauses of llm and tts still put EndOfStream, unless the task   *)
(* was waiting in that put already or is past it.                          *)
TimeoutFires ==
  /\ parent = "gather"
  /\ ~AllDone /\ ~SomeRaised
  /\ parent' = "expired"
  /\ \E inPut \in SUBSET {t \in Stages : pc[t] = "eos"} :
       pc' = [t \in Tasks |-> IF pc[t] = "done" THEN "done"
                             ELSE IF t \in inPut \cup {"transport"} \/ pc[t] = "after"
                             THEN "killed"
                             ELSE "eos"]
  /\ fate' = [t \in Stages |-> "killed"]
  /\ callback' = [t \in Stages |-> "none"]
  /\ UNCHANGED <<text, audio, held, tokens, buffer, voiced, made, sent,
                 response, entries>>

(* gather ends with the first cancelled task, the handler of TimeoutError  *)
(* cancels the tasks again, and the call fails.                            *)
TimeoutEnds ==
  /\ parent = "expired"
  /\ \E t \in Tasks : pc[t] = "killed"
  /\ pc' = [t \in Tasks |-> IF pc[t] \in Final THEN pc[t] ELSE "killed"]
  /\ CloseQueues
  /\ parent' = "failed"
  /\ UNCHANGED <<fate, held, tokens, buffer, voiced, made, sent, response,
                 callback, entries>>

(* After the turn: the browser reports that it has played everything, or   *)
(* a confirmed barge-in cancels the response, which no queue holds now.    *)
PlaybackDone ==
  /\ parent = "returned"
  /\ Active
  /\ response' = "finished"
  /\ UNCHANGED <<text, audio, pc, fate, held, tokens, buffer, voiced, made,
                 sent, callback, entries, parent>>

BargeIn ==
  /\ parent = "returned"
  /\ Active
  /\ response' = "cancelled"
  /\ entries' = Append(entries, "interrupted")
  /\ UNCHANGED <<text, audio, pc, fate, held, tokens, buffer, voiced, made,
                 sent, callback, parent>>

GatherNext == GatherReturns \/ GatherRaises \/ TimeoutEnds

(* Every task and the loop have ended. *)
Ended ==
  /\ parent \in {"returned", "failed"}
  /\ \A t \in Tasks : pc[t] \in Final
  /\ \A t \in Stages : callback[t] = "none"
Terminated == Ended /\ UNCHANGED vars

Next ==
  \/ LlmNext \/ TtsNext \/ TransportNext \/ PublishNext \/ CancelNext
  \/ GatherNext \/ TimeoutFires \/ PlaybackDone \/ BargeIn \/ Terminated

Spec == Init /\ [][Next]_vars

(***************************************************************************)
(* Fairness.  The message loop is sure to run; a provider or a send may    *)
(* hang for ever.                                                          *)
(***************************************************************************)
FairSpec == Spec /\ WF_vars(GatherNext)

(* The timer of wait_for fires. *)
TimerRuns == WF_vars(TimeoutFires)

(* The event loop runs every task that can run and the providers answer    *)
(* (their streams are finite).                                             *)
ProvidersAnswer ==
  /\ WF_vars(LlmNext) /\ WF_vars(TtsNext) /\ WF_vars(TransportNext)
  /\ WF_vars(PublishNext) /\ WF_vars(CancelNext)
-----------------------------------------------------------------------------
QueueType(n) ==
  [items : Seq([item : 0..n, weight : Nat]), depth : Nat, corked : BOOLEAN,
   hardLimited : BOOLEAN, closed : BOOLEAN, cancelled : BOOLEAN]

(* The shape of every variable. *)
TypeOK ==
  /\ text \in QueueType(MaxTokens) /\ audio \in QueueType(MaxChunks)
  /\ pc \in [Tasks -> {"stream", "cork", "put", "get", "got", "synth", "eos", "after"}
                   \cup Final]
  /\ fate \in [Stages -> Final]
  /\ held \in [{"tts", "transport"} -> Nat]
  /\ tokens \in 0..MaxTokens /\ buffer \in 0..MaxTokens /\ voiced \in 0..MaxTokens
  /\ made \in 0..MaxChunks
  /\ sent \in Seq(1..MaxChunks)
  /\ response \in {"active", "cancelled", "finished"}
  /\ callback \in [Stages -> {"none", "told", "flushText", "flushAudio", "mark"}]
  /\ entries \in Seq({"completed", "interrupted"})
  /\ parent \in {"gather", "expired", "returned", "failed"}

(* The browser receives the chunks of a response in order, without a gap   *)
(* and none twice, whatever is flushed, dropped or refused on the way.     *)
SentInOrder == \A i \in DOMAIN sent : sent[i] = i

(* Once a response is cancelled no audio of it is sent, although chunks of *)
(* it can still be put after the flush (docs/barge-in.md, Response         *)
(* Fencing).                                                               *)
SilentAfterCancel == [][response = "cancelled" => sent' = sent]_vars

(* A turn that returns normally leaves nothing in its queues; unless the   *)
(* response was cancelled, every token went to the TTS provider and every  *)
(* chunk to the browser.                                                   *)
CompleteDelivery ==
  parent = "returned" =>
    /\ text.items = <<>> /\ audio.items = <<>>
    /\ response # "cancelled" => voiced = tokens /\ Len(sent) = made

(* Cancelling is idempotent: two hard limits reached at once, one in each  *)
(* queue, start one cancellation.                                          *)
OneCancellation ==
  Cardinality({t \in Stages : callback[t] \in {"flushText", "flushAudio", "mark"}}) <= 1

(* A response marked interrupted is not recorded as completed afterwards,  *)
(* nor marked a second time.                                               *)
InterruptedIsFinal == \A i \in DOMAIN entries : entries[i] = "interrupted" => i = Len(entries)

(* The shape of the state, and of the conversation it leaves.            *)
Inv == TypeOK /\ InterruptedIsFinal

(* A queue at its hard limit gets the response cancelled (the turn may     *)
(* fail first).                                                            *)
HardLimitCancels ==
  ProvidersAnswer =>
    (text.hardLimited \/ audio.hardLimited) ~> (response = "cancelled" \/ parent = "failed")

(* Every task ends without the timer, tasks orphaned by the failure of     *)
(* another included: no producer stays corked or blocked on a queue nobody *)
(* reads. (A deadlock before the end would violate this too.)              *)
EveryTaskEnds == ProvidersAnswer => <>Ended

(* The message loop gets its turn back even when a provider hangs.         *)
TurnEnds == TimerRuns => <>(parent \in {"returned", "failed"})

(* The response comes to its end in every way it should: all tasks when  *)
(* the providers answer, by a cancellation when a queue is at its hard   *)
(* limit, and the turn when they do not answer.                          *)
ResponseEnds == EveryTaskEnds /\ HardLimitCancels /\ TurnEnds

(* docs/barge-in.md:87: the next LLM turn receives only the likely spoken  *)
(* prefix of an interrupted response.                                      *)
OnlySpokenPrefix ==
  \A i, j \in DOMAIN entries : entries[i] = "interrupted" => entries[j] # "completed"
=============================================================================
