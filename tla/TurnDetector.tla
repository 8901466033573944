------------------------------ MODULE TurnDetector ------------------------------
(* How microphone frames become user turns: SmoothedTurnDetector with its       *)
(* durations, the frames _handle_audio keeps until speech is sustained, the     *)
(* audio the transcription session is given, the commit of a turn at its end or *)
(* at an audio.end_turn message, and the statistics the noise filter reads. One *)
(* message is handled to its end before the next one is taken. Durations are    *)
(* whole units of time.                                                         *)
EXTENDS Naturals, Sequences, FiniteSets, SequencesExt

CONSTANTS
  Frames,           \* what may be heard: [speech, ms, wave]
  MinSpeech,        \* vad_min_speech_ms
  EndSilence,       \* vad_end_silence_ms
  MinTurnAudio,     \* vad_min_turn_audio_ms
  MinTranscribed,   \* vad_min_transcribed_turn_audio_ms
  MinPercent,       \* vad_min_speech_frame_ratio, in percent
  MinGreeting,      \* what a greeting must last, 500 ms
  Transcripts,      \* what the transcription may give
  MaxTurnAudio,     \* websocket_max_audio_bytes, as a duration
  MaxFrames         \* bound: frames of the call

(* What the constants are.                                                      *)
TurnAssumption ==
  /\ Frames \subseteq [speech : BOOLEAN, ms : Nat \ {0}, wave : Nat]
  /\ {MinSpeech, EndSilence, MinTurnAudio, MinTranscribed, MinPercent, MinGreeting,
      MaxTurnAudio, MaxFrames} \subseteq Nat
  /\ Transcripts \subseteq {"empty", "greeting", "backchannel", "words"}

VARIABLES
  heard,            \* every frame of the call
  det,              \* the detector: [state, speech, silence, turn]
  pending,          \* _pending_vad_frames, as positions in heard
  turn,             \* state.turn_id, counted
  hasAudio,         \* _turn_has_audio
  audio,            \* what the session has appended since the last commit
  size,             \* _turn_audio_bytes, as a duration
  stats,            \* _turn_stats_by_id: a set of [turn, of]
  commits,          \* the turns processed: [audio, verdict]
  failed            \* the exception that ends the call

vars == <<heard, det, pending, turn, hasAudio, audio, size, stats, commits, failed>>

NoStats == [speech |-> 0, total |-> 0, speechFrames |-> 0, frames |-> 0]

Init ==
  /\ heard = <<>>
  /\ det = [state |-> "quiet", speech |-> 0, silence |-> 0, turn |-> NoStats]
  /\ pending = <<>> /\ audio = <<>> /\ commits = <<>>
  /\ turn = 0 /\ size = 0
  /\ hasAudio = FALSE /\ failed = FALSE
  /\ stats = {}

--------------------------------------------------------------------------------
(* The detector. Each step gives the next state and whether the turn started or *)
(* ended with the frame.                                                        *)

(* A speech frame: a first one starts a turn on trial, enough of them in a row  *)
(* start it, one in a pause resumes it.                                         *)
OnSpeech(f) ==
  LET started == det.state \in {"quiet", "starting"} /\ det.speech + f.ms >= MinSpeech
  IN  [state   |-> IF started \/ det.state \in {"stopping", "speaking"}
                   THEN "speaking" ELSE "starting",
       speech  |-> det.speech + f.ms,
       silence |-> 0,
       turn    |-> IF det.state = "quiet" THEN NoStats ELSE det.turn,
       started |-> started, ended |-> FALSE]

(* Mutant of OnQuiet: the pause goes on counting through speech.                *)
OnQuietSumming(f) ==
  LET silence == IF det.state \in {"speaking", "stopping"} THEN det.silence + f.ms ELSE det.silence
      ended   == det.state = "stopping" /\ silence >= EndSilence
  IN  [state   |-> IF det.state \in {"speaking", "stopping"} /\ ~ended THEN "stopping" ELSE "quiet",
       speech  |-> det.speech,
       silence |-> IF ended THEN 0 ELSE silence,
       turn    |-> IF det.state = "starting" THEN NoStats ELSE det.turn,
       started |-> FALSE, ended |-> ended]

(* A quiet frame: the first of a pause never ends the turn, a later one does    *)
(* when the pause is long enough.                                               *)
OnQuiet(f) ==
  LET silence == CASE det.state = "speaking" -> f.ms
                   [] det.state = "stopping" -> det.silence + f.ms
                   [] OTHER -> det.silence
      ended   == det.state = "stopping" /\ silence >= EndSilence
  IN  [state   |-> IF det.state \in {"speaking", "stopping"} /\ ~ended THEN "stopping" ELSE "quiet",
       speech  |-> 0,
       silence |-> IF ended THEN 0 ELSE silence,
       turn    |-> IF det.state = "starting" THEN NoStats ELSE det.turn,
       started |-> FALSE, ended |-> ended]

Counted(of, f) ==
  [speech       |-> of.speech + IF f.speech THEN f.ms ELSE 0,
   total        |-> of.total + f.ms,
   speechFrames |-> of.speechFrames + IF f.speech THEN 1 ELSE 0,
   frames       |-> of.frames + 1]

Update(f) ==
  LET u == IF f.speech THEN OnSpeech(f) ELSE OnQuiet(f)
  IN  IF u.state # "quiet" \/ u.ended THEN [u EXCEPT !.turn = Counted(@, f)] ELSE u

--------------------------------------------------------------------------------
(* _noise_turn_reason: whether a turn with these statistics and this transcript *)
(* is taken for noise.                                                          *)
IsNoise(of, words) ==
  \/ of.speech < MinTurnAudio
  \/ words = "empty"
  \/ /\ words # "greeting" \/ of.speech < MinGreeting
     /\ of.speechFrames * 100 < MinPercent * of.frames
     /\ of.speech < MinTranscribed

StatsOf(S, t, current) ==
  IF \E s \in S : s.turn = t THEN (CHOOSE s \in S : s.turn = t).of ELSE current

(* _finalize_turn and _process_turn: the session's audio is committed, and the  *)
(* entry of the turn is dropped unless the turn is a backchannel. current is    *)
(* the detector's snapshot, known the entries so far.                           *)
FinalizeTurn(t, known, current, sent) ==
  \E words \in Transcripts :
    LET of      == StatsOf(known, t, current)
        verdict == IF IsNoise(of, words) THEN "ignored"
                   ELSE IF words = "backchannel" THEN "backchannel" ELSE "accepted"
    IN  /\ commits' = Append(commits, [audio |-> sent, verdict |-> verdict])
        /\ stats' = IF verdict = "backchannel"
                    THEN known \cup {[turn |-> t, of |-> of]}
                    ELSE {s \in known : s.turn # t}

Length(seq, h) == FoldSeq(LAMBDA i, sum : h[i].ms + sum, 0, seq)

(* Mutant of TurnAudio: the frames heard before speech was sustained are lost.  *)
TurnAudioLate(u, f, now) ==
  IF u.started \/ u.state \in {"speaking", "stopping"} THEN <<now>> ELSE <<>>

(* What the frame adds to the turn: the frames kept so far and itself when the  *)
(* turn starts, itself while it goes on. `frame not in pending` compares the    *)
(* samples, not the frames.                                                     *)
TurnAudio(u, f, now) ==
  IF u.started
  THEN IF \E i \in Range(pending) : heard[i] = f THEN pending ELSE Append(pending, now)
  ELSE IF u.state \in {"speaking", "stopping"} THEN <<now>> ELSE <<>>

(* _handle_audio. A turn that grows beyond the limit raises, which ends the     *)
(* call.                                                                        *)
Hear ==
  /\ ~failed /\ Len(heard) < MaxFrames
  /\ \E f \in Frames :
       LET u      == Update(f)
           now    == Len(heard) + 1
           added  == TurnAudio(u, f, now)
           length == (IF u.started THEN 0 ELSE size) + Length(added, heard')
           entry  == [turn |-> turn, of |-> u.turn]
           sent   == audio \o added
       IN  /\ heard' = Append(heard, f)
           /\ det' = [state |-> u.state, speech |-> u.speech, silence |-> u.silence, turn |-> u.turn]
           /\ turn' = IF u.started THEN turn + 1 ELSE turn
           /\ pending' = IF u.state = "starting" THEN Append(pending, now) ELSE <<>>
           /\ failed' = (length > MaxTurnAudio)
           /\ IF u.ended /\ hasAudio
              THEN /\ FinalizeTurn(turn, {s \in stats : s.turn # turn} \cup {entry}, u.turn, sent)
                   /\ audio' = <<>> /\ hasAudio' = FALSE /\ size' = 0
              ELSE /\ stats' = IF u.ended THEN {s \in stats : s.turn # turn} \cup {entry} ELSE stats
                   /\ audio' = sent
                   /\ hasAudio' = ((hasAudio /\ ~u.started) \/ added # <<>>)
                   /\ size' = length
                   /\ UNCHANGED commits

(* The audio.end_turn message: the audio so far is a turn; the detector is not  *)
(* told.                                                                        *)
EndTurn ==
  /\ ~failed /\ hasAudio
  /\ UNCHANGED <<heard, det, pending, turn, failed>>
  /\ FinalizeTurn(turn, IF \E s \in stats : s.turn = turn THEN stats
                        ELSE stats \cup {[turn |-> turn, of |-> det.turn]}, det.turn, audio)
  /\ audio' = <<>> /\ hasAudio' = FALSE /\ size' = 0

Next == Hear \/ EndTurn
Spec == Init /\ [][Next]_vars

--------------------------------------------------------------------------------
(* Every variable has its type.                                                 *)
TypeOK ==
  /\ Range(heard) \subseteq Frames /\ Len(heard) <= MaxFrames
  /\ det.state \in {"quiet", "starting", "speaking", "stopping"}
  /\ det.speech \in Nat /\ det.silence \in Nat /\ det.turn \in [DOMAIN NoStats -> Nat]
  /\ Range(pending) \cup Range(audio) \subseteq DOMAIN heard
  /\ turn \in 0..Len(heard) /\ size \in Nat
  /\ failed \in BOOLEAN /\ hasAudio = (audio # <<>>)
  /\ \A s \in stats : s.turn \in 1..turn

Ms(i, j) == FoldSeq(LAMBDA f, sum : f.ms + sum, 0, SubSeq(heard, i, j))
Run(i, j, speech) == \A k \in i..j : heard[k].speech = speech

(* The reference. Speech is sustained at frame j, a pause is long enough at j,  *)
(* a turn is going on after frame n, and began with frame i.                    *)
Sustained(j) == \E i \in 1..j : Run(i, j, TRUE) /\ Ms(i, j) >= MinSpeech
LongPause(j) == \E i \in 1..(j - 1) : Run(i, j, FALSE) /\ Ms(i, j) >= EndSilence
InTurn(n)    == \E j \in 1..n : Sustained(j) /\ \A k \in (j + 1)..n : ~LongPause(k)
Began(n, i)  ==
  \E j \in i..n :
    /\ Sustained(j) /\ Run(i, j, TRUE) /\ (i > 1 => ~heard[i - 1].speech)
    /\ ~InTurn(j - 1) /\ \A k \in j..n : InTurn(k)

(* A turn starts with the frame that makes a run of speech min_speech_ms long   *)
(* and ends with the frame that makes a pause of two frames or more             *)
(* end_silence_ms long, whatever was heard before (SmoothedTurnDetector.update).*)
DetectsTurns == (det.state \in {"speaking", "stopping"}) <=> InTurn(Len(heard))

(* The statistics of a turn count every frame from the first of the run that    *)
(* started it.                                                                  *)
StatsCoverTurn ==
  \A i \in DOMAIN heard :
    Began(Len(heard), i) =>
      /\ det.turn.total = Ms(i, Len(heard))
      /\ det.turn.frames = Len(heard) - i + 1
      /\ det.turn.speechFrames = Cardinality({k \in i..Len(heard) : heard[k].speech})

(* Between turns the transcription session holds no audio that a commit of the  *)
(* next turn would transcribe with it.                                          *)
NothingLeftBehind == det.state \in {"quiet", "starting"} => audio = <<>>

Given == FlattenSeq([c \in DOMAIN commits |-> commits[c].audio]) \o audio

OfTurn(k) == \E n \in k..Len(heard), i \in 1..k : Began(n, i)

(* The session is given the frames in order, each once, and every frame of a    *)
(* turn from the first of its speech, but for the one that ends the pause and   *)
(* one whose samples equal those of an earlier frame of the run that starts it. *)
AudioIsWhole ==
  /\ \A n \in 1..(Len(Given) - 1) : Given[n] < Given[n + 1]
  /\ ~failed =>
       \A k \in DOMAIN heard :
         OfTurn(k) => \/ k \in Range(Given)
                     \/ \E i \in 1..(k - 1) : heard[i] = heard[k] /\ Run(i, k, TRUE)
================================================================================
