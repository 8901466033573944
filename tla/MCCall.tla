--------------------------------- MODULE MCCall ---------------------------------
(* Three parts of a call for TLC: the events it publishes, its turn detector,   *)
(* or its transcription session. Each has the others as its environment, in     *)
(* any order they allow, so each behaviour has one of them and the others stay  *)
(* where they begin.                                                            *)
EXTENDS CallEvents

CONSTANTS
  Frames, MinSpeech, EndSilence, MinTurnAudio, MinTranscribed, MinPercent, MinGreeting,
  Transcripts, MaxTurnAudio, MaxFrames, MaxSttTurns, MaxChunks

VARIABLES
  part,
  heard, det, pending, turnId, hasAudio, audio, size, stats, commits, failed,
  call, sess, provider, channel, results, shown, sttFaults

detector == <<heard, det, pending, turnId, hasAudio, audio, size, stats, commits, failed>>
stt      == <<call, sess, provider, channel, results, shown, sttFaults>>

Turn == INSTANCE TurnDetector WITH turn <- turnId
Stt  == INSTANCE SttSession WITH MaxTurns <- MaxSttTurns, faults <- sttFaults

ASSUME CallAssumption == Turn!TurnAssumption /\ Stt!SttAssumption

CallInit == Init /\ Turn!Init /\ Stt!Init /\ part \in {"events", "turns", "stt"}

Events(A) == part = "events" /\ A /\ UNCHANGED <<part, detector, stt>>
Turns(A)  == part = "turns" /\ A /\ UNCHANGED <<part, vars, stt>>
Speech(A) == part = "stt" /\ A /\ UNCHANGED <<part, vars, detector>>

CallNext == Events(Next) \/ Turns(Turn!Next) \/ Speech(Stt!Next)

(* The fairness of SttSession.                                                  *)
CallSpec ==
  /\ CallInit
  /\ [][CallNext]_<<part, vars, detector, stt>>
  /\ WF_stt(Speech(Stt!TimesOut))
  /\ WF_stt(Speech(Stt!TakeResult \/ Stt!TakeError \/ Stt!Close))
  /\ WF_stt(Speech(Stt!Read))

Heard(speech, ms, wave) == [speech |-> speech, ms |-> ms, wave |-> wave]

(* Two frames of speech whose samples differ, short and long frames of quiet.   *)
SomeFrames == {Heard(TRUE, 1, 1), Heard(TRUE, 1, 2), Heard(FALSE, 1, 0), Heard(FALSE, 2, 0)}

--------------------------------------------------------------------------------
(* The types of the three parts, and what the bus is told of the call: no two   *)
(* events with one number, and one verdict.                                     *)
Inv == TypeOK /\ Turn!TypeOK /\ Stt!TypeOK /\ NumbersDiffer /\ OneVerdict

(* Turns begin and end where the durations say, and their statistics, by which  *)
(* the noise filter judges them, are of all their frames.                       *)
DetectsTurns == Turn!DetectsTurns /\ Turn!StatsCoverTurn

(* The audio of a turn is given whole, in order and once, and none is left over *)
(* for the commit of a later turn.                                              *)
AudioIsWhole == Turn!AudioIsWhole /\ Turn!NothingLeftBehind

(* A turn takes the transcript of its own audio, and shows its own partials.    *)
TranscriptIsOwn == Stt!TranscriptIsOwn /\ Stt!PartialIsOwn

(* A commit comes to its end, whatever becomes of the reader and the provider.  *)
CommitEnds == Stt!CommitEnds
================================================================================
