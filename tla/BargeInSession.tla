--------------------------- MODULE BargeInSession ---------------------------
(***************************************************************************)
(* Who is speaking: the barge-in state of one call, kept in three places   *)
(* of the session worker -- BargeInCoordinator (barge_in.py), the          *)
(* ResponseController and PipelineState.active_response_id                 *)
(* (stream_module.py) -- and in the browser (demo/page.tsx), which plays   *)
(* the audio, stops it speculatively and reports over the same websocket.  *)
(*                                                                         *)
(* The message loop handles one audio frame or message at a time and does  *)
(* nothing else while a response is generated, so a handler is one step    *)
(* and the browser's messages queue in `inbox`.  ResponsePipeline has the  *)
(* inside of a generation.                                                 *)
(***************************************************************************)
EXTENDS Integers, Sequences

CONSTANTS
  MaxResponses,   \* bound on the responses of the call
  MaxCandidates,  \* bound on the candidates the browser sends
  MaxQueue,       \* bound on the messages in flight in each direction
  ClientEndsTurns \* the client also ends turns itself (audio.end_turn), as
                  \* scripts/smoke_live_pipeline.py does and the demo page not

ASSUME SessionAssumption ==
  MaxResponses \in Nat \ {0} /\ MaxCandidates \in Nat /\ MaxQueue \in Nat \ {0}
  /\ ClientEndsTurns \in BOOLEAN

VARIABLES
  coord,         \* BargeInCoordinator: state, active, candidate, processed
  active,        \* ResponseController.active_response_id
  shown,         \* PipelineState.active_response_id
  started,       \* responses started; they are numbered from 1
  cancelled,     \* ResponseController.cancelled
  complete,      \* _response_transport_complete
  played,        \* _playback_done_response_ids
  audible,       \* responses with a _response_last_audio_sent_at
  interruption,  \* the response of _last_interruption
  turn,          \* "idle", "generating", or "explaining": generating with a
                 \* semantic, after which the interruption is forgotten
  vad,           \* state of the turn detector, STOPPING counted as SPEAKING
  heard,         \* history: evidence of the speech frame just handled
  fencedOn,      \* history: verdicts of confirm a barge-in cancelled on
  inbox,         \* browser to session
  outbox,        \* session to browser
  browser        \* the browser: playing, sound, muted, sent (candidates)

sessionVars == <<coord, active, shown, started, cancelled, complete, played, audible,
          interruption, turn, vad, heard, fencedOn, inbox, outbox, browser>>

None == 0
NoCandidate == [id |-> 0, response |-> None]

(* Browser candidates are numbered; "backend-<response>" is -response. *)
BackendCandidate(r) == [id |-> -r, response |-> r]

Responses == 1..MaxResponses

SessionInit ==
  /\ coord = [state |-> "IDLE", active |-> None, candidate |-> NoCandidate,
              processed |-> {}]
  /\ active = None /\ shown = None /\ started = 0
  /\ cancelled = {} /\ complete = {} /\ played = {} /\ audible = {}
  /\ interruption = None
  /\ turn = "idle" /\ vad = "QUIET"
  /\ heard = 0 /\ fencedOn = {}
  /\ inbox = <<>> /\ outbox = <<>>
  /\ browser = [playing |-> None, sound |-> "silent", muted |-> {}, sent |-> 0]

-----------------------------------------------------------------------------
(* BargeInCoordinator: the coordinator each method leaves behind.          *)

Holding(c) == c.candidate # NoCandidate

AssistantPlaying(c, r) ==
  [c EXCEPT !.active = r,
            !.state = IF @ \in {"CANDIDATE", "CONFIRMED"} THEN @ ELSE "ASSISTANT_PLAYING"]

AssistantFinished(c, r) ==
  IF r # c.active \/ c.candidate.response = r THEN c
  ELSE [c EXCEPT !.active = None,
                 !.state = IF @ = "ASSISTANT_PLAYING" THEN "IDLE" ELSE @]

(* candidate: duplicates change nothing, stale ones are remembered. *)
Considered(c, cand) ==
  IF cand.id \in c.processed THEN c
  ELSE IF cand.response # c.active THEN [c EXCEPT !.processed = @ \cup {cand.id}]
  ELSE [c EXCEPT !.candidate = cand, !.state = "CANDIDATE"]

(* Mutant of Rejected: the candidate is dropped but the state is not. *)
RejectedSilently(c) ==
  IF ~Holding(c) THEN c
  ELSE [c EXCEPT !.processed = @ \cup {c.candidate.id}, !.candidate = NoCandidate]

Rejected(c) ==
  IF ~Holding(c) THEN c
  ELSE [c EXCEPT !.processed = @ \cup {c.candidate.id},
                 !.candidate = NoCandidate, !.state = "REJECTED"]

(* confirm: the coordinator and the state of the returned transition. *)
Confirm(c) ==
  LET cand == IF Holding(c) THEN c.candidate ELSE BackendCandidate(c.active)
  IN IF ~Holding(c) /\ c.active = None THEN [coord |-> c, verdict |-> "none"]
     ELSE IF cand.response # c.active
          THEN [coord |-> Rejected(c), verdict |-> "REJECTED"]
     ELSE [coord |-> [c EXCEPT !.candidate = cand, !.state = "CONFIRMED"],
           verdict |-> "CONFIRMED"]

BeginCancelling(c, r) == IF r = c.active THEN [c EXCEPT !.state = "CANCELLING"] ELSE c

CancelDone(c, r) ==
  IF r # c.active THEN c
  ELSE [c EXCEPT !.processed = IF Holding(c) THEN @ \cup {c.candidate.id} ELSE @,
                 !.candidate = NoCandidate, !.state = "CANCELLED"]

(* resolving, classification and resolved, with no other step in between. *)
Resolved(c) == [c EXCEPT !.state = "IDLE", !.active = None]

-----------------------------------------------------------------------------
(* _cancel_response, from the coordinator c. *)
CancelResponse(c, r) ==
  IF r \in cancelled
  THEN coord' = BeginCancelling(c, r)
       /\ UNCHANGED <<active, shown, cancelled, interruption, outbox>>
  ELSE /\ coord' = CancelDone(BeginCancelling(c, r), r)
       /\ cancelled' = cancelled \cup {r}
       /\ active' = IF active = r THEN None ELSE active
       /\ shown' = active'
       /\ interruption' = r
       /\ outbox' = Append(outbox, [type |-> "cancelled", response |-> r])

(* _finish_response_if_playback_done, when the sets have become done, sent. *)
FinishIfPlayed(r, done, sent) ==
  IF r \in sent /\ r \in done /\ r \notin cancelled /\ active = r
  THEN active' = None /\ shown' = None /\ coord' = AssistantFinished(coord, r)
  ELSE UNCHANGED <<active, shown, coord>>

-----------------------------------------------------------------------------
(* The message loop: messages.                                             *)

Receive(type) ==
  /\ turn = "idle"
  /\ inbox # <<>> /\ Head(inbox).type = type
  /\ inbox' = Tail(inbox)
  /\ heard' = 0

(* Mutant of Restorable: a fenced response is brought back. *)
RestorableFenced(r) == r \in 1..started /\ r \in audible
Restorable(r) == r \notin cancelled /\ r \in 1..started /\ r \in audible

(* Mutant of Restored: the coordinator is not told. *)
RestoredQuietly(c, r) == c
Restored(c, r) == AssistantPlaying(c, r)

(* _handle_barge_in_candidate.  A response other than the active one is    *)
(* made active again if it was heard a moment ago (the clock decides).     *)
HandleCandidate ==
  /\ Receive("candidate")
  /\ LET cand == [id |-> Head(inbox).id, response |-> Head(inbox).response]
         r == cand.response
     IN \/ /\ r # coord.active
           /\ Restorable(r)
           /\ active' = r /\ shown' = r
           /\ played' = played \ {r}
           /\ coord' = Considered(Restored(coord, r), cand)
        \/ /\ coord' = Considered(coord, cand)
           /\ UNCHANGED <<active, shown, played>>
  /\ UNCHANGED <<started, cancelled, complete, audible, interruption, turn,
                 vad, fencedOn, outbox, browser>>

HandlePlaybackDone ==
  /\ Receive("done")
  /\ played' = played \cup {Head(inbox).response}
  /\ FinishIfPlayed(Head(inbox).response, played', complete)
  /\ UNCHANGED <<started, cancelled, complete, audible, interruption, turn,
                 vad, fencedOn, outbox, browser>>

-----------------------------------------------------------------------------
(* The message loop: audio frames.  `evidence` is what the turn detector   *)
(* and the clock make of a speech frame: 0 confirms nothing, 1 meets the   *)
(* thresholds that apply to a browser candidate, 2 also the higher ones    *)
(* without a candidate, past the echo grace.                               *)

QuietFrame ==
  /\ turn = "idle"
  /\ vad \in {"QUIET", "STARTING"}
  /\ vad' = "QUIET" /\ heard' = 0
  /\ coord' = Rejected(coord)
  /\ UNCHANGED <<active, shown, started, cancelled, complete, played, audible,
                 interruption, turn, fencedOn, inbox, outbox, browser>>

StartingFrame ==
  /\ turn = "idle"
  /\ vad = "QUIET"
  /\ vad' = "STARTING" /\ heard' = 0
  /\ UNCHANGED <<coord, active, shown, started, cancelled, complete, played,
                 audible, interruption, turn, fencedOn, inbox, outbox, browser>>

(* _confirm_barge_in_from_vad.  The transition of confirm is acted on      *)
(* whenever there is one; the response cancelled is the one shown.         *)
ConfirmFromVad(evidence) ==
  LET enough == shown # None /\ evidence >= (IF Holding(coord) THEN 1 ELSE 2)
      c == IF Holding(coord) THEN coord ELSE Considered(coord, BackendCandidate(shown))
      result == Confirm(c)
  IN IF ~enough
     THEN UNCHANGED <<coord, active, shown, cancelled, interruption, outbox, fencedOn>>
     ELSE IF result.verdict = "none"
     THEN coord' = c
          /\ UNCHANGED <<active, shown, cancelled, interruption, outbox, fencedOn>>
     ELSE CancelResponse(result.coord, shown) /\ fencedOn' = fencedOn \cup {result.verdict}

SpeechFrame ==
  /\ turn = "idle"
  /\ vad \in {"STARTING", "SPEAKING"}
  /\ Len(outbox) < MaxQueue
  /\ vad' = "SPEAKING"
  /\ \E evidence \in 0..2 : heard' = evidence /\ ConfirmFromVad(evidence)
  /\ UNCHANGED <<started, complete, played, audible, turn, inbox, browser>>

(* _finalize_turn, _process_turn: the detector ends the turn, or the client *)
(* does (audio.end_turn) and the detector goes on.  Noise and a back-channel *)
(* start no response; noise always "resolves" a barge-in.                   *)
EndTurn ==
  /\ turn = "idle"
  /\ vad = "SPEAKING"
  /\ vad' \in {"QUIET"} \cup (IF ClientEndsTurns THEN {"SPEAKING"} ELSE {})
  /\ heard' = 0

TurnIgnored ==
  /\ EndTurn
  /\ coord' \in {Resolved(coord)} \cup (IF interruption = None THEN {coord} ELSE {})
  /\ interruption' = None
  /\ UNCHANGED <<active, shown, started, cancelled, complete, played, audible,
                 turn, fencedOn, inbox, outbox, browser>>

TurnAccepted ==
  /\ EndTurn
  /\ started < MaxResponses
  /\ started' = started + 1
  /\ active' = started' /\ shown' = started'
  /\ coord' = AssistantPlaying(IF interruption # None THEN Resolved(coord) ELSE coord, started')
  /\ turn' = IF interruption # None THEN "explaining" ELSE "generating"
  /\ UNCHANGED <<cancelled, complete, played, audible, interruption, fencedOn,
                 inbox, outbox, browser>>

-----------------------------------------------------------------------------
(* While a response is generated.                                          *)

Generating == turn \in {"generating", "explaining"}

SendAudio ==
  /\ Generating
  /\ active = started
  /\ Len(outbox) < MaxQueue
  /\ outbox' = Append(outbox, [type |-> "audio", response |-> started])
  /\ audible' = audible \cup {started}
  /\ UNCHANGED <<coord, active, shown, started, cancelled, complete, played,
                 interruption, turn, vad, heard, fencedOn, inbox, browser>>

HardLimit ==
  /\ Generating
  /\ shown # None
  /\ Len(outbox) < MaxQueue
  /\ CancelResponse(coord, shown)
  /\ UNCHANGED <<started, complete, played, audible, turn, vad, heard, fencedOn,
                 inbox, browser>>

(* The end of the stream went through _consume_transport. *)
TransportDone == complete \cup {started}

GenerationEnds ==
  /\ Generating
  /\ complete' = TransportDone
  /\ FinishIfPlayed(started, played, complete')
  /\ interruption' = IF turn = "explaining" THEN None ELSE interruption
  /\ turn' = "idle"
  /\ UNCHANGED <<started, cancelled, played, audible, vad, heard, fencedOn,
                 inbox, outbox, browser>>

-----------------------------------------------------------------------------
(* The browser.                                                            *)

(* onmessage: a chunk is played unless its response was cancelled; a       *)
(* cancellation stops whatever is playing.                                 *)
BrowserHears ==
  /\ outbox # <<>>
  /\ outbox' = Tail(outbox)
  /\ LET m == Head(outbox) IN
     \/ /\ m.type = "audio" /\ m.response \in browser.muted
        /\ UNCHANGED browser
     \/ /\ m.type = "audio" /\ m.response \notin browser.muted
        /\ browser' = [browser EXCEPT !.playing = m.response, !.sound = "sounding"]
     \/ /\ m.type = "cancelled"
        /\ browser' = [browser EXCEPT !.playing = None, !.sound = "silent",
                                      !.muted = @ \cup {m.response}]
  /\ UNCHANGED <<coord, active, shown, started, cancelled, complete, played,
                 audible, interruption, turn, vad, heard, fencedOn, inbox>>

(* maybeSendBargeInCandidate: the playback is ducked, or stopped when the  *)
(* microphone is loud.                                                     *)
BrowserCandidate ==
  /\ browser.sound = "sounding"
  /\ browser.sent < MaxCandidates
  /\ Len(inbox) < MaxQueue
  /\ inbox' = Append(inbox, [type |-> "candidate", response |-> browser.playing,
                             id |-> browser.sent + 1])
  /\ \E sound \in {"sounding", "stopped"} :
       browser' = [browser EXCEPT !.sound = sound, !.sent = @ + 1]
  /\ UNCHANGED <<coord, active, shown, started, cancelled, complete, played,
                 audible, interruption, turn, vad, heard, fencedOn, outbox>>

(* onended of the last source, played out or after an underrun; stopping   *)
(* several sources reports the end once for each of them.                  *)
BrowserEnds ==
  /\ browser.sound \in {"sounding", "stopped"}
  /\ Len(inbox) < MaxQueue
  /\ inbox' = Append(inbox, [type |-> "done", response |-> browser.playing, id |-> 0])
  /\ \E sound \in {"silent", browser.sound} \ {"sounding"} :
       browser' = [browser EXCEPT !.sound = sound]
  /\ UNCHANGED <<coord, active, shown, started, cancelled, complete, played,
                 audible, interruption, turn, vad, heard, fencedOn, outbox>>

SessionNext ==
  \/ HandleCandidate \/ HandlePlaybackDone
  \/ QuietFrame \/ StartingFrame \/ SpeechFrame \/ TurnIgnored \/ TurnAccepted
  \/ SendAudio \/ HardLimit \/ GenerationEnds
  \/ BrowserHears \/ BrowserCandidate \/ BrowserEnds

SessionSpec == SessionInit /\ [][SessionNext]_sessionVars
-----------------------------------------------------------------------------
States == {"IDLE", "ASSISTANT_PLAYING", "CANDIDATE", "CONFIRMED", "REJECTED",
           "CANCELLING", "CANCELLED"}

Ids == -MaxResponses..MaxCandidates

(* The shape of every variable. *)
SessionTypeOK ==
  /\ coord \in [state : States, active : 0..MaxResponses,
                candidate : [id : Ids, response : 0..MaxResponses],
                processed : SUBSET Ids]
  /\ active \in 0..MaxResponses /\ shown \in 0..MaxResponses
  /\ started \in 0..MaxResponses /\ interruption \in 0..MaxResponses
  /\ cancelled \subseteq Responses /\ complete \subseteq Responses
  /\ played \subseteq Responses /\ audible \subseteq Responses
  /\ turn \in {"idle", "generating", "explaining"}
  /\ vad \in {"QUIET", "STARTING", "SPEAKING"}
  /\ heard \in 0..2 /\ fencedOn \subseteq {"CONFIRMED", "REJECTED"}
  /\ inbox \in Seq([type : {"candidate", "done"}, response : Responses, id : Nat])
  /\ outbox \in Seq([type : {"audio", "cancelled"}, response : Responses])
  /\ browser \in [playing : 0..MaxResponses, sound : {"silent", "sounding", "stopped"},
                  muted : SUBSET Responses, sent : 0..MaxCandidates]

(* PipelineState names the response that the controller fences by.  Both   *)
(* are assigned separately, on start, cancel, finish and restore.          *)
ShownIsActive == shown = active

(* A cancelled response never becomes the active one again, although a     *)
(* late candidate may restore a response that had finished                 *)
(* (docs/runtime_boundaries.md, Barge-In, 6).                              *)
FenceHolds == active \notin cancelled

(* The coordinator never follows a response other than the one the session *)
(* considers active (it may follow none).                                  *)
CoordinatorFollows == shown # None => coord.active \in {None, shown}

(* A candidate is decided once: while one is pending its id is not among   *)
(* the decided ones, and the state CANDIDATE always has one.               *)
CandidatePending ==
  /\ coord.state = "CANDIDATE" => Holding(coord)
  /\ Holding(coord) => coord.candidate.id \notin coord.processed

(* The shape of the state, and of the candidates in it.                  *)
SessionInv == SessionTypeOK /\ CandidatePending

(* The copies of the active response agree: PipelineState,               *)
(* ResponseController and coordinator are updated by every handler one   *)
(* after the other.                                                      *)
ResponseAgreed == ShownIsActive /\ CoordinatorFollows

(* Three statements of the documentation the code contradicts; the README   *)
(* tells how.                                                               *)

(* docs/barge-in.md:36: only a confirmed barge-in fences the response.      *)
OnlyConfirmedFences == fencedOn \subseteq {"CONFIRMED"}

(* docs/vad-and-endpointing.md:114: sustained speech and speech-frame ratio *)
(* determine whether a candidate is confirmed or rejected, so none is left  *)
(* pending by them (unless its response is fenced already).                 *)
CandidateDecided ==
  heard > 0 /\ Holding(coord) => coord.candidate.response \in cancelled

(* docs/failure_modes.md:45: user speech during agent playback cancels the  *)
(* active response; here sustained speech past the echo grace, on one whose *)
(* audio was sent.                                                          *)
SustainedSpeechCancels == heard = 2 => shown \notin audible
=============================================================================
