------------------------- MODULE MCBillingFinalization -------------------------
(* BillingFinalization on one call whose usage arrives before and behind its    *)
(* barrier.                                                                     *)
EXTENDS BillingFinalization

MCEvent(id, type, turn, stage) ==
  [id |-> <<id>>, key |-> <<"key", id>>, type |-> type, turn |-> turn, stage |-> stage,
   measurements |-> <<>>, expected |-> {}, duration |-> 0]

Used(id, type, stage, unit, qty) ==
  [MCEvent(id, type, "t1", stage) EXCEPT !.measurements = <<[type |-> unit, qty |-> qty]>>]

Stt     == Used("stt", "usage.stt", "stt", "audio_minute", 1)
Llm     == Used("llm", "usage.llm", "llm", "output_token", 2)
LateTts == Used("tts", "usage.tts", "tts", "input_text_token", 3)
LateLlm == Used("llm2", "usage.llm", "llm", "output_token", 1)
Barrier == [MCEvent("barrier", "usage.finalization_barrier", "session", "billing")
              EXCEPT !.expected = {<<"t1", "stt_audio_seconds">>, <<"t1", "llm_output_tokens">>}]

OneLate == <<Stt, Llm, Barrier, LateTts>>
TwoLate == <<Stt, Barrier, LateTts, LateLlm>>

Ends == <<MCEvent("started", "call.started", "session", "transport"),
          MCEvent("ended", "call.ended", "session", "transport")>>

Plan(usage, duration, span, n) ==
  [usage |-> usage, calls |-> [Ends EXCEPT ![2].duration = duration], retries |-> n, span |-> span]

(* A second attempt with one late event, or two late events and an end that     *)
(* says no duration. A cent is 12: speech and its recognition, the model and    *)
(* the fee all come to half a cent more than a whole one.                       *)
SomePlans == {Plan(OneLate, 6, 7, 1), Plan(TwoLate, 0, 18, 0)}
Later     == {Plan(TwoLate, 0, 18, 0)}

Prices == [t \in {"audio_minute", "output_token", "input_text_token"} |->
             IF t = "audio_minute" THEN 18 ELSE IF t = "output_token" THEN 9 ELSE 14]
================================================================================
