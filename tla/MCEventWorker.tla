----------------------------- MODULE MCEventWorker ------------------------------
(* EventWorker on one short call: two usage events of one turn, the barrier and *)
(* the end, with prices that tell the measurements apart.                       *)
EXTENDS EventWorker

MCEvent(id, type, turn, stage) ==
  [id |-> <<id>>, key |-> <<"key", id>>, type |-> type, turn |-> turn, stage |-> stage,
   measurements |-> <<>>, expected |-> {}, duration |-> 0]

Measurement(type, qty) == [type |-> type, qty |-> qty]

Started == MCEvent("started", "call.started", "session", "transport")
Ended   == [MCEvent("ended", "call.ended", "session", "transport") EXCEPT !.duration = 2]
UsedStt == [MCEvent("stt", "usage.stt", "t1", "stt")
              EXCEPT !.measurements = <<Measurement("audio_minute", 1)>>]
UsedLlm == [MCEvent("llm", "usage.llm", "t1", "llm")
              EXCEPT !.measurements = <<Measurement("input_token", 2),
                                        Measurement("cached_input_token", 1),
                                        Measurement("output_token", 3)>>]
Barrier == [MCEvent("barrier", "usage.finalization_barrier", "session", "billing")
              EXCEPT !.expected = {<<"t1", "stt_audio_seconds">>, <<"t1", "llm_input_tokens">>,
                                   <<"t1", "llm_output_tokens">>}]

OneCall ==
  <<[topic |-> "call-events",  event |-> Started], [topic |-> "usage-events", event |-> UsedStt],
    [topic |-> "usage-events", event |-> UsedLlm], [topic |-> "usage-events", event |-> Barrier],
    [topic |-> "call-events",  event |-> Ended]>>

(* A call whose barrier was never published, for the bill and its retries.      *)
ShortCall ==
  <<[topic |-> "call-events",  event |-> Started], [topic |-> "usage-events", event |-> UsedStt],
    [topic |-> "call-events",  event |-> Ended]>>

(* A measurement the catalog has no price for, between two that it has.         *)
Unpriced == [MCEvent("unpriced", "usage.tts", "t1", "tts")
               EXCEPT !.measurements = <<Measurement("new_kind_of_token", 1)>>]
PoisonedCall ==
  <<[topic |-> "call-events",  event |-> Started], [topic |-> "usage-events", event |-> Unpriced],
    [topic |-> "usage-events", event |-> UsedStt]>>

(* And a record of another producer that this worker cannot decode.             *)
Malformed == MCEvent("malformed", "malformed", "session", "transport")
MalformedCall == PoisonedCall \o <<[topic |-> "pipeline-events", event |-> Malformed]>>

Plan(script, bounds) ==
  [script |-> script, replays |-> bounds[1], dbFailures |-> bounds[2],
   unanswered |-> bounds[3], crashes |-> bounds[4], bills |-> bounds[5]]

SomePlans ==
  {Plan(OneCall, <<0, 0, 1, 0, 1>>), Plan(OneCall, <<1, 3, 0, 0, 1>>),
   Plan(OneCall, <<0, 1, 0, 1, 1>>), Plan(ShortCall, <<0, 0, 1, 1, 2>>),
   Plan(MalformedCall, <<1, 1, 0, 1, 1>>)}

Topics == {"call-events", "usage-events", "pipeline-events"}
Prices == [t \in {"audio_minute", "input_token", "cached_input_token", "output_token"} |->
             IF t = "audio_minute" THEN 7 ELSE IF t = "output_token" THEN 3 ELSE 1]
================================================================================
