------------------------------- MODULE Call_proofs -------------------------------
(* Proofs about what a call tells Kafka, whose transcript a turn takes, and     *)
(* which frames make a turn and are given to the transcription, whatever the    *)
(* tasks of a response, the reader, the provider and the caller do meanwhile.   *)
EXTENDS MCCall, FiniteSetTheorems, SequenceTheorems, WellFoundedInduction, TLAPS

UsageTypes  == {"usage.stt", "usage.llm", "usage.tts"}
Expectation == [turn : Nat, type : UsageTypes]

EventType ==
  [type : UsageTypes \cup {"call.started", "call.failed", "barrier", "call.ended"},
   turn : Nat, number : Nat, manifest : SUBSET Expectation]

TaskPlaces ==
  Ended \cup {"running", "measured", "expecting", "open", "starting", "listening", "deciding",
              "gather", "failing", "failed", "finally", "barrier", "ending", "ended", "closed"}

(* The session and what it has sent.                                            *)
EventsShape ==
  /\ at \in [Tasks -> TaskPlaces]
  /\ sending \in [Tasks -> EventType \cup {None}]
  /\ log \in Seq(EventType)
  /\ expected \subseteq Expectation
  /\ hasFailed \in BOOLEAN /\ cutOff \in BOOLEAN
  /\ TypeOK

(* What a task publishes goes with the place it is at.                          *)
Says ==
  /\ at["main"] = "starting" => sending["main"].type = "call.started"
  /\ at["main"] = "failed" => sending["main"].type = "call.failed"
  /\ at["main"] = "barrier" => sending["main"].type = "barrier"
  /\ at["main"] = "ended" => sending["main"].type = "call.ended"
  /\ \A t \in {"main", "llm", "tts"} :
       at[t] = "measured" => sending[t].type = UsageOf(t) /\ sending[t].turn = turn
  /\ at["transport"] \in Ended \cup {"running"}

(* Nobody answers while the main task listens, and a failed call goes to its end.*)
Course ==
  /\ at["main"] \in {"open", "starting", "listening", "measured", "expecting", "deciding"} =>
       \A t \in Response : at[t] = "done"
  /\ at["main"] \in {"measured", "expecting", "deciding", "gather"} => turn > 0
  /\ (\E t \in Response : at[t] # "done") => turn > 0
  /\ hasFailed => at["main"] \in {"failed", "finally", "closed"}
  /\ at["main"] = "failed" => hasFailed
  /\ at["main"] \in {"barrier", "ending", "ended", "closed"} /\ ~hasFailed /\ ~cutOff =>
       \A t \in Response : at[t] = "done"

(* Every number was given once.                                                 *)
Numbered ==
  /\ \A i \in DOMAIN log : log[i].number \in 1..sequence
  /\ \A t \in Tasks : sending[t] # None =>
       /\ sending[t].number \in 1..sequence
       /\ \A i \in DOMAIN log : log[i].number # sending[t].number
  /\ \A t, u \in Tasks :
       (sending[t] # None /\ sending[u] # None /\ sending[t].number = sending[u].number) => t = u
  /\ NumbersDiffer

IsExpecting(t, e) == at[t] = "expecting" /\ e = [turn |-> turn, type |-> UsageOf(t)]

(* What is expected, or about to be, has been published; so has the manifest.   *)
Published ==
  /\ \A e \in expected : \E i \in Usage : Of(i) = e
  /\ \A t \in {"main", "llm", "tts"} :
       at[t] = "expecting" => \E i \in Usage : Of(i) = [turn |-> turn, type |-> UsageOf(t)]
  /\ at["main"] = "barrier" =>
       \A e \in sending["main"].manifest : \E i \in Usage : Of(i) = e
  /\ ExpectedIsPublished

Doomed ==
  hasFailed \/ at["main"] = "failing" \/ \E t \in Response : at[t] = "raised"

(* And what has been published is expected, or about to be, if the call can     *)
(* still come to a barrier that cuts nothing off.                               *)
Accounted ==
  /\ \/ Doomed
     \/ \A i \in Usage :
          Of(i) \in expected \/ \E t \in {"main", "llm", "tts"} : IsExpecting(t, Of(i))
  /\ at["main"] = "barrier" /\ ~cutOff => \A i \in Usage : Of(i) \in sending["main"].manifest
  /\ ManifestIsComplete

(* The call is told to have failed or ended once it has.                        *)
Verdict ==
  /\ At("call.failed") # {} => hasFailed
  /\ At("barrier") # {} => ~hasFailed /\ at["main"] \in {"ending", "ended", "closed"}
  /\ at["main"] \in {"ending", "ended"} => At("barrier") # {}
  /\ At("call.ended") # {} => ~hasFailed /\ at["main"] = "closed"
  /\ \A a, b \in At("barrier") : a = b
  /\ \A i \in At("call.ended") : \E b \in At("barrier") : b < i

EventsInv ==
  /\ EventsShape /\ Says /\ Course /\ Numbered /\ Published /\ Accounted /\ Verdict
--------------------------------------------------------------------------------
(* What is added to the log was being sent, and is added once.                  *)
Grows ==
  /\ log' \in Seq(EventType)
  /\ Len(log) <= Len(log') /\ \A i \in 1..Len(log) : log'[i] = log[i]
  /\ \A i \in (Len(log) + 1)..Len(log') :
       \E t \in Tasks : sending[t] # None /\ log'[i] = sending[t] /\ sending'[t] = None
  /\ \A i, j \in (Len(log) + 1)..Len(log') : log'[i].number = log'[j].number => i = j

(* What is being sent is an event.                                              *)
LEMMA SendingIs ==
  ASSUME EventsShape, NEW t \in Tasks
  PROVE  /\ sending[t] = None \/ sending[t] \in EventType
         /\ sending[t] # None =>
              /\ sending[t].type \in UsageTypes \cup {"call.started", "call.failed", "barrier", "call.ended"}
              /\ sending[t].turn \in Nat /\ sending[t].number \in Nat
              /\ sending[t].manifest \subseteq Expectation
         /\ Len(log) \in Nat /\ DOMAIN log = 1..Len(log)
         /\ \A i \in 1..Len(log) : log[i] \in EventType
<1>1. sending[t] \in EventType \cup {None} /\ log \in Seq(EventType)
  BY DEF EventsShape
<1>2. ASSUME NEW e \in EventType
      PROVE  /\ e.type \in UsageTypes \cup {"call.started", "call.failed", "barrier", "call.ended"}
             /\ e.turn \in Nat /\ e.number \in Nat /\ e.manifest \subseteq Expectation
  BY DEF EventType
<1>3. Len(log) \in Nat /\ DOMAIN log = 1..Len(log) /\ \A i \in 1..Len(log) : log[i] \in EventType
  BY <1>1, LenProperties, ElementOfSeq
<1> QED  BY <1>1, <1>2, <1>3

(* emit makes an event with the next number.                                    *)
LEMMA EmitIs ==
  ASSUME EventsShape, NEW t \in Tasks, NEW of \in Nat,
         NEW type \in UsageTypes \cup {"call.started", "call.failed", "barrier", "call.ended"},
         Emit(t, type, of)
  PROVE  /\ sending' \in [Tasks -> EventType \cup {None}]
         /\ sending'[t] # None /\ sending'[t].type = type /\ sending'[t].turn = of
         /\ sending'[t].number = sequence + 1 /\ sending'[t].manifest = expected
         /\ \A u \in Tasks \ {t} : sending'[u] = sending[u]
         /\ sequence' = sequence + 1 /\ sequence \in Nat
<1> DEFINE e == [type |-> type, turn |-> of, number |-> sequence + 1, manifest |-> expected]
<1>1. sequence \in Nat /\ expected \in SUBSET Expectation
  BY DEF EventsShape, TypeOK
<1>2. e \in EventType
  BY <1>1 DEF EventType
<1>3. /\ e.type = type /\ e.turn = of /\ e.number = sequence + 1 /\ e.manifest = expected
      /\ e # None
  <2>1. e.type # None.type
    BY DEF None, UsageTypes
  <2> QED  BY <2>1
<1>4. sending' = [sending EXCEPT ![t] = e] /\ sequence' = sequence + 1
  BY DEF Emit
<1> HIDE DEF e
<1> QED  BY <1>1, <1>2, <1>3, <1>4 DEF EventsShape

(* One event is published.                                                      *)
LEMMA OneGrows ==
  ASSUME EventsShape, NEW t \in Tasks, sending[t] # None,
         log' \in {log, Append(log, sending[t])}, sending' = [sending EXCEPT ![t] = None]
  PROVE  /\ Grows
         /\ sending' \in [Tasks -> EventType \cup {None}] /\ sending'[t] = None
         /\ \A u \in Tasks \ {t} : sending'[u] = sending[u]
<1>1. sending[t] \in EventType /\ log \in Seq(EventType)
  BY SendingIs DEF EventsShape
<1>2. /\ sending' \in [Tasks -> EventType \cup {None}] /\ sending'[t] = None
      /\ \A u \in Tasks \ {t} : sending'[u] = sending[u]
  BY DEF EventsShape
<1>3. CASE log' = log
  <2>1. Len(log) \in Nat
    BY <1>1, LenProperties
  <2>2. \A i \in (Len(log) + 1)..Len(log') : FALSE
    BY <1>3, <2>1
  <2>3. Len(log) <= Len(log') /\ \A i \in 1..Len(log) : log'[i] = log[i]
    BY <1>3, <2>1
  <2>4. log' \in Seq(EventType)
    BY <1>1, <1>3
  <2>5. Grows
    BY <2>2, <2>3, <2>4 DEF Grows
  <2> QED  BY <1>2, <2>5
<1>4. CASE log' = Append(log, sending[t])
  <2>1. /\ log' \in Seq(EventType) /\ Len(log') = Len(log) + 1 /\ log'[Len(log) + 1] = sending[t]
        /\ \A i \in 1..Len(log) : log'[i] = log[i]
        /\ Len(log) \in Nat
    BY <1>1, <1>4, AppendProperties, LenProperties
  <2>2. \A i \in (Len(log) + 1)..Len(log') : i = Len(log) + 1
    BY <2>1
  <2> QED  BY <1>2, <2>1, <2>2 DEF Grows
<1> QED  BY <1>2, <1>3, <1>4

(* A timeout lets land what it lets land.                                       *)
LEMMA TimeoutGrows ==
  ASSUME EventsShape, Numbered, GatherTimesOut
  PROVE  /\ Grows
         /\ sending' = [t \in Tasks |-> None]
<1>1. sending' = [t \in Tasks |-> None]
  BY DEF GatherTimesOut
<1>2. PICK landed \in SUBSET {t \in Response : sending[t] # None} :
        \E order \in SetToSeqs(landed) :
          log' = log \o [i \in DOMAIN order |-> sending[order[i]]]
  BY DEF GatherTimesOut
<1>3. PICK order \in SetToSeqs(landed) :
        log' = log \o [i \in DOMAIN order |-> sending[order[i]]]
  BY <1>2
<1> DEFINE n == Cardinality(landed)
           s == [i \in 1..n |-> sending[order[i]]]
<1>4. n \in Nat
  <2>1. IsFiniteSet(Response)
    <3>1. IsFiniteSet({"llm"})
      BY FS_Singleton
    <3>2. IsFiniteSet({"llm"} \cup {"tts"})
      BY <3>1, FS_AddElement
    <3>3. IsFiniteSet(({"llm"} \cup {"tts"}) \cup {"transport"})
      BY <3>2, FS_AddElement
    <3>4. Response = ({"llm"} \cup {"tts"}) \cup {"transport"}
      BY DEF Response
    <3> QED  BY <3>3, <3>4
  <2>2. landed \subseteq Response
    BY <1>2
  <2>3. IsFiniteSet(landed)
    BY <2>1, <2>2, FS_Subset
  <2> QED  BY <2>3, FS_CardinalityType
<1>5. /\ order \in [1..n -> landed] /\ DOMAIN order = 1..n
      /\ \A i, j \in 1..n : i # j => order[i] # order[j]
  BY DEF SetToSeqs
<1> HIDE DEF n
<1>6. \A i \in 1..n : order[i] \in Tasks /\ sending[order[i]] # None /\ sending[order[i]] \in EventType
  BY <1>2, <1>5, SendingIs DEF Tasks
<1>7. s \in Seq(EventType) /\ Len(s) = n /\ \A i \in 1..n : s[i] = sending[order[i]]
  BY <1>4, <1>6
<1>8. log' = log \o s
  BY <1>3, <1>5
<1> HIDE DEF s
<1>9. log \in Seq(EventType) /\ Len(log) \in Nat
  BY SendingIs DEF EventsShape
<1>10. /\ log' \in Seq(EventType) /\ Len(log') = Len(log) + n
       /\ \A i \in 1..(Len(log) + n) : log'[i] = IF i <= Len(log) THEN log[i] ELSE s[i - Len(log)]
  BY <1>7, <1>8, <1>9, ConcatProperties
<1>11. \A i \in (Len(log) + 1)..Len(log') :
         i - Len(log) \in 1..n /\ log'[i] = sending[order[i - Len(log)]]
  BY <1>4, <1>7, <1>9, <1>10
<1>12. ASSUME NEW i \in (Len(log) + 1)..Len(log'), NEW j \in (Len(log) + 1)..Len(log'),
              log'[i].number = log'[j].number
       PROVE  i = j
  <2>1. order[i - Len(log)] = order[j - Len(log)]
    BY <1>6, <1>11, <1>12 DEF Numbered
  <2>2. i - Len(log) = j - Len(log)
    BY <1>5, <1>11, <2>1
  <2> QED  BY <1>9, <1>10, <2>2
<1>13. \A i \in (Len(log) + 1)..Len(log') :
         \E t \in Tasks : sending[t] # None /\ log'[i] = sending[t] /\ sending'[t] = None
  BY <1>1, <1>6, <1>11
<1>14. Len(log) <= Len(log') /\ \A i \in 1..Len(log) : log'[i] = log[i]
  BY <1>4, <1>9, <1>10
<1> QED  BY <1>1, <1>10, <1>12, <1>13, <1>14 DEF Grows

(* Every variable keeps its type, and a task publishes where it should.         *)
LEMMA ShapeStep ==
  ASSUME EventsShape, Says, Course, Numbered, [Next]_vars
  PROVE  EventsShape'
<1>1. ASSUME NEW t \in Tasks, Publish(t) PROVE EventsShape'
  BY <1>1, CallEventsAssumption, OneGrows
  DEF Publish, Grows, Returned, EventsShape, TypeOK, Tasks, Response, TaskPlaces, Ended
<1>2. ASSUME NEW t \in Tasks, PublishFails(t) PROVE EventsShape'
  <2>1. /\ log' \in Seq(EventType) /\ sending' \in [Tasks -> EventType \cup {None}]
        /\ sending'[t] = None /\ \A u \in Tasks \ {t} : sending'[u] = sending[u]
    BY <1>2, OneGrows DEF PublishFails, Grows
  <2>2. at[t] \in {"starting", "measured", "failed", "barrier", "ended"} /\ (t # "main" => at[t] = "measured")
    BY <1>2 DEF PublishFails, EventsShape, TypeOK, Tasks, Ended
  <2>3. RaisedTo(t) \in IF t = "main" THEN {"failing", "finally", "closed"} ELSE {"raised"}
    BY <2>2 DEF RaisedTo
  <2>4. at' = [at EXCEPT ![t] = RaisedTo(t)] /\ faults' \in 0..MaxFaults
    BY <1>2, CallEventsAssumption DEF PublishFails, EventsShape, TypeOK
  <2>5. /\ at' \in [Tasks -> TaskPlaces] /\ at'[t] = RaisedTo(t)
        /\ \A u \in Tasks \ {t} : at'[u] = at[u]
    BY <2>3, <2>4 DEF EventsShape, TaskPlaces, Ended
  <2>6. TypeOK'
    BY <1>2, <2>1, <2>3, <2>4, <2>5 DEF PublishFails, EventsShape, TypeOK, Tasks, Response, Ended
  <2> QED  BY <1>2, <2>1, <2>5, <2>6 DEF PublishFails, EventsShape
<1>3. ASSUME NEW t \in {"llm", "tts"}, Measure(t) PROVE EventsShape'
  <2>1. /\ t \in Tasks /\ t \in Response /\ t # "main" /\ turn \in Nat
        /\ UsageOf(t) \in UsageTypes /\ Emit(t, UsageOf(t), turn)
    BY <1>3, CallEventsAssumption
    DEF Measure, UsageOf, UsageTypes, EventsShape, TypeOK, Tasks, Response
  <2>2. /\ sending' \in [Tasks -> EventType \cup {None}] /\ sending'[t] # None
        /\ \A u \in Tasks \ {t} : sending'[u] = sending[u]
        /\ sequence' = sequence + 1 /\ sequence' \in Nat
    BY <2>1, EmitIs
  <2>3. /\ at' \in [Tasks -> TaskPlaces] /\ at'[t] = "measured"
        /\ \A u \in Tasks \ {t} : at'[u] = at[u]
    BY <1>3, <2>1 DEF Measure, EventsShape, TaskPlaces
  <2>4. TypeOK'
    BY <1>3, <2>1, <2>2, <2>3 DEF Measure, EventsShape, TypeOK, Tasks, Response, Ended
  <2> QED  BY <1>3, <2>1, <2>2, <2>3, <2>4 DEF Measure, EventsShape
<1>4. ASSUME NEW t \in {"main", "llm", "tts"}, Expect(t) PROVE EventsShape'
  <2>1. turn \in 1..MaxTurns /\ UsageOf(t) \in UsageTypes
    BY <1>4 DEF Expect, Expected, Course, EventsShape, TypeOK, Response, UsageOf, UsageTypes
  <2>2. expected' \subseteq Expectation /\ \A e \in expected' : e.turn \in 1..turn
    BY <1>4, <2>1, CallEventsAssumption DEF Expect, Expected, EventsShape, TypeOK, Expectation
  <2> QED  BY <1>4, <2>2 DEF Expect, Expected, EventsShape, TypeOK, Tasks, Response, TaskPlaces, Ended
<1>5. ASSUME NEW t \in Response, Finish(t) PROVE EventsShape'
  BY <1>5, CallEventsAssumption
  DEF Finish, EventsShape, TypeOK, Tasks, Response, TaskPlaces, Ended
<1>6. ASSUME NEW t \in Response, Raise(t) PROVE EventsShape'
  BY <1>6, CallEventsAssumption
  DEF Raise, EventsShape, TypeOK, Tasks, Response, TaskPlaces, Ended
<1>7. CASE Open
  BY <1>7, CallEventsAssumption, EmitIs
  DEF Open, EventsShape, TypeOK, Tasks, Response, TaskPlaces, Ended
<1>8. CASE Transcribe
  BY <1>8, CallEventsAssumption, EmitIs
  DEF Transcribe, UsageOf, UsageTypes, EventsShape, TypeOK, Tasks, Response, TaskPlaces, Ended
<1>9. CASE Ignore
  BY <1>9, CallEventsAssumption
  DEF Ignore, Move, EventsShape, TypeOK, Tasks, Response, TaskPlaces, Ended
<1>10. CASE Respond
  <2>1. \A t \in Tasks : sending[t] = None
    BY <1>10 DEF Respond, Course, EventsShape, TypeOK, Tasks, Response
  <2> QED  BY <1>10, <2>1 DEF Respond, EventsShape, TypeOK, Tasks, Response, TaskPlaces, Ended
<1>11. CASE Gathered
  BY <1>11, CallEventsAssumption
  DEF Gathered, Move, EventsShape, TypeOK, Tasks, Response, TaskPlaces, Ended
<1>12. CASE GatherRaises
  BY <1>12, CallEventsAssumption
  DEF GatherRaises, Move, EventsShape, TypeOK, Tasks, Response, TaskPlaces, Ended
<1>13. CASE GatherTimesOut
  BY <1>13, CallEventsAssumption, TimeoutGrows
  DEF GatherTimesOut, Grows, EventsShape, TypeOK, Tasks, Response, TaskPlaces, Ended
<1>14. CASE MainRaises
  BY <1>14, CallEventsAssumption
  DEF MainRaises, Move, EventsShape, TypeOK, Tasks, Response, TaskPlaces, Ended
<1>15. CASE HangUp
  BY <1>15, CallEventsAssumption
  DEF HangUp, Move, EventsShape, TypeOK, Tasks, Response, TaskPlaces, Ended
<1>16. CASE FailCall
  BY <1>16, CallEventsAssumption, EmitIs
  DEF FailCall, EventsShape, TypeOK, Tasks, Response, TaskPlaces, Ended
<1>17. CASE EndCall
  <2>1. CASE hasFailed
    BY <1>17, <2>1 DEF EndCall, EventsShape, TypeOK, Tasks, Response, TaskPlaces, Ended
  <2>2. CASE ~hasFailed
    <3>1. Emit("main", "barrier", 0)
      BY <1>17, <2>2 DEF EndCall
    <3>2. /\ sending' \in [Tasks -> EventType \cup {None}] /\ sending'["main"] # None
          /\ \A u \in Tasks \ {"main"} : sending'[u] = sending[u]
        /\ sequence' \in Nat
      <4>1. "main" \in Tasks /\ 0 \in Nat
        BY DEF Tasks
      <4>2. "barrier" \in UsageTypes \cup {"call.started", "call.failed", "barrier", "call.ended"}
        OBVIOUS
      <4> QED  BY <3>1, <4>1, <4>2, EmitIs
    <3> QED
      BY <1>17, <2>2, <3>1, <3>2
      DEF EndCall, Emit, EventsShape, TypeOK, Tasks, Response, TaskPlaces, Ended
  <2> QED  BY <2>1, <2>2
<1>18. CASE EndedCall
  BY <1>18, CallEventsAssumption, EmitIs
  DEF EndedCall, EventsShape, TypeOK, Tasks, Response, TaskPlaces, Ended
<1>19. CASE UNCHANGED vars
  BY <1>19, CallEventsAssumption
  DEF vars, session, EventsShape, TypeOK, Tasks, Response, TaskPlaces, Ended
<1> QED
  BY <1>1, <1>2, <1>3, <1>4, <1>5, <1>6, <1>7, <1>8, <1>9, <1>10, <1>11, <1>12, <1>13, <1>14, <1>15, <1>16, <1>17, <1>18, <1>19
  DEF Next

(* Every task stays on its way and publishes what it should there.              *)
LEMMA CourseStep ==
  ASSUME EventsShape, Says, Course, [Next]_vars
  PROVE  Says' /\ Course'
<1>1. ASSUME NEW t \in Tasks, Publish(t) PROVE Says' /\ Course'
  BY <1>1
  DEF Publish, Returned, EventsShape, Says, Course, TypeOK, Tasks, Response, Ended
<1>2. ASSUME NEW t \in Tasks, PublishFails(t) PROVE Says' /\ Course'
  BY <1>2
  DEF PublishFails, RaisedTo, EventsShape, Says, Course, TypeOK, Tasks, Response, Ended
<1>3. ASSUME NEW t \in {"llm", "tts"}, Measure(t) PROVE Says' /\ Course'
  BY <1>3, EmitIs
  DEF Measure, UsageOf, UsageTypes, EventsShape, Says, Course, TypeOK, Tasks, Response, Ended
<1>4. ASSUME NEW t \in {"main", "llm", "tts"}, Expect(t) PROVE Says' /\ Course'
  BY <1>4
  DEF Expect, Expected, UsageOf, EventsShape, Says, Course, TypeOK, Tasks, Response, Ended
<1>5. ASSUME NEW t \in Response, Finish(t) PROVE Says' /\ Course'
  BY <1>5
  DEF Finish, EventsShape, Says, Course, TypeOK, Tasks, Response, Ended
<1>6. ASSUME NEW t \in Response, Raise(t) PROVE Says' /\ Course'
  BY <1>6
  DEF Raise, EventsShape, Says, Course, TypeOK, Tasks, Response, Ended
<1>7. CASE Open
  BY <1>7, EmitIs
  DEF Open, EventsShape, Says, Course, TypeOK, Tasks, Response, Ended
<1>8. CASE Transcribe
  BY <1>8, EmitIs
  DEF Transcribe, UsageOf, UsageTypes, EventsShape, Says, Course, TypeOK, Tasks, Response, Ended
<1>9. CASE Ignore
  BY <1>9
  DEF Ignore, Move, EventsShape, Says, Course, TypeOK, Tasks, Response, Ended
<1>10. CASE Respond
  BY <1>10
  DEF Respond, EventsShape, Says, Course, TypeOK, Tasks, Response, Ended
<1>11. CASE Gathered
  BY <1>11
  DEF Gathered, Move, EventsShape, Says, Course, TypeOK, Tasks, Response, Ended
<1>12. CASE GatherRaises
  BY <1>12
  DEF GatherRaises, Move, EventsShape, Says, Course, TypeOK, Tasks, Response, Ended
<1>13. CASE GatherTimesOut
  BY <1>13
  DEF GatherTimesOut, EventsShape, Says, Course, TypeOK, Tasks, Response, Ended
<1>14. CASE MainRaises
  BY <1>14
  DEF MainRaises, Move, EventsShape, Says, Course, TypeOK, Tasks, Response, Ended
<1>15. CASE HangUp
  BY <1>15
  DEF HangUp, Move, EventsShape, Says, Course, TypeOK, Tasks, Response, Ended
<1>16. CASE FailCall
  BY <1>16, EmitIs
  DEF FailCall, EventsShape, Says, Course, TypeOK, Tasks, Response, Ended
<1>17. CASE EndCall
  <2>1. CASE hasFailed
    BY <1>17, <2>1 DEF EndCall, EventsShape, Says, Course, TypeOK, Tasks, Response, Ended
  <2>2. CASE ~hasFailed
    <3>1. Emit("main", "barrier", 0) /\ UNCHANGED <<turn, expected, hasFailed, log>>
      BY <1>17, <2>2 DEF EndCall
    <3>2. "main" \in Tasks /\ 0 \in Nat
      BY DEF Tasks
    <3>3. "barrier" \in UsageTypes \cup {"call.started", "call.failed", "barrier", "call.ended"}
      OBVIOUS
    <3>4. /\ sending'["main"] # None /\ sending'["main"].type = "barrier"
          /\ sending'["main"].number = sequence + 1
          /\ \A u \in Tasks \ {"main"} : sending'[u] = sending[u]
          /\ sequence' = sequence + 1 /\ sequence \in Nat
      BY <3>1, <3>2, <3>3, EmitIs
    <3> QED  BY <1>17, <2>2, <3>1, <3>4 DEF EndCall, EventsShape, Says, Course, TypeOK, Tasks, Response, Ended
  <2> QED  BY <2>1, <2>2
<1>18. CASE EndedCall
  BY <1>18, EmitIs
  DEF EndedCall, EventsShape, Says, Course, TypeOK, Tasks, Response, Ended
<1>19. CASE UNCHANGED vars
  BY <1>19
  DEF vars, session, EventsShape, Says, Course, TypeOK, Tasks, Response, Ended
<1> QED
  BY <1>1, <1>2, <1>3, <1>4, <1>5, <1>6, <1>7, <1>8, <1>9, <1>10, <1>11, <1>12, <1>13, <1>14, <1>15, <1>16, <1>17, <1>18, <1>19
  DEF Next

(* Numbers stay what they are while events are published.                       *)
LEMMA GrowsNumbered ==
  ASSUME EventsShape, Numbered, Grows, sequence' = sequence,
         \A u \in Tasks : sending'[u] \in {sending[u], None}
  PROVE  Numbered'
<1>1. Len(log) \in Nat /\ Len(log') \in Nat /\ DOMAIN log = 1..Len(log) /\ DOMAIN log' = 1..Len(log')
  BY SendingIs, LenProperties DEF Grows, EventsShape
<1>2. ASSUME NEW i \in 1..Len(log'), i > Len(log)
      PROVE  \E t \in Tasks : sending[t] # None /\ log'[i] = sending[t] /\ sending'[t] = None
  <2>1. i \in (Len(log) + 1)..Len(log')
    BY <1>1, <1>2
  <2> QED  BY <2>1 DEF Grows
<1>3. \A i \in 1..Len(log') : i <= Len(log) => log'[i] = log[i] /\ i \in 1..Len(log)
  BY <1>1 DEF Grows
<1>4. \A i \in 1..Len(log') : log'[i].number \in 1..sequence
  BY <1>1, <1>2, <1>3 DEF Numbered
<1>5. ASSUME NEW i \in 1..Len(log'), NEW j \in 1..Len(log'), log'[i].number = log'[j].number
      PROVE  i = j
  <2>1. CASE i <= Len(log) /\ j <= Len(log)
    BY <1>1, <1>3, <1>5, <2>1 DEF Numbered, NumbersDiffer
  <2>2. CASE i > Len(log) /\ j > Len(log)
    BY <1>1, <1>5, <2>2 DEF Grows
  <2>3. CASE i > Len(log) /\ j <= Len(log)
    BY <1>1, <1>2, <1>3, <1>5, <2>3 DEF Numbered
  <2>4. CASE i <= Len(log) /\ j > Len(log)
    BY <1>1, <1>2, <1>3, <1>5, <2>4 DEF Numbered
  <2> QED  BY <1>1, <2>1, <2>2, <2>3, <2>4
<1>6. ASSUME NEW u \in Tasks, sending'[u] # None, NEW i \in 1..Len(log')
      PROVE  log'[i].number # sending'[u].number
  <2>1. sending'[u] = sending[u]
    BY <1>6
  <2>2. CASE i <= Len(log)
    BY <1>1, <1>3, <1>6, <2>1, <2>2 DEF Numbered
  <2>3. CASE i > Len(log)
    <3>1. PICK t \in Tasks : sending[t] # None /\ log'[i] = sending[t] /\ sending'[t] = None
      BY <1>2, <2>3
    <3> QED  BY <1>6, <2>1, <3>1 DEF Numbered
  <2> QED  BY <1>1, <2>2, <2>3
<1> QED  BY <1>1, <1>4, <1>5, <1>6 DEF Numbered, NumbersDiffer

(* No number is given, or published, twice.                                     *)
LEMMA NumberedStep ==
  ASSUME EventsShape, Numbered, [Next]_vars
  PROVE  Numbered'
<1>1. ASSUME NEW t \in Tasks, Publish(t) PROVE Numbered'
  BY <1>1, SendingIs, OneGrows
  DEF Publish, Grows, EventsShape, Numbered, NumbersDiffer, TypeOK, Tasks
<1>2. ASSUME NEW t \in Tasks, PublishFails(t) PROVE Numbered'
  <2>1. sending[t] # None /\ log' \in {log, Append(log, sending[t])} /\ sequence' = sequence
    BY <1>2 DEF PublishFails
  <2>2. Grows /\ sending'[t] = None /\ \A u \in Tasks \ {t} : sending'[u] = sending[u]
    BY <1>2, <2>1, OneGrows DEF PublishFails
  <2> QED  BY <2>1, <2>2, GrowsNumbered
<1>3. ASSUME NEW t \in {"llm", "tts"}, Measure(t) PROVE Numbered'
  BY SMTT(30), <1>3, SendingIs, EmitIs
  DEF Measure, UsageOf, UsageTypes, Response, EventsShape, Numbered, NumbersDiffer, TypeOK, Tasks
<1>4. ASSUME NEW t \in {"main", "llm", "tts"}, Expect(t) PROVE Numbered'
  BY <1>4, SendingIs
  DEF Expect, Expected, EventsShape, Numbered, NumbersDiffer, TypeOK, Tasks
<1>5. ASSUME NEW t \in Response, Finish(t) PROVE Numbered'
  BY <1>5, SendingIs
  DEF Finish, EventsShape, Numbered, NumbersDiffer, TypeOK, Tasks
<1>6. ASSUME NEW t \in Response, Raise(t) PROVE Numbered'
  BY <1>6, SendingIs
  DEF Raise, EventsShape, Numbered, NumbersDiffer, TypeOK, Tasks
<1>7. CASE Open
  BY <1>7, SendingIs, EmitIs
  DEF Open, EventsShape, Numbered, NumbersDiffer, TypeOK, Tasks
<1>8. CASE Transcribe
  BY SMTT(30), <1>8, SendingIs, EmitIs
  DEF Transcribe, UsageOf, UsageTypes, EventsShape, Numbered, NumbersDiffer, TypeOK, Tasks
<1>9. CASE Ignore
  BY <1>9, SendingIs
  DEF Ignore, Move, EventsShape, Numbered, NumbersDiffer, TypeOK, Tasks
<1>10. CASE Respond
  BY <1>10, SendingIs
  DEF Respond, EventsShape, Numbered, NumbersDiffer, TypeOK, Tasks
<1>11. CASE Gathered
  BY <1>11, SendingIs
  DEF Gathered, Move, EventsShape, Numbered, NumbersDiffer, TypeOK, Tasks
<1>12. CASE GatherRaises
  BY <1>12, SendingIs
  DEF GatherRaises, Move, EventsShape, Numbered, NumbersDiffer, TypeOK, Tasks
<1>13. CASE GatherTimesOut
  BY <1>13, TimeoutGrows, GrowsNumbered DEF GatherTimesOut
<1>14. CASE MainRaises
  BY <1>14, SendingIs
  DEF MainRaises, Move, EventsShape, Numbered, NumbersDiffer, TypeOK, Tasks
<1>15. CASE HangUp
  BY <1>15, SendingIs
  DEF HangUp, Move, EventsShape, Numbered, NumbersDiffer, TypeOK, Tasks
<1>16. CASE FailCall
  BY <1>16, SendingIs, EmitIs
  DEF FailCall, EventsShape, Numbered, NumbersDiffer, TypeOK, Tasks
<1>17. CASE EndCall
  <2>1. CASE hasFailed
    BY <1>17, <2>1 DEF EndCall, Numbered, NumbersDiffer
  <2>2. CASE ~hasFailed
    <3>1. Emit("main", "barrier", 0) /\ UNCHANGED log
      BY <1>17, <2>2 DEF EndCall
    <3>2. "main" \in Tasks /\ 0 \in Nat
      BY DEF Tasks
    <3>3. "barrier" \in UsageTypes \cup {"call.started", "call.failed", "barrier", "call.ended"}
      OBVIOUS
    <3>4. /\ sending'["main"].number = sequence + 1
          /\ \A u \in Tasks \ {"main"} : sending'[u] = sending[u]
          /\ sequence' = sequence + 1 /\ sequence \in Nat
      BY <3>1, <3>2, <3>3, EmitIs
    <3> QED  BY <3>1, <3>4, SendingIs DEF Numbered, NumbersDiffer
  <2> QED  BY <2>1, <2>2
<1>18. CASE EndedCall
  <2>1. Emit("main", "call.ended", 0) /\ UNCHANGED log
    BY <1>18 DEF EndedCall
  <2>2. "main" \in Tasks /\ 0 \in Nat
    BY DEF Tasks
  <2>3. "call.ended" \in UsageTypes \cup {"call.started", "call.failed", "barrier", "call.ended"}
    OBVIOUS
  <2>4. /\ sending'["main"].number = sequence + 1
        /\ \A u \in Tasks \ {"main"} : sending'[u] = sending[u]
        /\ sequence' = sequence + 1 /\ sequence \in Nat
    BY <2>1, <2>2, <2>3, EmitIs
  <2> QED  BY <2>1, <2>4, SendingIs DEF Numbered, NumbersDiffer
<1>19. CASE UNCHANGED vars
  BY <1>19, SendingIs
  DEF vars, session, EventsShape, Numbered, NumbersDiffer, TypeOK, Tasks
<1> QED
  BY <1>1, <1>2, <1>3, <1>4, <1>5, <1>6, <1>7, <1>8, <1>9, <1>10, <1>11, <1>12, <1>13, <1>14, <1>15, <1>16, <1>17, <1>18, <1>19
  DEF Next

(* What each task may be publishing.                                            *)
LEMMA SendingSays ==
  ASSUME EventsShape, Says, NEW t \in Tasks, sending[t] # None
  PROVE  /\ at[t] = "measured" =>
              /\ t \in {"main", "llm", "tts"} /\ sending[t].type = UsageOf(t)
              /\ sending[t].type \in UsageTypes /\ sending[t].turn = turn
         /\ at[t] # "measured" =>
              /\ t = "main" /\ sending[t].type \notin UsageTypes
              /\ sending[t].type = "barrier" <=> at[t] = "barrier"
              /\ sending[t].type = "call.failed" <=> at[t] = "failed"
              /\ sending[t].type = "call.ended" <=> at[t] = "ended"
              /\ at[t] \in {"starting", "failed", "barrier", "ended"}
  BY DEF EventsShape, Says, TypeOK, Tasks, Response, Ended, UsageOf, UsageTypes

(* What is in the log while it grows.                                           *)
LEMMA GrowsIs ==
  ASSUME EventsShape, Grows
  PROVE  /\ DOMAIN log \subseteq DOMAIN log'
         /\ \A i \in DOMAIN log : log'[i] = log[i]
         /\ \A i \in DOMAIN log' :
              \/ i \in DOMAIN log
              \/ /\ \A j \in DOMAIN log : j < i
                 /\ \E t \in Tasks : sending[t] # None /\ log'[i] = sending[t] /\ sending'[t] = None
         /\ \A i, j \in DOMAIN log' : i \notin DOMAIN log /\ i < j => j \notin DOMAIN log
         /\ DOMAIN log \subseteq Nat /\ DOMAIN log' \subseteq Nat
<1>1. Len(log) \in Nat /\ Len(log') \in Nat /\ DOMAIN log = 1..Len(log) /\ DOMAIN log' = 1..Len(log')
  BY SendingIs, LenProperties DEF Grows, EventsShape
<1>2. ASSUME NEW i \in 1..Len(log'), i \notin 1..Len(log)
      PROVE  i \in (Len(log) + 1)..Len(log') /\ \A j \in 1..Len(log) : j < i
  BY <1>1, <1>2
<1>3. Len(log) <= Len(log') /\ \A i \in 1..Len(log) : log'[i] = log[i]
  BY DEF Grows
<1>4. \A i \in (Len(log) + 1)..Len(log') :
        \E t \in Tasks : sending[t] # None /\ log'[i] = sending[t] /\ sending'[t] = None
  BY DEF Grows
<1> QED  BY <1>1, <1>2, <1>3, <1>4

(* What Kafka has it keeps, in front of a later barrier.                        *)
LEMMA GrowsPublished ==
  ASSUME EventsShape, Says, Published, Grows
  PROVE  /\ \A e : (\E i \in Usage : Of(i) = e) => \E i \in Usage' : Of(i)' = e
         /\ ExpectedIsPublished'
<1>1. \A i \in Usage : i \in Usage' /\ Of(i)' = Of(i)
  BY GrowsIs DEF Usage, Of
<1>2. ASSUME NEW b \in At("barrier")', NEW e \in log'[b].manifest
      PROVE  \E i \in Usage' : i < b /\ Of(i)' = e
  <2>1. CASE b \in DOMAIN log
    <3>1. b \in At("barrier") /\ e \in log[b].manifest
      BY <1>2, <2>1, GrowsIs DEF At
    <3>2. PICK i \in Usage : i < b /\ Of(i) = e
      BY <3>1 DEF Published, ExpectedIsPublished
    <3> QED  BY <1>1, <3>2
  <2>2. CASE b \notin DOMAIN log
    <3>1. b \in DOMAIN log' /\ log'[b].type = "barrier"
      BY <1>2 DEF At
    <3>2. /\ \A j \in DOMAIN log : j < b
          /\ \E t \in Tasks : sending[t] # None /\ log'[b] = sending[t]
      BY <2>2, <3>1, GrowsIs
    <3>3. PICK t \in Tasks : sending[t] # None /\ log'[b] = sending[t]
      BY <3>2
    <3>4. t = "main" /\ at["main"] = "barrier"
      BY <3>1, <3>3, SendingSays DEF UsageTypes
    <3>5. PICK i \in Usage : Of(i) = e
      BY <1>2, <3>3, <3>4 DEF Published
    <3>6. i < b
      BY <3>2, <3>5 DEF Usage
    <3> QED  BY <1>1, <3>5, <3>6
  <2> QED  BY <2>1, <2>2
<1>3. ExpectedIsPublished'
  BY <1>2 DEF ExpectedIsPublished
<1> QED  BY <1>1, <1>3

(* A step that publishes nothing.                                               *)
Quiet ==
  /\ log' = log
  /\ \A e \in expected' : e \in expected \/ \E t \in {"main", "llm", "tts"} : IsExpecting(t, e)
  /\ \A t \in {"main", "llm", "tts"} :
       at'[t] = "expecting" => at[t] = "expecting" /\ turn' = turn
  /\ at'["main"] = "barrier" =>
       \/ at["main"] = "barrier" /\ sending'["main"] = sending["main"]
       \/ sending'["main"].manifest = expected

(* It leaves what is published what it was.                                     *)
LEMMA QuietPublished ==
  ASSUME Published, Quiet
  PROVE  Published'
<1>1. /\ Usage' = Usage /\ At("barrier")' = At("barrier") /\ log' = log
      /\ \A i \in Usage : Of(i)' = Of(i)
  BY DEF Quiet, Usage, At, Of
<1>2. ExpectedIsPublished'
  BY <1>1 DEF Published, ExpectedIsPublished
<1>3. \A e \in expected' : \E i \in Usage' : Of(i)' = e
  BY <1>1 DEF Quiet, Published, IsExpecting
<1>4. \A t \in {"main", "llm", "tts"} :
        at'[t] = "expecting" => \E i \in Usage' : Of(i)' = [turn |-> turn', type |-> UsageOf(t)]
  BY <1>1 DEF Quiet, Published
<1>5. at'["main"] = "barrier" =>
        \A e \in sending'["main"].manifest : \E i \in Usage' : Of(i)' = e
  BY <1>1 DEF Quiet, Published
<1> QED  BY <1>2, <1>3, <1>4, <1>5 DEF Published

(* Every step publishes, is timed out of publishing, or is quiet.               *)
LEMMA QuietStep ==
  ASSUME EventsShape, Course, [Next]_vars
  PROVE  Quiet \/ (\E t \in Tasks : Publish(t) \/ PublishFails(t)) \/ GatherTimesOut
<1>1. ASSUME NEW t \in Tasks, Publish(t) PROVE \E u \in Tasks : Publish(u) \/ PublishFails(u)
  BY <1>1
<1>2. ASSUME NEW t \in Tasks, PublishFails(t) PROVE \E u \in Tasks : Publish(u) \/ PublishFails(u)
  BY <1>2
<1>3. ASSUME NEW t \in {"llm", "tts"}, Measure(t) PROVE Quiet
  BY <1>3
  DEF Measure, Emit, Quiet, IsExpecting, EventsShape, TypeOK, Course, Tasks, Response, Ended
<1>4. ASSUME NEW t \in {"main", "llm", "tts"}, Expect(t) PROVE Quiet
  BY <1>4
  DEF Expect, Expected, UsageOf, Quiet, IsExpecting, EventsShape, TypeOK, Course, Tasks, Response, Ended
<1>5. ASSUME NEW t \in Response, Finish(t) PROVE Quiet
  BY <1>5
  DEF Finish, Quiet, IsExpecting, EventsShape, TypeOK, Course, Tasks, Response, Ended
<1>6. ASSUME NEW t \in Response, Raise(t) PROVE Quiet
  BY <1>6
  DEF Raise, Quiet, IsExpecting, EventsShape, TypeOK, Course, Tasks, Response, Ended
<1>7. CASE Open
  BY <1>7
  DEF Open, Emit, Quiet, IsExpecting, EventsShape, TypeOK, Course, Tasks, Response, Ended
<1>8. CASE Transcribe
  BY <1>8, EmitIs
  DEF Transcribe, Quiet, IsExpecting, EventsShape, TypeOK, Course, Tasks, Response, Ended
<1>9. CASE Ignore
  BY <1>9
  DEF Ignore, Move, Quiet, IsExpecting, EventsShape, TypeOK, Course, Tasks, Response, Ended
<1>10. CASE Respond
  BY <1>10
  DEF Respond, Quiet, IsExpecting, EventsShape, TypeOK, Course, Tasks, Response, Ended
<1>11. CASE Gathered
  BY <1>11
  DEF Gathered, Move, Quiet, IsExpecting, EventsShape, TypeOK, Course, Tasks, Response, Ended
<1>12. CASE GatherRaises
  BY <1>12
  DEF GatherRaises, Move, Quiet, IsExpecting, EventsShape, TypeOK, Course, Tasks, Response, Ended
<1>13. CASE GatherTimesOut
  BY <1>13
<1>14. CASE MainRaises
  BY <1>14
  DEF MainRaises, Move, Quiet, IsExpecting, EventsShape, TypeOK, Course, Tasks, Response, Ended
<1>15. CASE HangUp
  BY <1>15
  DEF HangUp, Move, Quiet, IsExpecting, EventsShape, TypeOK, Course, Tasks, Response, Ended
<1>16. CASE FailCall
  BY <1>16
  DEF FailCall, Emit, Quiet, IsExpecting, EventsShape, TypeOK, Course, Tasks, Response, Ended
<1>17. CASE EndCall
  <2>1. UNCHANGED <<log, turn, expected>> /\ \A t \in Response : at'[t] = at[t]
    BY <1>17 DEF EndCall, Response, EventsShape, Tasks
  <2>2. at'["main"] = "barrier" => sending'["main"].manifest = expected
    <3>1. CASE hasFailed
      BY <1>17, <3>1 DEF EndCall, EventsShape, Tasks
    <3>2. CASE ~hasFailed
      <4>1. Emit("main", "barrier", 0) /\ "main" \in Tasks /\ 0 \in Nat
        BY <1>17, <3>2 DEF EndCall, Tasks
      <4>2. "barrier" \in UsageTypes \cup {"call.started", "call.failed", "barrier", "call.ended"}
        OBVIOUS
      <4> QED  BY <4>1, <4>2, EmitIs
    <3> QED  BY <3>1, <3>2
  <2>3. at'["main"] # "expecting"
    BY <1>17 DEF EndCall, EventsShape, Tasks
  <2> QED  BY <2>1, <2>2, <2>3 DEF Quiet, Response
<1>18. CASE EndedCall
  BY <1>18
  DEF EndedCall, Emit, Quiet, IsExpecting, EventsShape, TypeOK, Course, Tasks, Response, Ended
<1>19. CASE UNCHANGED vars
  BY <1>19
  DEF vars, session, Quiet, IsExpecting, EventsShape, TypeOK, Course, Tasks, Response, Ended
<1> QED
  BY <1>1, <1>2, <1>3, <1>4, <1>5, <1>6, <1>7, <1>8, <1>9, <1>10, <1>11, <1>12, <1>13, <1>14, <1>15, <1>16, <1>17, <1>18, <1>19
  DEF Next

(* What is expected stays in the log, and what is expected next is there before. *)
LEMMA PublishedStep ==
  ASSUME EventsShape, Says, Course, Numbered, Published, [Next]_vars
  PROVE  Published'
<1>1. ASSUME NEW t \in Tasks, Publish(t) PROVE Published'
  <2>1. /\ sending[t] # None /\ log' = Append(log, sending[t])
        /\ sending' = [sending EXCEPT ![t] = None] /\ at' = [at EXCEPT ![t] = Returned(t)]
        /\ UNCHANGED <<expected, turn>>
    BY <1>1 DEF Publish
  <2>2. /\ Grows /\ \A u \in Tasks \ {t} : sending'[u] = sending[u] /\ at'[u] = at[u]
    BY <2>1, OneGrows DEF EventsShape
  <2>3. /\ \A e : (\E i \in Usage : Of(i) = e) => \E i \in Usage' : Of(i)' = e
        /\ ExpectedIsPublished'
    BY <2>2, GrowsPublished
  <2>4. at'[t] = Returned(t) /\ at[t] \in {"starting", "measured", "failed", "barrier", "ended"}
    BY <2>1 DEF EventsShape, TypeOK
  <2>5. ASSUME NEW u \in {"main", "llm", "tts"}, at'[u] = "expecting"
        PROVE  \E i \in Usage' : Of(i)' = [turn |-> turn', type |-> UsageOf(u)]
    <3>1. CASE u # t
      BY <2>1, <2>2, <2>3, <2>5, <3>1 DEF Published, Tasks, Response
    <3>2. CASE u = t
      <4>1. at[t] = "measured"
        BY <2>4, <2>5, <3>2 DEF Returned
      <4>2. sending[t].type = UsageOf(u) /\ sending[t].type \in UsageTypes /\ sending[t].turn = turn
        BY <2>1, <3>2, <4>1, SendingSays
      <4>3. PICK i \in DOMAIN log' : log'[i] = sending[t]
        <5>1. Len(log) + 1 \in DOMAIN log' /\ log'[Len(log) + 1] = sending[t]
          BY <2>1, SendingIs, AppendProperties DEF EventsShape
        <5> QED  BY <5>1
      <4>4. log'[i].type = UsageOf(u) /\ log'[i].type \in UsageTypes /\ log'[i].turn = turn'
        BY <2>1, <4>2, <4>3
      <4>5. i \in Usage'
        BY <4>3, <4>4 DEF Usage, UsageTypes
      <4>6. Of(i)' = [turn |-> turn', type |-> UsageOf(u)]
        BY <4>4 DEF Of
      <4> QED  BY <4>5, <4>6
    <3> QED  BY <3>1, <3>2
  <2>6. at'["main"] = "barrier" =>
          \A e \in sending'["main"].manifest : \E i \in Usage' : Of(i)' = e
    BY <2>2, <2>3, <2>4 DEF Published, Returned, Tasks
  <2> QED  BY <2>1, <2>3, <2>5, <2>6 DEF Published
<1>2. ASSUME NEW t \in Tasks, PublishFails(t) PROVE Published'
  <2>1. /\ sending[t] # None /\ log' \in {log, Append(log, sending[t])}
        /\ sending' = [sending EXCEPT ![t] = None] /\ at' = [at EXCEPT ![t] = RaisedTo(t)]
        /\ UNCHANGED <<expected, turn>>
    BY <1>2 DEF PublishFails
  <2>2. /\ Grows /\ \A u \in Tasks \ {t} : sending'[u] = sending[u] /\ at'[u] = at[u]
    BY <2>1, OneGrows DEF EventsShape
  <2>3. /\ \A e : (\E i \in Usage : Of(i) = e) => \E i \in Usage' : Of(i)' = e
        /\ ExpectedIsPublished'
    BY <2>2, GrowsPublished
  <2>4. at'[t] \notin {"expecting", "barrier"}
    <3>1. at'[t] = RaisedTo(t) /\ at[t] \in {"starting", "measured", "failed", "barrier", "ended"}
      BY <2>1 DEF EventsShape, TypeOK
    <3> QED  BY <3>1 DEF RaisedTo
  <2> QED  BY <2>1, <2>2, <2>3, <2>4 DEF Published, Tasks, Response
<1>3. CASE GatherTimesOut
  <2>1. Grows
    BY <1>3, TimeoutGrows
  <2>2. /\ \A e : (\E i \in Usage : Of(i) = e) => \E i \in Usage' : Of(i)' = e
        /\ ExpectedIsPublished'
    BY <2>1, GrowsPublished
  <2>3. /\ UNCHANGED <<expected, turn>> /\ at'["main"] = "failing"
        /\ \A t \in Response : at'[t] \in Ended
    BY <1>3 DEF GatherTimesOut, Tasks, Response, Ended
  <2> QED  BY <2>2, <2>3 DEF Published, Response, Ended
<1>4. CASE Quiet
  BY <1>4, QuietPublished
<1> QED  BY <1>1, <1>2, <1>3, <1>4, QuietStep

(* A step that publishes nothing and forgets nothing that is to be expected.    *)
Keeps ==
  /\ log' = log
  /\ Doomed => Doomed'
  /\ \/ Doomed'
     \/ \A e : e \in expected \/ (\E t \in {"main", "llm", "tts"} : IsExpecting(t, e))
               => e \in expected' \/ (\E t \in {"main", "llm", "tts"} : IsExpecting(t, e)')
  /\ \/ /\ cutOff' = cutOff
        /\ at'["main"] = "barrier" => at["main"] = "barrier" /\ sending'["main"] = sending["main"]
     \/ /\ At("barrier") = {}
        /\ ~cutOff' => /\ ~Doomed /\ sending'["main"].manifest = expected
                       /\ \A e : \A t \in {"main", "llm", "tts"} : ~IsExpecting(t, e)

(* It leaves what is accounted for what it was.                                 *)
LEMMA KeepsAccounted ==
  ASSUME Accounted, Keeps
  PROVE  Accounted'
<1>1. /\ Usage' = Usage /\ At("barrier")' = At("barrier") /\ log' = log
      /\ \A i \in Usage : Of(i)' = Of(i)
  BY DEF Keeps, Usage, At, Of
<1>2. Doomed' \/ \A i \in Usage' :
        Of(i)' \in expected' \/ \E t \in {"main", "llm", "tts"} : IsExpecting(t, Of(i))'
  <2>1. CASE Doomed'
    BY <2>1
  <2>2. CASE ~Doomed'
    <3>1. \A e : e \in expected \/ (\E t \in {"main", "llm", "tts"} : IsExpecting(t, e))
               => e \in expected' \/ (\E t \in {"main", "llm", "tts"} : IsExpecting(t, e)')
      BY <2>2 DEF Keeps
    <3>2. \A i \in Usage : Of(i) \in expected \/ \E t \in {"main", "llm", "tts"} : IsExpecting(t, Of(i))
      BY <2>2 DEF Keeps, Accounted
    <3>3. ASSUME NEW i \in Usage
          PROVE  Of(i)' \in expected' \/ \E t \in {"main", "llm", "tts"} : IsExpecting(t, Of(i))'
      <4>1. Of(i) \in expected' \/ \E t \in {"main", "llm", "tts"} : IsExpecting(t, Of(i))'
        BY <1>1, <3>1, <3>2 DEF IsExpecting
      <4> QED  BY <1>1, <4>1
    <3> QED  BY <1>1, <3>3
  <2> QED  BY <2>1, <2>2
<1>3. /\ at'["main"] = "barrier" /\ ~cutOff' => \A i \in Usage' : Of(i)' \in sending'["main"].manifest
      /\ ManifestIsComplete'
  <2>1. CASE /\ cutOff' = cutOff
             /\ at'["main"] = "barrier" => at["main"] = "barrier" /\ sending'["main"] = sending["main"]
    BY <1>1, <2>1 DEF Accounted, ManifestIsComplete
  <2>2. CASE /\ At("barrier") = {}
             /\ ~cutOff' => /\ ~Doomed /\ sending'["main"].manifest = expected
                            /\ \A e : \A t \in {"main", "llm", "tts"} : ~IsExpecting(t, e)
    BY <1>1, <2>2 DEF Accounted, ManifestIsComplete
  <2> QED  BY <2>1, <2>2 DEF Keeps
<1> QED  BY <1>2, <1>3 DEF Accounted

(* Every step publishes, is timed out of publishing, or forgets nothing.        *)
LEMMA KeepsStep ==
  ASSUME EventsShape, Course, Verdict, [Next]_vars
  PROVE  Keeps \/ (\E t \in Tasks : Publish(t) \/ PublishFails(t)) \/ GatherTimesOut
<1>1. ASSUME NEW t \in Tasks, Publish(t) PROVE \E u \in Tasks : Publish(u) \/ PublishFails(u)
  BY <1>1
<1>2. ASSUME NEW t \in Tasks, PublishFails(t) PROVE \E u \in Tasks : Publish(u) \/ PublishFails(u)
  BY <1>2
<1>3. ASSUME NEW t \in {"llm", "tts"}, Measure(t) PROVE Keeps
  BY <1>3
  DEF Measure, Emit, Keeps, IsExpecting, Doomed, EventsShape, TypeOK, Course, Verdict, Tasks, Response, Ended
<1>4. ASSUME NEW t \in {"main", "llm", "tts"}, Expect(t) PROVE Keeps
  BY <1>4
  DEF Expect, Expected, UsageOf, Keeps, IsExpecting, Doomed, EventsShape, TypeOK, Course, Verdict, Tasks, Response, Ended
<1>5. ASSUME NEW t \in Response, Finish(t) PROVE Keeps
  BY <1>5
  DEF Finish, Keeps, IsExpecting, Doomed, EventsShape, TypeOK, Course, Verdict, Tasks, Response, Ended
<1>6. ASSUME NEW t \in Response, Raise(t) PROVE Keeps
  BY <1>6
  DEF Raise, Keeps, IsExpecting, Doomed, EventsShape, TypeOK, Course, Verdict, Tasks, Response, Ended
<1>7. CASE Open
  BY <1>7
  DEF Open, Emit, Keeps, IsExpecting, Doomed, EventsShape, TypeOK, Course, Verdict, Tasks, Response, Ended
<1>8. CASE Transcribe
  BY <1>8, EmitIs
  DEF Transcribe, Keeps, IsExpecting, Doomed, EventsShape, TypeOK, Course, Verdict, Tasks, Response, Ended
<1>9. CASE Ignore
  BY <1>9
  DEF Ignore, Move, Keeps, IsExpecting, Doomed, EventsShape, TypeOK, Course, Verdict, Tasks, Response, Ended
<1>10. CASE Respond
  BY <1>10
  DEF Respond, Keeps, IsExpecting, Doomed, EventsShape, TypeOK, Course, Verdict, Tasks, Response, Ended
<1>11. CASE Gathered
  BY <1>11
  DEF Gathered, Move, Keeps, IsExpecting, Doomed, EventsShape, TypeOK, Course, Verdict, Tasks, Response, Ended
<1>12. CASE GatherRaises
  BY <1>12
  DEF GatherRaises, Move, Keeps, IsExpecting, Doomed, EventsShape, TypeOK, Course, Verdict, Tasks, Response, Ended
<1>13. CASE GatherTimesOut
  BY <1>13
<1>14. CASE MainRaises
  BY <1>14
  DEF MainRaises, Move, Keeps, IsExpecting, Doomed, EventsShape, TypeOK, Course, Verdict, Tasks, Response, Ended
<1>15. CASE HangUp
  BY <1>15
  DEF HangUp, Move, Keeps, IsExpecting, Doomed, EventsShape, TypeOK, Course, Verdict, Tasks, Response, Ended
<1>16. CASE FailCall
  BY <1>16
  DEF FailCall, Emit, Keeps, IsExpecting, Doomed, EventsShape, TypeOK, Course, Verdict, Tasks, Response, Ended
<1>17. CASE EndCall
  <2>1. UNCHANGED <<log, turn, expected, hasFailed>> /\ \A t \in Response : at'[t] = at[t]
    BY <1>17 DEF EndCall, Response, EventsShape, Tasks
  <2>2. CASE hasFailed
    BY <1>17, <2>1, <2>2 DEF EndCall, Keeps, IsExpecting, Doomed, EventsShape, Tasks, Response
  <2>3. CASE ~hasFailed
    <3>1. sending'["main"].manifest = expected
      <4>1. Emit("main", "barrier", 0) /\ "main" \in Tasks /\ 0 \in Nat
        BY <1>17, <2>3 DEF EndCall, Tasks
      <4>2. "barrier" \in UsageTypes \cup {"call.started", "call.failed", "barrier", "call.ended"}
        OBVIOUS
      <4> QED  BY <4>1, <4>2, EmitIs
    <3>2. /\ at["main"] = "finally" /\ at'["main"] = "barrier"
          /\ cutOff' = (\E t \in Response : at[t] # "done")
      BY <1>17, <2>3 DEF EndCall, EventsShape, Tasks
    <3>3. At("barrier") = {}
      BY <3>2 DEF Verdict
    <3>4. ~cutOff' => ~Doomed
      BY <2>3, <3>2 DEF Doomed
    <3>5. ~cutOff' => \A e : \A t \in {"main", "llm", "tts"} : ~IsExpecting(t, e)
      BY <3>2 DEF IsExpecting, Response
    <3>6. Doomed => Doomed'
      BY <2>1, <3>2 DEF Doomed
    <3>7. \A e : \A t \in {"main", "llm", "tts"} : IsExpecting(t, e) => IsExpecting(t, e)'
      BY <2>1, <3>2 DEF IsExpecting, Response
    <3> QED  BY <2>1, <3>1, <3>3, <3>4, <3>5, <3>6, <3>7 DEF Keeps
  <2> QED  BY <2>2, <2>3
<1>18. CASE EndedCall
  BY <1>18
  DEF EndedCall, Emit, Keeps, IsExpecting, Doomed, EventsShape, TypeOK, Course, Verdict, Tasks, Response, Ended
<1>19. CASE UNCHANGED vars
  BY <1>19
  DEF vars, session, Keeps, IsExpecting, Doomed, EventsShape, TypeOK, Course, Verdict, Tasks, Response, Ended
<1> QED
  BY <1>1, <1>2, <1>3, <1>4, <1>5, <1>6, <1>7, <1>8, <1>9, <1>10, <1>11, <1>12, <1>13, <1>14, <1>15, <1>16, <1>17, <1>18, <1>19
  DEF Next

(* What is added while no barrier that cuts nothing off is there, or is added,  *)
(* leaves the manifest what it was.                                             *)
LEMMA GrowsComplete ==
  ASSUME EventsShape, Says, Course, Verdict, Accounted, Grows, cutOff' = cutOff
  PROVE  ManifestIsComplete'
<1> SUFFICES ASSUME ~cutOff, NEW b \in At("barrier")', NEW i \in Usage'
             PROVE  i < b /\ Of(i)' \in log'[b].manifest
  BY DEF ManifestIsComplete
<1>1. ASSUME i \notin DOMAIN log
      PROVE  \E t \in Tasks : at[t] = "measured"
  <2>1. i \in DOMAIN log' /\ log'[i].type \in UsageTypes
    BY DEF Usage, UsageTypes
  <2>2. PICK t \in Tasks : sending[t] # None /\ log'[i] = sending[t] /\ sending'[t] = None
    BY <1>1, <2>1, GrowsIs
  <2>3. at[t] = "measured"
    BY <2>1, <2>2, SendingSays
  <2> QED  BY <2>3
<1>2. CASE b \in DOMAIN log
  <2>1. b \in At("barrier") /\ log'[b] = log[b]
    BY <1>2, GrowsIs DEF At
  <2>2. ~hasFailed /\ at["main"] \in {"ending", "ended", "closed"}
    BY <2>1 DEF Verdict
  <2>3. \A t \in Response : at[t] = "done"
    BY <2>2 DEF Course
  <2>4. i \in DOMAIN log
    BY <1>1, <2>2, <2>3 DEF Tasks, Response
  <2>5. i \in Usage /\ Of(i)' = Of(i)
    BY <2>4, GrowsIs DEF Usage, Of
  <2> QED  BY <2>1, <2>5 DEF Accounted, ManifestIsComplete
<1>3. CASE b \notin DOMAIN log
  <2>1. b \in DOMAIN log' /\ log'[b].type = "barrier"
    BY DEF At
  <2>2. PICK t \in Tasks : sending[t] # None /\ log'[b] = sending[t] /\ sending'[t] = None
    BY <1>3, <2>1, GrowsIs
  <2>3. t = "main" /\ at["main"] = "barrier"
    BY <2>1, <2>2, SendingSays DEF UsageTypes
  <2>4. \A u \in Response : at[u] = "done"
    BY <2>3 DEF Course
  <2>5. i \in DOMAIN log
    BY <1>1, <2>3, <2>4 DEF Tasks, Response
  <2>6. i \in Usage /\ Of(i)' = Of(i) /\ i < b
    BY <1>3, <2>1, <2>5, GrowsIs DEF Usage, Of
  <2> QED  BY <2>2, <2>3, <2>6 DEF Accounted
<1> QED  BY <1>2, <1>3

(* A published usage event is expected before a barrier that cuts nothing off.  *)
LEMMA AccountedStep ==
  ASSUME EventsShape, Says, Course, Numbered, Verdict, Accounted, [Next]_vars
  PROVE  Accounted'
<1>1. ASSUME NEW t \in Tasks, Publish(t) PROVE Accounted'
  <2>1. /\ sending[t] # None /\ log' \in {log, Append(log, sending[t])}
        /\ sending' = [sending EXCEPT ![t] = None] /\ at' = [at EXCEPT ![t] = Returned(t)]
        /\ UNCHANGED <<expected, turn, hasFailed, cutOff>>
    BY <1>1 DEF Publish
  <2>2. Grows /\ \A u \in Tasks \ {t} : sending'[u] = sending[u] /\ at'[u] = at[u]
    BY <2>1, OneGrows DEF EventsShape
  <2>3. at'[t] = Returned(t) /\ at[t] \in {"starting", "measured", "failed", "barrier", "ended"}
    BY <2>1 DEF EventsShape, TypeOK
  <2>4. Doomed => Doomed'
    BY <2>1, <2>2, <2>3 DEF Doomed, Tasks, Response
  <2>5. ASSUME ~Doomed, NEW i \in Usage'
        PROVE  Of(i)' \in expected' \/ \E u \in {"main", "llm", "tts"} : IsExpecting(u, Of(i))'
    <3>1. CASE i \in DOMAIN log
      <4>1. i \in Usage /\ Of(i)' = Of(i)
        BY <2>2, <3>1, GrowsIs DEF Usage, Of
      <4>2. \A u \in {"main", "llm", "tts"} : IsExpecting(u, Of(i)) => IsExpecting(u, Of(i))'
        BY <2>1, <2>2, <2>3, <4>1 DEF IsExpecting, Tasks, Response
      <4> QED  BY <2>1, <2>5, <4>1, <4>2 DEF Accounted
    <3>2. CASE i \notin DOMAIN log
      <4>1. i \in DOMAIN log' /\ log'[i].type \in UsageTypes
        BY DEF Usage, UsageTypes
      <4>2. PICK u \in Tasks : sending[u] # None /\ log'[i] = sending[u] /\ sending'[u] = None
        BY <2>2, <3>2, <4>1, GrowsIs
      <4>3. u = t
        BY <2>2, <4>2
      <4>4. at[t] = "measured" /\ t \in {"main", "llm", "tts"}
            /\ sending[t].type = UsageOf(t) /\ sending[t].turn = turn
        BY <4>1, <4>2, <4>3, SendingSays
      <4>5. at'[t] = "expecting"
        BY <2>3, <4>4 DEF Returned
      <4>6. Of(i)' = [turn |-> turn', type |-> UsageOf(t)]
        BY <2>1, <4>2, <4>3, <4>4 DEF Of
      <4>7. IsExpecting(t, Of(i))'
        BY <4>5, <4>6 DEF IsExpecting
      <4> QED  BY <4>4, <4>7
    <3> QED  BY <3>1, <3>2
  <2>6. at'["main"] # "barrier" \/ t # "main"
    BY <2>3 DEF Returned
  <2>7. ASSUME at'["main"] = "barrier", ~cutOff, NEW i \in Usage'
        PROVE  Of(i)' \in sending'["main"].manifest
    <3>1. t # "main" /\ at["main"] = "barrier" /\ sending'["main"] = sending["main"]
      BY <2>2, <2>6, <2>7 DEF Tasks
    <3>2. \A u \in Response : at[u] = "done"
      BY <2>7, <3>1 DEF Course
    <3>3. FALSE
      BY <2>3, <3>1, <3>2 DEF Tasks
    <3> QED  BY <3>3
  <2>8. ManifestIsComplete'
    BY <2>1, <2>2, GrowsComplete
  <2> QED  BY <2>1, <2>4, <2>5, <2>7, <2>8 DEF Accounted
<1>2. ASSUME NEW t \in Tasks, PublishFails(t) PROVE Accounted'
  <2>1. /\ sending[t] # None /\ log' \in {log, Append(log, sending[t])}
        /\ sending' = [sending EXCEPT ![t] = None] /\ at' = [at EXCEPT ![t] = RaisedTo(t)]
        /\ UNCHANGED <<expected, turn, hasFailed, cutOff>>
    BY <1>2 DEF PublishFails
  <2>2. Grows /\ \A u \in Tasks \ {t} : sending'[u] = sending[u] /\ at'[u] = at[u]
    BY <2>1, OneGrows DEF EventsShape
  <2>3. at'[t] = RaisedTo(t) /\ at[t] \in {"starting", "measured", "failed", "barrier", "ended"}
    BY <2>1 DEF EventsShape, TypeOK
  <2>4. Doomed => Doomed'
    BY <2>1, <2>2, <2>3 DEF Doomed, Tasks, Response
  <2>5. at[t] = "measured" => Doomed'
    BY <2>3 DEF Doomed, RaisedTo, Tasks
  <2>6. ASSUME at[t] # "measured"
        PROVE  /\ \A i \in Usage' : i \in Usage /\ Of(i)' = Of(i)
               /\ \A u \in {"main", "llm", "tts"} : at[u] = "expecting" => at'[u] = "expecting"
    <3>1. ASSUME NEW i \in Usage' PROVE i \in Usage /\ Of(i)' = Of(i)
      <4>1. i \in DOMAIN log' /\ log'[i].type \in UsageTypes
        BY DEF Usage, UsageTypes
      <4>2. CASE i \notin DOMAIN log
        <5>1. PICK u \in Tasks : sending[u] # None /\ log'[i] = sending[u] /\ sending'[u] = None
          BY <2>2, <4>1, <4>2, GrowsIs
        <5>2. u = t
          BY <2>2, <5>1
        <5> QED  BY <2>6, <4>1, <5>1, <5>2, SendingSays
      <4>3. CASE i \in DOMAIN log
        BY <2>2, <4>3, GrowsIs DEF Usage, Of
      <4> QED  BY <4>2, <4>3
    <3>2. \A u \in {"main", "llm", "tts"} : at[u] = "expecting" => at'[u] = "expecting"
      BY <2>2, <2>3 DEF Tasks, Response
    <3> QED  BY <3>1, <3>2
  <2>7. ASSUME ~Doomed'
        PROVE  \A i \in Usage' : Of(i)' \in expected' \/ \E u \in {"main", "llm", "tts"} : IsExpecting(u, Of(i))'
    <3>1. ASSUME NEW i \in Usage'
          PROVE  Of(i)' \in expected' \/ \E u \in {"main", "llm", "tts"} : IsExpecting(u, Of(i))'
      <4>1. i \in Usage /\ Of(i)' = Of(i) /\ ~Doomed
        BY <2>4, <2>5, <2>6, <2>7
      <4>2. \A u \in {"main", "llm", "tts"} : IsExpecting(u, Of(i)) => IsExpecting(u, Of(i))'
        BY <2>1, <2>5, <2>6, <2>7, <4>1 DEF IsExpecting
      <4> QED  BY <2>1, <4>1, <4>2 DEF Accounted
    <3> QED  BY <3>1
  <2>8. ASSUME at'["main"] = "barrier", ~cutOff PROVE FALSE
    <3>1. t # "main"
      BY <2>3, <2>8 DEF RaisedTo
    <3>2. at["main"] = "barrier"
      BY <2>2, <2>8, <3>1 DEF Tasks
    <3>3. \A u \in Response : at[u] = "done"
      BY <2>8, <3>2 DEF Course
    <3> QED  BY <2>3, <3>1, <3>3 DEF Tasks
  <2>9. ManifestIsComplete'
    BY <2>1, <2>2, GrowsComplete
  <2> QED  BY <2>1, <2>7, <2>8, <2>9 DEF Accounted
<1>3. CASE GatherTimesOut
  <2>1. Grows /\ cutOff' = cutOff /\ at'["main"] = "failing"
    BY <1>3, TimeoutGrows DEF GatherTimesOut, Tasks
  <2>2. ManifestIsComplete'
    BY <2>1, GrowsComplete
  <2> QED  BY <2>1, <2>2 DEF Accounted, Doomed
<1>4. CASE Keeps
  BY <1>4, KeepsAccounted
<1> QED  BY <1>1, <1>2, <1>3, <1>4, KeepsStep

(* Of what is added, no two events have the same number.                        *)
LEMMA NewDiffer ==
  ASSUME EventsShape, Grows,
         NEW i \in DOMAIN log', NEW j \in DOMAIN log', i \notin DOMAIN log, j \notin DOMAIN log,
         log'[i].number = log'[j].number
  PROVE  i = j
<1>1. Len(log) \in Nat /\ Len(log') \in Nat /\ DOMAIN log = 1..Len(log) /\ DOMAIN log' = 1..Len(log')
  BY SendingIs, LenProperties DEF Grows, EventsShape
<1>2. i \in (Len(log) + 1)..Len(log') /\ j \in (Len(log) + 1)..Len(log')
  BY <1>1
<1> QED  BY <1>2 DEF Grows

(* What the log tells of the end of the call while it grows.                    *)
LEMMA GrowsVerdict ==
  ASSUME EventsShape, Says, Course, Verdict, Grows
  PROVE  /\ At("call.failed")' # {} => hasFailed
         /\ At("barrier") \subseteq At("barrier")'
         /\ \A b \in At("barrier")' :
              \/ b \in At("barrier")
              \/ at["main"] = "barrier" /\ sending["main"] # None /\ sending'["main"] = None
         /\ \A a, b \in At("barrier")' : a = b
         /\ \A i \in At("call.ended")' :
              \/ i \in At("call.ended")
              \/ at["main"] = "ended" /\ sending["main"] # None /\ sending'["main"] = None
         /\ \A i \in At("call.ended")' : \E b \in At("barrier")' : b < i
<1>1. ASSUME NEW type \in {"call.failed", "barrier", "call.ended"}, NEW i \in At(type)', i \notin At(type)
      PROVE  /\ i \notin DOMAIN log /\ i \in DOMAIN log'
             /\ log'[i] = sending["main"] /\ sending["main"] # None /\ sending'["main"] = None
             /\ type = "call.failed" => at["main"] = "failed"
             /\ type = "barrier" => at["main"] = "barrier"
             /\ type = "call.ended" => at["main"] = "ended"
  <2>1. i \in DOMAIN log' /\ log'[i].type = type
    BY <1>1 DEF At
  <2>2. i \notin DOMAIN log
    BY <1>1, <2>1, GrowsIs DEF At
  <2>3. PICK t \in Tasks : sending[t] # None /\ log'[i] = sending[t] /\ sending'[t] = None
    BY <2>1, <2>2, GrowsIs
  <2>4. type \notin UsageTypes
    BY <1>1 DEF UsageTypes
  <2>5. /\ t = "main"
        /\ sending[t].type = "barrier" <=> at[t] = "barrier"
        /\ sending[t].type = "call.failed" <=> at[t] = "failed"
        /\ sending[t].type = "call.ended" <=> at[t] = "ended"
    BY <2>1, <2>3, <2>4, SendingSays
  <2> QED  BY <2>1, <2>2, <2>3, <2>5
<1>2. \A type \in {"call.failed", "barrier", "call.ended"} : At(type) \subseteq At(type)'
  BY GrowsIs DEF At
<1>3. At("call.failed")' # {} => hasFailed
  BY <1>1 DEF Verdict, Course
<1>4. ASSUME NEW a \in At("barrier")', NEW b \in At("barrier")'
      PROVE  a = b
  <2>1. CASE a \in At("barrier") /\ b \in At("barrier")
    BY <2>1 DEF Verdict
  <2>2. CASE a \notin At("barrier")
    <3>1. At("barrier") = {}
      BY <1>1, <2>2 DEF Verdict
    <3>2. /\ log'[a] = sending["main"] /\ a \in DOMAIN log' /\ a \notin DOMAIN log
          /\ log'[b] = sending["main"] /\ b \in DOMAIN log' /\ b \notin DOMAIN log
      BY <1>1, <2>2, <3>1
    <3> QED  BY <3>2, NewDiffer
  <2>3. CASE b \notin At("barrier")
    <3>1. At("barrier") = {}
      BY <1>1, <2>3 DEF Verdict
    <3>2. /\ log'[a] = sending["main"] /\ a \in DOMAIN log' /\ a \notin DOMAIN log
          /\ log'[b] = sending["main"] /\ b \in DOMAIN log' /\ b \notin DOMAIN log
      BY <1>1, <2>3, <3>1
    <3> QED  BY <3>2, NewDiffer
  <2> QED  BY <2>1, <2>2, <2>3
<1>5. ASSUME NEW i \in At("call.ended")'
      PROVE  \E b \in At("barrier")' : b < i
  <2>1. CASE i \in At("call.ended")
    BY <1>2, <2>1 DEF Verdict
  <2>2. CASE i \notin At("call.ended")
    <3>1. at["main"] = "ended" /\ i \notin DOMAIN log /\ i \in DOMAIN log'
      BY <1>1, <2>2
    <3>2. PICK b \in At("barrier") : TRUE
      BY <3>1 DEF Verdict
    <3>3. b \in DOMAIN log /\ b < i
      BY <3>1, GrowsIs DEF At
    <3> QED  BY <1>2, <3>3
  <2> QED  BY <2>1, <2>2
<1> QED  BY <1>1, <1>2, <1>3, <1>4, <1>5

(* A step that publishes nothing and does not go back on an end.                *)
Settled ==
  /\ log' = log
  /\ hasFailed => hasFailed'
  /\ at'["main"] \in {"ending", "ended"} => at["main"] \in {"ending", "ended"}
  /\ At("barrier") # {} => ~hasFailed' /\ at'["main"] \in {"ending", "ended", "closed"}
  /\ At("call.ended") # {} => ~hasFailed' /\ at'["main"] = "closed"

(* Every step publishes, is timed out of publishing, or settles nothing anew.   *)
LEMMA SettledStep ==
  ASSUME EventsShape, Course, Verdict, [Next]_vars
  PROVE  Settled \/ (\E t \in Tasks : Publish(t) \/ PublishFails(t)) \/ GatherTimesOut
<1>1. ASSUME NEW t \in Tasks, Publish(t) PROVE \E u \in Tasks : Publish(u) \/ PublishFails(u)
  BY <1>1
<1>2. ASSUME NEW t \in Tasks, PublishFails(t) PROVE \E u \in Tasks : Publish(u) \/ PublishFails(u)
  BY <1>2
<1>3. ASSUME NEW t \in {"llm", "tts"}, Measure(t) PROVE Settled
  BY <1>3
  DEF Measure, Settled, EventsShape, TypeOK, Course, Verdict, Tasks, Response, Ended
<1>4. ASSUME NEW t \in {"main", "llm", "tts"}, Expect(t) PROVE Settled
  BY <1>4
  DEF Expect, Expected, Settled, EventsShape, TypeOK, Course, Verdict, Tasks, Response, Ended
<1>5. ASSUME NEW t \in Response, Finish(t) PROVE Settled
  BY <1>5
  DEF Finish, Settled, EventsShape, TypeOK, Course, Verdict, Tasks, Response, Ended
<1>6. ASSUME NEW t \in Response, Raise(t) PROVE Settled
  BY <1>6
  DEF Raise, Settled, EventsShape, TypeOK, Course, Verdict, Tasks, Response, Ended
<1>7. CASE Open
  BY <1>7
  DEF Open, Settled, EventsShape, TypeOK, Course, Verdict, Tasks, Response, Ended
<1>8. CASE Transcribe
  BY <1>8
  DEF Transcribe, Settled, EventsShape, TypeOK, Course, Verdict, Tasks, Response, Ended
<1>9. CASE Ignore
  BY <1>9
  DEF Ignore, Move, Settled, EventsShape, TypeOK, Course, Verdict, Tasks, Response, Ended
<1>10. CASE Respond
  BY <1>10
  DEF Respond, Settled, EventsShape, TypeOK, Course, Verdict, Tasks, Response, Ended
<1>11. CASE Gathered
  BY <1>11
  DEF Gathered, Move, Settled, EventsShape, TypeOK, Course, Verdict, Tasks, Response, Ended
<1>12. CASE GatherRaises
  BY <1>12
  DEF GatherRaises, Move, Settled, EventsShape, TypeOK, Course, Verdict, Tasks, Response, Ended
<1>13. CASE GatherTimesOut
  BY <1>13
<1>14. CASE MainRaises
  BY <1>14
  DEF MainRaises, Move, Settled, EventsShape, TypeOK, Course, Verdict, Tasks, Response, Ended
<1>15. CASE HangUp
  BY <1>15
  DEF HangUp, Move, Settled, EventsShape, TypeOK, Course, Verdict, Tasks, Response, Ended
<1>16. CASE FailCall
  BY <1>16
  DEF FailCall, Settled, EventsShape, TypeOK, Course, Verdict, Tasks, Response, Ended
<1>17. CASE EndCall
  BY <1>17
  DEF EndCall, Settled, EventsShape, TypeOK, Course, Verdict, Tasks, Response, Ended
<1>18. CASE EndedCall
  BY <1>18
  DEF EndedCall, Settled, EventsShape, TypeOK, Course, Verdict, Tasks, Response, Ended
<1>19. CASE UNCHANGED vars
  BY <1>19
  DEF vars, session, Settled, EventsShape, TypeOK, Course, Verdict, Tasks, Response, Ended
<1> QED
  BY <1>1, <1>2, <1>3, <1>4, <1>5, <1>6, <1>7, <1>8, <1>9, <1>10, <1>11, <1>12, <1>13, <1>14, <1>15, <1>16, <1>17, <1>18, <1>19
  DEF Next

(* A call fails, or ends behind its barrier.                                    *)
LEMMA VerdictStep ==
  ASSUME EventsShape, Says, Course, Numbered, Verdict, [Next]_vars
  PROVE  Verdict'
<1>1. ASSUME NEW t \in Tasks, Publish(t) \/ PublishFails(t) PROVE Verdict'
  <2>1. /\ sending[t] # None /\ log' \in {log, Append(log, sending[t])}
        /\ sending' = [sending EXCEPT ![t] = None]
        /\ at' = [at EXCEPT ![t] = Returned(t)] \/ at' = [at EXCEPT ![t] = RaisedTo(t)]
        /\ hasFailed' = hasFailed
    BY <1>1 DEF Publish, PublishFails
  <2>2. Grows /\ \A u \in Tasks \ {t} : sending'[u] = sending[u] /\ at'[u] = at[u]
    BY <2>1, OneGrows DEF EventsShape
  <2>3. /\ at'[t] \in {Returned(t), RaisedTo(t)}
        /\ at[t] \in {"starting", "measured", "failed", "barrier", "ended"}
    BY <2>1 DEF EventsShape, TypeOK
  <2>4. t = "main" /\ at["main"] = "barrier" => at'["main"] \in {"ending", "closed"} /\ ~hasFailed
    BY <2>3 DEF Returned, RaisedTo, Course
  <2>5. t = "main" /\ at["main"] = "ended" => at'["main"] = "closed" /\ ~hasFailed
    BY <2>3 DEF Returned, RaisedTo, Course
  <2>6. t = "main" => at["main"] \notin {"ending", "closed"}
    BY <2>3
  <2>7. t # "main" => at'["main"] = at["main"] /\ sending'["main"] = sending["main"]
    BY <2>2 DEF Tasks
  <2>8. At("barrier")' # {} => ~hasFailed' /\ at'["main"] \in {"ending", "ended", "closed"}
    BY <2>1, <2>2, <2>4, <2>5, <2>6, <2>7, GrowsVerdict DEF Verdict
  <2>9. At("call.ended")' # {} => ~hasFailed' /\ at'["main"] = "closed"
    BY <2>1, <2>2, <2>5, <2>6, <2>7, GrowsVerdict DEF Verdict
  <2>10. at'["main"] \in {"ending", "ended"} => At("barrier")' # {}
    <3>1. CASE t # "main"
      BY <2>2, <2>7, <3>1, GrowsVerdict DEF Verdict
    <3>2. CASE t = "main" /\ at["main"] # "barrier"
      BY <2>3, <3>2 DEF Returned, RaisedTo
    <3>3. CASE t = "main" /\ at["main"] = "barrier" /\ PublishFails(t)
      BY <3>3 DEF PublishFails, RaisedTo, EventsShape
    <3>4. CASE t = "main" /\ at["main"] = "barrier" /\ Publish(t)
      <4>1. log' = Append(log, sending[t])
        BY <3>4 DEF Publish
      <4>2. Len(log) + 1 \in DOMAIN log' /\ log'[Len(log) + 1] = sending[t]
        BY <2>1, <4>1, SendingIs, AppendProperties DEF EventsShape
      <4>3. PICK i \in DOMAIN log' : log'[i] = sending[t]
        BY <4>2
      <4>4. log'[i].type = "barrier"
        BY <3>4, <4>3 DEF Says
      <4> QED  BY <4>3, <4>4 DEF At
    <3> QED  BY <1>1, <3>1, <3>2, <3>3, <3>4
  <2>11. /\ At("call.failed")' # {} => hasFailed'
         /\ \A a, b \in At("barrier")' : a = b
         /\ \A i \in At("call.ended")' : \E b \in At("barrier")' : b < i
    BY <2>1, <2>2, GrowsVerdict
  <2> QED  BY <2>8, <2>9, <2>10, <2>11 DEF Verdict
<1>2. CASE GatherTimesOut
  <2>1. /\ Grows /\ hasFailed' = hasFailed /\ at["main"] = "gather" /\ at'["main"] = "failing"
    BY <1>2, TimeoutGrows DEF GatherTimesOut, Tasks
  <2>2. At("barrier") = {} /\ At("call.ended") = {}
    BY <2>1 DEF Verdict
  <2> QED  BY <2>1, <2>2, GrowsVerdict DEF Verdict
<1>3. CASE Settled
  <2>1. At("barrier")' = At("barrier") /\ At("call.failed")' = At("call.failed")
        /\ At("call.ended")' = At("call.ended")
    BY <1>3 DEF Settled, At
  <2> QED  BY <1>3, <2>1 DEF Settled, Verdict
<1> QED  BY <1>1, <1>2, <1>3, SettledStep

--------------------------------------------------------------------------------
(* Before the call is open nothing was sent.                                    *)
LEMMA EventsBegin ==
  ASSUME Init
  PROVE  EventsInv
<1>1. EventsShape
  <2>1. at \in [Tasks -> TaskPlaces] /\ at["main"] = "open" /\ \A t \in Response : at[t] = "done"
    BY DEF Init, Tasks, Response, TaskPlaces, Ended
  <2>2. /\ sending \in [Tasks -> EventType \cup {None}] /\ \A t \in Tasks : sending[t] = None
        /\ log \in Seq(EventType) /\ expected = {}
        /\ hasFailed = FALSE /\ cutOff = FALSE /\ sequence = 0 /\ turn = 0 /\ faults = 0
    BY DEF Init
  <2>3. TypeOK
    BY <2>1, <2>2, CallEventsAssumption DEF TypeOK, Tasks, Response, Ended
  <2> QED  BY <2>1, <2>2, <2>3 DEF EventsShape
<1>2. /\ at["main"] = "open" /\ \A t \in Response : at[t] = "done"
      /\ \A t \in Tasks : sending[t] = None
      /\ DOMAIN log = {} /\ expected = {} /\ hasFailed = FALSE
  BY DEF Init, Tasks, Response
<1>3. \A type : At(type) = {}
  BY <1>2 DEF At
<1>4. Usage = {}
  BY <1>2 DEF Usage
<1>5. Says /\ Course
  BY <1>2 DEF Says, Course, Response, Ended
<1>6. Numbered
  BY <1>2 DEF Numbered, NumbersDiffer
<1>7. Published
  BY <1>2, <1>3 DEF Published, ExpectedIsPublished, Response
<1>8. Accounted
  BY <1>2, <1>3, <1>4 DEF Accounted, ManifestIsComplete
<1>9. Verdict
  BY <1>2, <1>3 DEF Verdict
<1> QED  BY <1>1, <1>5, <1>6, <1>7, <1>8, <1>9 DEF EventsInv

(* Whatever a call does next, its events stay what they should be.              *)
LEMMA EventsGoOn ==
  ASSUME EventsInv, [CallNext]_<<part, vars, detector, stt>>
  PROVE  EventsInv'
<1>1. [Next]_vars
  BY DEF CallNext, Events, Turns, Speech
<1>2. EventsShape /\ Says /\ Course /\ Numbered /\ Published /\ Accounted /\ Verdict
  BY DEF EventsInv
<1>3. EventsShape'
  BY <1>1, <1>2, ShapeStep
<1>4. Says' /\ Course'
  BY <1>1, <1>2, CourseStep
<1>5. Numbered'
  BY <1>1, <1>2, NumberedStep
<1>6. Published'
  BY <1>1, <1>2, PublishedStep
<1>7. Accounted'
  BY <1>1, <1>2, AccountedStep
<1>8. Verdict'
  BY <1>1, <1>2, VerdictStep
<1> QED  BY <1>3, <1>4, <1>5, <1>6, <1>7, <1>8 DEF EventsInv

(* What the proofs about the events of a call rest on.                          *)
THEOREM CallEventsInvariant == CallSpec => []EventsInv
<1>1. CallInit => EventsInv
  BY EventsBegin DEF CallInit
<1>2. EventsInv /\ [CallNext]_<<part, vars, detector, stt>> => EventsInv'
  BY EventsGoOn
<1> QED  BY <1>1, <1>2, PTL DEF CallSpec

(* The finalization barrier expects only usage that Kafka has in front of it,   *)
(* and, unless the call ended in the middle of a response, all of it.           *)
THEOREM CallManifestIsExact == CallSpec => []ManifestIsExact
<1>1. EventsInv => ManifestIsExact
  BY DEF EventsInv, Published, Accounted, ManifestIsExact
<1> QED  BY <1>1, CallEventsInvariant, PTL

(* No two events of a call have the same number, from which their idempotency   *)
(* keys are made, and a call fails, or ends behind its one barrier.             *)
THEOREM CallEndsOnce == CallSpec => [](TypeOK /\ NumbersDiffer /\ OneVerdict)
<1>1. ASSUME EventsInv PROVE Cardinality(At("barrier")) <= 1
  <2>1. \A a, b \in At("barrier") : a = b
    BY <1>1 DEF EventsInv, Verdict
  <2>2. CASE At("barrier") = {}
    BY <2>2, FS_EmptySet
  <2>3. CASE At("barrier") # {}
    <3>1. PICK a \in At("barrier") : TRUE
      BY <2>3
    <3>2. At("barrier") = {a}
      BY <2>1, <3>1
    <3> QED  BY <3>2, FS_Singleton
  <2> QED  BY <2>2, <2>3
<1>2. ASSUME EventsInv PROVE OneVerdict
  BY <1>1, <1>2 DEF EventsInv, Verdict, OneVerdict
<1>3. EventsInv => TypeOK /\ NumbersDiffer
  BY DEF EventsInv, EventsShape, Numbered
<1> QED  BY <1>2, <1>3, CallEventsInvariant, PTL

--------------------------------------------------------------------------------
(* The transcription session, from here on.                                     *)

SessionType ==
  [ws : {"none", "open", "closed"}, reader : {"none", "running", "ended"},
   ready : {"none", "waiting", "set", "error"}, pending : {"none", "waiting", "set", "error"},
   got : Seq(Nat), buffered : 0..MaxChunks, seconds : Nat]

SttEvent ==
  [type : {"updated", "failed", "error", "closed", "aborted"}]
    \cup [type : {"delta"}, item : Nat] \cup [type : {"completed"}, item : Seq(Nat)]

SttPlaces ==
  {"start", "starting", "idle", "speaking", "committing", "ending", "failed", "over"}

SttShape ==
  /\ call \in [at : SttPlaces, turn : 0..MaxSttTurns]
  /\ sess \in SessionType
  /\ provider \in [up : BOOLEAN, buffer : Seq(Nat), items : SUBSET Seq(Nat)]
  /\ channel \in Seq(SttEvent)
  /\ sttFaults \in 0..MaxFaults

Completed == {i \in DOMAIN channel : channel[i].type = "completed"}
Deltas    == {i \in DOMAIN channel : channel[i].type = "delta"}

(* Audio of this turn, and all that was committed of it.                        *)
Own(x)     == \A k \in DOMAIN x : x[k] = call.turn
IsAudio(x) == x # <<>> /\ Own(x) /\ Len(x) = sess.seconds

(* The provider holds, and tells of, audio of this turn only.                   *)
Present ==
  /\ call.at \in {"start", "starting", "idle", "committing"} =>
       provider.buffer = <<>> /\ sess.buffered = 0
  /\ call.at = "speaking" => sess.buffered = Len(provider.buffer)
  /\ Own(provider.buffer) /\ \A x \in provider.items : Own(x)
  /\ \A i \in Deltas : channel[i].item = call.turn
  /\ call.at \in {"start", "starting", "idle"} => Deltas = {}
  /\ call.at = "speaking" /\ sess.buffered = 0 => Deltas = {}

(* One transcript is awaited, on its way or there, and none when none is.       *)
Awaited ==
  /\ call.at \in {"start", "starting", "idle", "speaking"} =>
       provider.items = {} /\ Completed = {} /\ sess.pending # "waiting"
  /\ call.at = "committing" /\ sess.pending = "set" =>
       provider.items = {} /\ Completed = {} /\ Deltas = {} /\ IsAudio(sess.got)
  /\ call.at = "committing" /\ sess.pending = "waiting" =>
       /\ \A x \in provider.items : provider.items = {x} /\ Completed = {} /\ IsAudio(x)
       /\ \A i \in Completed :
            Completed = {i} /\ (\A j \in Deltas : j < i) /\ IsAudio(channel[i].item)

SttInv == SttShape /\ Present /\ Awaited /\ TranscriptIsOwn

(* What its state is made of.                                                   *)
LEMMA SttIs ==
  ASSUME SttShape
  PROVE  /\ call.at \in SttPlaces /\ call.turn \in Nat /\ call = [at |-> call.at, turn |-> call.turn]
         /\ sess.pending \in {"none", "waiting", "set", "error"}
         /\ sess.got \in Seq(Nat) /\ sess.buffered \in Nat /\ sess.seconds \in Nat
         /\ provider.up \in BOOLEAN /\ provider.buffer \in Seq(Nat)
         /\ provider.items \subseteq Seq(Nat)
         /\ channel \in Seq(SttEvent) /\ Len(channel) \in Nat /\ DOMAIN channel = 1..Len(channel)
         /\ \A i \in DOMAIN channel : channel[i] \in SttEvent
<1>1. channel \in Seq(SttEvent)
  BY DEF SttShape
<1>2. Len(channel) \in Nat /\ DOMAIN channel = 1..Len(channel) /\ \A i \in DOMAIN channel : channel[i] \in SttEvent
  BY <1>1, LenProperties, ElementOfSeq
<1>3. MaxSttTurns \in Nat /\ MaxChunks \in Nat
  BY CallAssumption DEF Stt!SttAssumption
<1> QED  BY <1>1, <1>2, <1>3 DEF SttShape, SessionType

(* The provider tells of something: it comes last.                              *)
LEMMA TellIs ==
  ASSUME SttShape, NEW e \in SttEvent, channel' = Append(channel, e)
  PROVE  /\ channel' \in Seq(SttEvent)
         /\ DOMAIN channel \subseteq DOMAIN channel' /\ DOMAIN channel' \subseteq Nat
         /\ \A i \in DOMAIN channel : channel'[i] = channel[i]
         /\ \E n \in DOMAIN channel' :
              /\ n \notin DOMAIN channel /\ channel'[n] = e
              /\ \A i \in DOMAIN channel' : i # n => i \in DOMAIN channel
              /\ \A i \in DOMAIN channel : i < n
<1>1. Len(channel) \in Nat /\ DOMAIN channel = 1..Len(channel) /\ channel \in Seq(SttEvent)
  BY SttIs
<1>2. /\ channel' \in Seq(SttEvent) /\ Len(channel') = Len(channel) + 1
      /\ channel'[Len(channel) + 1] = e /\ \A i \in 1..Len(channel) : channel'[i] = channel[i]
  BY <1>1, AppendProperties
<1>3. DOMAIN channel' = 1..(Len(channel) + 1)
  BY <1>2, LenProperties
<1> DEFINE n == Len(channel) + 1
<1>4. n \in DOMAIN channel' /\ n \notin DOMAIN channel /\ channel'[n] = e
  BY <1>1, <1>2, <1>3
<1>5. (\A i \in DOMAIN channel' : i # n => i \in DOMAIN channel) /\ \A i \in DOMAIN channel : i < n
  BY <1>1, <1>3
<1>6. /\ DOMAIN channel \subseteq DOMAIN channel' /\ DOMAIN channel' \subseteq Nat
      /\ \A i \in DOMAIN channel : channel'[i] = channel[i]
  BY <1>1, <1>2, <1>3
<1> HIDE DEF n
<1> QED  BY <1>2, <1>4, <1>5, <1>6

(* The reader takes the first event.                                            *)
LEMMA ReadIs ==
  ASSUME SttShape, channel # <<>>, channel' = Tail(channel)
  PROVE  /\ channel' \in Seq(SttEvent)
         /\ 1 \in DOMAIN channel /\ Head(channel) = channel[1] /\ channel[1] \in SttEvent
         /\ DOMAIN channel' \subseteq Nat
         /\ \A i \in DOMAIN channel' :
              i + 1 \in DOMAIN channel /\ i + 1 # 1 /\ channel'[i] = channel[i + 1]
<1>1. Len(channel) \in Nat /\ DOMAIN channel = 1..Len(channel) /\ channel \in Seq(SttEvent)
      /\ \A i \in DOMAIN channel : channel[i] \in SttEvent
  BY SttIs
<1>2. /\ channel' \in Seq(SttEvent) /\ Len(channel') = Len(channel) - 1
      /\ Head(channel) = channel[1] /\ Len(channel) # 0
      /\ \A i \in 1..Len(channel') : channel'[i] = channel[i + 1]
  BY <1>1, HeadTailProperties, EmptySeq
<1>3. DOMAIN channel' = 1..(Len(channel) - 1)
  BY <1>2, LenProperties
<1> QED  BY <1>1, <1>2, <1>3

(* A session with another reader, another answer, or another end of a wait.     *)
LEMMA SessionExcept ==
  ASSUME NEW W, NEW R, NEW Y, NEW P, NEW G, NEW B, NEW C,
         NEW s \in [ws : W, reader : R, ready : Y, pending : P, got : G, buffered : B, seconds : C],
         NEW r \in R, NEW y \in Y, NEW p \in P
  PROVE  /\ [s EXCEPT !.reader = r] \in
              [ws : W, reader : R, ready : Y, pending : P, got : G, buffered : B, seconds : C]
         /\ [s EXCEPT !.ready = y] \in
              [ws : W, reader : R, ready : Y, pending : P, got : G, buffered : B, seconds : C]
         /\ [s EXCEPT !.ready = y, !.pending = p] \in
              [ws : W, reader : R, ready : Y, pending : P, got : G, buffered : B, seconds : C]
  OBVIOUS

(* What waits is told that it failed.                                           *)
LEMMA FailPendingIs ==
  ASSUME NEW s \in SessionType
  PROVE  /\ Stt!FailPending(s) \in SessionType
         /\ Stt!FailPending(s).buffered = s.buffered /\ Stt!FailPending(s).seconds = s.seconds
         /\ Stt!FailPending(s).got = s.got
         /\ Stt!FailPending(s).pending = IF s.pending = "waiting" THEN "error" ELSE s.pending
<1> DEFINE y == IF s.ready = "waiting" THEN "error" ELSE s.ready
           p == IF s.pending = "waiting" THEN "error" ELSE s.pending
<1>1. y \in {"none", "waiting", "set", "error"} /\ p \in {"none", "waiting", "set", "error"}
  BY DEF SessionType
<1>2. Stt!FailPending(s) = [s EXCEPT !.ready = y, !.pending = p]
  BY DEF Stt!FailPending
<1>3. p = IF s.pending = "waiting" THEN "error" ELSE s.pending
  OBVIOUS
<1> HIDE DEF y, p
<1>4. [s EXCEPT !.ready = y, !.pending = p] \in SessionType
  BY <1>1, SessionExcept DEF SessionType
<1>5. /\ [s EXCEPT !.ready = y, !.pending = p].pending = p
      /\ [s EXCEPT !.ready = y, !.pending = p].buffered = s.buffered
      /\ [s EXCEPT !.ready = y, !.pending = p].seconds = s.seconds
      /\ [s EXCEPT !.ready = y, !.pending = p].got = s.got
  BY DEF SessionType
<1> QED  BY <1>2, <1>3, <1>4, <1>5

(* The reader ends.                                                             *)
LEMMA ReaderEnds ==
  ASSUME NEW s \in SessionType
  PROVE  /\ [s EXCEPT !.reader = "ended"] \in SessionType
         /\ [s EXCEPT !.reader = "ended"].buffered = s.buffered
         /\ [s EXCEPT !.reader = "ended"].seconds = s.seconds
         /\ [s EXCEPT !.reader = "ended"].pending = s.pending
         /\ [s EXCEPT !.reader = "ended"].got = s.got
<1>1. [s EXCEPT !.reader = "ended"] \in SessionType
  <2>1. "ended" \in {"none", "running", "ended"}
    OBVIOUS
  <2> QED  BY <2>1, SessionExcept DEF SessionType
<1> QED  BY <1>1 DEF SessionType

(* An event ends at most one wait.                                              *)
LEMMA DispatchIs ==
  ASSUME SttShape, NEW e \in SttEvent
  PROVE  /\ Stt!Dispatch(e) \in SessionType
         /\ Stt!Dispatch(e).buffered = sess.buffered /\ Stt!Dispatch(e).seconds = sess.seconds
         /\ Stt!Dispatch(e).pending = "waiting" => sess.pending = "waiting" /\ e.type # "completed"
         /\ Stt!Dispatch(e).pending = "set" =>
              \/ sess.pending = "set" /\ Stt!Dispatch(e).got = sess.got
              \/ sess.pending = "waiting" /\ e.type = "completed" /\ Stt!Dispatch(e).got = e.item
<1> DEFINE d == Stt!Dispatch(e)
<1>1. sess \in SessionType
  BY DEF SttShape
<1>2. /\ e.type \in {"updated", "failed", "error", "closed", "aborted", "delta", "completed"}
      /\ e.type = "completed" => e.item \in Seq(Nat)
  BY DEF SttEvent
<1>3. CASE e.type = "updated"
  <2> DEFINE y == IF sess.ready = "waiting" THEN "set" ELSE sess.ready
  <2>1. y \in {"none", "waiting", "set", "error"}
    BY <1>1 DEF SessionType
  <2>2. d = [sess EXCEPT !.ready = y]
    BY <1>3 DEF Stt!Dispatch
  <2> HIDE DEF d, y
  <2>3. d \in SessionType
    BY <1>1, <2>1, <2>2, SessionExcept DEF SessionType
  <2>4. d.buffered = sess.buffered /\ d.seconds = sess.seconds
        /\ d.pending = sess.pending /\ d.got = sess.got
    BY <1>1, <2>2 DEF SessionType
  <2> QED  BY <1>1, <1>3, <2>3, <2>4 DEF d, SessionType
<1>4. CASE e.type = "completed"
  <2>1. CASE sess.pending = "waiting"
    <3>1. d = [sess EXCEPT !.pending = "set", !.got = e.item]
      BY <1>4, <2>1 DEF Stt!Dispatch
    <3> HIDE DEF d
    <3>2. d \in SessionType /\ d.buffered = sess.buffered /\ d.seconds = sess.seconds
          /\ d.pending = "set" /\ d.got = e.item
      BY <1>1, <1>2, <1>4, <3>1 DEF SessionType
    <3> QED  BY <1>4, <2>1, <3>2 DEF d
  <2>2. CASE sess.pending # "waiting"
    BY <1>1, <1>4, <2>2 DEF Stt!Dispatch
  <2> QED  BY <2>1, <2>2
<1>5. CASE e.type = "error"
  BY <1>1, <1>5, FailPendingIs DEF Stt!Dispatch
<1>6. CASE e.type = "aborted"
  <2>1. PICK s \in SessionType : s = Stt!FailPending(sess)
    BY <1>1, FailPendingIs
  <2>2. d \in SessionType /\ d.buffered = s.buffered /\ d.seconds = s.seconds
        /\ d.pending = s.pending /\ d.got = s.got
    <3>1. d = [s EXCEPT !.reader = "ended"]
      BY <1>6, <2>1 DEF Stt!Dispatch
    <3> QED  BY <3>1, ReaderEnds
  <2>3. /\ s.pending # "waiting" /\ s.buffered = sess.buffered /\ s.seconds = sess.seconds
        /\ s.pending = "set" => sess.pending = "set" /\ s.got = sess.got
    BY <1>1, <2>1, FailPendingIs
  <2> QED  BY <2>2, <2>3
<1>7. CASE e.type = "closed"
  <2>1. d = [sess EXCEPT !.reader = "ended"]
    BY <1>7 DEF Stt!Dispatch
  <2>2. d \in SessionType /\ d.buffered = sess.buffered /\ d.seconds = sess.seconds
        /\ d.pending = sess.pending /\ d.got = sess.got
    BY <1>1, <2>1, ReaderEnds
  <2> QED  BY <1>7, <2>2
<1>8. CASE e.type \in {"failed", "delta"}
  BY <1>1, <1>8 DEF Stt!Dispatch
<1> QED  BY <1>2, <1>3, <1>4, <1>5, <1>6, <1>7, <1>8

(* The loop goes on to its end, or to where nothing is spoken yet.              *)
LEMMA CallMoves ==
  ASSUME SttInv, NEW p \in SttPlaces, call' = [call EXCEPT !.at = p],
         UNCHANGED <<sess, provider, channel, results, shown>>, sttFaults' \in 0..MaxFaults,
         \/ p \in {"ending", "failed", "over"}
         \/ p = "idle" /\ call.at = "starting"
         \/ p = "idle" /\ call.at = "speaking" /\ sess.buffered = 0
  PROVE  SttInv'
<1>1. SttShape /\ Present /\ Awaited /\ TranscriptIsOwn
  BY DEF SttInv
<1>2. call'.at = p /\ call'.turn = call.turn /\ call' \in [at : SttPlaces, turn : 0..MaxSttTurns]
  BY <1>1 DEF SttShape
<1>3. SttShape'
  BY <1>1, <1>2 DEF SttShape
<1>4. /\ Completed' = Completed /\ Deltas' = Deltas
      /\ \A x : Own(x)' = Own(x)
  BY <1>2 DEF Completed, Deltas, Own
<1>5. p = "idle" => provider.buffer = <<>> /\ sess.buffered = 0 /\ Deltas = {}
  <2>1. provider.buffer \in Seq(Nat)
    BY <1>1, SttIs
  <2>2. Len(provider.buffer) = 0 => provider.buffer = <<>>
    BY <2>1, EmptySeq
  <2> QED  BY <1>1, <2>2 DEF Present
<1>6. Present'
  BY <1>1, <1>2, <1>4, <1>5 DEF Present
<1>7. Awaited'
  BY <1>1, <1>2, <1>4 DEF Awaited
<1>8. TranscriptIsOwn'
  BY <1>1 DEF TranscriptIsOwn, Stt!TranscriptIsOwn, Stt!PartialIsOwn
<1> QED  BY <1>3, <1>6, <1>7, <1>8 DEF SttInv

(* More audio of this turn is audio of this turn.                               *)
LEMMA OwnAppend ==
  ASSUME NEW s \in Seq(Nat), NEW t \in Nat, \A k \in DOMAIN s : s[k] = t
  PROVE  /\ Len(Append(s, t)) = Len(s) + 1
         /\ \A k \in DOMAIN Append(s, t) : Append(s, t)[k] = t
<1>1. Len(s) \in Nat /\ DOMAIN s = 1..Len(s)
  BY LenProperties
<1>2. /\ Append(s, t) \in Seq(Nat) /\ Len(Append(s, t)) = Len(s) + 1
      /\ Append(s, t)[Len(s) + 1] = t /\ \A k \in 1..Len(s) : Append(s, t)[k] = s[k]
  BY <1>1, AppendProperties
<1>3. DOMAIN Append(s, t) = 1..(Len(s) + 1)
  BY <1>2, LenProperties
<1> QED  BY <1>1, <1>2, <1>3

(* A session that is opened, or closed.                                         *)
LEMMA SessionTurns ==
  ASSUME NEW s \in SessionType, NEW r,
         \/ r = [s EXCEPT !.ws = "open", !.reader = "running", !.ready = "waiting"]
         \/ r = [s EXCEPT !.ws = "closed", !.reader = "ended"]
  PROVE  /\ r \in SessionType /\ r.pending = s.pending /\ r.got = s.got
         /\ r.seconds = s.seconds /\ r.buffered = s.buffered
  BY DEF SessionType

(* A session that has buffered more.                                            *)
LEMMA SessionBuffers ==
  ASSUME NEW s \in SessionType, NEW b \in 0..MaxChunks
  PROVE  /\ [s EXCEPT !.buffered = b] \in SessionType
         /\ [s EXCEPT !.buffered = b].pending = s.pending /\ [s EXCEPT !.buffered = b].got = s.got
         /\ [s EXCEPT !.buffered = b].seconds = s.seconds /\ [s EXCEPT !.buffered = b].buffered = b
  BY DEF SessionType

(* A provider that is up or not, or holds other audio.                          *)
LEMMA ProviderExcept ==
  ASSUME NEW U, NEW B, NEW I, NEW p \in [up : U, buffer : B, items : I],
         NEW u \in U, NEW b \in B, NEW i \in I
  PROVE  /\ [p EXCEPT !.up = u] \in [up : U, buffer : B, items : I]
         /\ [p EXCEPT !.up = u].up = u
         /\ [p EXCEPT !.up = u].buffer = p.buffer /\ [p EXCEPT !.up = u].items = p.items
         /\ [p EXCEPT !.buffer = b] \in [up : U, buffer : B, items : I]
         /\ [p EXCEPT !.buffer = b].buffer = b /\ [p EXCEPT !.buffer = b].items = p.items
         /\ [p EXCEPT !.items = i] \in [up : U, buffer : B, items : I]
         /\ [p EXCEPT !.items = i].items = i /\ [p EXCEPT !.items = i].buffer = p.buffer
         /\ [p EXCEPT !.buffer = b, !.items = i] \in [up : U, buffer : B, items : I]
         /\ [p EXCEPT !.buffer = b, !.items = i].buffer = b
         /\ [p EXCEPT !.buffer = b, !.items = i].items = i
  OBVIOUS

(* The connection is opened.                                                    *)
LEMMA SttConnects ==
  ASSUME SttInv, Stt!Connect
  PROVE  SttInv'
<1>1. SttShape /\ Present /\ Awaited /\ TranscriptIsOwn
  BY DEF SttInv
<1>2. /\ call.at = "start" /\ call' = [call EXCEPT !.at = "starting"]
      /\ sess' = [sess EXCEPT !.ws = "open", !.reader = "running", !.ready = "waiting"]
      /\ provider' = [provider EXCEPT !.up = TRUE]
      /\ channel' = <<[type |-> "updated"]>>
      /\ UNCHANGED <<results, shown, sttFaults>>
  BY DEF Stt!Connect
<1>3. call'.at = "starting" /\ call'.turn = call.turn /\ call' \in [at : SttPlaces, turn : 0..MaxSttTurns]
  BY <1>1, <1>2 DEF SttShape, SttPlaces
<1>4. /\ sess' \in SessionType /\ sess'.pending = sess.pending /\ sess'.buffered = sess.buffered
      /\ sess'.seconds = sess.seconds /\ sess'.got = sess.got
  <2>1. sess \in SessionType
    BY <1>1 DEF SttShape
  <2> QED  BY <1>2, <2>1, SessionTurns
<1>5. /\ provider' \in [up : BOOLEAN, buffer : Seq(Nat), items : SUBSET Seq(Nat)]
      /\ provider'.buffer = provider.buffer /\ provider'.items = provider.items
  <2>1. provider \in [up : BOOLEAN, buffer : Seq(Nat), items : SUBSET Seq(Nat)]
    BY <1>1 DEF SttShape
  <2>2. TRUE \in BOOLEAN
    OBVIOUS
  <2> QED  BY <1>2, <2>1, <2>2 
<1>6. [type |-> "updated"] \in SttEvent
  BY DEF SttEvent
<1>7. channel' \in Seq(SttEvent) /\ Completed' = {} /\ Deltas' = {}
  BY <1>2, <1>6 DEF Completed, Deltas
<1>8. SttShape'
  BY <1>1, <1>2, <1>3, <1>4, <1>5, <1>7 DEF SttShape
<1>9. \A x : Own(x)' = Own(x)
  BY <1>3 DEF Own
<1>10. Present' /\ Awaited'
  BY <1>1, <1>2, <1>3, <1>4, <1>5, <1>7, <1>9 DEF Present, Awaited
<1>11. TranscriptIsOwn'
  BY <1>1, <1>2 DEF TranscriptIsOwn, Stt!TranscriptIsOwn, Stt!PartialIsOwn
<1> QED  BY <1>8, <1>10, <1>11 DEF SttInv

(* A turn is spoken; the provider has nothing of an earlier one.                *)
LEMMA SttSpeaks ==
  ASSUME SttInv, Stt!Speak
  PROVE  SttInv'
<1>1. SttShape /\ Present /\ Awaited /\ TranscriptIsOwn
  BY DEF SttInv
<1>2. PICK turn1 \in {call.turn, call.turn + 1} :
        turn1 \in 1..MaxSttTurns /\ call' = [at |-> "speaking", turn |-> turn1]
  BY DEF Stt!Speak
<1>3. call.at = "idle" /\ UNCHANGED <<sess, provider, channel, results, shown, sttFaults>>
  BY DEF Stt!Speak
<1>4. call'.at = "speaking" /\ call' \in [at : SttPlaces, turn : 0..MaxSttTurns]
  BY <1>2, CallAssumption DEF SttPlaces, Stt!SttAssumption
<1>5. Completed' = Completed /\ Deltas' = Deltas
  BY <1>3 DEF Completed, Deltas
<1>6. /\ provider.buffer = <<>> /\ sess.buffered = 0 /\ provider.items = {}
      /\ Completed = {} /\ Deltas = {} /\ sess.pending # "waiting"
  BY <1>1, <1>3 DEF Present, Awaited
<1>7. SttShape'
  BY <1>1, <1>3, <1>4 DEF SttShape
<1>8. Own(provider.buffer)'
  BY <1>3, <1>6 DEF Own
<1>9. Len(provider.buffer) = 0
  BY <1>6
<1>10. Present' /\ Awaited'
  BY <1>3, <1>4, <1>5, <1>6, <1>8, <1>9 DEF Present, Awaited
<1>11. TranscriptIsOwn'
  BY <1>1, <1>3 DEF TranscriptIsOwn, Stt!TranscriptIsOwn, Stt!PartialIsOwn
<1> QED  BY <1>7, <1>10, <1>11 DEF SttInv

(* Audio is appended, while there is a connection.                              *)
LEMMA SttAppends ==
  ASSUME SttInv, Stt!AppendAudio
  PROVE  SttInv'
<1>1. SttShape /\ Present /\ Awaited /\ TranscriptIsOwn
  BY DEF SttInv
<1>2. /\ call.at = "speaking" /\ sess.buffered < MaxChunks
      /\ sess' = [sess EXCEPT !.buffered = @ + 1]
      /\ UNCHANGED <<channel, results, shown, sttFaults>>
  BY DEF Stt!AppendAudio
<1>3. /\ sess' \in SessionType /\ sess'.pending = sess.pending /\ sess'.got = sess.got
      /\ sess'.seconds = sess.seconds /\ sess'.buffered = sess.buffered + 1
  <2>1. sess \in SessionType /\ sess.buffered + 1 \in 0..MaxChunks
    BY <1>1, <1>2, SttIs, CallAssumption DEF SttShape, Stt!SttAssumption
  <2>2. PICK b \in 0..MaxChunks : b = sess.buffered + 1
    BY <2>1
  <2>3. sess' = [sess EXCEPT !.buffered = b]
    BY <1>2, <2>2
  <2>4. /\ sess' \in SessionType /\ sess'.pending = sess.pending /\ sess'.got = sess.got
        /\ sess'.seconds = sess.seconds /\ sess'.buffered = b
    BY <2>1, <2>3, SessionBuffers
  <2> QED  BY <2>2, <2>4
<1>4. Completed' = Completed /\ Deltas' = Deltas /\ sess.buffered + 1 # 0
  BY <1>1, <1>2, SttIs DEF Completed, Deltas
<1>5. TranscriptIsOwn'
  BY <1>1, <1>2 DEF TranscriptIsOwn, Stt!TranscriptIsOwn, Stt!PartialIsOwn
<1>6. CASE provider.up
  <2>1. provider' = [provider EXCEPT !.buffer = Append(@, call.turn)] /\ call' = call
    BY <1>6 DEF Stt!AppendAudio, Stt!Sends
  <2>2. /\ provider.buffer \in Seq(Nat) /\ call.turn \in Nat
        /\ Append(provider.buffer, call.turn) \in Seq(Nat)
    BY <1>1, SttIs, AppendProperties
  <2>3. /\ provider' \in [up : BOOLEAN, buffer : Seq(Nat), items : SUBSET Seq(Nat)]
        /\ provider'.buffer = Append(provider.buffer, call.turn) /\ provider'.items = provider.items
    BY <1>1, <2>1, <2>2 DEF SttShape
  <2>4. /\ Len(provider'.buffer) = Len(provider.buffer) + 1
        /\ \A k \in DOMAIN provider'.buffer : provider'.buffer[k] = call.turn
    <3>1. \A k \in DOMAIN provider.buffer : provider.buffer[k] = call.turn
      BY <1>1 DEF Present, Own
    <3>2. PICK s \in Seq(Nat), t \in Nat : s = provider.buffer /\ t = call.turn
      BY <2>2
    <3>3. /\ Len(Append(s, t)) = Len(s) + 1
          /\ \A k \in DOMAIN Append(s, t) : Append(s, t)[k] = t
      BY <3>1, <3>2, OwnAppend
    <3> QED  BY <2>3, <3>2, <3>3
  <2>5. \A x : Own(x)' = Own(x)
    BY <2>1 DEF Own
  <2>6. Own(provider.buffer)'
    BY <2>1, <2>4 DEF Own
  <2>7. SttShape'
    BY <1>1, <1>2, <1>3, <2>1, <2>3 DEF SttShape
  <2>8. Present'
    BY <1>1, <1>2, <1>3, <1>4, <2>1, <2>3, <2>4, <2>5, <2>6 DEF Present
  <2>9. Awaited'
    BY <1>1, <1>2, <1>3, <1>4, <2>1, <2>3, <2>5 DEF Awaited
  <2> QED  BY <1>5, <2>7, <2>8, <2>9 DEF SttInv
<1>7. CASE ~provider.up
  <2>1. provider' = provider /\ call' = [call EXCEPT !.at = "failed"]
    BY <1>7 DEF Stt!AppendAudio, Stt!Sends, Stt!Leave
  <2>2. call'.at = "failed" /\ call'.turn = call.turn /\ call' \in [at : SttPlaces, turn : 0..MaxSttTurns]
    BY <1>1, <2>1 DEF SttShape, SttPlaces
  <2>3. \A x : Own(x)' = Own(x)
    BY <2>2 DEF Own
  <2>4. SttShape' /\ Present' /\ Awaited'
    BY <1>1, <1>2, <1>3, <1>4, <2>1, <2>2, <2>3 DEF SttShape, Present, Awaited
  <2> QED  BY <1>5, <2>4 DEF SttInv
<1> QED  BY <1>6, <1>7

(* The audio is committed, while there is a connection: one item, all of it.    *)
LEMMA SttCommits ==
  ASSUME SttInv, Stt!Commit
  PROVE  SttInv'
<1>1. SttShape /\ Present /\ Awaited /\ TranscriptIsOwn
  BY DEF SttInv
<1>2. /\ call.at = "speaking" /\ sess.buffered > 0
      /\ sess' = [sess EXCEPT !.pending = "waiting", !.seconds = sess.buffered, !.buffered = 0]
      /\ UNCHANGED <<channel, results, shown, sttFaults>>
  BY DEF Stt!Commit
<1>3. /\ sess' \in SessionType /\ sess'.pending = "waiting"
      /\ sess'.seconds = sess.buffered /\ sess'.buffered = 0
  <2>1. sess \in SessionType /\ sess.buffered \in Nat
    BY <1>1, SttIs DEF SttShape
  <2>2. 0 \in 0..MaxChunks
    BY CallAssumption DEF Stt!SttAssumption
  <2>3. PICK n \in Nat, b \in 0..MaxChunks : n = sess.buffered /\ b = 0
    BY <2>1, <2>2
  <2>4. sess' = [sess EXCEPT !.pending = "waiting", !.seconds = n, !.buffered = b]
    BY <1>2, <2>3
  <2>5. sess' \in SessionType /\ sess'.pending = "waiting" /\ sess'.seconds = n /\ sess'.buffered = b
    <3>1. PICK s \in SessionType : s = sess
      BY <2>1
    <3>2. sess' = [s EXCEPT !.pending = "waiting", !.seconds = n, !.buffered = b]
      BY <2>4, <3>1
    <3> QED  BY <3>2 DEF SessionType
  <2> QED  BY <2>3, <2>5
<1>4. Completed' = Completed /\ Deltas' = Deltas
  BY <1>2 DEF Completed, Deltas
<1>5. TranscriptIsOwn'
  BY <1>1, <1>2 DEF TranscriptIsOwn, Stt!TranscriptIsOwn, Stt!PartialIsOwn
<1>6. CASE provider.up
  <2>1. /\ provider' = [provider EXCEPT !.buffer = <<>>, !.items = @ \cup {provider.buffer}]
        /\ call' = [call EXCEPT !.at = "committing"]
    BY <1>6 DEF Stt!Commit
  <2>2. call'.at = "committing" /\ call'.turn = call.turn /\ call' \in [at : SttPlaces, turn : 0..MaxSttTurns]
    BY <1>1, <2>1 DEF SttShape, SttPlaces
  <2>3. provider.items = {} /\ Completed = {} /\ provider.buffer \in Seq(Nat)
    BY <1>1, <1>2, SttIs DEF Awaited
  <2>4. /\ provider' \in [up : BOOLEAN, buffer : Seq(Nat), items : SUBSET Seq(Nat)]
        /\ provider'.buffer = <<>> /\ provider'.items = {provider.buffer}
    <3>1. provider \in [up : BOOLEAN, buffer : Seq(Nat), items : SUBSET Seq(Nat)]
      BY <1>1 DEF SttShape
    <3>2. <<>> \in Seq(Nat) /\ {provider.buffer} \in SUBSET Seq(Nat)
      BY <2>3
    <3>3. PICK b \in Seq(Nat), i \in SUBSET Seq(Nat) : b = <<>> /\ i = {provider.buffer}
      BY <3>2
    <3>4. provider' = [provider EXCEPT !.buffer = b, !.items = i]
      BY <2>1, <2>3, <3>3
    <3>5. /\ provider' \in [up : BOOLEAN, buffer : Seq(Nat), items : SUBSET Seq(Nat)]
          /\ provider'.buffer = b /\ provider'.items = i
      BY <3>1, <3>4
    <3> QED  BY <3>3, <3>5
  <2>5. \A x : Own(x)' = Own(x)
    BY <2>2 DEF Own
  <2>6. Own(provider.buffer) /\ Len(provider.buffer) = sess.buffered /\ provider.buffer # <<>>
    BY <1>1, <1>2 DEF Present
  <2>7. \A x \in provider'.items : IsAudio(x)'
    <3>1. \A x : IsAudio(x)' <=> x # <<>> /\ Own(x)' /\ Len(x) = sess'.seconds
      BY DEF IsAudio
    <3> QED  BY <1>3, <2>4, <2>5, <2>6, <3>1
  <2>8. Own(provider.buffer)'
    BY <2>4 DEF Own
  <2>9. SttShape'
    BY <1>1, <1>2, <1>3, <2>2, <2>4 DEF SttShape
  <2>10. Present'
    BY <1>1, <1>2, <1>3, <1>4, <2>2, <2>4, <2>5, <2>6, <2>8 DEF Present
  <2>11. Awaited'
    BY <1>3, <1>4, <2>2, <2>3, <2>4, <2>7 DEF Awaited
  <2> QED  BY <1>5, <2>9, <2>10, <2>11 DEF SttInv
<1>7. CASE ~provider.up
  <2>1. provider' = provider /\ call' = [call EXCEPT !.at = "failed"]
    BY <1>7 DEF Stt!Commit, Stt!Leave
  <2>2. call'.at = "failed" /\ call'.turn = call.turn /\ call' \in [at : SttPlaces, turn : 0..MaxSttTurns]
    BY <1>1, <2>1 DEF SttShape, SttPlaces
  <2>3. \A x : Own(x)' = Own(x)
    BY <2>2 DEF Own
  <2>4. SttShape' /\ Present' /\ Awaited'
    BY <1>1, <1>2, <1>3, <1>4, <2>1, <2>2, <2>3 DEF SttShape, Present, Awaited
  <2> QED  BY <1>5, <2>4 DEF SttInv
<1> QED  BY <1>6, <1>7

(* The call takes the transcript, which is of the turn it is in.                *)
LEMMA SttTakes ==
  ASSUME SttInv, Stt!TakeResult
  PROVE  SttInv'
<1>1. SttShape /\ Present /\ Awaited /\ TranscriptIsOwn
  BY DEF SttInv
<1>2. /\ call.at = "committing" /\ sess.pending = "set"
      /\ results' = results \cup {[turn |-> call.turn, item |-> sess.got, seconds |-> sess.seconds]}
      /\ call' = [call EXCEPT !.at = "idle"]
      /\ UNCHANGED <<sess, provider, channel, shown, sttFaults>>
  BY DEF Stt!TakeResult
<1>3. call'.at = "idle" /\ call'.turn = call.turn /\ call' \in [at : SttPlaces, turn : 0..MaxSttTurns]
  BY <1>1, <1>2 DEF SttShape, SttPlaces
<1>4. provider.items = {} /\ Completed = {} /\ Deltas = {} /\ IsAudio(sess.got)
  BY <1>1, <1>2 DEF Awaited
<1>5. Completed' = Completed /\ Deltas' = Deltas /\ \A x : Own(x)' = Own(x)
  BY <1>2, <1>3 DEF Completed, Deltas, Own
<1>6. /\ sess.got # <<>> /\ Stt!ToSet(sess.got) = {call.turn} /\ sess.seconds = Len(sess.got)
  <2>1. sess.got \in Seq(Nat)
    BY <1>1, SttIs
  <2>2. Len(sess.got) \in Nat /\ DOMAIN sess.got = 1..Len(sess.got) /\ Len(sess.got) # 0
    BY <1>4, <2>1, LenProperties, EmptySeq DEF IsAudio
  <2>3. 1 \in DOMAIN sess.got /\ \A k \in DOMAIN sess.got : sess.got[k] = call.turn
    BY <1>4, <2>2 DEF IsAudio, Own
  <2> QED  BY <1>4, <2>3 DEF IsAudio, Stt!ToSet
<1>7. SttShape'
  BY <1>1, <1>2, <1>3 DEF SttShape
<1>8. Present' /\ Awaited'
  BY <1>1, <1>2, <1>3, <1>4, <1>5 DEF Present, Awaited
<1>9. TranscriptIsOwn'
  <2>1. \A r \in results' : r.item # <<>> /\ Stt!ToSet(r.item) = {r.turn} /\ r.seconds = Len(r.item)
    <3> DEFINE new == [turn |-> call.turn, item |-> sess.got, seconds |-> sess.seconds]
    <3>1. \A r \in results : r.item # <<>> /\ Stt!ToSet(r.item) = {r.turn} /\ r.seconds = Len(r.item)
      BY <1>1 DEF TranscriptIsOwn, Stt!TranscriptIsOwn
    <3>2. new.item # <<>> /\ Stt!ToSet(new.item) = {new.turn} /\ new.seconds = Len(new.item)
      BY <1>6
    <3>3. \A r \in results' : r \in results \/ r = new
      BY <1>2
    <3> HIDE DEF new
    <3> QED  BY <3>1, <3>2, <3>3
  <2>2. \A s \in shown' : s[1] = s[2]
    BY <1>1, <1>2 DEF TranscriptIsOwn, Stt!PartialIsOwn
  <2>3. Stt!TranscriptIsOwn'
    BY <2>1 DEF Stt!TranscriptIsOwn, Stt!ToSet
  <2>4. Stt!PartialIsOwn'
    BY <2>2 DEF Stt!PartialIsOwn
  <2> QED  BY <2>3, <2>4 DEF TranscriptIsOwn
<1> QED  BY <1>7, <1>8, <1>9 DEF SttInv

(* The session is closed.                                                       *)
LEMMA SttCloses ==
  ASSUME SttInv, Stt!Close
  PROVE  SttInv'
<1>1. SttShape /\ Present /\ Awaited /\ TranscriptIsOwn
  BY DEF SttInv
<1>2. /\ call' = [call EXCEPT !.at = "over"]
      /\ sess' = [sess EXCEPT !.ws = "closed", !.reader = "ended"]
      /\ provider' = [provider EXCEPT !.up = FALSE]
      /\ UNCHANGED <<channel, results, shown, sttFaults>>
  BY DEF Stt!Close
<1>3. call'.at = "over" /\ call'.turn = call.turn /\ call' \in [at : SttPlaces, turn : 0..MaxSttTurns]
  BY <1>1, <1>2 DEF SttShape, SttPlaces
<1>4. sess' \in SessionType
  <2>1. sess \in SessionType
    BY <1>1 DEF SttShape
  <2> QED  BY <1>2, <2>1, SessionTurns
<1>5. /\ provider' \in [up : BOOLEAN, buffer : Seq(Nat), items : SUBSET Seq(Nat)]
      /\ provider'.buffer = provider.buffer /\ provider'.items = provider.items
  BY <1>1, <1>2 DEF SttShape
<1>6. Completed' = Completed /\ Deltas' = Deltas /\ \A x : Own(x)' = Own(x)
  BY <1>2, <1>3 DEF Completed, Deltas, Own
<1>7. SttShape' /\ Present' /\ Awaited'
  BY <1>1, <1>2, <1>3, <1>4, <1>5, <1>6 DEF SttShape, Present, Awaited
<1>8. TranscriptIsOwn'
  BY <1>1, <1>2 DEF TranscriptIsOwn, Stt!TranscriptIsOwn, Stt!PartialIsOwn
<1> QED  BY <1>7, <1>8 DEF SttInv

(* The reader takes an event: the transcript that is awaited, if it is one.     *)
LEMMA SttReads ==
  ASSUME SttInv, Stt!Read
  PROVE  SttInv'
<1>1. SttShape /\ Present /\ Awaited /\ TranscriptIsOwn
  BY DEF SttInv
<1> DEFINE e == channel[1]
<1>2. channel # <<>> /\ channel' = Tail(channel)
  BY DEF Stt!Read
<1>3. /\ channel' \in Seq(SttEvent)
      /\ 1 \in DOMAIN channel /\ Head(channel) = e /\ e \in SttEvent
      /\ DOMAIN channel' \subseteq Nat
      /\ \A i \in DOMAIN channel' :
           i + 1 \in DOMAIN channel /\ i + 1 # 1 /\ channel'[i] = channel[i + 1]
  BY <1>1, <1>2, ReadIs
<1>4. /\ sess' = Stt!Dispatch(e)
      /\ shown' = IF e.type = "delta" THEN shown \cup {<<e.item, call.turn>>} ELSE shown
      /\ UNCHANGED <<call, provider, results, sttFaults>>
  BY <1>3 DEF Stt!Read
<1>5. /\ sess' \in SessionType /\ sess'.buffered = sess.buffered /\ sess'.seconds = sess.seconds
      /\ sess'.pending = "waiting" => sess.pending = "waiting" /\ e.type # "completed"
      /\ sess'.pending = "set" =>
           \/ sess.pending = "set" /\ sess'.got = sess.got
           \/ sess.pending = "waiting" /\ e.type = "completed" /\ sess'.got = e.item
  BY <1>1, <1>3, <1>4, DispatchIs
<1>6. /\ \A i \in Completed' : i + 1 \in Completed /\ i + 1 # 1 /\ i \in Nat /\ channel'[i].item = channel[i + 1].item
      /\ \A i \in Deltas' : i + 1 \in Deltas /\ i \in Nat /\ channel'[i].item = channel[i + 1].item
      /\ e.type = "completed" <=> 1 \in Completed
      /\ e.type = "delta" <=> 1 \in Deltas
      /\ \A i \in Deltas : i \in 1..Len(channel)
  BY <1>1, <1>3, SttIs DEF Completed, Deltas
<1>7. \A x : Own(x)' = Own(x) /\ IsAudio(x)' = IsAudio(x)
  BY <1>4, <1>5 DEF Own, IsAudio
<1>8. SttShape'
  BY <1>1, <1>3, <1>4, <1>5 DEF SttShape
<1>9. Present'
  BY <1>1, <1>4, <1>5, <1>6, <1>7 DEF Present
<1>10. TranscriptIsOwn'
  <2>1. Stt!TranscriptIsOwn'
    BY <1>1, <1>4 DEF TranscriptIsOwn, Stt!TranscriptIsOwn
  <2>2. e.type = "delta" => e.item = call.turn
    BY <1>1, <1>6 DEF Present
  <2>3. \A s \in shown' : s[1] = s[2]
    BY <1>1, <1>4, <2>2 DEF TranscriptIsOwn, Stt!PartialIsOwn
  <2>4. Stt!PartialIsOwn'
    BY <2>3 DEF Stt!PartialIsOwn
  <2> QED  BY <2>1, <2>4 DEF TranscriptIsOwn
<1>11. Awaited'
  <2>1. call'.at \in {"start", "starting", "idle", "speaking"} =>
          provider'.items = {} /\ Completed' = {} /\ sess'.pending # "waiting"
    BY <1>1, <1>4, <1>5, <1>6 DEF Awaited
  <2>2. ASSUME call'.at = "committing", sess'.pending = "set"
        PROVE  provider'.items = {} /\ Completed' = {} /\ Deltas' = {} /\ IsAudio(sess'.got)
    <3>1. CASE sess.pending = "set" /\ sess'.got = sess.got
      BY <1>1, <1>4, <1>6, <2>2, <3>1 DEF Awaited
    <3>2. CASE sess.pending = "waiting" /\ e.type = "completed" /\ sess'.got = e.item
      <4>1. 1 \in Completed
        BY <1>6, <3>2
      <4>2. Completed = {1} /\ (\A j \in Deltas : j < 1) /\ IsAudio(e.item)
        BY <1>1, <1>4, <2>2, <3>2, <4>1 DEF Awaited
      <4>3. provider.items = {}
        BY <1>1, <1>4, <2>2, <3>2, <4>1 DEF Awaited
      <4>4. Deltas = {}
        BY <1>1, <1>6, <4>2, SttIs
      <4>5. Completed' = {} /\ Deltas' = {}
        BY <1>6, <4>2, <4>4
      <4> QED  BY <1>4, <3>2, <4>2, <4>3, <4>5
    <3> QED  BY <1>5, <2>2, <3>1, <3>2
  <2>3. ASSUME call'.at = "committing", sess'.pending = "waiting"
        PROVE  /\ \A x \in provider'.items : provider'.items = {x} /\ Completed' = {} /\ IsAudio(x)
               /\ \A i \in Completed' :
                    Completed' = {i} /\ (\A j \in Deltas' : j < i) /\ IsAudio(channel'[i].item)
    <3>1. call.at = "committing" /\ sess.pending = "waiting"
      BY <1>4, <1>5, <2>3
    <3>2. \A x \in provider'.items : provider'.items = {x} /\ Completed' = {} /\ IsAudio(x)
      BY <1>1, <1>4, <1>6, <3>1 DEF Awaited
    <3>3. ASSUME NEW i \in Completed'
          PROVE  Completed' = {i} /\ (\A j \in Deltas' : j < i) /\ IsAudio(channel'[i].item)
      <4>1. i + 1 \in Completed /\ i \in Nat /\ channel'[i].item = channel[i + 1].item
        BY <1>6
      <4>2. Completed = {i + 1} /\ (\A j \in Deltas : j < i + 1) /\ IsAudio(channel[i + 1].item)
        BY <1>1, <3>1, <4>1 DEF Awaited
      <4>3. \A k \in Completed' : k = i
        BY <1>6, <4>1, <4>2
      <4>4. \A j \in Deltas' : j < i
        BY <1>6, <4>1, <4>2
      <4> QED  BY <4>1, <4>2, <4>3, <4>4
    <3> QED  BY <3>2, <3>3
  <2> QED  BY <1>7, <2>1, <2>2, <2>3 DEF Awaited
<1> QED  BY <1>8, <1>9, <1>10, <1>11 DEF SttInv

(* The reader ends with an exception: nothing is awaited any more.              *)
LEMMA SttReaderRaises ==
  ASSUME SttInv, Stt!ReaderRaises
  PROVE  SttInv'
<1>1. SttShape /\ Present /\ Awaited /\ TranscriptIsOwn
  BY DEF SttInv
<1>2. /\ sess' = [Stt!FailPending(sess) EXCEPT !.reader = "ended"]
      /\ sttFaults < MaxFaults /\ sttFaults' = sttFaults + 1
      /\ UNCHANGED <<call, provider, channel, results, shown>>
  BY DEF Stt!ReaderRaises, Stt!Fault
<1>3. sttFaults' \in 0..MaxFaults
  BY <1>1, <1>2, CallEventsAssumption DEF SttShape
<1>4. /\ sess' \in SessionType /\ sess'.buffered = sess.buffered /\ sess'.seconds = sess.seconds
      /\ sess'.got = sess.got /\ sess'.pending # "waiting"
      /\ sess'.pending = "set" => sess.pending = "set"
  <2>1. sess \in SessionType
    BY <1>1 DEF SttShape
  <2>2. PICK s \in SessionType : s = Stt!FailPending(sess)
    BY <2>1, FailPendingIs
  <2>3. sess' \in SessionType /\ sess'.buffered = s.buffered /\ sess'.seconds = s.seconds
        /\ sess'.pending = s.pending /\ sess'.got = s.got
    BY <1>2, <2>2, ReaderEnds
  <2> QED  BY <2>1, <2>2, <2>3, FailPendingIs
<1>5. Completed' = Completed /\ Deltas' = Deltas /\ \A x : Own(x)' = Own(x) /\ IsAudio(x)' = IsAudio(x)
  BY <1>2, <1>4 DEF Completed, Deltas, Own, IsAudio
<1>6. SttShape'
  BY <1>1, <1>2, <1>3, <1>4 DEF SttShape
<1>7. Present' /\ Awaited'
  BY <1>1, <1>2, <1>4, <1>5 DEF Present, Awaited
<1>8. TranscriptIsOwn'
  BY <1>1, <1>2 DEF TranscriptIsOwn, Stt!TranscriptIsOwn, Stt!PartialIsOwn
<1> QED  BY <1>6, <1>7, <1>8 DEF SttInv

(* A partial transcript is told of audio that is still to be transcribed.       *)
LEMMA SttPartial ==
  ASSUME SttInv, Stt!Partial
  PROVE  SttInv'
<1>1. SttShape /\ Present /\ Awaited /\ TranscriptIsOwn
  BY DEF SttInv
<1>2. PICK spoken \in provider.items \cup {provider.buffer} :
        spoken # <<>> /\ channel' = Append(channel, [type |-> "delta", item |-> Last(spoken)])
  BY DEF Stt!Partial, Stt!Tell, Stt!Last, Last
<1>3. UNCHANGED <<call, sess, provider, results, shown, sttFaults>>
  BY DEF Stt!Partial
<1>4. spoken \in Seq(Nat) /\ Last(spoken) = call.turn
  <2>1. spoken \in Seq(Nat) /\ Own(spoken)
    BY <1>1, <1>2, SttIs DEF Present
  <2>2. Len(spoken) \in Nat /\ DOMAIN spoken = 1..Len(spoken) /\ Len(spoken) # 0
    BY <1>2, <2>1, LenProperties, EmptySeq
  <2>3. Len(spoken) \in DOMAIN spoken
    BY <2>2
  <2> QED  BY <2>1, <2>3 DEF Own, Last
<1> DEFINE e == [type |-> "delta", item |-> call.turn]
<1>5. e \in SttEvent /\ e.type = "delta" /\ e.item = call.turn /\ channel' = Append(channel, e)
  BY <1>1, <1>2, <1>4, SttIs DEF SttEvent
<1> HIDE DEF e
<1>6. /\ channel' \in Seq(SttEvent)
      /\ DOMAIN channel \subseteq DOMAIN channel' /\ DOMAIN channel' \subseteq Nat
      /\ \A i \in DOMAIN channel : channel'[i] = channel[i]
      /\ \E n \in DOMAIN channel' :
           /\ n \notin DOMAIN channel /\ channel'[n] = e
           /\ \A i \in DOMAIN channel' : i # n => i \in DOMAIN channel
           /\ \A i \in DOMAIN channel : i < n
  BY <1>1, <1>5, TellIs
<1>7. Completed' = Completed
  BY <1>5, <1>6 DEF Completed
<1>8. \A i \in Deltas' : channel'[i].item = call.turn
  <2>1. \A i \in Deltas : channel[i].item = call.turn
    BY <1>1 DEF Present
  <2>2. \A i \in Deltas' : i \in Deltas \/ channel'[i] = e
    BY <1>6 DEF Deltas
  <2> QED  BY <1>5, <1>6, <2>1, <2>2 DEF Deltas
<1>9. \A x : Own(x)' = Own(x) /\ IsAudio(x)' = IsAudio(x)
  BY <1>3 DEF Own, IsAudio
<1>10. /\ call.at \notin {"start", "starting", "idle"}
       /\ ~(call.at = "speaking" /\ sess.buffered = 0)
       /\ ~(call.at = "committing" /\ sess.pending = "set")
       /\ call.at = "committing" => spoken \in provider.items
  <2>1. provider.buffer = <<>> => spoken \in provider.items
    BY <1>2
  <2>2. call.at = "speaking" /\ sess.buffered = 0 => provider.buffer = <<>>
    <3>1. provider.buffer \in Seq(Nat)
      BY <1>1, SttIs
    <3> QED  BY <1>1, <3>1, EmptySeq DEF Present
  <2> QED  BY <1>1, <2>1, <2>2 DEF Present, Awaited
<1>11. SttShape'
  BY <1>1, <1>3, <1>6 DEF SttShape
<1>12. Present'
  BY <1>1, <1>3, <1>8, <1>9, <1>10 DEF Present
<1>13. Awaited'
  <2>1. call'.at \in {"start", "starting", "idle", "speaking"} =>
          provider'.items = {} /\ Completed' = {} /\ sess'.pending # "waiting"
    BY <1>1, <1>3, <1>7 DEF Awaited
  <2>2. ASSUME call.at = "committing", sess.pending = "waiting"
        PROVE  Completed = {} /\ \A x \in provider.items : provider.items = {x} /\ IsAudio(x)
    BY <1>1, <1>10, <2>2 DEF Awaited
  <2> QED  BY <1>3, <1>7, <1>9, <1>10, <2>1, <2>2 DEF Awaited
<1>14. TranscriptIsOwn'
  BY <1>1, <1>3 DEF TranscriptIsOwn, Stt!TranscriptIsOwn, Stt!PartialIsOwn
<1> QED  BY <1>11, <1>12, <1>13, <1>14 DEF SttInv

(* The provider has transcribed an item, the one that is awaited if one is.     *)
LEMMA SttTranscribes ==
  ASSUME SttInv, Stt!Transcribes
  PROVE  SttInv'
<1>1. SttShape /\ Present /\ Awaited /\ TranscriptIsOwn
  BY DEF SttInv
<1>2. PICK item \in provider.items :
        /\ provider' = [provider EXCEPT !.items = @ \ {item}]
        /\ channel' = Append(channel, [type |-> "completed", item |-> item])
  BY DEF Stt!Transcribes, Stt!Tell
<1>3. UNCHANGED <<call, sess, results, shown, sttFaults>>
  BY DEF Stt!Transcribes
<1> DEFINE e == [type |-> "completed", item |-> item]
<1>4. item \in Seq(Nat)
  BY <1>1, <1>2, SttIs
<1>5. e \in SttEvent /\ e.type = "completed" /\ e.item = item /\ channel' = Append(channel, e)
  BY <1>2, <1>4 DEF SttEvent
<1> HIDE DEF e
<1>6. /\ channel' \in Seq(SttEvent)
      /\ DOMAIN channel \subseteq DOMAIN channel' /\ DOMAIN channel' \subseteq Nat
      /\ \A i \in DOMAIN channel : channel'[i] = channel[i]
      /\ \E n \in DOMAIN channel' :
           /\ n \notin DOMAIN channel /\ channel'[n] = e
           /\ \A i \in DOMAIN channel' : i # n => i \in DOMAIN channel
           /\ \A i \in DOMAIN channel : i < n
  BY <1>1, <1>5, TellIs
<1>7. PICK n \in DOMAIN channel' :
        /\ n \notin DOMAIN channel /\ channel'[n] = e
        /\ \A i \in DOMAIN channel' : i # n => i \in DOMAIN channel
        /\ \A i \in DOMAIN channel : i < n
  BY <1>6
<1>8. /\ Deltas' = Deltas /\ Completed' = Completed \cup {n}
      /\ \A i \in Deltas : channel'[i] = channel[i] /\ i < n
  BY <1>5, <1>6, <1>7 DEF Completed, Deltas
<1>9. /\ provider' \in [up : BOOLEAN, buffer : Seq(Nat), items : SUBSET Seq(Nat)]
      /\ provider'.buffer = provider.buffer /\ provider'.items = provider.items \ {item}
  BY <1>1, <1>2 DEF SttShape
<1>10. \A x : Own(x)' = Own(x) /\ IsAudio(x)' = IsAudio(x)
  BY <1>3 DEF Own, IsAudio
<1>11. SttShape'
  BY <1>1, <1>3, <1>6, <1>9 DEF SttShape
<1>12. Present'
  BY <1>1, <1>3, <1>8, <1>9, <1>10 DEF Present
<1>13. /\ call.at \notin {"start", "starting", "idle", "speaking"}
       /\ ~(call.at = "committing" /\ sess.pending = "set")
  BY <1>1, <1>2 DEF Awaited
<1>14. ASSUME call.at = "committing", sess.pending = "waiting"
       PROVE  /\ provider'.items = {} /\ Completed' = {n} /\ IsAudio(channel'[n].item)
              /\ \A j \in Deltas' : j < n
  <2>1. provider.items = {item} /\ Completed = {} /\ IsAudio(item)
    BY <1>1, <1>2, <1>14 DEF Awaited
  <2> QED  BY <1>5, <1>7, <1>8, <1>9, <2>1
<1>15. Awaited'
  BY <1>3, <1>10, <1>13, <1>14 DEF Awaited
<1>16. TranscriptIsOwn'
  BY <1>1, <1>3 DEF TranscriptIsOwn, Stt!TranscriptIsOwn, Stt!PartialIsOwn
<1> QED  BY <1>11, <1>12, <1>15, <1>16 DEF SttInv

(* The provider fails, and says so: it gives no transcript.                     *)
LEMMA SttProviderFails ==
  ASSUME SttInv, Stt!ProviderFails
  PROVE  SttInv'
<1>1. SttShape /\ Present /\ Awaited /\ TranscriptIsOwn
  BY DEF SttInv
<1>2. /\ sttFaults < MaxFaults /\ sttFaults' = sttFaults + 1
      /\ UNCHANGED <<call, sess, results, shown>>
  BY DEF Stt!ProviderFails, Stt!Fault
<1>3. sttFaults' \in 0..MaxFaults
  BY <1>1, <1>2, CallEventsAssumption DEF SttShape
<1>4. \E type \in {"failed", "error", "closed", "aborted"} :
        channel' = Append(channel, [type |-> type])
  BY DEF Stt!ProviderFails, Stt!Tell
<1>5. PICK e \in SttEvent : /\ e.type \in {"failed", "error", "closed", "aborted"}
                           /\ channel' = Append(channel, e)
  <2>1. PICK type \in {"failed", "error", "closed", "aborted"} :
          channel' = Append(channel, [type |-> type])
    BY <1>4
  <2>2. [type |-> type] \in SttEvent /\ [type |-> type].type = type
    BY DEF SttEvent
  <2> QED  BY <2>1, <2>2
<1>6. /\ provider' \in [up : BOOLEAN, buffer : Seq(Nat), items : SUBSET Seq(Nat)]
      /\ provider'.buffer = provider.buffer /\ provider'.items \subseteq provider.items
  <2>1. provider \in [up : BOOLEAN, buffer : Seq(Nat), items : SUBSET Seq(Nat)]
    BY <1>1 DEF SttShape
  <2>2. \/ \E item \in provider.items : provider' = [provider EXCEPT !.items = @ \ {item}]
        \/ provider' = provider
        \/ provider' = [provider EXCEPT !.up = FALSE]
    BY DEF Stt!ProviderFails
  <2>3. ASSUME NEW item \in provider.items, provider' = [provider EXCEPT !.items = @ \ {item}]
        PROVE  /\ provider' \in [up : BOOLEAN, buffer : Seq(Nat), items : SUBSET Seq(Nat)]
               /\ provider'.buffer = provider.buffer /\ provider'.items \subseteq provider.items
    BY <2>1, <2>3
  <2>4. CASE provider' = [provider EXCEPT !.up = FALSE]
    BY <2>1, <2>4
  <2> QED  BY <2>1, <2>2, <2>3, <2>4
<1>7. /\ channel' \in Seq(SttEvent)
      /\ DOMAIN channel \subseteq DOMAIN channel' /\ DOMAIN channel' \subseteq Nat
      /\ \A i \in DOMAIN channel : channel'[i] = channel[i]
      /\ \E n \in DOMAIN channel' :
           /\ n \notin DOMAIN channel /\ channel'[n] = e
           /\ \A i \in DOMAIN channel' : i # n => i \in DOMAIN channel
           /\ \A i \in DOMAIN channel : i < n
  BY <1>1, <1>5, TellIs
<1>8. Completed' = Completed /\ Deltas' = Deltas
  BY <1>5, <1>7 DEF Completed, Deltas
<1>9. /\ \A i \in Deltas : channel'[i] = channel[i]
      /\ \A i \in Completed : channel'[i] = channel[i]
  BY <1>7 DEF Completed, Deltas
<1>10. \A x : Own(x)' = Own(x) /\ IsAudio(x)' = IsAudio(x)
  BY <1>2 DEF Own, IsAudio
<1>11. SttShape'
  BY <1>1, <1>2, <1>3, <1>6, <1>7 DEF SttShape
<1>12. Present'
  BY <1>1, <1>2, <1>6, <1>8, <1>9, <1>10 DEF Present
<1>13. Awaited'
  BY <1>1, <1>2, <1>6, <1>8, <1>9, <1>10 DEF Awaited
<1>14. TranscriptIsOwn'
  BY <1>1, <1>2 DEF TranscriptIsOwn, Stt!TranscriptIsOwn, Stt!PartialIsOwn
<1> QED  BY <1>11, <1>12, <1>13, <1>14 DEF SttInv

(* Whatever happens next to the session, a turn has its own transcript.         *)
LEMMA SttGoesOn ==
  ASSUME SttInv, [Stt!Next]_stt
  PROVE  SttInv'
<1>1. "idle" \in SttPlaces /\ "failed" \in SttPlaces /\ "over" \in SttPlaces /\ "ending" \in SttPlaces
  BY DEF SttPlaces
<1>2. sttFaults \in 0..MaxFaults /\ (Stt!Fault => sttFaults' \in 0..MaxFaults)
  BY CallEventsAssumption DEF SttInv, SttShape, Stt!Fault
<1>3. CASE Stt!Started
  BY <1>1, <1>2, <1>3, CallMoves DEF Stt!Started
<1>4. CASE Stt!StartRaises
  BY <1>1, <1>2, <1>4, CallMoves DEF Stt!StartRaises
<1>5. CASE Stt!CommitNothing
  BY <1>1, <1>2, <1>5, CallMoves DEF Stt!CommitNothing
<1>6. CASE Stt!CommitRaises
  BY <1>1, <1>2, <1>6, CallMoves DEF Stt!CommitRaises, Stt!Leave
<1>7. CASE Stt!TakeError
  BY <1>1, <1>2, <1>7, CallMoves DEF Stt!TakeError, Stt!Leave
<1>8. CASE Stt!TimesOut
  BY <1>1, <1>2, <1>8, CallMoves DEF Stt!TimesOut, Stt!Leave
<1>9. CASE Stt!HangUp
  BY <1>1, <1>2, <1>9, CallMoves DEF Stt!HangUp
<1>10. CASE Stt!EndRaises
  BY <1>1, <1>2, <1>10, CallMoves DEF Stt!EndRaises
<1>11. CASE Stt!Connect \/ Stt!Speak \/ Stt!AppendAudio \/ Stt!Commit \/ Stt!TakeResult \/ Stt!Close
  BY <1>11, SttConnects, SttSpeaks, SttAppends, SttCommits, SttTakes, SttCloses
<1>12. CASE Stt!Read \/ Stt!ReaderRaises \/ Stt!Partial \/ Stt!Transcribes \/ Stt!ProviderFails
  BY <1>12, SttReads, SttReaderRaises, SttPartial, SttTranscribes, SttProviderFails
<1>13. CASE UNCHANGED stt
  <2>1. UNCHANGED <<call, sess, provider, channel, results, shown, sttFaults>>
    BY <1>13 DEF stt
  <2>2. Completed' = Completed /\ Deltas' = Deltas /\ \A x : Own(x)' = Own(x) /\ IsAudio(x)' = IsAudio(x)
    BY <2>1 DEF Completed, Deltas, Own, IsAudio
  <2>3. SttShape' /\ Present' /\ Awaited'
    BY <2>1, <2>2 DEF SttInv, SttShape, Present, Awaited
  <2>4. TranscriptIsOwn'
    BY <2>1 DEF SttInv, TranscriptIsOwn, Stt!TranscriptIsOwn, Stt!PartialIsOwn
  <2> QED  BY <2>3, <2>4 DEF SttInv
<1> QED
  BY <1>3, <1>4, <1>5, <1>6, <1>7, <1>8, <1>9, <1>10, <1>11, <1>12, <1>13
  DEF Stt!Next, Stt!Loop

(* The session begins with nothing.                                             *)
LEMMA SttBegins ==
  ASSUME Stt!Init
  PROVE  SttInv
<1>1. /\ call = [at |-> "start", turn |-> 0]
      /\ sess = [ws |-> "none", reader |-> "none", ready |-> "none", pending |-> "none",
                 got |-> <<>>, buffered |-> 0, seconds |-> 0]
      /\ provider = [up |-> FALSE, buffer |-> <<>>, items |-> {}]
      /\ channel = <<>> /\ results = {} /\ shown = {} /\ sttFaults = 0
  BY DEF Stt!Init
<1>2. 0 \in 0..MaxSttTurns /\ 0 \in 0..MaxChunks /\ 0 \in 0..MaxFaults
  BY CallAssumption, CallEventsAssumption DEF Stt!SttAssumption
<1>3. SttShape
  BY <1>1, <1>2 DEF SttShape, SessionType, SttPlaces
<1>4. /\ call.at = "start" /\ sess.buffered = 0 /\ sess.pending = "none"
      /\ provider.buffer = <<>> /\ provider.items = {} /\ DOMAIN channel = {}
  BY <1>1
<1>5. Present /\ Awaited
  BY <1>4 DEF Present, Awaited, Own, Completed, Deltas
<1>6. TranscriptIsOwn
  BY <1>1 DEF TranscriptIsOwn, Stt!TranscriptIsOwn, Stt!PartialIsOwn
<1> QED  BY <1>3, <1>5, <1>6 DEF SttInv

(* What the proof about transcripts rests on.                                   *)
THEOREM CallSttInvariant == CallSpec => []SttInv
<1>1. CallInit => SttInv
  BY SttBegins DEF CallInit
<1>2. SttInv /\ [CallNext]_<<part, vars, detector, stt>> => SttInv'
  <2> SUFFICES ASSUME SttInv, [CallNext]_<<part, vars, detector, stt>>
               PROVE  SttInv'
    OBVIOUS
  <2>1. [Stt!Next]_stt
    BY DEF CallNext, Events, Turns, Speech
  <2> QED  BY <2>1, SttGoesOn
<1> QED  BY <1>1, <1>2, PTL DEF CallSpec

(* A turn takes the transcript of its own audio, all of it and nothing else, is *)
(* charged for as much as there was, and shows its own partial transcripts,     *)
(* though events carry no turn and item ids are not compared.                   *)
THEOREM CallTranscriptIsOwn == CallSpec => []TranscriptIsOwn
<1>1. SttInv => TranscriptIsOwn
  BY DEF SttInv
<1> QED  BY <1>1, CallSttInvariant, PTL

(* The session's types, and its buffer and the provider's are of one length.    *)
THEOREM CallSttTypes == CallSpec => []Stt!TypeOK
<1>1. ASSUME SttInv PROVE Stt!TypeOK
  <2>1. SttShape /\ Present
    BY <1>1 DEF SttInv
  <2>2. call.at \in {"idle", "speaking"} => sess.buffered = Len(provider.buffer)
    BY <2>1 DEF Present
  <2> QED  BY <2>1, <2>2 DEF Stt!TypeOK, SttShape, SessionType, SttPlaces
<1> QED  BY <1>1, CallSttInvariant, PTL

--------------------------------------------------------------------------------
(* The turn detector. Durations are sums over sequences: folds, which add the   *)
(* elements in an order of their own.                                           *)

(* A set of naturals that holds 0 and is closed under successor is Nat.         *)
LEMMA NatSetInduction ==
  ASSUME NEW S, 0 \in S, \A n \in Nat : n \in S => n + 1 \in S
  PROVE  \A n \in Nat : n \in S
<1>1. SUFFICES ASSUME Nat \ S # {} PROVE FALSE
  OBVIOUS
<1>2. IsWellFoundedOn(OpToRel(<, Nat), Nat)
  BY NatLessThanWellFounded
<1>3. \E m \in Nat \ S : \A k \in Nat \ S : ~ (<<k, m>> \in OpToRel(<, Nat))
  BY <1>1, <1>2, WFMin
<1>4. PICK m \in Nat : m \notin S /\ \A k \in Nat : k < m => k \in S
  BY <1>3 DEF OpToRel
<1>5. m # 0
  BY <1>4
<1>6. m - 1 \in Nat /\ m - 1 < m /\ (m - 1) + 1 = m
  BY <1>4, <1>5
<1> QED  BY <1>4, <1>6

(* The fold: v[1] to v[n] are added in the order in which they are picked, and  *)
(* g[T] is the sum of those in T.                                               *)
Picked(T) == CHOOSE x \in T : TRUE

SumStep(v, g, T) == IF T = {} THEN 0 ELSE v[Picked(T)] + g[T \ {Picked(T)}]

IsSum(v, n, g) == g = [T \in SUBSET (1..n) |-> SumStep(v, g, T)]

(* What is picked from a set, and what is left.                                 *)
LEMMA PickedOne ==
  ASSUME NEW n \in Nat, NEW T \in SUBSET (1..n), T # {}
  PROVE  /\ Picked(T) \in T /\ T \ {Picked(T)} \in SUBSET (1..n)
         /\ IsFiniteSet(T) /\ Cardinality(T) \in Nat
         /\ \A x \in T : /\ Cardinality(T \ {x}) \in Nat
                         /\ Cardinality(T) = Cardinality(T \ {x}) + 1
<1>1. Picked(T) \in T
  BY DEF Picked
<1>2. IsFiniteSet(T)
  <2>1. IsFiniteSet(1..n)
    BY FS_Interval
  <2> QED  BY <2>1, FS_Subset
<1>3. Cardinality(T) \in Nat
  BY <1>2, FS_CardinalityType
<1>4. ASSUME NEW x \in T
      PROVE  Cardinality(T \ {x}) \in Nat /\ Cardinality(T) = Cardinality(T \ {x}) + 1
  <2>1. Cardinality(T \ {x}) = Cardinality(T) - 1 /\ IsFiniteSet(T \ {x})
    BY <1>2, FS_RemoveElement
  <2>2. Cardinality(T \ {x}) \in Nat
    BY <2>1, FS_CardinalityType
  <2> QED  BY <1>3, <2>1, <2>2
<1> QED  BY <1>1, <1>2, <1>3, <1>4

(* There is such a function.                                                    *)
LEMMA SumExists ==
  ASSUME NEW n \in Nat, NEW v
  PROVE  \E g : IsSum(v, n, g)
<1> DEFINE Small(c) == {T \in SUBSET (1..n) : Cardinality(T) <= c}
           Has(c) == \E g : g = [T \in Small(c) |-> SumStep(v, g, T)]
           S == {c \in Nat : Has(c)}
<1>1. 0 \in S
  <2> DEFINE g0 == [T \in Small(0) |-> 0]
  <2>1. \A T \in Small(0) : T = {}
    <3>1. SUFFICES ASSUME NEW T \in SUBSET (1..n), Cardinality(T) <= 0, T # {} PROVE FALSE
      OBVIOUS
    <3>2. PICK x \in T : Cardinality(T \ {x}) \in Nat /\ Cardinality(T) = Cardinality(T \ {x}) + 1
      BY <3>1, PickedOne
    <3> QED  BY <3>1, <3>2
  <2>2. g0 = [T \in Small(0) |-> SumStep(v, g0, T)]
    <3> HIDE DEF Small
    <3>1. \A T \in Small(0) : SumStep(v, g0, T) = 0
      BY <2>1 DEF SumStep
    <3> QED  BY <3>1
  <2> QED  BY <2>2
<1>2. ASSUME NEW c \in Nat, c \in S PROVE c + 1 \in S
  <2>1. PICK g : g = [T \in Small(c) |-> SumStep(v, g, T)]
    BY <1>2
  <2> DEFINE h == [T \in Small(c + 1) |-> SumStep(v, g, T)]
  <2>2. ASSUME NEW T \in Small(c + 1), T # {}
        PROVE  T \ {Picked(T)} \in Small(c)
    <3> DEFINE x == Picked(T)
    <3>1. /\ x \in T /\ T \ {x} \in SUBSET (1..n)
          /\ Cardinality(T \ {x}) \in Nat /\ Cardinality(T) = Cardinality(T \ {x}) + 1
      BY <2>2, PickedOne
    <3> HIDE DEF x
    <3>2. Cardinality(T) <= c + 1
      OBVIOUS
    <3>3. Cardinality(T \ {x}) <= c
      BY <3>1, <3>2
    <3>4. T \ {x} \in Small(c)
      BY <3>1, <3>3
    <3> QED  BY <3>4 DEF x
  <2>3. ASSUME NEW T \in Small(c)
        PROVE  T \in Small(c + 1) /\ g[T] = h[T]
    <3>1. T \in Small(c + 1)
      <4>1. CASE T = {}
        <5>1. Cardinality(T) = 0
          BY <4>1, FS_EmptySet
        <5> QED  BY <5>1
      <4>2. CASE T # {}
        BY <4>2, PickedOne
      <4> QED  BY <4>1, <4>2
    <3> DEFINE q == [U \in Small(c) |-> SumStep(v, g, U)]
    <3>2. q[T] = SumStep(v, g, T)
      BY <2>3
    <3> HIDE DEF Small
    <3> QED  BY <2>1, <3>1, <3>2
  <2> HIDE DEF Small
  <2>4. \A T \in Small(c + 1) : SumStep(v, g, T) = SumStep(v, h, T)
    BY <2>2, <2>3 DEF SumStep
  <2>5. h = [T \in Small(c + 1) |-> SumStep(v, h, T)]
    BY <2>4
  <2> HIDE DEF h
  <2> QED  BY <2>5
<1>3. Has(n)
  <2> HIDE DEF Has
  <2>1. \A c \in Nat : c \in S
    BY <1>1, <1>2, NatSetInduction
  <2> QED  BY <2>1
<1>4. Small(n) = SUBSET (1..n)
  <2>1. ASSUME NEW T \in SUBSET (1..n) PROVE Cardinality(T) <= n
    <3>1. IsFiniteSet(1..n) /\ Cardinality(1..n) = n
      BY FS_Interval
    <3> QED  BY <3>1, FS_Subset
  <2> QED  BY <2>1
<1> QED  BY <1>3, <1>4 DEF IsSum

(* The sum is the same in whatever order: any element may be taken out first.   *)
LEMMA SumTakes ==
  ASSUME NEW n \in Nat, NEW v, \A k \in 1..n : v[k] \in Nat, NEW g, IsSum(v, n, g),
         NEW T \in SUBSET (1..n)
  PROVE  /\ g[T] \in Nat /\ g[{}] = 0
         /\ \A x \in T : g[T] = g[T \ {x}] + v[x] /\ g[T \ {x}] \in Nat
<1> DEFINE Good(U) == g[U] \in Nat /\ \A x \in U : g[U] = g[U \ {x}] + v[x] /\ g[U \ {x}] \in Nat
           S == {c \in Nat : \A U \in SUBSET (1..n) : Cardinality(U) <= c => Good(U)}
<1>1. \A U \in SUBSET (1..n) : g[U] = SumStep(v, g, U)
  <2> DEFINE q == [U \in SUBSET (1..n) |-> SumStep(v, g, U)]
  <2>1. \A U \in SUBSET (1..n) : q[U] = SumStep(v, g, U)
    OBVIOUS
  <2>2. g = q
    BY DEF IsSum
  <2> HIDE DEF q
  <2> QED  BY <2>1, <2>2
<1>2. g[{}] = 0
  BY <1>1 DEF SumStep
<1>3. 0 \in S
  <2>1. SUFFICES ASSUME NEW U \in SUBSET (1..n), Cardinality(U) <= 0 PROVE Good(U)
    OBVIOUS
  <2>2. U = {}
    <3>1. SUFFICES ASSUME U # {} PROVE FALSE
      OBVIOUS
    <3>2. PICK x \in U : Cardinality(U \ {x}) \in Nat /\ Cardinality(U) = Cardinality(U \ {x}) + 1
      BY <3>1, PickedOne
    <3> QED  BY <2>1, <3>2
  <2> QED  BY <1>2, <2>2
<1>4. ASSUME NEW c \in Nat, c \in S PROVE c + 1 \in S
  <2>1. SUFFICES ASSUME NEW U \in SUBSET (1..n), Cardinality(U) <= c + 1 PROVE Good(U)
    OBVIOUS
  <2>2. CASE U = {}
    BY <1>2, <2>2
  <2>3. CASE U # {}
    <3> DEFINE y == Picked(U)
    <3>1. y \in U /\ \A x \in U : /\ U \ {x} \in SUBSET (1..n)
                                  /\ Cardinality(U \ {x}) <= c
      BY <2>1, <2>3, PickedOne
    <3>2. \A x \in U : Good(U \ {x})
      BY <1>4, <3>1
    <3>3. g[U] = v[y] + g[U \ {y}]
      BY <1>1, <2>3 DEF SumStep
    <3> HIDE DEF y
    <3>4. g[U] \in Nat
      <4>1. v[y] \in Nat /\ g[U \ {y}] \in Nat
        BY <3>1, <3>2
      <4> QED  BY <3>3, <4>1
    <3>5. ASSUME NEW x \in U PROVE g[U] = g[U \ {x}] + v[x] /\ g[U \ {x}] \in Nat
      <4>1. CASE x = y
        BY <3>1, <3>2, <3>3, <4>1
      <4>2. CASE x # y
        <5>1. x \in U \ {y} /\ y \in U \ {x} /\ (U \ {y}) \ {x} = (U \ {x}) \ {y}
          BY <3>1, <4>2
        <5> DEFINE r == g[(U \ {x}) \ {y}]
        <5>2. g[U \ {y}] = r + v[x] /\ r \in Nat
          BY <3>1, <3>2, <5>1
        <5>3. g[U \ {x}] = r + v[y]
          BY <3>1, <3>2, <5>1
        <5>4. v[x] \in Nat /\ v[y] \in Nat
          BY <3>1
        <5> HIDE DEF r
        <5> QED  BY <3>3, <5>2, <5>3, <5>4
      <4> QED  BY <4>1, <4>2
    <3> QED  BY <3>4, <3>5
  <2> QED  BY <2>2, <2>3
<1>5. \A c \in Nat : c \in S
  <2> HIDE DEF S
  <2> QED  BY <1>3, <1>4, NatSetInduction
<1>6. Good(T)
  <2>1. Cardinality(T) \in Nat
    <3>1. IsFiniteSet(1..n)
      BY FS_Interval
    <3>2. IsFiniteSet(T)
      BY <3>1, FS_Subset
    <3> QED  BY <3>2, FS_CardinalityType
  <2> HIDE DEF Good
  <2> QED  BY <1>5, <2>1
<1> QED  BY <1>2, <1>6

(* A sum goes on by its next element.                                           *)
LEMMA SumNext ==
  ASSUME NEW n \in Nat, NEW v, \A k \in 1..n : v[k] \in Nat, NEW g, IsSum(v, n, g)
  PROVE  /\ g[1..0] = 0
         /\ \A k \in 0..(n - 1) : /\ g[1..k] \in Nat
                                  /\ g[1..(k + 1)] = g[1..k] + v[k + 1]
<1>1. g[1..0] = 0
  <2>1. 1..0 = {} /\ {} \in SUBSET (1..n)
    OBVIOUS
  <2>2. g[{}] = 0
    BY <2>1, SumTakes
  <2> QED  BY <2>1, <2>2
<1>2. ASSUME NEW k \in 0..(n - 1)
      PROVE  g[1..k] \in Nat /\ g[1..(k + 1)] = g[1..k] + v[k + 1]
  <2>1. /\ 1..(k + 1) \in SUBSET (1..n) /\ k + 1 \in 1..(k + 1)
        /\ (1..(k + 1)) \ {k + 1} = 1..k
    OBVIOUS
  <2> DEFINE U == 1..(k + 1)
  <2>2. \A x \in U : g[U] = g[U \ {x}] + v[x] /\ g[U \ {x}] \in Nat
    <3> HIDE DEF U
    <3> QED  BY <2>1, SumTakes DEF U
  <2> QED  BY <2>1, <2>2
<1> QED  BY <1>1, <1>2

(* The durations of a history, in the words of Ms.                              *)
MsStep(s, g, T) == IF T = {} THEN 0 ELSE s[Picked(T)].ms + g[T \ {Picked(T)}]

MsLoop(s) == CHOOSE g : g = [T \in SUBSET DOMAIN s |-> MsStep(s, g, T)]

MsOn(h, i, j) == MsLoop(SubSeq(h, i, j))[DOMAIN SubSeq(h, i, j)]

(* Ms is that loop, before and after a step.                                    *)
LEMMA MsIs ==
  ASSUME NEW i, NEW j
  PROVE  Turn!Ms(i, j) = MsOn(heard, i, j) /\ Turn!Ms(i, j)' = MsOn(heard', i, j)
<1>1. Turn!Ms(i, j) = MsOn(heard, i, j)
  BY DEF Turn!Ms, Turn!FoldSeq, Turn!FoldFunction, Turn!FoldFunctionOnSet, Turn!MapThenFoldSet,
         MsLoop, MsStep, MsOn, Picked
<1>2. Turn!Ms(i, j)' = MsOn(heard', i, j)
  BY DEF Turn!Ms, Turn!FoldSeq, Turn!FoldFunction, Turn!FoldFunctionOnSet, Turn!MapThenFoldSet,
         MsLoop, MsStep, MsOn, Picked
<1> QED  BY <1>1, <1>2

(* What may be heard lasts.                                                     *)
LEMMA FramesLast == \A f \in Frames : f.ms \in Nat \ {0} /\ f.speech \in BOOLEAN
<1> QED  BY CallAssumption DEF Turn!TurnAssumption

(* How long each frame lasts.                                                   *)
Durations(s) == [k \in 1..Len(s) |-> s[k].ms]

(* The loop over a sequence of frames is a sum.                                 *)
LEMMA MsLoopIs ==
  ASSUME NEW s \in Seq(Frames)
  PROVE  /\ IsSum(Durations(s), Len(s), MsLoop(s))
         /\ DOMAIN s = 1..Len(s) /\ Len(s) \in Nat
         /\ \A k \in 1..Len(s) : Durations(s)[k] = s[k].ms /\ Durations(s)[k] \in Nat
<1> DEFINE n == Len(s)
           v == Durations(s)
<1>1. n \in Nat /\ DOMAIN s = 1..n
  OBVIOUS
<1>8. \A k \in 1..n : v[k] = s[k].ms /\ v[k] \in Nat
  BY FramesLast DEF Durations
<1>2. ASSUME NEW g, NEW T \in SUBSET (1..n)
      PROVE  SumStep(v, g, T) = MsStep(s, g, T)
  <2>1. T # {} => Picked(T) \in 1..n
    BY DEF Picked
  <2>2. T # {} => v[Picked(T)] = s[Picked(T)].ms
    BY <2>1, <1>8
  <2> HIDE DEF v
  <2> QED  BY <2>2 DEF SumStep, MsStep
<1> HIDE DEF n, v
<1>3. PICK g : IsSum(v, n, g)
  BY <1>1, SumExists
<1>4. g = [T \in SUBSET DOMAIN s |-> MsStep(s, g, T)]
  BY <1>1, <1>2, <1>3 DEF IsSum
<1>5. MsLoop(s) = [T \in SUBSET DOMAIN s |-> MsStep(s, MsLoop(s), T)]
  BY <1>4 DEF MsLoop
<1> DEFINE m == MsLoop(s)
<1>6. m = [T \in SUBSET DOMAIN s |-> MsStep(s, m, T)]
  BY <1>5
<1> HIDE DEF m
<1>7. IsSum(v, n, m)
  BY <1>1, <1>2, <1>6 DEF IsSum
<1> QED  BY <1>1, <1>7, <1>8 DEF m, n, v

(* The time of what a sequence begins with, one frame after another.            *)
LEMMA MsGoesOn ==
  ASSUME NEW s \in Seq(Frames)
  PROVE  /\ MsLoop(s)[1..0] = 0
         /\ \A k \in 0..(Len(s) - 1) : /\ MsLoop(s)[1..k] \in Nat
                                       /\ MsLoop(s)[1..(k + 1)] = MsLoop(s)[1..k] + s[k + 1].ms
<1> DEFINE v == Durations(s)
           n == Len(s)
           g == MsLoop(s)
<1>1. IsSum(v, n, g) /\ n \in Nat /\ \A k \in 1..n : v[k] = s[k].ms /\ v[k] \in Nat
  BY MsLoopIs, Zenon
<1> HIDE DEF v, n, g
<1>2. n \in Nat /\ IsSum(v, n, g) /\ \A k \in 1..n : v[k] \in Nat
  BY <1>1
<1>3. /\ g[1..0] = 0
      /\ \A k \in 0..(n - 1) : g[1..k] \in Nat /\ g[1..(k + 1)] = g[1..k] + v[k + 1]
  BY <1>2, SumNext
<1>4. \A k \in 0..(n - 1) : k + 1 \in 1..n
  BY <1>2
<1>5. \A k \in 0..(n - 1) : v[k + 1] = s[k + 1].ms
  BY <1>1, <1>4
<1>6. \A k \in 0..(n - 1) : g[1..k] \in Nat /\ g[1..(k + 1)] = g[1..k] + s[k + 1].ms
  BY <1>3, <1>5
<1> QED  BY <1>3, <1>6 DEF n, g

(* The time of a sequence.                                                      *)
LEMMA MsOfSeq ==
  ASSUME NEW s \in Seq(Frames)
  PROVE  MsLoop(s)[1..Len(s)] \in Nat /\ (s = <<>> => MsLoop(s)[1..Len(s)] = 0)
<1> DEFINE v == Durations(s)
           n == Len(s)
           g == MsLoop(s)
<1>1. IsSum(v, n, g) /\ n \in Nat /\ \A k \in 1..n : v[k] \in Nat
  BY MsLoopIs, Zenon
<1>2. s = <<>> => 1..n = {}
  OBVIOUS
<1> HIDE DEF v, n, g
<1>3. 1..n \in SUBSET (1..n)
  OBVIOUS
<1>4. g[1..n] \in Nat /\ g[{}] = 0
  BY <1>1, <1>3, SumTakes
<1> QED  BY <1>2, <1>4 DEF v, n, g

(* A sequence that goes on by one frame lasts that much longer.                 *)
LEMMA MsOfMore ==
  ASSUME NEW s \in Seq(Frames), NEW t \in Seq(Frames), Len(t) = Len(s) + 1,
         \A k \in 1..Len(s) : t[k] = s[k]
  PROVE  MsLoop(t)[1..Len(t)] = MsLoop(s)[1..Len(s)] + t[Len(t)].ms
<1> DEFINE n == Len(s)
           g == MsLoop(s)
           h == MsLoop(t)
           S == {k \in Nat : k <= n => g[1..k] = h[1..k]}
<1>1. n \in Nat /\ Len(t) = n + 1 /\ \A k \in 1..n : t[k] = s[k]
  OBVIOUS
<1>2. /\ g[1..0] = 0
      /\ \A k \in 0..(n - 1) : g[1..(k + 1)] = g[1..k] + s[k + 1].ms
  BY MsGoesOn, Zenon
<1>3. /\ h[1..0] = 0
      /\ \A k \in 0..(Len(t) - 1) : h[1..(k + 1)] = h[1..k] + t[k + 1].ms
  BY MsGoesOn, Zenon
<1> HIDE DEF n, g, h
<1>4. \A k \in 0..n : h[1..(k + 1)] = h[1..k] + t[k + 1].ms
  <2>1. 0..(Len(t) - 1) = 0..n
    BY <1>1
  <2> QED  BY <1>3, <2>1
<1>5. 0 \in S
  BY <1>2, <1>3
<1>6. ASSUME NEW k \in Nat, k \in S PROVE k + 1 \in S
  <2>1. SUFFICES ASSUME k + 1 <= n PROVE g[1..(k + 1)] = h[1..(k + 1)]
    OBVIOUS
  <2>2. k \in 0..(n - 1) /\ k \in 0..n /\ k + 1 \in 1..n /\ k <= n
    BY <1>1, <2>1
  <2>3. t[k + 1] = s[k + 1] /\ g[1..k] = h[1..k]
    BY <1>1, <1>6, <2>2
  <2>4. g[1..(k + 1)] = g[1..k] + s[k + 1].ms
    BY <1>2, <2>2
  <2>5. h[1..(k + 1)] = h[1..k] + t[k + 1].ms
    BY <1>4, <2>2
  <2> QED  BY <2>3, <2>4, <2>5
<1>7. \A k \in Nat : k \in S
  <2> HIDE DEF S
  <2> QED  BY <1>5, <1>6, NatSetInduction
<1>8. g[1..n] = h[1..n]
  BY <1>1, <1>7
<1>9. n \in 0..n
  BY <1>1
<1>10. h[1..(n + 1)] = g[1..n] + t[n + 1].ms
  BY <1>4, <1>8, <1>9
<1> QED  BY <1>1, <1>10 DEF n, g, h

(* No time, the time of one frame more.                                         *)
LEMMA MsMore ==
  ASSUME NEW h \in Seq(Frames), NEW i \in Nat \ {0}, NEW j \in Nat, i <= j + 1
  PROVE  /\ i = j + 1 => MsOn(h, i, j) = 0
         /\ j <= Len(h) => MsOn(h, i, j) \in Nat
         /\ j < Len(h) => MsOn(h, i, j + 1) = MsOn(h, i, j) + h[j + 1].ms
<1> DEFINE s == SubSeq(h, i, j)
<1>1. s \in Seq(Frames) => MsOn(h, i, j) = MsLoop(s)[1..Len(s)]
  BY DEF MsOn
<1>2. i = j + 1 => s = <<>>
  OBVIOUS
<1>3. <<>> \in Seq(Frames)
  OBVIOUS
<1>4. j <= Len(h) => s \in Seq(Frames) /\ Len(s) = j - i + 1 /\ \A k \in 1..(j - i + 1) : s[k] = h[k + i - 1]
  BY SubSeqProperties
<1>5. i = j + 1 => MsOn(h, i, j) = 0
  <2> HIDE DEF s
  <2> QED  BY <1>1, <1>2, <1>3, MsOfSeq
<1>6. j <= Len(h) => MsOn(h, i, j) \in Nat
  <2> HIDE DEF s
  <2> QED  BY <1>1, <1>4, MsOfSeq
<1>7. j < Len(h) => MsOn(h, i, j + 1) = MsOn(h, i, j) + h[j + 1].ms
  <2>1. SUFFICES ASSUME j < Len(h) PROVE MsOn(h, i, j + 1) = MsOn(h, i, j) + h[j + 1].ms
    OBVIOUS
  <2> DEFINE t == SubSeq(h, i, j + 1)
             m == j - i + 1
  <2>2. /\ t \in Seq(Frames) /\ Len(t) = m + 1
        /\ \A k \in 1..(m + 1) : t[k] = h[k + i - 1]
    BY <2>1, SubSeqProperties
  <2>3. MsOn(h, i, j + 1) = MsLoop(t)[1..Len(t)]
    <3>1. DOMAIN t = 1..Len(t)
      <4> HIDE DEF t
      <4> QED  BY <2>2
    <3> QED  BY <3>1 DEF MsOn
  <2>4. /\ m \in Nat /\ m + 1 \in 1..(m + 1) /\ (m + 1) + i - 1 = j + 1
        /\ j <= Len(h)
    BY <2>1
  <2> HIDE DEF s, t
  <2>5. /\ s \in Seq(Frames) /\ Len(s) = m
        /\ MsOn(h, i, j) = MsLoop(s)[1..Len(s)]
    BY <1>1, <1>4, <2>4
  <2>6. \A k \in 1..m : t[k] = s[k]
    BY <1>4, <2>2, <2>4
  <2>7. t[Len(t)] = h[j + 1]
    BY <2>2, <2>4
  <2> HIDE DEF m
  <2>8. MsLoop(t)[1..Len(t)] = MsLoop(s)[1..Len(s)] + t[Len(t)].ms
    BY <2>2, <2>5, <2>6, MsOfMore
  <2> QED  BY <2>3, <2>5, <2>7, <2>8
<1> QED  BY <1>5, <1>6, <1>7

(* What began earlier lasts longer.                                             *)
LEMMA MsLonger ==
  ASSUME NEW h \in Seq(Frames), NEW i \in Nat \ {0}, NEW k \in Nat, i <= k,
         NEW j \in Nat, k <= j + 1, j <= Len(h)
  PROVE  MsOn(h, k, j) <= MsOn(h, i, j)
<1> DEFINE S == {x \in Nat : k + x <= Len(h) + 1 => MsOn(h, k, k + x - 1) <= MsOn(h, i, k + x - 1)}
<1>1. 0 \in S
  <2>1. SUFFICES ASSUME k <= Len(h) + 1 PROVE MsOn(h, k, k - 1) <= MsOn(h, i, k - 1)
    BY DEF S
  <2>2. k - 1 \in Nat /\ k \in Nat \ {0} /\ (k - 1) + 1 = k /\ k - 1 <= Len(h) /\ i <= (k - 1) + 1
    BY <2>1
  <2>3. MsOn(h, k, k - 1) = 0 /\ MsOn(h, i, k - 1) \in Nat
    BY <2>2, MsMore
  <2> QED  BY <2>3
<1>2. ASSUME NEW x \in Nat, x \in S PROVE x + 1 \in S
  <2>1. SUFFICES ASSUME k + (x + 1) <= Len(h) + 1
                 PROVE  MsOn(h, k, k + (x + 1) - 1) <= MsOn(h, i, k + (x + 1) - 1)
    BY DEF S
  <2> DEFINE y == k + x - 1
  <2>2. y \in Nat /\ y + 1 = k + (x + 1) - 1 /\ y < Len(h) /\ y <= Len(h) /\ k \in Nat \ {0}
        /\ k <= y + 1 /\ i <= y + 1 /\ y + 1 \in 1..Len(h)
    BY <2>1
  <2>3. MsOn(h, k, y) <= MsOn(h, i, y)
    BY <1>2, <2>1, <2>2
  <2> HIDE DEF y
  <2>4. /\ MsOn(h, k, y) \in Nat /\ MsOn(h, i, y) \in Nat
        /\ MsOn(h, k, y + 1) = MsOn(h, k, y) + h[y + 1].ms
        /\ MsOn(h, i, y + 1) = MsOn(h, i, y) + h[y + 1].ms
    BY <2>2, MsMore
  <2>5. h[y + 1].ms \in Nat
    BY <2>2, FramesLast
  <2>6. MsOn(h, k, y + 1) <= MsOn(h, i, y + 1)
    BY <2>3, <2>4, <2>5
  <2> QED  BY <2>2, <2>6
<1>3. \A x \in Nat : x \in S
  <2> HIDE DEF S
  <2> QED  BY <1>1, <1>2, NatSetInduction
<1>4. j + 1 - k \in Nat /\ k + (j + 1 - k) - 1 = j /\ k + (j + 1 - k) <= Len(h) + 1
  OBVIOUS
<1> QED  BY <1>3, <1>4

(* The past does not change.                                                    *)
LEMMA PastStays ==
  ASSUME NEW h \in Seq(Frames), NEW f \in Frames
  PROVE  /\ Append(h, f) \in Seq(Frames) /\ Len(Append(h, f)) = Len(h) + 1 /\ Len(h) \in Nat
         /\ Append(h, f)[Len(h) + 1] = f
         /\ \A k \in 1..Len(h) : Append(h, f)[k] = h[k]
         /\ \A i \in Nat \ {0}, j \in Nat :
              j <= Len(h) => MsOn(Append(h, f), i, j) = MsOn(h, i, j)
<1>1. /\ Append(h, f) \in Seq(Frames) /\ Len(Append(h, f)) = Len(h) + 1 /\ Len(h) \in Nat
      /\ Append(h, f)[Len(h) + 1] = f
      /\ \A k \in 1..Len(h) : Append(h, f)[k] = h[k]
  OBVIOUS
<1>2. ASSUME NEW i \in Nat \ {0}, NEW j \in Nat, j <= Len(h)
      PROVE  MsOn(Append(h, f), i, j) = MsOn(h, i, j)
  <2>1. SubSeq(Append(h, f), i, j) = SubSeq(h, i, j)
    BY <1>1, <1>2
  <2> QED  BY <2>1 DEF MsOn
<1> QED  BY <1>1, <1>2

(* Turns, as the definitions of TurnDetector say them of a history of frames.   *)
RunOn(h, i, j, b)  == \A k \in i..j : h[k].speech = b
SustainedOn(h, j)  == \E i \in 1..j : RunOn(h, i, j, TRUE) /\ MsOn(h, i, j) >= MinSpeech
LongPauseOn(h, j)  == \E i \in 1..(j - 1) : RunOn(h, i, j, FALSE) /\ MsOn(h, i, j) >= EndSilence
InTurnOn(h, n)     == \E j \in 1..n : SustainedOn(h, j) /\ \A k \in (j + 1)..n : ~LongPauseOn(h, k)
BeganAt(h, n, i, j) ==
  /\ SustainedOn(h, j) /\ RunOn(h, i, j, TRUE) /\ (i > 1 => ~h[i - 1].speech)
  /\ ~InTurnOn(h, j - 1) /\ \A k \in j..n : InTurnOn(h, k)
BeganOn(h, n, i)   == \E j \in i..n : BeganAt(h, n, i, j)
OfTurnOn(h, k)     == \E n \in k..Len(h), i \in 1..k : BeganOn(h, n, i)

(* They are the definitions of the module, before and after a step.             *)
LEMMA TurnIs ==
  /\ \A n : Turn!InTurn(n) = InTurnOn(heard, n) /\ Turn!InTurn(n)' = InTurnOn(heard', n)
  /\ \A n, i : Turn!Began(n, i) = BeganOn(heard, n, i) /\ Turn!Began(n, i)' = BeganOn(heard', n, i)
  /\ \A k : Turn!OfTurn(k) = OfTurnOn(heard, k) /\ Turn!OfTurn(k)' = OfTurnOn(heard', k)
  /\ \A i, j, b : Turn!Run(i, j, b) = RunOn(heard, i, j, b) /\ Turn!Run(i, j, b)' = RunOn(heard', i, j, b)
<1>1. ASSUME NEW i, NEW j, NEW b
      PROVE  Turn!Run(i, j, b) = RunOn(heard, i, j, b) /\ Turn!Run(i, j, b)' = RunOn(heard', i, j, b)
  BY DEF Turn!Run, RunOn
<1>2. ASSUME NEW j
      PROVE  /\ Turn!Sustained(j) = SustainedOn(heard, j) /\ Turn!Sustained(j)' = SustainedOn(heard', j)
             /\ Turn!LongPause(j) = LongPauseOn(heard, j) /\ Turn!LongPause(j)' = LongPauseOn(heard', j)
  <2>1. Turn!Sustained(j) = SustainedOn(heard, j)
    BY <1>1, MsIs, Zenon DEF Turn!Sustained, SustainedOn
  <2>2. Turn!Sustained(j)' = SustainedOn(heard', j)
    BY <1>1, MsIs, Zenon DEF Turn!Sustained, SustainedOn
  <2>3. Turn!LongPause(j) = LongPauseOn(heard, j)
    BY <1>1, MsIs, Zenon DEF Turn!LongPause, LongPauseOn
  <2>4. Turn!LongPause(j)' = LongPauseOn(heard', j)
    BY <1>1, MsIs, Zenon DEF Turn!LongPause, LongPauseOn
  <2> QED  BY <2>1, <2>2, <2>3, <2>4
<1>3. ASSUME NEW n
      PROVE  Turn!InTurn(n) = InTurnOn(heard, n) /\ Turn!InTurn(n)' = InTurnOn(heard', n)
  BY <1>2, Zenon DEF Turn!InTurn, InTurnOn
<1>4. ASSUME NEW n, NEW i
      PROVE  Turn!Began(n, i) = BeganOn(heard, n, i) /\ Turn!Began(n, i)' = BeganOn(heard', n, i)
  <2>1. Turn!Began(n, i) = BeganOn(heard, n, i)
    <3>1. /\ \A j : Turn!Run(i, j, TRUE) = RunOn(heard, i, j, TRUE) /\ Turn!Sustained(j) = SustainedOn(heard, j)
          /\ \A j : Turn!InTurn(j) = InTurnOn(heard, j)
      BY <1>1, <1>2, <1>3
    <3> QED  BY <3>1 DEF Turn!Began, BeganOn, BeganAt
  <2>2. Turn!Began(n, i)' = BeganOn(heard', n, i)
    BY <1>1, <1>2, <1>3, Zenon DEF Turn!Began, BeganOn, BeganAt
  <2> QED  BY <2>1, <2>2
<1>5. ASSUME NEW k
      PROVE  Turn!OfTurn(k) = OfTurnOn(heard, k) /\ Turn!OfTurn(k)' = OfTurnOn(heard', k)
  BY <1>4, Zenon DEF Turn!OfTurn, OfTurnOn
<1> QED  BY <1>1, <1>3, <1>4, <1>5, Zenon

(* A frame that arrives changes nothing that was said of the frames before it.  *)
LEMMA TurnsStay ==
  ASSUME NEW h \in Seq(Frames), NEW f \in Frames
  PROVE  /\ \A i \in Nat \ {0}, j \in Nat : j <= Len(h) =>
              \A b : RunOn(Append(h, f), i, j, b) = RunOn(h, i, j, b)
         /\ \A j \in Nat : j <= Len(h) =>
              /\ SustainedOn(Append(h, f), j) = SustainedOn(h, j)
              /\ LongPauseOn(Append(h, f), j) = LongPauseOn(h, j)
              /\ InTurnOn(Append(h, f), j) = InTurnOn(h, j)
         /\ \A m \in Nat, i \in Nat \ {0} : m <= Len(h) =>
              \A j \in i..m : BeganAt(Append(h, f), m, i, j) = BeganAt(h, m, i, j)
<1> DEFINE g == Append(h, f)
           N == Len(h)
<1>1. /\ N \in Nat /\ \A k \in 1..N : g[k] = h[k]
      /\ \A i \in Nat \ {0}, j \in Nat : j <= N => MsOn(g, i, j) = MsOn(h, i, j)
  BY PastStays, Zenon
<1> HIDE DEF g, N
<1>2. ASSUME NEW i \in Nat \ {0}, NEW j \in Nat, j <= N, NEW b
      PROVE  RunOn(g, i, j, b) = RunOn(h, i, j, b)
  <2>1. \A k \in i..j : g[k] = h[k]
    BY <1>1, <1>2
  <2> QED  BY <2>1 DEF RunOn
<1>3. ASSUME NEW j \in Nat, j <= N
      PROVE  SustainedOn(g, j) = SustainedOn(h, j) /\ LongPauseOn(g, j) = LongPauseOn(h, j)
  <2>1. \A i \in 1..j : MsOn(g, i, j) = MsOn(h, i, j) /\ \A b : RunOn(g, i, j, b) = RunOn(h, i, j, b)
    BY <1>1, <1>2, <1>3
  <2>2. \A i \in 1..(j - 1) : i \in 1..j
    OBVIOUS
  <2>3. SustainedOn(g, j) = SustainedOn(h, j)
    BY <2>1, Zenon DEF SustainedOn
  <2>4. LongPauseOn(g, j) = LongPauseOn(h, j)
    BY <2>1, <2>2, Zenon DEF LongPauseOn
  <2> QED  BY <2>3, <2>4
<1>4. ASSUME NEW n \in Nat, n <= N
      PROVE  InTurnOn(g, n) = InTurnOn(h, n)
  <2>1. /\ \A j \in 1..n : j \in Nat /\ j <= N
        /\ \A j \in 1..n : \A k \in (j + 1)..n : k \in Nat /\ k <= N
    BY <1>1, <1>4
  <2> QED  BY <1>3, <2>1, Zenon DEF InTurnOn
<1>5. ASSUME NEW m \in Nat, NEW i \in Nat \ {0}, m <= N, NEW j \in i..m
      PROVE  BeganAt(g, m, i, j) = BeganAt(h, m, i, j)
  <2>1. /\ j \in Nat /\ j <= N /\ j - 1 \in Nat /\ j - 1 <= N
        /\ \A k \in j..m : k \in Nat /\ k <= N
        /\ i > 1 => i - 1 \in 1..N
    BY <1>1, <1>5
  <2>2. SustainedOn(g, j) = SustainedOn(h, j) /\ RunOn(g, i, j, TRUE) = RunOn(h, i, j, TRUE)
    BY <1>2, <1>3, <2>1
  <2>3. InTurnOn(g, j - 1) = InTurnOn(h, j - 1) /\ \A k \in j..m : InTurnOn(g, k) = InTurnOn(h, k)
    BY <1>4, <2>1
  <2>4. i > 1 => g[i - 1] = h[i - 1]
    BY <1>1, <2>1
  <2> QED  BY <2>2, <2>3, <2>4, Zenon DEF BeganAt
<1>6. /\ \A i \in Nat \ {0}, j \in Nat : j <= N => \A b : RunOn(g, i, j, b) = RunOn(h, i, j, b)
      /\ \A j \in Nat : j <= N => /\ SustainedOn(g, j) = SustainedOn(h, j)
                                  /\ LongPauseOn(g, j) = LongPauseOn(h, j)
                                  /\ InTurnOn(g, j) = InTurnOn(h, j)
      /\ \A m \in Nat, i \in Nat \ {0} : m <= N =>
           \A j \in i..m : BeganAt(g, m, i, j) = BeganAt(h, m, i, j)
  BY <1>2, <1>3, <1>4, <1>5, Zenon
<1> QED  BY <1>6, Zenon DEF g, N

(* A turn is going on after a frame when the frame sustains speech, or when one *)
(* was and no pause became long with it.                                        *)
LEMMA TurnGoesOn ==
  ASSUME NEW h, NEW n \in Nat
  PROVE  /\ InTurnOn(h, n + 1) <=> SustainedOn(h, n + 1) \/ (InTurnOn(h, n) /\ ~LongPauseOn(h, n + 1))
         /\ ~InTurnOn(h, 0)
<1>1. ~InTurnOn(h, 0)
  BY DEF InTurnOn
<1>2. SustainedOn(h, n + 1) => InTurnOn(h, n + 1)
  <2>1. n + 1 \in 1..(n + 1) /\ ((n + 1) + 1)..(n + 1) = {}
    OBVIOUS
  <2> QED  BY <2>1 DEF InTurnOn
<1>3. InTurnOn(h, n) /\ ~LongPauseOn(h, n + 1) => InTurnOn(h, n + 1)
  <2>1. SUFFICES ASSUME InTurnOn(h, n), ~LongPauseOn(h, n + 1) PROVE InTurnOn(h, n + 1)
    OBVIOUS
  <2>2. PICK j \in 1..n : SustainedOn(h, j) /\ \A k \in (j + 1)..n : ~LongPauseOn(h, k)
    BY <2>1 DEF InTurnOn
  <2>3. j \in 1..(n + 1) /\ \A k \in (j + 1)..(n + 1) : k \in (j + 1)..n \/ k = n + 1
    OBVIOUS
  <2>4. \A k \in (j + 1)..(n + 1) : ~LongPauseOn(h, k)
    BY <2>1, <2>2, <2>3
  <2> QED  BY <2>2, <2>3, <2>4 DEF InTurnOn
<1>4. InTurnOn(h, n + 1) => SustainedOn(h, n + 1) \/ (InTurnOn(h, n) /\ ~LongPauseOn(h, n + 1))
  <2>1. SUFFICES ASSUME InTurnOn(h, n + 1), ~SustainedOn(h, n + 1)
                 PROVE  InTurnOn(h, n) /\ ~LongPauseOn(h, n + 1)
    OBVIOUS
  <2>2. PICK j \in 1..(n + 1) : SustainedOn(h, j) /\ \A k \in (j + 1)..(n + 1) : ~LongPauseOn(h, k)
    BY <2>1 DEF InTurnOn
  <2>3. j # n + 1
    BY <2>1, <2>2
  <2>4. j \in 1..n /\ n + 1 \in (j + 1)..(n + 1) /\ \A k \in (j + 1)..n : k \in (j + 1)..(n + 1)
    BY <2>3
  <2> QED  BY <2>2, <2>4 DEF InTurnOn
<1> QED  BY <1>1, <1>2, <1>3, <1>4

(* The run of speech, or of quiet, that a history ends with.                    *)
LastRun(h, i, b) ==
  i \in 1..Len(h) /\ RunOn(h, i, Len(h), b) /\ (i > 1 => h[i - 1].speech # b)

(* There is one such run, and it has every other within it.                     *)
LEMMA LastRunIsLongest ==
  ASSUME NEW h \in Seq(Frames), NEW b, NEW i, LastRun(h, i, b)
  PROVE  /\ \A k \in 1..Len(h) : RunOn(h, k, Len(h), b) => i <= k
         /\ \A k : LastRun(h, k, b) => k = i
         /\ i \in 1..Len(h) /\ h[Len(h)].speech = b
<1>1. /\ i \in 1..Len(h) /\ (i > 1 => h[i - 1].speech # b) /\ Len(h) \in Nat
      /\ \A k \in i..Len(h) : h[k].speech = b
  BY DEF LastRun, RunOn
<1>2. ASSUME NEW k \in 1..Len(h), RunOn(h, k, Len(h), b) PROVE i <= k
  <2>1. SUFFICES ASSUME k < i PROVE FALSE
    BY <1>1
  <2>2. i > 1 /\ i - 1 \in k..Len(h)
    BY <1>1, <2>1
  <2> QED  BY <1>1, <1>2, <2>2 DEF RunOn
<1>3. ASSUME NEW k, LastRun(h, k, b) PROVE k = i
  <2>1. /\ k \in 1..Len(h) /\ RunOn(h, k, Len(h), b) /\ (k > 1 => h[k - 1].speech # b)
    BY <1>3 DEF LastRun
  <2>2. i <= k
    BY <1>2, <2>1
  <2>3. k <= i
    <3>1. SUFFICES ASSUME i < k PROVE FALSE
      BY <1>1, <2>1
    <3>2. k > 1 /\ k - 1 \in i..Len(h)
      BY <1>1, <2>1, <3>1
    <3> QED  BY <1>1, <2>1, <3>2
  <2> QED  BY <1>1, <2>1, <2>2, <2>3
<1> QED  BY <1>1, <1>2, <1>3

(* Speech is sustained when that run is long enough, and so is a pause, once it *)
(* has two frames.                                                              *)
LEMMA RunDecides ==
  ASSUME NEW h \in Seq(Frames), NEW i
  PROVE  /\ LastRun(h, i, TRUE) => /\ SustainedOn(h, Len(h)) <=> MsOn(h, i, Len(h)) >= MinSpeech
                                   /\ ~LongPauseOn(h, Len(h))
         /\ LastRun(h, i, FALSE) => /\ ~SustainedOn(h, Len(h))
                                    /\ LongPauseOn(h, Len(h))
                                         <=> i < Len(h) /\ MsOn(h, i, Len(h)) >= EndSilence
<1>1. MinSpeech \in Nat /\ EndSilence \in Nat
  BY CallAssumption DEF Turn!TurnAssumption
<1> DEFINE n == Len(h)
<1>2. n \in Nat
  OBVIOUS
<1>3. ASSUME NEW b, LastRun(h, i, b)
      PROVE  \A k \in 1..n : RunOn(h, k, n, b) =>
               /\ i <= k /\ MsOn(h, k, n) \in Nat /\ MsOn(h, i, n) \in Nat /\ MsOn(h, k, n) <= MsOn(h, i, n)
  <2>1. SUFFICES ASSUME NEW k \in 1..n, RunOn(h, k, n, b)
                 PROVE  i <= k /\ MsOn(h, k, n) \in Nat /\ MsOn(h, i, n) \in Nat /\ MsOn(h, k, n) <= MsOn(h, i, n)
    OBVIOUS
  <2>2. i <= k /\ i \in 1..n
    BY <1>3, <2>1, LastRunIsLongest
  <2> HIDE DEF n
  <2>3. i \in Nat \ {0} /\ k \in Nat \ {0} /\ k \in Nat /\ i <= n + 1 /\ k <= n + 1 /\ n <= n
    BY <1>2, <2>2
  <2>4. MsOn(h, k, n) <= MsOn(h, i, n)
    BY <1>2, <2>2, <2>3, MsLonger DEF n
  <2>5. MsOn(h, k, n) \in Nat /\ MsOn(h, i, n) \in Nat
    BY <1>2, <2>3, MsMore DEF n
  <2> QED  BY <2>2, <2>4, <2>5
<1>4. ASSUME NEW b \in BOOLEAN, LastRun(h, i, b), NEW k \in 1..n, RunOn(h, k, n, ~b) PROVE FALSE
  <2>1. h[n].speech = b
    BY <1>4, LastRunIsLongest
  <2>2. n \in k..n
    BY <1>2
  <2> QED  BY <1>4, <2>1, <2>2 DEF RunOn
<1>5. LastRun(h, i, TRUE) => (SustainedOn(h, n) <=> MsOn(h, i, n) >= MinSpeech) /\ ~LongPauseOn(h, n)
  <2>1. SUFFICES ASSUME LastRun(h, i, TRUE)
                 PROVE  (SustainedOn(h, n) <=> MsOn(h, i, n) >= MinSpeech) /\ ~LongPauseOn(h, n)
    OBVIOUS
  <2>2. i \in 1..n /\ RunOn(h, i, n, TRUE)
    BY <2>1 DEF LastRun
  <2>3. \A k \in 1..n : RunOn(h, k, n, TRUE) =>
          MsOn(h, k, n) \in Nat /\ MsOn(h, i, n) \in Nat /\ MsOn(h, k, n) <= MsOn(h, i, n)
    BY <1>3, <2>1
  <2>4. \A k \in 1..n : ~RunOn(h, k, n, FALSE)
    BY <1>4, <2>1
  <2>5. \A k \in 1..(n - 1) : k \in 1..n
    BY <1>2
  <2> HIDE DEF n
  <2>6. SustainedOn(h, n) <=> MsOn(h, i, n) >= MinSpeech
    <3>1. MsOn(h, i, n) >= MinSpeech => SustainedOn(h, n)
      BY <2>2 DEF SustainedOn
    <3>2. ASSUME SustainedOn(h, n) PROVE MsOn(h, i, n) >= MinSpeech
      <4>1. PICK k \in 1..n : RunOn(h, k, n, TRUE) /\ MsOn(h, k, n) >= MinSpeech
        BY <3>2 DEF SustainedOn
      <4>2. MsOn(h, k, n) \in Nat /\ MsOn(h, i, n) \in Nat /\ MsOn(h, k, n) <= MsOn(h, i, n)
        BY <2>3, <4>1
      <4> QED  BY <1>1, <4>1, <4>2
    <3> QED  BY <3>1, <3>2
  <2>7. ~LongPauseOn(h, n)
    BY <2>4, <2>5 DEF LongPauseOn
  <2> QED  BY <2>6, <2>7
<1>6. LastRun(h, i, FALSE) =>
        ~SustainedOn(h, n) /\ (LongPauseOn(h, n) <=> i < n /\ MsOn(h, i, n) >= EndSilence)
  <2>1. SUFFICES ASSUME LastRun(h, i, FALSE)
                 PROVE  ~SustainedOn(h, n) /\ (LongPauseOn(h, n) <=> i < n /\ MsOn(h, i, n) >= EndSilence)
    OBVIOUS
  <2>2. i \in 1..n /\ RunOn(h, i, n, FALSE)
    BY <2>1 DEF LastRun
  <2>3. \A k \in 1..n : RunOn(h, k, n, FALSE) =>
          i <= k /\ MsOn(h, k, n) \in Nat /\ MsOn(h, i, n) \in Nat /\ MsOn(h, k, n) <= MsOn(h, i, n)
    BY <1>3, <2>1
  <2>4. \A k \in 1..n : ~RunOn(h, k, n, TRUE)
    BY <1>4, <2>1
  <2>5. /\ \A k \in 1..(n - 1) : k \in 1..n /\ k < n
        /\ i < n => i \in 1..(n - 1)
    BY <1>2, <2>2
  <2> HIDE DEF n
  <2>6. ~SustainedOn(h, n)
    BY <2>4 DEF SustainedOn
  <2>7. i < n /\ MsOn(h, i, n) >= EndSilence => LongPauseOn(h, n)
    BY <2>2, <2>5 DEF LongPauseOn
  <2>8. LongPauseOn(h, n) => i < n /\ MsOn(h, i, n) >= EndSilence
    <3>1. SUFFICES ASSUME LongPauseOn(h, n) PROVE i < n /\ MsOn(h, i, n) >= EndSilence
      OBVIOUS
    <3>2. PICK k \in 1..(n - 1) : RunOn(h, k, n, FALSE) /\ MsOn(h, k, n) >= EndSilence
      BY <3>1 DEF LongPauseOn
    <3>3. /\ i <= k /\ k < n /\ MsOn(h, k, n) \in Nat /\ MsOn(h, i, n) \in Nat
          /\ MsOn(h, k, n) <= MsOn(h, i, n)
      BY <2>3, <2>5, <3>2
    <3> QED  BY <1>1, <1>2, <2>2, <3>2, <3>3
  <2> QED  BY <2>6, <2>7, <2>8
<1> QED  BY <1>5, <1>6

(* The run goes on with a frame of its kind, and another begins with one of the *)
(* other kind.                                                                  *)
LEMMA RunGoesOn ==
  ASSUME NEW h \in Seq(Frames), NEW f \in Frames
  PROVE  /\ \A i : LastRun(h, i, f.speech) =>
              /\ LastRun(Append(h, f), i, f.speech)
              /\ MsOn(Append(h, f), i, Len(h) + 1) = MsOn(h, i, Len(h)) + f.ms
              /\ MsOn(h, i, Len(h)) \in Nat
         /\ (Len(h) = 0 \/ h[Len(h)].speech # f.speech) =>
              /\ LastRun(Append(h, f), Len(h) + 1, f.speech)
              /\ MsOn(Append(h, f), Len(h) + 1, Len(h) + 1) = f.ms
<1> DEFINE g == Append(h, f)
           n == Len(h)
<1>1. /\ g \in Seq(Frames) /\ Len(g) = n + 1 /\ n \in Nat /\ g[n + 1] = f
      /\ \A k \in 1..n : g[k] = h[k]
      /\ \A i \in Nat \ {0}, j \in Nat : j <= n => MsOn(g, i, j) = MsOn(h, i, j)
  BY PastStays, Zenon
<1>2. \A i \in Nat \ {0}, j \in Nat : j <= n =>
        \A b : RunOn(g, i, j, b) = RunOn(h, i, j, b)
  BY TurnsStay, Zenon
<1> HIDE DEF g, n
<1>0. f.ms \in Nat
  BY FramesLast
<1>3. ASSUME NEW i, LastRun(h, i, f.speech)
      PROVE  /\ LastRun(g, i, f.speech) /\ MsOn(g, i, n + 1) = MsOn(h, i, n) + f.ms
             /\ MsOn(h, i, n) \in Nat
  <2>1. /\ i \in 1..n /\ i \in 1..(n + 1) /\ i \in Nat \ {0} /\ i <= n + 1 /\ n <= n /\ n < n + 1
        /\ n <= Len(g)
    BY <1>1, <1>3 DEF LastRun, n
  <2>2. RunOn(h, i, n, f.speech) /\ (i > 1 => h[i - 1].speech # f.speech)
    BY <1>3 DEF LastRun, n
  <2>3. RunOn(g, i, n, f.speech)
    BY <1>1, <1>2, <2>1, <2>2
  <2>4. \A k \in i..(n + 1) : k \in i..n \/ k = n + 1
    BY <1>1, <2>1
  <2>5. RunOn(g, i, n + 1, f.speech)
    BY <1>1, <2>3, <2>4 DEF RunOn
  <2>6. i > 1 => i - 1 \in 1..n
    BY <1>1, <2>1
  <2>7. LastRun(g, i, f.speech)
    BY <1>1, <2>1, <2>2, <2>5, <2>6 DEF LastRun
  <2>8. MsOn(g, i, n + 1) = MsOn(g, i, n) + g[n + 1].ms
    BY <1>1, <2>1, MsMore
  <2>9. MsOn(h, i, n) \in Nat
    BY <1>1, <2>1, MsMore DEF n
  <2> QED  BY <1>1, <2>1, <2>7, <2>8, <2>9
<1>4. ASSUME n = 0 \/ h[n].speech # f.speech
      PROVE  LastRun(g, n + 1, f.speech) /\ MsOn(g, n + 1, n + 1) = f.ms
  <2>1. /\ n + 1 \in 1..(n + 1) /\ n + 1 \in Nat \ {0} /\ n + 1 <= n + 1 /\ n <= Len(g) /\ n < Len(g)
        /\ (n + 1 > 1 => n \in 1..n /\ (n + 1) - 1 = n)
        /\ \A k \in (n + 1)..(n + 1) : k = n + 1
    BY <1>1
  <2>2. RunOn(g, n + 1, n + 1, f.speech)
    BY <1>1, <2>1 DEF RunOn
  <2>3. n + 1 > 1 => g[(n + 1) - 1].speech # f.speech
    BY <1>1, <1>4, <2>1
  <2>4. LastRun(g, n + 1, f.speech)
    BY <1>1, <2>1, <2>2, <2>3 DEF LastRun
  <2>5. MsOn(g, n + 1, n) = 0
    BY <1>1, <2>1, MsMore
  <2>6. MsOn(g, n + 1, n + 1) = MsOn(g, n + 1, n) + g[n + 1].ms
    BY <1>1, <2>1, MsMore
  <2> QED  BY <1>0, <1>1, <2>4, <2>5, <2>6
<1> QED  BY <1>3, <1>4 DEF g, n

(* Speech is not sustained at a quiet frame.                                    *)
LEMMA QuietSustainsNothing ==
  ASSUME NEW h, NEW n \in Nat \ {0}, h[n].speech = FALSE
  PROVE  ~SustainedOn(h, n)
<1>1. \A k \in 1..n : n \in k..n
  OBVIOUS
<1> QED  BY <1>1 DEF SustainedOn, RunOn

States == {"quiet", "starting", "speaking", "stopping"}

(* What the detector does with a frame, field by field.                         *)
LEMMA UpdateIs ==
  ASSUME NEW f \in Frames, det.state \in States
  PROVE  /\ Turn!Update(f).started <=>
              f.speech /\ det.state \in {"quiet", "starting"} /\ det.speech + f.ms >= MinSpeech
         /\ Turn!Update(f).ended <=>
              ~f.speech /\ det.state = "stopping" /\ det.silence + f.ms >= EndSilence
         /\ Turn!Update(f).started \in BOOLEAN /\ Turn!Update(f).ended \in BOOLEAN
         /\ Turn!Update(f).state =
              IF f.speech
              THEN IF Turn!Update(f).started \/ det.state \in {"stopping", "speaking"}
                   THEN "speaking" ELSE "starting"
              ELSE IF det.state \in {"speaking", "stopping"} /\ ~Turn!Update(f).ended
                   THEN "stopping" ELSE "quiet"
         /\ Turn!Update(f).speech = IF f.speech THEN det.speech + f.ms ELSE 0
         /\ f.speech => Turn!Update(f).silence = 0
         /\ ~f.speech => Turn!Update(f).silence =
              IF Turn!Update(f).ended THEN 0
              ELSE IF det.state = "speaking" THEN f.ms
              ELSE IF det.state = "stopping" THEN det.silence + f.ms ELSE det.silence
         /\ Turn!Update(f).turn =
              IF f.speech
              THEN Turn!Counted(IF det.state = "quiet" THEN Turn!NoStats ELSE det.turn, f)
              ELSE IF det.state \in {"speaking", "stopping"} THEN Turn!Counted(det.turn, f)
              ELSE IF det.state = "starting" THEN Turn!NoStats ELSE det.turn
<1>1. f.speech \in BOOLEAN
  BY FramesLast
<1>2. CASE f.speech
  <2> DEFINE u == Turn!OnSpeech(f)
  <2>1. Turn!Update(f) = [u EXCEPT !.turn = Turn!Counted(u.turn, f)]
    BY <1>2 DEF Turn!Update, Turn!OnSpeech
  <2>2. /\ u.started = (det.state \in {"quiet", "starting"} /\ det.speech + f.ms >= MinSpeech)
        /\ u.state = IF u.started \/ det.state \in {"stopping", "speaking"}
                     THEN "speaking" ELSE "starting"
        /\ u.speech = det.speech + f.ms /\ u.silence = 0 /\ u.ended = FALSE
        /\ u.turn = IF det.state = "quiet" THEN Turn!NoStats ELSE det.turn
        /\ u = [state |-> u.state, speech |-> u.speech, silence |-> u.silence, turn |-> u.turn,
                started |-> u.started, ended |-> u.ended]
    BY DEF Turn!OnSpeech
  <2> HIDE DEF u
  <2>3. /\ Turn!Update(f).state = u.state /\ Turn!Update(f).speech = u.speech
        /\ Turn!Update(f).silence = u.silence /\ Turn!Update(f).turn = Turn!Counted(u.turn, f)
        /\ Turn!Update(f).started = u.started /\ Turn!Update(f).ended = u.ended
    BY <2>1, <2>2
  <2> HIDE DEF Turn!Counted
  <2> QED  BY <1>2, <2>2, <2>3
<1>3. CASE ~f.speech
  <2> DEFINE u == Turn!OnQuiet(f)
  <2>1. Turn!Update(f) = IF u.state # "quiet" \/ u.ended
                         THEN [u EXCEPT !.turn = Turn!Counted(u.turn, f)] ELSE u
    BY <1>3 DEF Turn!Update, Turn!OnQuiet
  <2>2. /\ u.ended = (det.state = "stopping" /\ det.silence + f.ms >= EndSilence)
        /\ u.state = IF det.state \in {"speaking", "stopping"} /\ ~u.ended
                     THEN "stopping" ELSE "quiet"
        /\ u.speech = 0 /\ u.started = FALSE
        /\ u.silence = IF u.ended THEN 0
                       ELSE IF det.state = "speaking" THEN f.ms
                       ELSE IF det.state = "stopping" THEN det.silence + f.ms ELSE det.silence
        /\ u.turn = IF det.state = "starting" THEN Turn!NoStats ELSE det.turn
        /\ u = [state |-> u.state, speech |-> u.speech, silence |-> u.silence, turn |-> u.turn,
                started |-> u.started, ended |-> u.ended]
    BY DEF Turn!OnQuiet, States
  <2> HIDE DEF u
  <2>3. /\ Turn!Update(f).state = u.state /\ Turn!Update(f).speech = u.speech
        /\ Turn!Update(f).silence = u.silence
        /\ Turn!Update(f).turn = IF u.state # "quiet" \/ u.ended THEN Turn!Counted(u.turn, f) ELSE u.turn
        /\ Turn!Update(f).started = u.started /\ Turn!Update(f).ended = u.ended
    BY <2>1, <2>2
  <2>4. (u.state # "quiet" \/ u.ended) <=> det.state \in {"speaking", "stopping"}
    BY <2>2
  <2>5. Turn!Update(f).turn = IF det.state \in {"speaking", "stopping"} THEN Turn!Counted(det.turn, f)
                              ELSE IF det.state = "starting" THEN Turn!NoStats ELSE det.turn
    <3>1. det.state \in {"speaking", "stopping"} => u.turn = det.turn
      BY <2>2
    <3> QED  BY <2>2, <2>3, <2>4, <3>1
  <2> QED  BY <1>3, <2>2, <2>3, <2>5
<1> QED  BY <1>1, <1>2, <1>3

(* What the detector knows: whether a turn is going on, and how long the run    *)
(* that may change it has lasted.                                               *)
Detects(h, d) ==
  /\ d.state \in States
  /\ d.state \in {"speaking", "stopping"} <=> InTurnOn(h, Len(h))
  /\ d.state = "quiet" => d.speech = 0 /\ (Len(h) = 0 \/ h[Len(h)].speech = FALSE)
  /\ d.state = "starting" => \E i : LastRun(h, i, TRUE) /\ d.speech = MsOn(h, i, Len(h))
  /\ d.state = "speaking" => \E i : LastRun(h, i, TRUE)
  /\ d.state = "stopping" => \E i : LastRun(h, i, FALSE) /\ d.silence = MsOn(h, i, Len(h))

(* It goes on knowing it with every frame.                                      *)
LEMMA DetectsNext ==
  ASSUME heard \in Seq(Frames), NEW f \in Frames, Detects(heard, det)
  PROVE  Detects(Append(heard, f), Turn!Update(f))
<1> DEFINE g == Append(heard, f)
           n == Len(heard)
           u == Turn!Update(f)
<1>1. /\ g \in Seq(Frames) /\ Len(g) = n + 1 /\ n \in Nat /\ g[n + 1] = f
  BY PastStays, Zenon
<1>2. InTurnOn(g, n) = InTurnOn(heard, n)
  <2>1. n \in Nat /\ n <= n
    OBVIOUS
  <2> QED  BY <2>1, TurnsStay
<1>3. /\ f.ms \in Nat /\ f.speech \in BOOLEAN /\ MinSpeech \in Nat /\ EndSilence \in Nat
  BY FramesLast, CallAssumption DEF Turn!TurnAssumption
<1>4. /\ u.started <=> f.speech /\ det.state \in {"quiet", "starting"} /\ det.speech + f.ms >= MinSpeech
      /\ u.ended <=> ~f.speech /\ det.state = "stopping" /\ det.silence + f.ms >= EndSilence
      /\ u.state = IF f.speech
                   THEN IF u.started \/ det.state \in {"stopping", "speaking"} THEN "speaking" ELSE "starting"
                   ELSE IF det.state \in {"speaking", "stopping"} /\ ~u.ended THEN "stopping" ELSE "quiet"
      /\ u.speech = IF f.speech THEN det.speech + f.ms ELSE 0
      /\ ~f.speech => u.silence =
              IF u.ended THEN 0
              ELSE IF det.state = "speaking" THEN f.ms
              ELSE IF det.state = "stopping" THEN det.silence + f.ms ELSE det.silence
  <2>1. det.state \in States
    BY DEF Detects
  <2> QED  BY <2>1, UpdateIs
<1>5. InTurnOn(g, n + 1) <=> SustainedOn(g, n + 1) \/ (InTurnOn(heard, n) /\ ~LongPauseOn(g, n + 1))
  BY <1>1, <1>2, TurnGoesOn
<1>6. /\ det.state \in States
      /\ det.state \in {"speaking", "stopping"} <=> InTurnOn(heard, n)
      /\ det.state = "quiet" => det.speech = 0 /\ (n = 0 \/ heard[n].speech = FALSE)
      /\ det.state = "starting" => \E i : LastRun(heard, i, TRUE) /\ det.speech = MsOn(heard, i, n)
      /\ det.state = "speaking" => \E i : LastRun(heard, i, TRUE)
      /\ det.state = "stopping" => \E i : LastRun(heard, i, FALSE) /\ det.silence = MsOn(heard, i, n)
  BY DEF Detects
<1>7. /\ \A i : LastRun(heard, i, f.speech) =>
              /\ LastRun(g, i, f.speech) /\ MsOn(g, i, n + 1) = MsOn(heard, i, n) + f.ms
              /\ MsOn(heard, i, n) \in Nat
      /\ (n = 0 \/ heard[n].speech # f.speech) =>
              LastRun(g, n + 1, f.speech) /\ MsOn(g, n + 1, n + 1) = f.ms
  BY RunGoesOn, Zenon
<1>8. \A i : /\ LastRun(g, i, TRUE) => /\ SustainedOn(g, n + 1) <=> MsOn(g, i, n + 1) >= MinSpeech
                                       /\ ~LongPauseOn(g, n + 1)
             /\ LastRun(g, i, FALSE) => /\ ~SustainedOn(g, n + 1)
                                        /\ LongPauseOn(g, n + 1)
                                             <=> i < n + 1 /\ MsOn(g, i, n + 1) >= EndSilence
  BY <1>1, RunDecides
<1>9. \A i, b : LastRun(heard, i, b) => i \in 1..n /\ heard[n].speech = b
  BY LastRunIsLongest
<1> SUFFICES
      /\ u.state \in States
      /\ u.state \in {"speaking", "stopping"} <=> InTurnOn(g, n + 1)
      /\ u.state = "quiet" => u.speech = 0 /\ f.speech = FALSE
      /\ u.state = "starting" => \E i : LastRun(g, i, TRUE) /\ u.speech = MsOn(g, i, n + 1)
      /\ u.state = "speaking" => \E i : LastRun(g, i, TRUE)
      /\ u.state = "stopping" => \E i : LastRun(g, i, FALSE) /\ u.silence = MsOn(g, i, n + 1)
  <2>1. Len(g) > 0
    BY <1>1
  <2> HIDE DEF g, n, u
  <2> QED  BY <1>1, <2>1 DEF Detects, g, u
<1> HIDE DEF g, n, u
<1>10. CASE f.speech = TRUE /\ det.state \in {"quiet", "starting"}
  <2>1. PICK i : LastRun(g, i, TRUE) /\ u.speech = MsOn(g, i, n + 1) /\ det.speech + f.ms = u.speech
    <3>1. CASE det.state = "quiet"
      <4>1. det.speech = 0 /\ (n = 0 \/ heard[n].speech # f.speech)
        BY <1>6, <1>10, <3>1
      <4>2. LastRun(g, n + 1, TRUE) /\ MsOn(g, n + 1, n + 1) = f.ms
        BY <1>7, <1>10, <4>1
      <4>3. u.speech = det.speech + f.ms
        BY <1>4, <1>10
      <4>4. det.speech + f.ms = f.ms
        BY <1>3, <4>1
      <4> QED  BY <4>2, <4>3, <4>4, Zenon
    <3>2. CASE det.state = "starting"
      BY <1>4, <1>6, <1>7, <1>10, <3>2
    <3> QED  BY <1>10, <3>1, <3>2
  <2>2. SustainedOn(g, n + 1) <=> u.speech >= MinSpeech
    BY <1>8, <2>1
  <2>3. InTurnOn(g, n + 1) <=> u.speech >= MinSpeech
    BY <1>5, <1>6, <1>10, <2>2
  <2>4. u.started <=> u.speech >= MinSpeech
    BY <1>4, <1>10, <2>1
  <2>5. u.state = IF u.started THEN "speaking" ELSE "starting"
    BY <1>4, <1>10
  <2> QED  BY <1>10, <2>1, <2>3, <2>4, <2>5 DEF States
<1>11. CASE f.speech = TRUE /\ det.state \in {"speaking", "stopping"}
  <2>1. PICK i : LastRun(g, i, TRUE)
    <3>1. CASE det.state = "speaking"
      BY <1>6, <1>7, <1>11, <3>1
    <3>2. CASE det.state = "stopping"
      <4>1. heard[n].speech = FALSE
        BY <1>6, <1>9, <3>2
      <4> QED  BY <1>7, <1>11, <4>1
    <3> QED  BY <1>11, <3>1, <3>2
  <2>2. ~LongPauseOn(g, n + 1)
    BY <1>8, <2>1
  <2>3. InTurnOn(g, n + 1)
    BY <1>5, <1>6, <1>11, <2>2
  <2>4. u.state = "speaking"
    BY <1>4, <1>11
  <2> QED  BY <1>11, <2>1, <2>3, <2>4 DEF States
<1>12. CASE f.speech = FALSE /\ det.state \in {"quiet", "starting"}
  <2>1. ~SustainedOn(g, n + 1)
    <3>1. n + 1 \in Nat \ {0} /\ g[n + 1].speech = FALSE
      BY <1>1, <1>12
    <3> QED  BY <3>1, QuietSustainsNothing
  <2>2. u.state = "quiet" /\ u.speech = 0 /\ ~InTurnOn(g, n + 1)
    BY <1>4, <1>5, <1>6, <1>12, <2>1
  <2> QED  BY <1>12, <2>2 DEF States
<1>13. CASE f.speech = FALSE /\ det.state = "speaking"
  <2>0. heard[n].speech = TRUE
    BY <1>6, <1>9, <1>13
  <2>1. /\ LastRun(g, n + 1, FALSE) /\ MsOn(g, n + 1, n + 1) = f.ms
    BY <1>7, <1>13, <2>0
  <2>2. ~SustainedOn(g, n + 1) /\ ~LongPauseOn(g, n + 1)
    <3>1. ~(n + 1 < n + 1)
      BY <1>1
    <3> QED  BY <1>8, <2>1, <3>1
  <2>3. InTurnOn(g, n + 1)
    BY <1>5, <1>6, <1>13, <2>2
  <2>4. u.state = "stopping" /\ u.silence = f.ms
    BY <1>4, <1>13
  <2> QED  BY <1>13, <2>1, <2>3, <2>4 DEF States
<1>14. CASE f.speech = FALSE /\ det.state = "stopping"
  <2>1. PICK i : LastRun(heard, i, FALSE) /\ det.silence = MsOn(heard, i, n)
    BY <1>6, <1>14
  <2>2. LastRun(g, i, FALSE) /\ MsOn(g, i, n + 1) = det.silence + f.ms
    BY <1>7, <1>14, <2>1
  <2>3. i < n + 1
    <3>1. i \in 1..n
      BY <1>9, <2>1
    <3> QED  BY <1>1, <3>1
  <2>4. ~SustainedOn(g, n + 1) /\ (LongPauseOn(g, n + 1) <=> det.silence + f.ms >= EndSilence)
    BY <1>8, <2>2, <2>3
  <2>5. InTurnOn(g, n + 1) <=> ~(det.silence + f.ms >= EndSilence)
    BY <1>5, <1>6, <1>14, <2>4
  <2>6. u.ended <=> det.silence + f.ms >= EndSilence
    BY <1>4, <1>14
  <2>7. /\ u.state = IF u.ended THEN "quiet" ELSE "stopping"
        /\ ~u.ended => u.silence = det.silence + f.ms
        /\ u.speech = 0
    BY <1>4, <1>14
  <2> QED  BY <1>14, <2>2, <2>5, <2>6, <2>7 DEF States
<1> QED  BY <1>3, <1>6, <1>10, <1>11, <1>12, <1>13, <1>14 DEF States

(* The run of a speech frame on trial began with it, or with the first frame on *)
(* trial.                                                                       *)
LEMMA RunOnTrial ==
  ASSUME heard \in Seq(Frames), NEW f \in Frames, Detects(heard, det), f.speech = TRUE,
         det.state \in {"quiet", "starting"}, NEW i, LastRun(Append(heard, f), i, TRUE)
  PROVE  \/ det.state = "quiet" /\ i = Len(heard) + 1
         \/ det.state = "starting" /\ LastRun(heard, i, TRUE)
<1> DEFINE g == Append(heard, f)
<1>1. g \in Seq(Frames)
  BY PastStays, Zenon
<1>2. \A k : LastRun(g, k, TRUE) => k = i
  BY <1>1, LastRunIsLongest
<1>3. CASE det.state = "quiet"
  <2>1. Len(heard) = 0 \/ heard[Len(heard)].speech # f.speech
    BY <1>3 DEF Detects
  <2>2. LastRun(g, Len(heard) + 1, f.speech)
    BY <2>1, RunGoesOn, Zenon
  <2> QED  BY <1>2, <1>3, <2>2
<1>4. CASE det.state = "starting"
  <2>1. PICK k : LastRun(heard, k, TRUE)
    BY <1>4 DEF Detects
  <2>2. LastRun(g, k, f.speech)
    BY <2>1, RunGoesOn, Zenon
  <2>3. k = i
    BY <1>2, <2>2
  <2> QED  BY <1>4, <2>1, <2>3
<1> QED  BY <1>3, <1>4

(* The turn a frame is in began before it, or starts with it.                   *)
LEMMA BeganNext ==
  ASSUME NEW h \in Seq(Frames), NEW f \in Frames, NEW i \in 1..(Len(h) + 1),
         BeganOn(Append(h, f), Len(h) + 1, i)
  PROVE  /\ InTurnOn(Append(h, f), Len(h) + 1)
         /\ \/ i \in 1..Len(h) /\ BeganOn(h, Len(h), i) /\ InTurnOn(h, Len(h))
            \/ LastRun(Append(h, f), i, TRUE) /\ ~InTurnOn(h, Len(h))
<1> DEFINE g == Append(h, f)
           n == Len(h)
<1>1. /\ g \in Seq(Frames) /\ Len(g) = n + 1 /\ n \in Nat /\ g[n + 1] = f
  BY PastStays, Zenon
<1>2. InTurnOn(g, n) = InTurnOn(h, n)
  <2>1. n \in Nat /\ n <= n
    OBVIOUS
  <2> QED  BY <2>1, TurnsStay
<1>3. \A j \in i..n : BeganAt(g, n, i, j) = BeganAt(h, n, i, j)
  <2>1. n \in Nat /\ i \in Nat \ {0} /\ n <= n
    OBVIOUS
  <2> QED  BY <2>1, TurnsStay
<1> HIDE DEF g, n
<1>4. PICK j \in i..(n + 1) : BeganAt(g, n + 1, i, j)
  BY DEF BeganOn, g, n
<1>5. /\ SustainedOn(g, j) /\ RunOn(g, i, j, TRUE) /\ (i > 1 => ~g[i - 1].speech)
      /\ ~InTurnOn(g, j - 1) /\ \A k \in j..(n + 1) : InTurnOn(g, k)
  BY <1>4 DEF BeganAt
<1>6. i \in Nat \ {0} /\ i \in 1..(n + 1)
  BY DEF n
<1>7. InTurnOn(g, n + 1)
  <2>1. n + 1 \in j..(n + 1)
    BY <1>1, <1>4, <1>6
  <2> QED  BY <1>5, <2>1
<1>8. CASE j = n + 1
  <2>1. j - 1 = n
    BY <1>1, <1>8
  <2>2. LastRun(g, i, TRUE)
    BY <1>1, <1>5, <1>6, <1>8 DEF LastRun
  <2>3. ~InTurnOn(h, n)
    BY <1>2, <1>5, <2>1
  <2> QED  BY <1>7, <2>2, <2>3 DEF g, n
<1>9. CASE j # n + 1
  <2>1. j \in i..n /\ n \in j..(n + 1) /\ i \in 1..n /\ \A k \in j..n : k \in j..(n + 1)
    BY <1>1, <1>4, <1>6, <1>9
  <2>2. BeganAt(g, n, i, j)
    BY <1>5, <2>1 DEF BeganAt
  <2>3. BeganOn(h, n, i)
    BY <1>3, <2>1, <2>2 DEF BeganOn
  <2>4. InTurnOn(h, n)
    BY <1>2, <1>5, <2>1
  <2> QED  BY <1>7, <2>1, <2>3, <2>4 DEF g, n
<1> QED  BY <1>8, <1>9

(* The statistics of the frames from one to the last.                           *)
Spoken(h, i) == {k \in i..Len(h) : h[k].speech}
Covers(h, i, of) ==
  /\ of.total = MsOn(h, i, Len(h)) /\ of.frames = Len(h) - i + 1
  /\ of.speechFrames = Cardinality(Spoken(h, i))

(* They are those of the frames so far and of the frame that arrives.           *)
LEMMA CoversNext ==
  ASSUME NEW h \in Seq(Frames), NEW f \in Frames, NEW i \in 1..(Len(h) + 1), NEW of,
         IF i = Len(h) + 1 THEN of = Turn!NoStats ELSE Covers(h, i, of)
  PROVE  Covers(Append(h, f), i, Turn!Counted(of, f))
<1> DEFINE g == Append(h, f)
           n == Len(h)
           new == Turn!Counted(of, f)
<1>1. /\ g \in Seq(Frames) /\ Len(g) = n + 1 /\ n \in Nat /\ g[n + 1] = f
      /\ \A k \in 1..n : g[k] = h[k]
      /\ \A k \in Nat \ {0}, j \in Nat : j <= n => MsOn(g, k, j) = MsOn(h, k, j)
  BY PastStays, Zenon
<1>2. /\ new.total = of.total + f.ms /\ new.frames = of.frames + 1
      /\ new.speechFrames = of.speechFrames + IF f.speech THEN 1 ELSE 0
  BY DEF Turn!Counted
<1> HIDE DEF g, n, new
<1>3. /\ i \in Nat \ {0} /\ i <= n + 1 /\ n <= n /\ n <= Len(g) /\ n < Len(g) /\ i \in 1..(n + 1)
  BY <1>1 DEF n
<1>4. /\ of.total = MsOn(h, i, n) /\ of.frames = n - i + 1
      /\ of.speechFrames = Cardinality(Spoken(h, i))
  <2>1. CASE i = n + 1
    <3>1. of.total = 0 /\ of.frames = 0 /\ of.speechFrames = 0
      BY <2>1 DEF Turn!NoStats, n
    <3>2. MsOn(h, i, n) = 0
      BY <1>1, <1>3, <2>1, MsMore
    <3>3. Spoken(h, i) = {} /\ n - i + 1 = 0
      BY <1>1, <2>1 DEF Spoken, n
    <3>4. Cardinality(Spoken(h, i)) = 0
      BY <3>3, FS_EmptySet
    <3> QED  BY <3>1, <3>2, <3>3, <3>4
  <2>2. CASE i # n + 1
    BY <2>2 DEF Covers, n
  <2> QED  BY <2>1, <2>2
<1>5. MsOn(g, i, n + 1) = MsOn(h, i, n) + f.ms
  <2>1. MsOn(g, i, n + 1) = MsOn(g, i, n) + g[n + 1].ms
    BY <1>1, <1>3, MsMore
  <2> QED  BY <1>1, <1>3, <2>1
<1>6. /\ IsFiniteSet(Spoken(h, i)) /\ Cardinality(Spoken(h, i)) \in Nat /\ n + 1 \notin Spoken(h, i)
  <2>1. IsFiniteSet(i..n)
    BY <1>1, <1>3, FS_Interval
  <2>2. Spoken(h, i) \subseteq i..n
    BY DEF Spoken, n
  <2>3. n + 1 \notin i..n
    BY <1>1, <1>3
  <2>4. IsFiniteSet(Spoken(h, i))
    BY <2>1, <2>2, FS_Subset
  <2> QED  BY <2>2, <2>3, <2>4, FS_CardinalityType
<1>7. Spoken(g, i) = IF f.speech THEN Spoken(h, i) \cup {n + 1} ELSE Spoken(h, i)
  <2>1. /\ \A k : k \in i..(n + 1) <=> k \in i..n \/ k = n + 1
        /\ \A k \in i..n : k \in 1..n
    BY <1>1, <1>3
  <2>2. Spoken(g, i) = {k \in i..(n + 1) : g[k].speech} /\ Spoken(h, i) = {k \in i..n : h[k].speech}
    BY <1>1 DEF Spoken, n
  <2>3. \A k : k \in Spoken(g, i) <=> k \in Spoken(h, i) \/ (k = n + 1 /\ f.speech)
    BY <1>1, <2>1, <2>2
  <2>4. f.speech => Spoken(g, i) = Spoken(h, i) \cup {n + 1}
    BY <2>3
  <2>5. ~f.speech => Spoken(g, i) = Spoken(h, i)
    BY <2>3
  <2> QED  BY <2>4, <2>5
<1>8. Cardinality(Spoken(g, i)) = Cardinality(Spoken(h, i)) + IF f.speech THEN 1 ELSE 0
  <2>1. Cardinality(Spoken(h, i) \cup {n + 1}) = Cardinality(Spoken(h, i)) + 1
    BY <1>6, FS_AddElement
  <2> QED  BY <1>6, <1>7, <2>1
<1>9. new.frames = (n + 1) - i + 1
  BY <1>1, <1>2, <1>3, <1>4
<1>10. new.total = MsOn(g, i, n + 1) /\ new.speechFrames = Cardinality(Spoken(g, i))
  BY <1>2, <1>4, <1>5, <1>8
<1> QED  BY <1>1, <1>9, <1>10 DEF Covers, g, new

(* The statistics the detector has: of the frames on trial, or of the turn.     *)
StatsOfTurn(h, d) ==
  /\ d.state = "starting" => \A i : LastRun(h, i, TRUE) => Covers(h, i, d.turn)
  /\ \A i \in 1..Len(h) : BeganOn(h, Len(h), i) => Covers(h, i, d.turn)

(* They go on being so with every frame.                                         *)
LEMMA StatsNext ==
  ASSUME heard \in Seq(Frames), NEW f \in Frames, Detects(heard, det), StatsOfTurn(heard, det)
  PROVE  StatsOfTurn(Append(heard, f), Turn!Update(f))
<1> DEFINE g == Append(heard, f)
           n == Len(heard)
           u == Turn!Update(f)
<1>1. /\ g \in Seq(Frames) /\ Len(g) = n + 1 /\ n \in Nat /\ g[n + 1] = f
  BY PastStays, Zenon
<1>2. /\ u.turn = IF f.speech
                  THEN Turn!Counted(IF det.state = "quiet" THEN Turn!NoStats ELSE det.turn, f)
                  ELSE IF det.state \in {"speaking", "stopping"} THEN Turn!Counted(det.turn, f)
                  ELSE IF det.state = "starting" THEN Turn!NoStats ELSE det.turn
      /\ u.state = "starting" => f.speech /\ det.state \in {"quiet", "starting"}
      /\ f.speech \in BOOLEAN /\ det.state \in States
  <2>1. det.state \in States
    BY DEF Detects
  <2>2. f.speech \in BOOLEAN
    BY FramesLast
  <2>3. u.turn = IF f.speech
                  THEN Turn!Counted(IF det.state = "quiet" THEN Turn!NoStats ELSE det.turn, f)
                  ELSE IF det.state \in {"speaking", "stopping"} THEN Turn!Counted(det.turn, f)
                  ELSE IF det.state = "starting" THEN Turn!NoStats ELSE det.turn
    BY <2>1, UpdateIs
  <2>4. u.state = IF f.speech
                   THEN IF u.started \/ det.state \in {"stopping", "speaking"} THEN "speaking" ELSE "starting"
                   ELSE IF det.state \in {"speaking", "stopping"} /\ ~u.ended THEN "stopping" ELSE "quiet"
    BY <2>1, UpdateIs
  <2> HIDE DEF u
  <2> QED  BY <2>1, <2>2, <2>3, <2>4 DEF States
<1>3. \A i \in 1..(n + 1) : \A of :
        (IF i = n + 1 THEN of = Turn!NoStats ELSE Covers(heard, i, of)) => Covers(g, i, Turn!Counted(of, f))
  BY CoversNext
<1>4. ASSUME f.speech, det.state \in {"quiet", "starting"}, NEW i, LastRun(g, i, TRUE)
      PROVE  Covers(g, i, u.turn)
  <2>1. \/ det.state = "quiet" /\ i = n + 1
        \/ det.state = "starting" /\ LastRun(heard, i, TRUE)
    <3>1. f.speech = TRUE
      BY <1>2, <1>4
    <3> QED  BY <1>4, <3>1, RunOnTrial
  <2> HIDE DEF g, u
  <2>2. CASE det.state = "quiet" /\ i = n + 1
    <3>1. i \in 1..(n + 1)
      BY <1>1, <2>2
    <3>2. u.turn = Turn!Counted(Turn!NoStats, f)
      BY <1>2, <1>4, <2>2
    <3> QED  BY <1>3, <2>2, <3>1, <3>2
  <2>3. CASE det.state = "starting" /\ LastRun(heard, i, TRUE)
    <3>1. Covers(heard, i, det.turn)
      BY <2>3 DEF StatsOfTurn
    <3>2. i \in 1..n
      BY <2>3 DEF LastRun
    <3>3. i \in 1..(n + 1) /\ i # n + 1
      BY <1>1, <3>2
    <3>4. u.turn = Turn!Counted(det.turn, f)
      BY <1>2, <1>4, <2>3
    <3> QED  BY <1>3, <3>1, <3>3, <3>4
  <2> QED  BY <2>1, <2>2, <2>3
<1>5. ASSUME NEW i \in 1..(n + 1), BeganOn(g, n + 1, i)
      PROVE  Covers(g, i, u.turn)
  <2>1. \/ i \in 1..n /\ BeganOn(heard, n, i) /\ InTurnOn(heard, n)
        \/ LastRun(g, i, TRUE) /\ ~InTurnOn(heard, n)
    BY <1>5, BeganNext
  <2>2. det.state \in {"speaking", "stopping"} <=> InTurnOn(heard, n)
    BY DEF Detects
  <2>3. CASE i \in 1..n /\ BeganOn(heard, n, i) /\ InTurnOn(heard, n)
    <3>1. Covers(heard, i, det.turn)
      BY <2>3 DEF StatsOfTurn
    <3>2. i # n + 1
      BY <1>1, <2>3
    <3> HIDE DEF g, u, n
    <3>3. u.turn = Turn!Counted(det.turn, f)
      BY <1>2, <2>2, <2>3
    <3> QED  BY <1>3, <1>5, <3>1, <3>2, <3>3
  <2>4. CASE LastRun(g, i, TRUE) /\ ~InTurnOn(heard, n)
    <3>1. g[n + 1].speech = TRUE
      <4> HIDE DEF g
      <4> QED  BY <1>1, <2>4, LastRunIsLongest
    <3>2. f.speech /\ det.state \in {"quiet", "starting"}
      BY <1>1, <1>2, <2>2, <2>4, <3>1 DEF States
    <3> QED  BY <1>4, <2>4, <3>2
  <2> QED  BY <2>1, <2>3, <2>4
<1> HIDE DEF g, u, n
<1>6. u.state = "starting" => \A i : LastRun(g, i, TRUE) => Covers(g, i, u.turn)
  BY <1>2, <1>4
<1>7. StatsOfTurn(g, u)
  BY <1>1, <1>5, <1>6 DEF StatsOfTurn
<1> QED  BY <1>7 DEF g, u

(* The loop of FlattenSeq.                                                      *)
FlattenStep(seqs, g, i) == IF i = 1 THEN seqs[i] ELSE g[i - 1] \o seqs[i]

FlattenLoop(seqs) == CHOOSE g : g = [i \in 1..Len(seqs) |-> FlattenStep(seqs, g, i)]

(* It is met by a function.                                                      *)
LEMMA FlattenLoopDef ==
  ASSUME NEW seqs, Len(seqs) \in Nat
  PROVE  \A i \in 1..Len(seqs) :
           FlattenLoop(seqs)[i] = FlattenStep(seqs, FlattenLoop(seqs), i)
<1> DEFINE Has(k) == \E g : g = [i \in 1..k |-> FlattenStep(seqs, g, i)]
           S == {k \in Nat : Has(k)}
<1>1. 0 \in S
  <2> DEFINE g0 == [i \in 1..0 |-> <<>>]
  <2>1. g0 = [i \in 1..0 |-> FlattenStep(seqs, g0, i)]
    OBVIOUS
  <2> QED  BY <2>1
<1>2. ASSUME NEW k \in Nat, k \in S PROVE k + 1 \in S
  <2>1. PICK g : g = [i \in 1..k |-> FlattenStep(seqs, g, i)]
    BY <1>2
  <2> DEFINE h == [i \in 1..(k + 1) |-> IF i \in 1..k THEN g[i] ELSE FlattenStep(seqs, g, i)]
             hh == [i \in 1..(k + 1) |-> FlattenStep(seqs, h, i)]
  <2>2. \A i \in 1..(k + 1) : i = 1 \/ (i - 1 \in 1..k /\ i - 1 \in 1..(k + 1))
    OBVIOUS
  <2>3. \A i \in 1..(k + 1) : i = 1 \/ h[i - 1] = g[i - 1]
    BY <2>2
  <2>4. \A i \in 1..k : g[i] = FlattenStep(seqs, g, i)
    <3> DEFINE gg == [i \in 1..k |-> FlattenStep(seqs, g, i)]
    <3>1. \A i \in 1..k : gg[i] = FlattenStep(seqs, g, i)
      OBVIOUS
    <3> QED  BY <2>1, <3>1
  <2>5. \A i \in 1..(k + 1) : h[i] = FlattenStep(seqs, g, i)
    BY <2>4
  <2>6. h = [i \in 1..(k + 1) |-> h[i]]
    OBVIOUS
  <2> HIDE DEF h
  <2>7. \A i \in 1..(k + 1) : h[i] = FlattenStep(seqs, h, i)
    BY <2>3, <2>5 DEF FlattenStep
  <2>8. h = [i \in 1..(k + 1) |-> FlattenStep(seqs, h, i)]
    BY <2>6, <2>7
  <2> QED  BY <2>8
<1>3. Has(Len(seqs))
  <2> HIDE DEF Has
  <2>1. \A k \in Nat : k \in S
    BY <1>1, <1>2, NatSetInduction
  <2> QED  BY <2>1
<1> DEFINE f == FlattenLoop(seqs)
           ff == [i \in 1..Len(seqs) |-> FlattenStep(seqs, f, i)]
<1>4. f = ff
  BY <1>3 DEF FlattenLoop
<1>5. \A i \in 1..Len(seqs) : ff[i] = FlattenStep(seqs, f, i)
  OBVIOUS
<1> QED  BY <1>4, <1>5

(* A flat sequence goes on by the sequence that is appended.                    *)
LEMMA FlattenMore ==
  ASSUME NEW S, NEW seqs \in Seq(Seq(S)), NEW s \in Seq(S)
  PROVE  /\ Turn!FlattenSeq(seqs) \in Seq(S)
         /\ Turn!FlattenSeq(Append(seqs, s)) = Turn!FlattenSeq(seqs) \o s
<1> DEFINE more == Append(seqs, s)
           n == Len(seqs)
           f == FlattenLoop(seqs)
           g == FlattenLoop(more)
           T == {k \in Nat : k \in 1..n => f[k] = g[k] /\ f[k] \in Seq(S)}
<1>1. /\ n \in Nat /\ Len(more) = n + 1 /\ more[n + 1] = s
      /\ \A k \in 1..n : more[k] = seqs[k] /\ seqs[k] \in Seq(S)
  OBVIOUS
<1>2. \A k \in 1..n : f[k] = FlattenStep(seqs, f, k)
  BY <1>1, FlattenLoopDef
<1>3. \A k \in 1..(n + 1) : g[k] = FlattenStep(more, g, k)
  <2>1. Len(more) \in Nat
    BY <1>1
  <2>2. \A k \in 1..Len(more) : FlattenLoop(more)[k] = FlattenStep(more, FlattenLoop(more), k)
    BY <2>1, FlattenLoopDef
  <2> QED  BY <1>1, <2>2
<1>4. n # 0 => Turn!FlattenSeq(seqs) = f[n]
  BY DEF Turn!FlattenSeq, FlattenLoop, FlattenStep
<1>5. Turn!FlattenSeq(more) = g[n + 1]
  <2>1. Len(more) # 0
    BY <1>1
  <2>2. Turn!FlattenSeq(more) = g[Len(more)]
    <3> HIDE DEF more
    <3> QED  BY <2>1 DEF Turn!FlattenSeq, FlattenLoop, FlattenStep
  <2> QED  BY <1>1, <2>2
<1>6. n = 0 => Turn!FlattenSeq(seqs) = <<>>
  BY DEF Turn!FlattenSeq
<1> HIDE DEF f, g, n, more
<1>7. 0 \in T
  BY <1>1
<1>8. ASSUME NEW k \in Nat, k \in T PROVE k + 1 \in T
  <2>1. SUFFICES ASSUME k + 1 \in 1..n PROVE f[k + 1] = g[k + 1] /\ f[k + 1] \in Seq(S)
    OBVIOUS
  <2>2. /\ k + 1 \in 1..(n + 1) /\ more[k + 1] = seqs[k + 1] /\ seqs[k + 1] \in Seq(S)
        /\ k # 0 => k \in 1..n
        /\ k + 1 = 1 <=> k = 0
        /\ (k + 1) - 1 = k
    BY <1>1, <2>1
  <2>3. f[k + 1] = FlattenStep(seqs, f, k + 1) /\ g[k + 1] = FlattenStep(more, g, k + 1)
    BY <1>2, <1>3, <2>1, <2>2
  <2>4. CASE k = 0
    BY <2>2, <2>3, <2>4 DEF FlattenStep
  <2>5. CASE k # 0
    <3>1. f[k] = g[k] /\ f[k] \in Seq(S)
      BY <1>8, <2>2, <2>5
    <3>2. f[k + 1] = f[k] \o seqs[k + 1] /\ g[k + 1] = g[k] \o seqs[k + 1]
      BY <2>2, <2>3, <2>5 DEF FlattenStep
    <3> QED  BY <2>2, <3>1, <3>2
  <2> QED  BY <2>4, <2>5
<1>9. \A k \in Nat : k \in T
  <2> HIDE DEF T
  <2> QED  BY <1>7, <1>8, NatSetInduction
<1>10. CASE n = 0
  <2>1. g[n + 1] = s
    <3>1. n + 1 \in 1..(n + 1) /\ n + 1 = 1
      BY <1>1, <1>10
    <3> QED  BY <1>1, <1>3, <3>1 DEF FlattenStep
  <2>2. <<>> \in Seq(S) /\ <<>> \o s = s
    OBVIOUS
  <2> QED  BY <1>5, <1>6, <1>10, <2>1, <2>2 DEF more
<1>11. CASE n # 0
  <2>1. n \in 1..n /\ n + 1 \in 1..(n + 1) /\ n + 1 # 1 /\ (n + 1) - 1 = n
    BY <1>1, <1>11
  <2>2. f[n] = g[n] /\ f[n] \in Seq(S)
    BY <1>1, <1>9, <2>1
  <2>3. g[n + 1] = g[n] \o s
    BY <1>1, <1>3, <2>1 DEF FlattenStep
  <2> QED  BY <1>4, <1>5, <1>11, <2>2, <2>3 DEF more
<1> QED  BY <1>10, <1>11

(* What the session was given: the audio of the commits, and what it holds.     *)
GivenOf(c, x) == Turn!FlattenSeq([k \in DOMAIN c |-> c[k].audio]) \o x

Committed == [audio : Seq(Nat), verdict : {"ignored", "backchannel", "accepted"}]

(* A frame's audio goes after what was given, and so it does when the turn is   *)
(* committed with it.                                                           *)
LEMMA GivenMore ==
  ASSUME NEW c \in Seq(Committed), NEW x \in Seq(Nat), NEW y \in Seq(Nat), NEW r \in Committed,
         r.audio = x \o y
  PROVE  /\ GivenOf(c, x) \in Seq(Nat)
         /\ GivenOf(c, x \o y) = GivenOf(c, x) \o y
         /\ GivenOf(Append(c, r), <<>>) = GivenOf(c, x) \o y
<1> DEFINE s == [k \in DOMAIN c |-> c[k].audio]
           t == [k \in DOMAIN Append(c, r) |-> Append(c, r)[k].audio]
<1>1. s \in Seq(Seq(Nat)) /\ Len(s) = Len(c) /\ \A k \in 1..Len(c) : s[k] = c[k].audio
  <2>1. DOMAIN c = 1..Len(c) /\ Len(c) \in Nat
    OBVIOUS
  <2>2. \A k \in 1..Len(c) : c[k].audio \in Seq(Nat)
    <3>1. \A e \in Committed : e.audio \in Seq(Nat)
      BY DEF Committed
    <3>2. \A k \in 1..Len(c) : c[k] \in Committed
      OBVIOUS
    <3> QED  BY <3>1, <3>2
  <2>3. s = [k \in 1..Len(c) |-> c[k].audio]
    BY <2>1
  <2> QED  BY <2>1, <2>2, <2>3
<1>2. t = Append(s, r.audio)
  <2>1. DOMAIN Append(c, r) = 1..(Len(c) + 1) /\ Len(c) \in Nat
    OBVIOUS
  <2>2. \A k \in 1..(Len(c) + 1) : Append(c, r)[k] = IF k = Len(c) + 1 THEN r ELSE c[k]
    OBVIOUS
  <2>3. t = [k \in 1..(Len(c) + 1) |-> IF k = Len(c) + 1 THEN r.audio ELSE c[k].audio]
    BY <2>1, <2>2
  <2>4. Append(s, r.audio) = [k \in 1..(Len(s) + 1) |-> IF k = Len(s) + 1 THEN r.audio ELSE s[k]]
    <3> DEFINE e == r.audio
    <3>1. e \in Seq(Nat)
      BY DEF Committed
    <3> DEFINE q == Append(s, e)
               z == Len(s)
    <3> HIDE DEF s, e
    <3>2. /\ q \in Seq(Seq(Nat)) /\ Len(q) = z + 1 /\ q[z + 1] = e /\ z \in Nat
          /\ \A k \in 1..z : q[k] = s[k]
      BY <1>1, <3>1, AppendProperties
    <3> HIDE DEF q, z
    <3>3. q = [k \in 1..Len(q) |-> q[k]]
      BY <3>2
    <3>4. \A k \in 1..(z + 1) : k = z + 1 \/ k \in 1..z
      BY <3>2
    <3>5. \A k \in 1..(z + 1) : q[k] = IF k = z + 1 THEN e ELSE s[k]
      BY <3>2, <3>4
    <3>6. q = [k \in 1..(z + 1) |-> IF k = z + 1 THEN e ELSE s[k]]
      BY <3>2, <3>3, <3>5
    <3> QED  BY <3>6 DEF e, q, z
  <2>5. \A k \in 1..(Len(c) + 1) : k = Len(c) + 1 \/ k \in 1..Len(c)
    BY <2>1
  <2> HIDE DEF s, t
  <2>6. \A k \in 1..(Len(c) + 1) :
          (IF k = Len(c) + 1 THEN r.audio ELSE c[k].audio) = (IF k = Len(s) + 1 THEN r.audio ELSE s[k])
    BY <1>1, <2>5
  <2> QED  BY <1>1, <2>3, <2>4, <2>6
<1> DEFINE p == Turn!FlattenSeq(s)
<1>3. GivenOf(c, x) = p \o x /\ GivenOf(c, x \o y) = p \o (x \o y)
  BY DEF GivenOf
<1>4. GivenOf(Append(c, r), <<>>) = Turn!FlattenSeq(t) \o <<>>
  BY DEF GivenOf
<1> HIDE DEF s, t
<1>5. p \in Seq(Nat) /\ Turn!FlattenSeq(t) = p \o r.audio
  <2>1. r.audio \in Seq(Nat)
    BY DEF Committed
  <2> QED  BY <1>1, <1>2, <2>1, FlattenMore
<1> HIDE DEF p
<1>6. (p \o x) \o y = p \o (x \o y) /\ (p \o (x \o y)) \o <<>> = p \o (x \o y) /\ p \o x \in Seq(Nat)
  <2>1. (p \o x) \o y = p \o (x \o y)
    <3>1. p \in Seq(Nat)
      BY <1>5
    <3> DEFINE u == (p \o x) \o y
               w == p \o (x \o y)
    <3>2. u \in Seq(Nat) /\ w \in Seq(Nat) /\ Len(u) = Len(w)
      BY <3>1
    <3>3. \A k \in 1..Len(u) : u[k] = w[k]
      BY <3>1
    <3> HIDE DEF u, w
    <3>4. u = [k \in 1..Len(u) |-> u[k]] /\ w = [k \in 1..Len(w) |-> w[k]]
      BY <3>2
    <3>5. u = w
      BY <3>2, <3>3, <3>4
    <3> QED  BY <3>5 DEF u, w
  <2>2. p \o (x \o y) \in Seq(Nat) /\ p \o x \in Seq(Nat)
    BY <1>5
  <2>3. (p \o (x \o y)) \o <<>> = p \o (x \o y)
    BY <2>2, ConcatEmptySeq
  <2> QED  BY <2>1, <2>2, <2>3
<1> QED  BY <1>3, <1>4, <1>5, <1>6

(* A frame is of a turn that is of the past, or of one that goes on or starts   *)
(* with the frame that arrives.                                                 *)
LEMMA OfTurnNext ==
  ASSUME NEW h \in Seq(Frames), NEW f \in Frames, NEW k \in 1..(Len(h) + 1),
         OfTurnOn(Append(h, f), k)
  PROVE  \/ k \in 1..Len(h) /\ OfTurnOn(h, k)
         \/ k = Len(h) + 1 /\ InTurnOn(h, Len(h)) /\ InTurnOn(Append(h, f), Len(h) + 1)
         \/ /\ ~InTurnOn(h, Len(h)) /\ InTurnOn(Append(h, f), Len(h) + 1)
            /\ \E i \in 1..k : LastRun(Append(h, f), i, TRUE)
<1> DEFINE g == Append(h, f)
           n == Len(h)
<1>1. Len(g) = n + 1 /\ n \in Nat
  BY PastStays, Zenon
<1>2. \A m \in Nat, i \in Nat \ {0} : m <= n => \A j \in i..m : BeganAt(g, m, i, j) = BeganAt(h, m, i, j)
  BY TurnsStay, Zenon
<1>3. PICK m \in k..(n + 1), i \in 1..k : BeganOn(g, m, i)
  BY <1>1 DEF OfTurnOn
<1>4. m \in Nat /\ i \in Nat \ {0} /\ i \in 1..(n + 1) /\ k \in 1..(n + 1)
  BY <1>1, <1>3
<1>5. CASE m # n + 1
  <2>1. m <= n /\ m \in k..n /\ k \in 1..n
    BY <1>1, <1>3, <1>4, <1>5
  <2>2. BeganOn(h, m, i)
    BY <1>2, <1>3, <1>4, <2>1 DEF BeganOn
  <2>3. OfTurnOn(h, k)
    BY <1>3, <2>1, <2>2 DEF OfTurnOn
  <2> QED  BY <2>1, <2>3
<1>6. CASE m = n + 1
  <2>1. /\ InTurnOn(g, n + 1)
        /\ \/ i \in 1..n /\ BeganOn(h, n, i) /\ InTurnOn(h, n)
           \/ LastRun(g, i, TRUE) /\ ~InTurnOn(h, n)
    BY <1>3, <1>4, <1>6, BeganNext
  <2>2. CASE i \in 1..n /\ BeganOn(h, n, i) /\ InTurnOn(h, n) /\ k \in 1..n
    <3>1. n \in k..n
      BY <1>1, <2>2
    <3>2. OfTurnOn(h, k)
      BY <1>3, <2>2, <3>1 DEF OfTurnOn
    <3> QED  BY <2>2, <3>2
  <2>3. k \in 1..n \/ k = n + 1
    BY <1>1, <1>4
  <2> QED  BY <1>3, <2>1, <2>2, <2>3
<1> QED  BY <1>5, <1>6

(* The positions from one to another, in order.                                 *)
Span(i, m) == [x \in 1..(m - i + 1) |-> i + x - 1]
Rises(x)   == \A n \in 1..(Len(x) - 1) : x[n] < x[n + 1]

(* What was given goes on in order by a span that begins after it.              *)
LEMMA SpanAdds ==
  ASSUME NEW G \in Seq(Nat), Rises(G), NEW i \in Nat \ {0}, NEW m \in Nat, i <= m + 1,
         \A x \in 1..Len(G) : G[x] \in 1..(i - 1)
  PROVE  /\ G \o Span(i, m) \in Seq(Nat) /\ Rises(G \o Span(i, m))
         /\ \A x \in 1..Len(G \o Span(i, m)) : (G \o Span(i, m))[x] \in 1..m
         /\ \A k \in Turn!Range(G) \cup (i..m) : k \in Turn!Range(G \o Span(i, m))
<1> DEFINE s == Span(i, m)
           l == m - i + 1
           r == G \o s
           c == Len(G)
<1>1. l \in Nat /\ c \in Nat
  OBVIOUS
<1>2. s \in Seq(Nat) /\ Len(s) = l /\ \A x \in 1..l : s[x] = i + x - 1
  BY <1>1 DEF Span
<1>3. G \in Seq(Nat) /\ DOMAIN G = 1..c /\ \A x \in 1..c : G[x] \in 1..(i - 1)
  OBVIOUS
<1>4. \A x \in 1..(c - 1) : G[x] < G[x + 1]
  BY DEF Rises
<1> HIDE DEF s
<1>5. /\ r \in Seq(Nat) /\ Len(r) = c + l
      /\ \A x \in 1..(c + l) : r[x] = IF x <= c THEN G[x] ELSE s[x - c]
  <2> HIDE DEF l
  <2> QED  BY <1>1, <1>2, ConcatProperties
<1>6. DOMAIN r = 1..(c + l)
  BY <1>5
<1> HIDE DEF r, c
<1>7. \A x \in 1..(c + l) : /\ x \in 1..c => r[x] = G[x] /\ r[x] \in 1..(i - 1)
                            /\ x \notin 1..c => x - c \in 1..l /\ r[x] = i + (x - c) - 1
  <2> HIDE DEF l
  <2> QED  BY <1>1, <1>2, <1>3, <1>5
<1>8. \A x \in 1..(c + l) : r[x] \in 1..m
  <2>1. SUFFICES ASSUME NEW x \in 1..(c + l) PROVE r[x] \in 1..m
    OBVIOUS
  <2>2. CASE x \in 1..c
    <3>1. r[x] \in 1..(i - 1)
      BY <1>7, <2>1, <2>2
    <3> QED  BY <3>1
  <2>3. CASE x \notin 1..c
    <3>1. x - c \in 1..l /\ r[x] = i + (x - c) - 1
      BY <1>7, <2>1, <2>3
    <3> QED  BY <1>1, <3>1
  <2> QED  BY <2>2, <2>3
<1>9. \A x \in 1..(c + l - 1) : r[x] < r[x + 1]
  <2>1. SUFFICES ASSUME NEW x \in 1..(c + l - 1) PROVE r[x] < r[x + 1]
    OBVIOUS
  <2>2. x \in 1..(c + l) /\ x + 1 \in 1..(c + l)
    BY <1>1, <2>1
  <2>3. CASE x + 1 \in 1..c
    <3>1. x \in 1..c /\ x \in 1..(c - 1)
      BY <1>1, <2>1, <2>3
    <3>2. r[x] = G[x] /\ r[x + 1] = G[x + 1]
      BY <1>7, <2>2, <2>3, <3>1
    <3> QED  BY <1>4, <3>1, <3>2
  <2>4. CASE x + 1 \notin 1..c /\ x \in 1..c
    <3>1. r[x] \in 1..(i - 1)
      BY <1>7, <2>2, <2>4
    <3>2. (x + 1) - c \in 1..l /\ r[x + 1] = i + ((x + 1) - c) - 1
      BY <1>7, <2>2, <2>4
    <3> QED  BY <1>1, <3>1, <3>2
  <2>5. CASE x + 1 \notin 1..c /\ x \notin 1..c
    <3>1. x - c \in 1..l /\ r[x] = i + (x - c) - 1
      BY <1>7, <2>2, <2>5
    <3>2. (x + 1) - c \in 1..l /\ r[x + 1] = i + ((x + 1) - c) - 1
      BY <1>7, <2>2, <2>5
    <3> QED  BY <1>1, <3>1, <3>2
  <2> QED  BY <2>3, <2>4, <2>5
<1>10. ASSUME NEW k \in Turn!Range(G) \cup (i..m) PROVE k \in Turn!Range(r)
  <2>1. CASE k \in Turn!Range(G)
    <3>1. PICK x \in 1..c : k = G[x]
      BY <1>3, <2>1 DEF Turn!Range
    <3>2. x \in 1..(c + l)
      BY <1>1, <3>1
    <3>3. r[x] = k
      BY <1>7, <3>1, <3>2
    <3> QED  BY <1>6, <3>2, <3>3 DEF Turn!Range
  <2>2. CASE k \in i..m
    <3> DEFINE x == c + k - i + 1
    <3>1. x \in 1..(c + l) /\ x \notin 1..c /\ i + (x - c) - 1 = k
      BY <1>1, <2>2
    <3> HIDE DEF x
    <3>2. r[x] = k
      BY <1>7, <3>1
    <3> QED  BY <1>6, <3>1, <3>2 DEF Turn!Range
  <2> QED  BY <1>10, <2>1, <2>2
<1>11. Rises(r)
  <2>1. Len(r) - 1 = c + l - 1
    <3> HIDE DEF l
    <3> QED  BY <1>1, <1>5
  <2> QED  BY <1>9, <2>1 DEF Rises
<1> QED  BY <1>5, <1>8, <1>10, <1>11 DEF r, s

(* The session was given a frame, or one of its run whose samples are the same. *)
InGiven(h, G, k) ==
  k \in Turn!Range(G) \/ \E i \in 1..(k - 1) : h[i] = h[k] /\ RunOn(h, i, k, TRUE)

(* The frames kept are those on trial, none of them was given yet, and those of *)
(* the turns were.                                                              *)
AudioOfTurns(h, G, d, p) ==
  /\ G \in Seq(Nat) /\ Rises(G) /\ \A x \in 1..Len(G) : G[x] \in 1..Len(h)
  /\ d.state # "starting" => p = <<>>
  /\ d.state = "starting" =>
       \A i : LastRun(h, i, TRUE) => p = Span(i, Len(h)) /\ \A x \in 1..Len(G) : G[x] \in 1..(i - 1)
  /\ \A k \in 1..Len(h) : OfTurnOn(h, k) => InGiven(h, G, k)

(* A span goes on by the next position.                                         *)
LEMMA SpanMore ==
  ASSUME NEW i \in Nat \ {0}, NEW m \in Nat, i <= m + 1
  PROVE  /\ Span(i, m) \in Seq(Nat) /\ Append(Span(i, m), m + 1) = Span(i, m + 1)
         /\ Turn!Range(Span(i, m)) = i..m
         /\ i = m + 1 => Span(i, m) = <<>>
<1> DEFINE l == m - i + 1
           s == Span(i, m)
           t == Span(i, m + 1)
           q == Append(s, m + 1)
<1>1. l \in Nat /\ (m + 1) - i + 1 = l + 1
  OBVIOUS
<1>2. s \in Seq(Nat) /\ Len(s) = l /\ \A x \in 1..l : s[x] = i + x - 1
  BY <1>1 DEF Span
<1>3. t \in Seq(Nat) /\ Len(t) = l + 1 /\ \A x \in 1..(l + 1) : t[x] = i + x - 1
  <2>1. t = [x \in 1..(l + 1) |-> i + x - 1]
    BY <1>1 DEF Span
  <2>2. \A x \in 1..(l + 1) : i + x - 1 \in Nat
    OBVIOUS
  <2> HIDE DEF t, l
  <2> QED  BY <1>1, <2>1, <2>2
<1>4. i = m + 1 => s = <<>>
  <2>1. i = m + 1 => l = 0
    OBVIOUS
  <2> HIDE DEF s, l
  <2> QED  BY <1>2, <2>1
<1>5. Turn!Range(s) = i..m
  <2>1. DOMAIN s = 1..l
    <3> HIDE DEF s, l
    <3> QED  BY <1>2
  <2>2. \A k \in i..m : k - i + 1 \in 1..l /\ i + (k - i + 1) - 1 = k
    OBVIOUS
  <2>3. \A x \in 1..l : i + x - 1 \in i..m
    OBVIOUS
  <2> HIDE DEF s, l
  <2>4. \A k \in i..m : k \in Turn!Range(s)
    <3>1. SUFFICES ASSUME NEW k \in i..m PROVE k \in Turn!Range(s)
      OBVIOUS
    <3>2. k - i + 1 \in 1..l /\ s[k - i + 1] = k
      BY <1>2, <2>2
    <3> QED  BY <2>1, <3>2 DEF Turn!Range
  <2>5. \A k \in Turn!Range(s) : k \in i..m
    BY <1>2, <2>1, <2>3 DEF Turn!Range
  <2> QED  BY <2>4, <2>5
<1>6. m + 1 = i + (l + 1) - 1 /\ m + 1 \in Nat /\ l + 1 \in 1..(l + 1) /\ \A x \in 1..(l + 1) : x = l + 1 \/ x \in 1..l
  OBVIOUS
<1> HIDE DEF s, t, l
<1>7. /\ q \in Seq(Nat) /\ Len(q) = l + 1 /\ q[l + 1] = m + 1
      /\ \A x \in 1..l : q[x] = s[x]
  BY <1>1, <1>2, <1>6, AppendProperties
<1> HIDE DEF q
<1>8. \A x \in 1..(l + 1) : q[x] = t[x]
  BY <1>2, <1>3, <1>6, <1>7
<1>9. q = t
  BY <1>3, <1>7, <1>8, SeqEqual
<1> QED  BY <1>2, <1>4, <1>5, <1>9 DEF s, t, q

(* What a frame adds begins after all that was given, with the run that starts  *)
(* the turn or with the frame, and ends with the frame or with one of its run   *)
(* that has its samples.                                                        *)
LEMMA AddedIs ==
  ASSUME heard \in Seq(Frames), NEW f \in Frames, Detects(heard, det), NEW G,
         AudioOfTurns(heard, G, det, pending)
  PROVE  \E i \in 1..(Len(heard) + 1), m \in Len(heard)..(Len(heard) + 1) :
           /\ Turn!TurnAudio(Turn!Update(f), f, Len(heard) + 1) = Span(i, m)
           /\ \A x \in 1..Len(G) : G[x] \in 1..(i - 1)
           /\ Turn!Update(f).started =>
                /\ LastRun(Append(heard, f), i, TRUE)
                /\ m = Len(heard) + 1 \/ \E x \in i..Len(heard) : heard[x] = f
           /\ ~Turn!Update(f).started /\ Turn!Update(f).state \in {"speaking", "stopping"} =>
                m = Len(heard) + 1
           /\ Turn!Update(f).state \in {"quiet", "starting"} => m = Len(heard) /\ i = Len(heard) + 1
<1> DEFINE g == Append(heard, f)
           n == Len(heard)
           u == Turn!Update(f)
           a == Turn!TurnAudio(u, f, n + 1)
<1>1. n \in Nat /\ g \in Seq(Frames)
  BY PastStays, Zenon
<1>2. Detects(g, u)
  BY DetectsNext
<1>3. /\ G \in Seq(Nat) /\ \A x \in 1..Len(G) : G[x] \in 1..n
      /\ det.state # "starting" => pending = <<>>
      /\ det.state = "starting" =>
           \A i : LastRun(heard, i, TRUE) => pending = Span(i, n) /\ \A x \in 1..Len(G) : G[x] \in 1..(i - 1)
  BY DEF AudioOfTurns
<1>4. /\ u.started => f.speech = TRUE /\ det.state \in {"quiet", "starting"} /\ u.state = "speaking"
      /\ u.state \in States
  <2>1. det.state \in States
    BY DEF Detects
  <2>2. u.started <=> f.speech /\ det.state \in {"quiet", "starting"} /\ det.speech + f.ms >= MinSpeech
    BY <2>1, UpdateIs
  <2>3. u.state = IF f.speech
                   THEN IF u.started \/ det.state \in {"stopping", "speaking"} THEN "speaking" ELSE "starting"
                   ELSE IF det.state \in {"speaking", "stopping"} /\ ~u.ended THEN "stopping" ELSE "quiet"
    BY <2>1, UpdateIs
  <2>4. f.speech \in BOOLEAN
    BY FramesLast
  <2>5. u.state \in States
    BY <1>2 DEF Detects
  <2> HIDE DEF u
  <2> QED  BY <2>2, <2>3, <2>4, <2>5
<1>5. a = IF u.started
          THEN IF \E i \in Turn!Range(pending) : heard[i] = f THEN pending ELSE Append(pending, n + 1)
          ELSE IF u.state \in {"speaking", "stopping"} THEN <<n + 1>> ELSE <<>>
  <2> HIDE DEF u
  <2> QED  BY DEF Turn!TurnAudio
<1>6. Span(n + 1, n) = <<>> /\ Append(Span(n + 1, n), n + 1) = Span(n + 1, n + 1)
  <2>1. n + 1 \in Nat \ {0} /\ n + 1 <= n + 1
    BY <1>1
  <2> QED  BY <1>1, <2>1, SpanMore
<1> HIDE DEF a, u
<1>7. CASE u.started
  <2>1. PICK i : LastRun(g, i, TRUE)
    BY <1>2, <1>4, <1>7 DEF Detects
  <2>2. i \in 1..(n + 1)
    <3>1. Len(g) = n + 1
      BY <1>1
    <3> QED  BY <2>1, <3>1 DEF LastRun
  <2>3. \/ det.state = "quiet" /\ i = n + 1
        \/ det.state = "starting" /\ LastRun(heard, i, TRUE)
    BY <1>4, <1>7, <2>1, RunOnTrial
  <2>4. pending = Span(i, n) /\ \A x \in 1..Len(G) : G[x] \in 1..(i - 1)
    <3>1. CASE det.state = "quiet" /\ i = n + 1
      <4>1. i - 1 = n
        BY <1>1, <3>1
      <4> QED  BY <1>3, <1>6, <3>1, <4>1
    <3>2. CASE det.state = "starting" /\ LastRun(heard, i, TRUE)
      BY <1>3, <3>2
    <3> QED  BY <2>3, <3>1, <3>2
  <2>5. i \in Nat \ {0} /\ i <= n + 1 /\ n \in n..(n + 1) /\ n + 1 \in n..(n + 1)
        /\ n # n + 1
    BY <1>1, <2>2
  <2>6. Append(pending, n + 1) = Span(i, n + 1) /\ Turn!Range(pending) = i..n
    BY <1>1, <2>4, <2>5, SpanMore
  <2>7. CASE \E x \in i..n : heard[x] = f
    <3>1. a = Span(i, n)
      BY <1>5, <1>7, <2>4, <2>6, <2>7
    <3> QED  BY <1>4, <1>7, <2>1, <2>2, <2>4, <2>5, <2>7, <3>1 DEF a, u
  <2>8. CASE ~\E x \in i..n : heard[x] = f
    <3>1. a = Span(i, n + 1)
      BY <1>5, <1>7, <2>6, <2>8
    <3> QED  BY <1>4, <1>7, <2>1, <2>2, <2>4, <2>5, <3>1 DEF a, u
  <2> QED  BY <2>7, <2>8
<1>8. CASE ~u.started
  <2>1. /\ n + 1 \in 1..(n + 1) /\ n \in n..(n + 1) /\ n + 1 \in n..(n + 1)
        /\ (n + 1) - 1 = n
    BY <1>1
  <2>2. \A x \in 1..Len(G) : G[x] \in 1..((n + 1) - 1)
    BY <1>3, <2>1
  <2>3. CASE u.state \in {"speaking", "stopping"}
    <3>1. a = Span(n + 1, n + 1)
      BY <1>5, <1>6, <1>8, <2>3
    <3> QED  BY <1>8, <2>1, <2>2, <2>3, <3>1 DEF a, u
  <2>4. CASE u.state \notin {"speaking", "stopping"}
    <3>1. a = Span(n + 1, n)
      BY <1>5, <1>6, <1>8, <2>4
    <3> QED  BY <1>8, <2>1, <2>2, <2>4, <3>1 DEF a, u
  <2> QED  BY <2>3, <2>4
<1> QED  BY <1>7, <1>8

(* What was given of the past stays given.                                      *)
LEMMA GivenStays ==
  ASSUME NEW h \in Seq(Frames), NEW f \in Frames, NEW k \in 1..Len(h), NEW G, InGiven(h, G, k),
         NEW r, k \in Turn!Range(G) => k \in Turn!Range(r)
  PROVE  InGiven(Append(h, f), r, k)
<1> DEFINE g == Append(h, f)
<1>1. /\ Len(h) \in Nat /\ \A j \in 1..Len(h) : g[j] = h[j]
  BY PastStays, Zenon
<1>2. \A i \in Nat \ {0}, j \in Nat : j <= Len(h) => \A b : RunOn(g, i, j, b) = RunOn(h, i, j, b)
  BY TurnsStay, Zenon
<1> HIDE DEF g
<1>3. CASE k \in Turn!Range(G)
  BY <1>3 DEF InGiven, g
<1>4. CASE \E i \in 1..(k - 1) : h[i] = h[k] /\ RunOn(h, i, k, TRUE)
  <2>1. PICK i \in 1..(k - 1) : h[i] = h[k] /\ RunOn(h, i, k, TRUE)
    BY <1>4
  <2>2. i \in 1..Len(h) /\ i \in Nat \ {0} /\ k \in Nat /\ k <= Len(h)
    BY <1>1, <2>1
  <2>3. g[i] = g[k] /\ RunOn(g, i, k, TRUE)
    BY <1>1, <1>2, <2>1, <2>2
  <2> QED  BY <2>1, <2>3 DEF InGiven, g
<1> QED  BY <1>3, <1>4 DEF InGiven

(* The session is given the frames of turns with every frame.                   *)
LEMMA AudioNext ==
  ASSUME heard \in Seq(Frames), NEW f \in Frames, Detects(heard, det), NEW G,
         AudioOfTurns(heard, G, det, pending)
  PROVE  AudioOfTurns(Append(heard, f), G \o Turn!TurnAudio(Turn!Update(f), f, Len(heard) + 1),
                      Turn!Update(f),
                      IF Turn!Update(f).state = "starting" THEN Append(pending, Len(heard) + 1) ELSE <<>>)
<1> DEFINE g == Append(heard, f)
           n == Len(heard)
           u == Turn!Update(f)
           r == G \o Turn!TurnAudio(u, f, n + 1)
           p == IF u.state = "starting" THEN Append(pending, n + 1) ELSE <<>>
<1>1. /\ g \in Seq(Frames) /\ Len(g) = n + 1 /\ n \in Nat /\ g[n + 1] = f
      /\ \A k \in 1..n : g[k] = heard[k]
  BY PastStays, Zenon
<1>2. Detects(g, u)
  BY DetectsNext
<1>3. /\ G \in Seq(Nat) /\ Rises(G) /\ \A x \in 1..Len(G) : G[x] \in 1..n
      /\ det.state # "starting" => pending = <<>>
      /\ det.state = "starting" =>
           \A i : LastRun(heard, i, TRUE) => pending = Span(i, n) /\ \A x \in 1..Len(G) : G[x] \in 1..(i - 1)
      /\ \A k \in 1..n : OfTurnOn(heard, k) => InGiven(heard, G, k)
  BY DEF AudioOfTurns
<1>4. /\ u.started => det.state \in {"quiet", "starting"}
      /\ u.state \in {"speaking", "stopping"} /\ det.state \in {"quiet", "starting"} => u.started
      /\ u.state = "starting" => f.speech = TRUE /\ det.state \in {"quiet", "starting"}
      /\ u.state \in States /\ det.state \in States
  <2>1. det.state \in States
    BY DEF Detects
  <2>2. u.started <=> f.speech /\ det.state \in {"quiet", "starting"} /\ det.speech + f.ms >= MinSpeech
    BY <2>1, UpdateIs
  <2>3. u.state = IF f.speech
                   THEN IF u.started \/ det.state \in {"stopping", "speaking"} THEN "speaking" ELSE "starting"
                   ELSE IF det.state \in {"speaking", "stopping"} /\ ~u.ended THEN "stopping" ELSE "quiet"
    BY <2>1, UpdateIs
  <2>4. f.speech \in BOOLEAN
    BY FramesLast
  <2>5. u.state \in States
    BY <1>2 DEF Detects
  <2> HIDE DEF u
  <2> QED  BY <2>1, <2>2, <2>3, <2>4, <2>5 DEF States
<1>5. PICK i \in 1..(n + 1), m \in n..(n + 1) :
           /\ Turn!TurnAudio(u, f, n + 1) = Span(i, m)
           /\ \A x \in 1..Len(G) : G[x] \in 1..(i - 1)
           /\ u.started => LastRun(g, i, TRUE) /\ (m = n + 1 \/ \E x \in i..n : heard[x] = f)
           /\ ~u.started /\ u.state \in {"speaking", "stopping"} => m = n + 1
           /\ u.state \in {"quiet", "starting"} => m = n /\ i = n + 1
  BY AddedIs
<1>6. i \in Nat \ {0} /\ m \in Nat /\ i <= m + 1 /\ i <= n + 1 /\ (m = n \/ m = n + 1)
  BY <1>1, <1>5
<1>7. r = G \o Span(i, m)
  BY <1>5
<1>8. /\ r \in Seq(Nat) /\ Rises(r) /\ \A x \in 1..Len(r) : r[x] \in 1..m
      /\ \A k \in Turn!Range(G) \cup (i..m) : k \in Turn!Range(r)
  <2> HIDE DEF r
  <2> QED  BY <1>3, <1>5, <1>6, <1>7, SpanAdds
<1> HIDE DEF r, u, g
<1>9. \A x \in 1..Len(r) : r[x] \in 1..(n + 1)
  <2>1. \A k \in 1..m : k \in 1..(n + 1)
    BY <1>1, <1>6
  <2> QED  BY <1>8, <2>1
<1>10. ASSUME u.state = "starting", NEW k, LastRun(g, k, TRUE)
       PROVE  p = Span(k, n + 1) /\ \A x \in 1..Len(r) : r[x] \in 1..(k - 1)
  <2>1. \/ det.state = "quiet" /\ k = n + 1
        \/ det.state = "starting" /\ LastRun(heard, k, TRUE)
    BY <1>4, <1>10, RunOnTrial DEF g
  <2>2. r = G
    <3>1. i = n + 1 /\ m = n
      BY <1>5, <1>10
    <3>2. Span(n + 1, n) = <<>>
      <4>1. n + 1 \in Nat \ {0} /\ n + 1 <= n + 1
        BY <1>1
      <4> QED  BY <1>1, <4>1, SpanMore
    <3> QED  BY <1>3, <1>7, <3>1, <3>2, ConcatEmptySeq
  <2>3. k \in Nat \ {0} /\ k <= n + 1
    BY <1>1, <1>10 DEF LastRun
  <2>4. Append(Span(k, n), n + 1) = Span(k, n + 1) /\ (k = n + 1 => Span(k, n) = <<>>)
    BY <1>1, <2>3, SpanMore
  <2>5. pending = Span(k, n) /\ \A x \in 1..Len(G) : G[x] \in 1..(k - 1)
    <3>1. CASE det.state = "quiet" /\ k = n + 1
      <4>1. k - 1 = n
        BY <1>1, <3>1
      <4> QED  BY <1>3, <2>4, <3>1, <4>1
    <3>2. CASE det.state = "starting" /\ LastRun(heard, k, TRUE)
      BY <1>3, <3>2
    <3> QED  BY <2>1, <3>1, <3>2
  <2> QED  BY <1>10, <2>2, <2>4, <2>5
<1>11. ASSUME NEW k \in 1..(n + 1), OfTurnOn(g, k)
       PROVE  InGiven(g, r, k)
  <2>1. /\ u.state \in {"speaking", "stopping"} <=> InTurnOn(g, n + 1)
        /\ det.state \in {"speaking", "stopping"} <=> InTurnOn(heard, n)
    <3>1. det.state \in {"speaking", "stopping"} <=> InTurnOn(heard, n)
      BY DEF Detects
    <3> QED  BY <1>1, <1>2, <3>1 DEF Detects
  <2>2. \/ k \in 1..n /\ OfTurnOn(heard, k)
        \/ k = n + 1 /\ InTurnOn(heard, n) /\ InTurnOn(g, n + 1)
        \/ /\ ~InTurnOn(heard, n) /\ InTurnOn(g, n + 1)
           /\ \E j \in 1..k : LastRun(g, j, TRUE)
    BY <1>11, OfTurnNext DEF g
  <2>3. CASE k \in 1..n /\ OfTurnOn(heard, k)
    <3>1. InGiven(heard, G, k)
      BY <1>3, <2>3
    <3>2. k \in Turn!Range(G) => k \in Turn!Range(r)
      BY <1>8
    <3> QED  BY <2>3, <3>1, <3>2, GivenStays DEF g
  <2>4. CASE k = n + 1 /\ InTurnOn(heard, n) /\ InTurnOn(g, n + 1)
    <3>1. ~u.started /\ u.state \in {"speaking", "stopping"}
      BY <1>4, <2>1, <2>4
    <3>2. k \in i..m
      BY <1>1, <1>5, <1>6, <2>4, <3>1
    <3> QED  BY <1>8, <3>2 DEF InGiven
  <2>5. CASE /\ ~InTurnOn(heard, n) /\ InTurnOn(g, n + 1)
             /\ \E j \in 1..k : LastRun(g, j, TRUE)
    <3>1. u.started
      BY <1>4, <2>1, <2>5 DEF States
    <3>2. LastRun(g, i, TRUE) /\ (m = n + 1 \/ \E x \in i..n : heard[x] = f)
      BY <1>5, <3>1
    <3>3. i \in 1..k
      BY <1>1, <2>5, <3>2, LastRunIsLongest
    <3>4. CASE k \in i..m
      BY <1>8, <3>4 DEF InGiven
    <3>5. CASE k \notin i..m
      <4>1. k = n + 1 /\ m = n
        BY <1>1, <1>6, <3>3, <3>5
      <4>2. PICK x \in i..n : heard[x] = f
        BY <1>1, <3>2, <4>1
      <4>3. x \in 1..n /\ x \in 1..(k - 1) /\ \A j \in x..k : j \in i..(n + 1)
        BY <1>1, <1>6, <4>1, <4>2
      <4>4. g[x] = g[k]
        BY <1>1, <4>1, <4>2, <4>3
      <4>5. RunOn(g, i, n + 1, TRUE)
        BY <1>1, <3>2 DEF LastRun
      <4>6. RunOn(g, x, k, TRUE)
        BY <4>3, <4>5 DEF RunOn
      <4> QED  BY <4>3, <4>4, <4>6 DEF InGiven
    <3> QED  BY <3>4, <3>5
  <2> QED  BY <2>2, <2>3, <2>4, <2>5
<1>12. u.state # "starting" => p = <<>>
  OBVIOUS
<1> HIDE DEF p, n
<1>13. AudioOfTurns(g, r, u, p)
  BY <1>1, <1>8, <1>9, <1>10, <1>11, <1>12 DEF AudioOfTurns
<1> QED  BY <1>13 DEF g, r, u, p, n

(* The loop of Length.                                                          *)
LengthStep(seq, h, g, T) == IF T = {} THEN 0 ELSE h[seq[Picked(T)]].ms + g[T \ {Picked(T)}]

LengthLoop(seq, h) == CHOOSE g : g = [T \in SUBSET DOMAIN seq |-> LengthStep(seq, h, g, T)]

(* What the session is given lasts a number of units.                           *)
LEMMA LengthIsNat ==
  ASSUME NEW h \in Seq(Frames), NEW seq \in Seq(1..Len(h))
  PROVE  Turn!Length(seq, h) \in Nat
<1> DEFINE n == Len(seq)
           v == [k \in 1..n |-> h[seq[k]].ms]
           m == LengthLoop(seq, h)
<1>1. n \in Nat /\ DOMAIN seq = 1..n
  OBVIOUS
<1>2. \A k \in 1..n : v[k] = h[seq[k]].ms /\ v[k] \in Nat
  <2>1. \A k \in 1..n : seq[k] \in 1..Len(h)
    OBVIOUS
  <2>2. \A k \in 1..n : h[seq[k]] \in Frames
    BY <2>1
  <2> QED  BY <2>2, FramesLast
<1>3. ASSUME NEW g, NEW T \in SUBSET (1..n)
      PROVE  SumStep(v, g, T) = LengthStep(seq, h, g, T)
  <2>1. T # {} => Picked(T) \in 1..n
    BY DEF Picked
  <2>2. T # {} => v[Picked(T)] = h[seq[Picked(T)]].ms
    BY <2>1, <1>2
  <2> HIDE DEF v
  <2> QED  BY <2>2 DEF SumStep, LengthStep
<1> HIDE DEF n, v
<1>4. PICK g : IsSum(v, n, g)
  BY <1>1, SumExists
<1>5. g = [T \in SUBSET DOMAIN seq |-> LengthStep(seq, h, g, T)]
  BY <1>1, <1>3, <1>4 DEF IsSum
<1>6. m = [T \in SUBSET DOMAIN seq |-> LengthStep(seq, h, m, T)]
  BY <1>5 DEF LengthLoop
<1>7. Turn!Length(seq, h) = m[DOMAIN seq]
  BY DEF Turn!Length, Turn!FoldSeq, Turn!FoldFunction, Turn!FoldFunctionOnSet, Turn!MapThenFoldSet,
         LengthLoop, LengthStep, Picked
<1> HIDE DEF m
<1>8. IsSum(v, n, m)
  BY <1>1, <1>3, <1>6 DEF IsSum
<1>9. 1..n \in SUBSET (1..n) /\ \A k \in 1..n : v[k] \in Nat
  BY <1>2
<1>10. m[1..n] \in Nat
  BY <1>1, <1>8, <1>9, SumTakes
<1> QED  BY <1>1, <1>7, <1>10

DetectorType ==
  [state : States, speech : Nat, silence : Nat, turn : [DOMAIN Turn!NoStats -> Nat]]

(* The frames, the detector and the audio of the turns.                         *)
TurnShape ==
  /\ heard \in Seq(Frames) /\ Len(heard) <= MaxFrames
  /\ det \in DetectorType
  /\ pending \in Seq(1..Len(heard)) /\ audio \in Seq(1..Len(heard)) /\ commits \in Seq(Committed)
  /\ turnId \in 0..Len(heard) /\ size \in Nat /\ failed \in BOOLEAN
  /\ hasAudio = (audio # <<>>)
  /\ \A s \in stats : s.turn \in 1..turnId
  /\ det.state \in {"speaking", "stopping"} => turnId # 0
  /\ det.state \in {"quiet", "starting"} => audio = <<>>

TurnInv ==
  /\ TurnShape
  /\ Detects(heard, det) /\ StatsOfTurn(heard, det)
  /\ AudioOfTurns(heard, GivenOf(commits, audio), det, pending)

(* Statistics that count one frame more are statistics.                         *)
LEMMA CountedType ==
  ASSUME NEW f \in Frames, NEW of \in [DOMAIN Turn!NoStats -> Nat]
  PROVE  Turn!Counted(of, f) \in [DOMAIN Turn!NoStats -> Nat] /\ Turn!NoStats \in [DOMAIN Turn!NoStats -> Nat]
<1>1. f.ms \in Nat
  BY FramesLast
<1>2. DOMAIN Turn!NoStats = {"speech", "total", "speechFrames", "frames"}
  BY DEF Turn!NoStats
<1>3. of.speech \in Nat /\ of.total \in Nat /\ of.speechFrames \in Nat /\ of.frames \in Nat
  BY <1>2
<1>4. Turn!NoStats \in [DOMAIN Turn!NoStats -> Nat]
  BY <1>2 DEF Turn!NoStats
<1>5. Turn!Counted(of, f) \in [{"speech", "total", "speechFrames", "frames"} -> Nat]
  BY <1>1, <1>3 DEF Turn!Counted
<1> QED  BY <1>2, <1>4, <1>5

(* The detector stays one.                                                      *)
LEMMA UpdateType ==
  ASSUME NEW f \in Frames, det \in DetectorType
  PROVE  [state |-> Turn!Update(f).state, speech |-> Turn!Update(f).speech,
          silence |-> Turn!Update(f).silence, turn |-> Turn!Update(f).turn] \in DetectorType
<1> DEFINE u == Turn!Update(f)
           Stats == [DOMAIN Turn!NoStats -> Nat]
<1>1. /\ det.state \in States /\ det.speech \in Nat /\ det.silence \in Nat /\ det.turn \in Stats
  BY DEF DetectorType
<1>2. f.ms \in Nat /\ f.speech \in BOOLEAN
  BY FramesLast
<1>3. \A of \in Stats : Turn!Counted(of, f) \in Stats
  BY CountedType
<1>4. Turn!NoStats \in Stats
  BY <1>1, CountedType
<1>5. u.state \in States
  <2>1. u.state = IF f.speech
                   THEN IF u.started \/ det.state \in {"stopping", "speaking"} THEN "speaking" ELSE "starting"
                   ELSE IF det.state \in {"speaking", "stopping"} /\ ~u.ended THEN "stopping" ELSE "quiet"
    BY <1>1, UpdateIs
  <2> HIDE DEF u
  <2> QED  BY <2>1 DEF States
<1>6. u.speech \in Nat
  <2>1. u.speech = IF f.speech THEN det.speech + f.ms ELSE 0
    BY <1>1, UpdateIs
  <2> HIDE DEF u
  <2> QED  BY <1>1, <1>2, <2>1
<1>7. u.silence \in Nat
  <2>1. /\ f.speech => u.silence = 0
        /\ ~f.speech => u.silence =
              IF u.ended THEN 0
              ELSE IF det.state = "speaking" THEN f.ms
              ELSE IF det.state = "stopping" THEN det.silence + f.ms ELSE det.silence
    BY <1>1, UpdateIs
  <2> HIDE DEF u
  <2> QED  BY <1>1, <1>2, <2>1
<1>8. u.turn \in Stats
  <2>1. u.turn = IF f.speech
                  THEN Turn!Counted(IF det.state = "quiet" THEN Turn!NoStats ELSE det.turn, f)
                  ELSE IF det.state \in {"speaking", "stopping"} THEN Turn!Counted(det.turn, f)
                  ELSE IF det.state = "starting" THEN Turn!NoStats ELSE det.turn
    BY <1>1, UpdateIs
  <2> HIDE DEF u, Stats
  <2> QED  BY <1>1, <1>3, <1>4, <2>1
<1> HIDE DEF u
<1> QED  BY <1>5, <1>6, <1>7, <1>8 DEF DetectorType, u

(* A commit takes the audio it is given, and leaves entries of its turn or of   *)
(* those that had one.                                                          *)
LEMMA FinalizeIs ==
  ASSUME NEW t, NEW known, NEW current, NEW sent \in Seq(Nat),
         Turn!FinalizeTurn(t, known, current, sent)
  PROVE  /\ \E r \in Committed : r.audio = sent /\ commits' = Append(commits, r)
         /\ \A s \in stats' : s.turn = t \/ s \in known
<1>1. PICK words \in Transcripts :
        LET of      == Turn!StatsOf(known, t, current)
            verdict == IF Turn!IsNoise(of, words) THEN "ignored"
                       ELSE IF words = "backchannel" THEN "backchannel" ELSE "accepted"
        IN  /\ commits' = Append(commits, [audio |-> sent, verdict |-> verdict])
            /\ stats' = IF verdict = "backchannel"
                        THEN known \cup {[turn |-> t, of |-> of]}
                        ELSE {s \in known : s.turn # t}
  BY DEF Turn!FinalizeTurn
<1> DEFINE verdict == IF Turn!IsNoise(Turn!StatsOf(known, t, current), words) THEN "ignored"
                      ELSE IF words = "backchannel" THEN "backchannel" ELSE "accepted"
           r == [audio |-> sent, verdict |-> verdict]
<1>2. commits' = Append(commits, r)
  BY <1>1
<1>3. verdict \in {"ignored", "backchannel", "accepted"}
  OBVIOUS
<1>4. \A s \in stats' : s.turn = t \/ s \in known
  BY <1>1
<1> HIDE DEF verdict
<1>5. r \in Committed /\ r.audio = sent
  BY <1>3 DEF Committed
<1> QED  BY <1>2, <1>4, <1>5

(* A frame that is handled leaves the turns in order.                           *)
LEMMA TurnHears ==
  ASSUME TurnInv, Turn!Hear
  PROVE  TurnInv'
<1> DEFINE n == Len(heard)
           G == GivenOf(commits, audio)
<1>1. PICK f \in Frames :
       LET u      == Turn!Update(f)
           now    == Len(heard) + 1
           added  == Turn!TurnAudio(u, f, now)
           length == (IF u.started THEN 0 ELSE size) + Turn!Length(added, heard')
           entry  == [turn |-> turnId, of |-> u.turn]
           sent   == audio \o added
       IN  /\ heard' = Append(heard, f)
           /\ det' = [state |-> u.state, speech |-> u.speech, silence |-> u.silence, turn |-> u.turn]
           /\ turnId' = IF u.started THEN turnId + 1 ELSE turnId
           /\ pending' = IF u.state = "starting" THEN Append(pending, now) ELSE <<>>
           /\ failed' = (length > MaxTurnAudio)
           /\ IF u.ended /\ hasAudio
              THEN /\ Turn!FinalizeTurn(turnId, {s \in stats : s.turn # turnId} \cup {entry}, u.turn, sent)
                   /\ audio' = <<>> /\ hasAudio' = FALSE /\ size' = 0
              ELSE /\ stats' = IF u.ended THEN {s \in stats : s.turn # turnId} \cup {entry} ELSE stats
                   /\ audio' = sent
                   /\ hasAudio' = ((hasAudio /\ ~u.started) \/ added # <<>>)
                   /\ size' = length
                   /\ UNCHANGED commits
  BY DEF Turn!Hear
<1> DEFINE u      == Turn!Update(f)
           added  == Turn!TurnAudio(u, f, n + 1)
           length == (IF u.started THEN 0 ELSE size) + Turn!Length(added, heard')
           entry  == [turn |-> turnId, of |-> u.turn]
           sent   == audio \o added
           known  == {s \in stats : s.turn # turnId} \cup {entry}
           g      == Append(heard, f)
<1>2. /\ heard' = g
      /\ det' = [state |-> u.state, speech |-> u.speech, silence |-> u.silence, turn |-> u.turn]
      /\ turnId' = IF u.started THEN turnId + 1 ELSE turnId
      /\ pending' = IF u.state = "starting" THEN Append(pending, n + 1) ELSE <<>>
      /\ failed' = (length > MaxTurnAudio)
      /\ u.ended /\ hasAudio => /\ Turn!FinalizeTurn(turnId, known, u.turn, sent)
                                /\ audio' = <<>> /\ hasAudio' = FALSE /\ size' = 0
      /\ ~(u.ended /\ hasAudio) =>
           /\ stats' = IF u.ended THEN known ELSE stats
           /\ audio' = sent /\ hasAudio' = ((hasAudio /\ ~u.started) \/ added # <<>>)
           /\ size' = length /\ commits' = commits
  BY <1>1
<1>3. n < MaxFrames
  BY DEF Turn!Hear
<1>4. /\ heard \in Seq(Frames) /\ n <= MaxFrames /\ det \in DetectorType
      /\ pending \in Seq(1..n) /\ audio \in Seq(1..n) /\ commits \in Seq(Committed)
      /\ turnId \in 0..n /\ size \in Nat /\ failed \in BOOLEAN
      /\ hasAudio = (audio # <<>>)
      /\ \A s \in stats : s.turn \in 1..turnId
      /\ det.state \in {"speaking", "stopping"} => turnId # 0
      /\ det.state \in {"quiet", "starting"} => audio = <<>>
  BY DEF TurnInv, TurnShape
<1>5. Detects(heard, det) /\ StatsOfTurn(heard, det) /\ AudioOfTurns(heard, G, det, pending)
  BY DEF TurnInv
<1>6. /\ g \in Seq(Frames) /\ Len(g) = n + 1 /\ n \in Nat
  BY <1>4, PastStays, Zenon
<1>7. MaxFrames \in Nat
  BY CallAssumption DEF Turn!TurnAssumption
<1>8. /\ u.started => /\ det.state \in {"quiet", "starting"} /\ u.state = "speaking" /\ u.ended = FALSE
      /\ u.ended => det.state = "stopping"
      /\ u.state \in {"speaking", "stopping"} => u.started \/ det.state \in {"speaking", "stopping"}
      /\ u.state \in {"quiet", "starting"} => det.state \in {"quiet", "starting"} \/ u.ended
      /\ u.state = "starting" => det.state \in {"quiet", "starting"}
      /\ u.started \in BOOLEAN /\ u.ended \in BOOLEAN /\ u.state \in States
  <2>1. det.state \in States
    BY <1>5 DEF Detects
  <2>2. /\ u.started <=> f.speech /\ det.state \in {"quiet", "starting"} /\ det.speech + f.ms >= MinSpeech
        /\ u.started \in BOOLEAN /\ u.ended \in BOOLEAN
    BY <2>1, UpdateIs
  <2>3. u.ended <=> ~f.speech /\ det.state = "stopping" /\ det.silence + f.ms >= EndSilence
    BY <2>1, UpdateIs
  <2>4. u.state = IF f.speech
                   THEN IF u.started \/ det.state \in {"stopping", "speaking"} THEN "speaking" ELSE "starting"
                   ELSE IF det.state \in {"speaking", "stopping"} /\ ~u.ended THEN "stopping" ELSE "quiet"
    BY <2>1, UpdateIs
  <2>5. f.speech \in BOOLEAN
    BY FramesLast
  <2> HIDE DEF u
  <2> QED  BY <2>1, <2>2, <2>3, <2>4, <2>5 DEF States
<1>9. Detects(g, u) /\ StatsOfTurn(g, u)
  BY <1>4, <1>5, DetectsNext, StatsNext
<1>10. AudioOfTurns(g, G \o added, u, pending')
  <2>1. AudioOfTurns(g, G \o added, u, IF u.state = "starting" THEN Append(pending, n + 1) ELSE <<>>)
    <3> HIDE DEF G
    <3> QED  BY <1>4, <1>5, AudioNext
  <2> HIDE DEF g, u, added, G
  <2> QED  BY <1>2, <2>1
<1>11. det' \in DetectorType
  BY <1>2, <1>4, UpdateType
<1>12. PICK i \in 1..(n + 1), m \in n..(n + 1) :
           /\ added = Span(i, m)
           /\ u.started => LastRun(g, i, TRUE) /\ (m = n + 1 \/ \E x \in i..n : heard[x] = f)
           /\ u.state \in {"quiet", "starting"} => m = n /\ i = n + 1
  <2> HIDE DEF G
  <2> QED  BY <1>4, <1>5, AddedIs
<1> HIDE DEF u, added, g, G
<1>13. /\ i \in Nat \ {0} /\ m \in Nat /\ i <= m + 1
       /\ added = [x \in 1..(m - i + 1) |-> i + x - 1]
       /\ \A x \in 1..(m - i + 1) : i + x - 1 \in 1..(n + 1)
       /\ m - i + 1 \in Nat
  BY <1>6, <1>12 DEF Span
<1>14. added \in Seq(1..(n + 1)) /\ added \in Seq(Nat)
  <2> DEFINE l == m - i + 1
  <2>1. \A x \in 1..l : i + x - 1 \in Nat
    BY <1>13
  <2> HIDE DEF l
  <2> QED  BY <1>13, <2>1 DEF l
<1>15. u.state \in {"quiet", "starting"} => added = <<>>
  <2>1. n + 1 \in Nat \ {0} /\ n + 1 <= n + 1
    BY <1>6
  <2>2. Span(n + 1, n) = <<>>
    BY <1>6, <2>1, SpanMore
  <2> QED  BY <1>12, <2>2
<1>16. \A S, T : S \subseteq T => Seq(S) \subseteq Seq(T)
  OBVIOUS
<1>17. /\ audio \in Seq(1..(n + 1)) /\ pending \in Seq(1..(n + 1)) /\ audio \in Seq(Nat)
  <2>1. 1..n \subseteq 1..(n + 1) /\ 1..n \subseteq Nat
    BY <1>6
  <2> QED  BY <1>4, <1>16, <2>1
<1>18. sent \in Seq(1..(n + 1)) /\ sent \in Seq(Nat)
  BY <1>14, <1>17
<1>19. pending' \in Seq(1..(n + 1))
  <2>1. n + 1 \in 1..(n + 1)
    BY <1>6
  <2>2. Append(pending, n + 1) \in Seq(1..(n + 1)) /\ <<>> \in Seq(1..(n + 1))
    BY <1>17, <2>1
  <2> QED  BY <1>2, <2>2
<1>20. length \in Nat
  <2>1. Turn!Length(added, g) \in Nat
    BY <1>6, <1>14, LengthIsNat
  <2> DEFINE x == Turn!Length(added, heard')
             y == IF u.started THEN 0 ELSE size
  <2>2. x \in Nat
    BY <1>2, <2>1
  <2>3. y \in Nat
    BY <1>4
  <2> HIDE DEF x, y
  <2>4. x \in Nat /\ y \in Nat => y + x \in Nat
    OBVIOUS
  <2> QED  BY <2>2, <2>3, <2>4 DEF x, y
<1>21. MaxTurnAudio \in Nat
  BY CallAssumption DEF Turn!TurnAssumption
<1>22. failed' \in BOOLEAN
  <2> HIDE DEF length
  <2> QED  BY <1>2
<1>23. turnId' \in 0..(n + 1) /\ turnId' >= turnId /\ turnId \in Nat
       /\ (u.state \in {"speaking", "stopping"} => turnId' # 0)
  BY <1>2, <1>4, <1>6, <1>8
<1>24. det'.state = u.state /\ det'.speech = u.speech /\ det'.silence = u.silence /\ det'.turn = u.turn
  BY <1>2
<1>25. /\ commits' \in Seq(Committed) /\ audio' \in Seq(1..(n + 1)) /\ size' \in Nat
       /\ hasAudio' = (audio' # <<>>)
       /\ GivenOf(commits', audio') = G \o added
       /\ u.state \in {"quiet", "starting"} => audio' = <<>>
       /\ \A s \in stats' : s \in stats \/ (s.turn = turnId /\ u.ended)
  <2> HIDE DEF length
  <2>1. \A s \in known : s \in stats \/ s.turn = turnId
    OBVIOUS
  <2>2. ASSUME NEW r \in Committed, r.audio = sent
        PROVE  /\ GivenOf(commits, sent) = G \o added
               /\ GivenOf(Append(commits, r), <<>>) = G \o added
    BY <1>4, <1>14, <1>17, <2>2, GivenMore DEF G
  <2>3. CASE u.ended /\ hasAudio
    <3> HIDE DEF sent, known
    <3>1. /\ Turn!FinalizeTurn(turnId, known, u.turn, sent)
          /\ audio' = <<>> /\ hasAudio' = FALSE /\ size' = 0
      BY <1>2, <2>3
    <3>2. PICK r \in Committed : r.audio = sent /\ commits' = Append(commits, r)
      BY <1>18, <3>1, FinalizeIs
    <3>3. \A s \in stats' : s.turn = turnId \/ s \in known
      BY <1>18, <3>1, FinalizeIs
    <3>4. commits' \in Seq(Committed) /\ <<>> \in Seq(1..(n + 1)) /\ 0 \in Nat
      BY <1>4, <3>2
    <3>5. GivenOf(commits', <<>>) = G \o added
      BY <2>2, <3>2
    <3> QED  BY <2>1, <2>3, <3>1, <3>3, <3>4, <3>5
  <2>4. CASE ~(u.ended /\ hasAudio)
    <3>1. /\ stats' = IF u.ended THEN known ELSE stats
          /\ audio' = sent /\ hasAudio' = ((hasAudio /\ ~u.started) \/ added # <<>>)
          /\ size' = length /\ commits' = commits
      BY <1>2, <2>4
    <3>2. GivenOf(commits', audio') = G \o added
      <4> DEFINE r == [audio |-> sent, verdict |-> "ignored"]
      <4>1. r \in Committed /\ r.audio = sent
        <5> HIDE DEF sent
        <5> QED  BY <1>18 DEF Committed
      <4> HIDE DEF r, sent
      <4>2. GivenOf(commits, sent) = G \o added
        BY <2>2, <4>1
      <4> QED  BY <3>1, <4>2
    <3>3. sent = <<>> <=> audio = <<>> /\ added = <<>>
      BY <1>14, <1>17, ConcatEqualIffEmpty
    <3>4. hasAudio' = (audio' # <<>>)
      <4>1. u.started => audio = <<>>
        BY <1>4, <1>8
      <4> HIDE DEF sent
      <4> QED  BY <1>4, <3>1, <3>3, <4>1
    <3>5. u.state \in {"quiet", "starting"} => audio' = <<>>
      <4>1. u.state \in {"quiet", "starting"} => audio = <<>>
        BY <1>4, <1>8, <2>4
      <4> HIDE DEF sent
      <4> QED  BY <1>15, <3>1, <3>3, <4>1
    <3>6. \A s \in stats' : s \in stats \/ (s.turn = turnId /\ u.ended)
      <4> HIDE DEF known
      <4> QED  BY <1>8, <2>1, <3>1
    <3> HIDE DEF sent
    <3> QED  BY <1>4, <1>18, <1>20, <3>1, <3>2, <3>4, <3>5, <3>6 DEF length
  <2> QED  BY <2>3, <2>4
<1>26. \A s \in stats' : s.turn \in 1..turnId'
  <2>1. SUFFICES ASSUME NEW s \in stats' PROVE s.turn \in 1..turnId'
    OBVIOUS
  <2>2. s.turn \in 1..turnId
    <3>1. CASE s \in stats
      BY <1>4, <3>1
    <3>2. CASE s.turn = turnId /\ u.ended
      <4>1. turnId # 0
        BY <1>4, <1>8, <3>2
      <4> QED  BY <1>23, <3>2, <4>1
    <3> QED  BY <1>25, <2>1, <3>1, <3>2
  <2>3. turnId' \in Nat
    BY <1>23
  <2> QED  BY <1>23, <2>2, <2>3
<1>27. Len(heard') = n + 1 /\ heard' \in Seq(Frames) /\ n + 1 <= MaxFrames
  BY <1>2, <1>3, <1>6, <1>7
<1>28. TurnShape'
  BY <1>11, <1>19, <1>22, <1>23, <1>24, <1>25, <1>26, <1>27 DEF TurnShape
<1>29. Detects(heard', det') /\ StatsOfTurn(heard', det')
  BY <1>2, <1>9, <1>24 DEF Detects, StatsOfTurn
<1>30. AudioOfTurns(heard', GivenOf(commits', audio'), det', pending')
  BY <1>2, <1>10, <1>24, <1>25 DEF AudioOfTurns
<1> QED  BY <1>28, <1>29, <1>30 DEF TurnInv, Detects, StatsOfTurn, AudioOfTurns, GivenOf

(* So does a commit by message, which the detector is not told of.              *)
LEMMA TurnIsEnded ==
  ASSUME TurnInv, Turn!EndTurn
  PROVE  TurnInv'
<1> DEFINE n == Len(heard)
           G == GivenOf(commits, audio)
           known == IF \E s \in stats : s.turn = turnId THEN stats
                    ELSE stats \cup {[turn |-> turnId, of |-> det.turn]}
<1>1. /\ hasAudio /\ Turn!FinalizeTurn(turnId, known, det.turn, audio)
      /\ heard' = heard /\ det' = det /\ pending' = pending /\ turnId' = turnId /\ failed' = failed
      /\ audio' = <<>> /\ hasAudio' = FALSE /\ size' = 0
  BY DEF Turn!EndTurn
<1>2. /\ heard \in Seq(Frames) /\ n <= MaxFrames /\ det \in DetectorType
      /\ pending \in Seq(1..n) /\ audio \in Seq(1..n) /\ commits \in Seq(Committed)
      /\ turnId \in 0..n /\ size \in Nat /\ failed \in BOOLEAN
      /\ hasAudio = (audio # <<>>)
      /\ \A s \in stats : s.turn \in 1..turnId
      /\ det.state \in {"speaking", "stopping"} => turnId # 0
      /\ det.state \in {"quiet", "starting"} => audio = <<>>
  BY DEF TurnInv, TurnShape
<1>3. Detects(heard, det) /\ StatsOfTurn(heard, det) /\ AudioOfTurns(heard, G, det, pending)
  BY DEF TurnInv
<1>4. audio \in Seq(Nat) /\ <<>> \in Seq(Nat) /\ <<>> \in Seq(1..n) /\ 0 \in Nat
  <2>1. 1..n \subseteq Nat
    OBVIOUS
  <2>2. \A S, T : S \subseteq T => Seq(S) \subseteq Seq(T)
    OBVIOUS
  <2> QED  BY <1>2, <2>1, <2>2
<1>5. turnId \in 1..turnId
  <2>1. det.state \in States
    BY <1>3 DEF Detects
  <2>2. det.state \in {"speaking", "stopping"}
    BY <1>1, <1>2, <2>1 DEF States
  <2> QED  BY <1>2, <2>2
<1>6. \A s \in known : s.turn \in 1..turnId
  BY <1>2, <1>5
<1> HIDE DEF known, G
<1>7. PICK r \in Committed : r.audio = audio /\ commits' = Append(commits, r)
  BY <1>1, <1>4, FinalizeIs
<1>8. \A s \in stats' : s.turn = turnId \/ s \in known
  BY <1>1, <1>4, FinalizeIs
<1>9. \A s \in stats' : s.turn \in 1..turnId'
  BY <1>1, <1>5, <1>6, <1>8
<1>10. commits' \in Seq(Committed)
  BY <1>2, <1>7
<1>11. GivenOf(commits', audio') = G
  <2>1. audio \o <<>> = audio
    BY <1>4, ConcatEmptySeq
  <2>2. /\ G \in Seq(Nat)
        /\ GivenOf(Append(commits, r), <<>>) = G \o <<>>
    BY <1>2, <1>4, <1>7, <2>1, GivenMore DEF G
  <2>3. G \o <<>> = G
    BY <2>2, ConcatEmptySeq
  <2> QED  BY <1>1, <1>7, <2>2, <2>3
<1>12. TurnShape'
  BY <1>1, <1>2, <1>4, <1>9, <1>10 DEF TurnShape
<1> QED  BY <1>1, <1>3, <1>11, <1>12 DEF TurnInv, Detects, StatsOfTurn, AudioOfTurns, GivenOf

(* The call begins with no frame.                                               *)
LEMMA TurnBegins ==
  ASSUME Turn!Init
  PROVE  TurnInv
<1>1. /\ heard = <<>> /\ pending = <<>> /\ audio = <<>> /\ commits = <<>>
      /\ det = [state |-> "quiet", speech |-> 0, silence |-> 0, turn |-> Turn!NoStats]
      /\ turnId = 0 /\ size = 0 /\ hasAudio = FALSE /\ failed = FALSE /\ stats = {}
  BY DEF Turn!Init
<1>2. MaxFrames \in Nat
  BY CallAssumption DEF Turn!TurnAssumption
<1>3. det \in DetectorType
  <2>1. Turn!NoStats \in [DOMAIN Turn!NoStats -> Nat]
    BY DEF Turn!NoStats
  <2> QED  BY <1>1, <2>1 DEF DetectorType, States
<1>4. Len(heard) = 0 /\ 1..0 = {}
  BY <1>1
<1>5. TurnShape
  <2>1. <<>> \in Seq(Frames) /\ <<>> \in Seq(1..0) /\ <<>> \in Seq(Committed) /\ 0 \in 0..0
        /\ Len(heard) <= MaxFrames
    BY <1>2, <1>4
  <2>2. det.state = "quiet"
    BY <1>1
  <2> QED  BY <1>1, <1>3, <1>4, <2>1, <2>2 DEF TurnShape
<1>6. Detects(heard, det)
  <2>1. ~InTurnOn(heard, 0)
    BY TurnGoesOn
  <2> QED  BY <1>1, <1>4, <2>1 DEF Detects, States
<1>7. StatsOfTurn(heard, det)
  BY <1>1, <1>4 DEF StatsOfTurn
<1>8. GivenOf(commits, audio) = <<>>
  <2>1. [k \in DOMAIN commits |-> commits[k].audio] = <<>>
    BY <1>1
  <2>2. Turn!FlattenSeq(<<>>) = <<>>
    BY DEF Turn!FlattenSeq
  <2>3. <<>> \o <<>> = <<>>
    OBVIOUS
  <2> QED  BY <1>1, <2>1, <2>2, <2>3 DEF GivenOf
<1>9. AudioOfTurns(heard, <<>>, det, pending)
  <2>1. <<>> \in Seq(Nat) /\ Len(<<>>) = 0 /\ 1..(0 - 1) = {}
    OBVIOUS
  <2> QED  BY <1>1, <1>4, <2>1 DEF AudioOfTurns, Rises
<1> QED  BY <1>5, <1>6, <1>7, <1>8, <1>9 DEF TurnInv

(* What the proofs about turns rest on.                                         *)
THEOREM CallTurnInvariant == CallSpec => []TurnInv
<1>1. CallInit => TurnInv
  BY TurnBegins DEF CallInit
<1>2. TurnInv /\ [CallNext]_<<part, vars, detector, stt>> => TurnInv'
  <2> SUFFICES ASSUME TurnInv, [CallNext]_<<part, vars, detector, stt>>
               PROVE  TurnInv'
    OBVIOUS
  <2>1. Turn!Next \/ UNCHANGED detector
    BY DEF CallNext, Events, Turns, Speech
  <2>2. CASE Turn!Next
    BY <2>2, TurnHears, TurnIsEnded DEF Turn!Next
  <2>3. CASE UNCHANGED detector
    BY <2>3 DEF detector, TurnInv, TurnShape, Detects, StatsOfTurn, AudioOfTurns, GivenOf
  <2> QED  BY <2>1, <2>2, <2>3
<1> QED  BY <1>1, <1>2, PTL DEF CallSpec

(* A turn starts with the frame that makes a run of speech long enough and ends *)
(* with the frame that makes a pause long enough, and its statistics count every*)
(* frame of it, whatever is heard, how long frames are and when a message ends  *)
(* the turn.                                                                    *)
THEOREM CallDetectsTurns == CallSpec => []DetectsTurns
<1>1. ASSUME TurnInv PROVE DetectsTurns
  <2>1. /\ det.state \in {"speaking", "stopping"} <=> InTurnOn(heard, Len(heard))
        /\ \A i \in 1..Len(heard) : BeganOn(heard, Len(heard), i) => Covers(heard, i, det.turn)
        /\ heard \in Seq(Frames)
    BY <1>1 DEF TurnInv, TurnShape, Detects, StatsOfTurn
  <2>2. Turn!DetectsTurns
    BY <2>1, TurnIs DEF Turn!DetectsTurns
  <2>3. Turn!StatsCoverTurn
    <3>1. SUFFICES ASSUME NEW i \in DOMAIN heard, Turn!Began(Len(heard), i)
                   PROVE  /\ det.turn.total = Turn!Ms(i, Len(heard))
                          /\ det.turn.frames = Len(heard) - i + 1
                          /\ det.turn.speechFrames = Turn!Cardinality({k \in i..Len(heard) : heard[k].speech})
      BY DEF Turn!StatsCoverTurn
    <3>2. i \in 1..Len(heard) /\ BeganOn(heard, Len(heard), i)
      BY <2>1, <3>1, TurnIs
    <3>3. Covers(heard, i, det.turn)
      BY <2>1, <3>2
    <3>4. Turn!Ms(i, Len(heard)) = MsOn(heard, i, Len(heard))
      BY MsIs
    <3>5. Turn!Cardinality(Spoken(heard, i)) = Cardinality(Spoken(heard, i))
      BY DEF Turn!Cardinality, Cardinality
    <3>6. det.turn.speechFrames = Turn!Cardinality(Spoken(heard, i))
      BY <3>3, <3>5 DEF Covers
    <3> QED  BY <3>3, <3>4, <3>6 DEF Covers, Spoken
  <2> QED  BY <2>2, <2>3 DEF DetectsTurns
<1> QED  BY <1>1, CallTurnInvariant, PTL

(* The transcription session is given the frames of turns in order, each once   *)
(* and every one, and holds none between turns that a later commit would take.  *)
THEOREM CallAudioIsWhole == CallSpec => []AudioIsWhole
<1>1. ASSUME TurnInv PROVE AudioIsWhole
  <2> DEFINE G == GivenOf(commits, audio)
  <2>1. /\ Rises(G) /\ \A k \in 1..Len(heard) : OfTurnOn(heard, k) => InGiven(heard, G, k)
        /\ heard \in Seq(Frames)
        /\ det.state \in {"quiet", "starting"} => audio = <<>>
    BY <1>1 DEF TurnInv, TurnShape, AudioOfTurns
  <2>2. Turn!Given = G
    BY DEF Turn!Given, GivenOf
  <2> HIDE DEF G
  <2>3. Turn!AudioIsWhole
    <3>1. \A k \in DOMAIN heard : Turn!OfTurn(k) => InGiven(heard, G, k)
      BY <2>1, TurnIs
    <3>2. \A k : InGiven(heard, G, k) =>
            \/ k \in Turn!Range(G)
            \/ \E i \in 1..(k - 1) : heard[i] = heard[k] /\ Turn!Run(i, k, TRUE)
      BY TurnIs DEF InGiven
    <3> QED  BY <2>1, <2>2, <3>1, <3>2 DEF Turn!AudioIsWhole, Rises
  <2>4. Turn!NothingLeftBehind
    BY <2>1 DEF Turn!NothingLeftBehind
  <2> QED  BY <2>3, <2>4 DEF AudioIsWhole
<1> QED  BY <1>1, CallTurnInvariant, PTL

(* The types of the detector and of the audio it keeps.                         *)
THEOREM CallTurnTypes == CallSpec => []Turn!TypeOK
<1>1. ASSUME TurnInv PROVE Turn!TypeOK
  <2>1. TurnShape
    BY <1>1 DEF TurnInv
  <2>2. DOMAIN heard = 1..Len(heard) /\ DOMAIN pending = 1..Len(pending) /\ DOMAIN audio = 1..Len(audio)
    BY <2>1 DEF TurnShape
  <2>3. Turn!Range(heard) \subseteq Frames
    BY <2>1, <2>2 DEF TurnShape, Turn!Range
  <2>4. Turn!Range(pending) \cup Turn!Range(audio) \subseteq DOMAIN heard
    BY <2>1, <2>2 DEF TurnShape, Turn!Range
  <2> QED  BY <2>1, <2>3, <2>4 DEF Turn!TypeOK, TurnShape, DetectorType, States
<1> QED  BY <1>1, CallTurnInvariant, PTL

(* The types of the three parts, and what the bus is told: no two events of one *)
(* number, and one verdict.                                                     *)
THEOREM CallInvariant == CallSpec => []Inv
<1> QED  BY CallEndsOnce, CallTurnTypes, CallSttTypes, PTL DEF Inv
================================================================================
