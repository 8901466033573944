---------------------------- MODULE Workflows_proofs ----------------------------
(* Proofs about the durable action workflow and the webhook workflow: what they *)
(* say of the world is what happened there. The properties speak of the last    *)
(* state of a workflow; the invariants, of every point on the way: which state  *)
(* goes with which place in run(), what a workflow that was told something      *)
(* knows of the service today, and what has been written before an activity     *)
(* answers.                                                                     *)
EXTENDS MCWorkflows, FiniteSetTheorems, SequenceTheorems, TLAPS

(* The workflow of an action.                                                   *)
WorkflowType ==
  [at : {"persist", "emit", "create", "check", "wait", "status", "cancel", "done", "crashed"},
   state : States, next : {"begin", "create", "check", "cancel", "done"},
   tries : Nat, guarded : BOOLEAN, known : BOOLEAN, cancel : BOOLEAN,
   signal : {"none", "active", "completed", "rejected", "cancelled", "cannot_cancel"},
   elapsed : Nat]

(* Where the workflow of an action is: where it goes on from the transition it  *)
(* is in, or from the last one, tells its state.                                *)
Place ==
  /\ wf \in WorkflowType
  /\ wf.next = "begin" => wf.state = "REQUESTED" /\ ~wf.guarded /\ ~wf.known
  /\ wf.next = "create" => wf.state = "CREATE_IN_FLIGHT" /\ wf.guarded /\ ~wf.known
  /\ wf.next = "check" => wf.state = "ACTIVE" /\ wf.guarded /\ wf.known
  /\ wf.next = "cancel" => wf.state = "CANCEL_IN_FLIGHT" /\ wf.guarded /\ wf.known /\ config.cancel
  /\ wf.next = "done" =>
       /\ wf.state \in {"CANCELLED", "COMPLETED", "CANNOT_CANCEL", "FAILED", "TIMED_OUT"}
       /\ IF wf.guarded THEN wf.known ELSE wf.state = "FAILED"
  /\ wf.at \in {"create", "check", "cancel", "done"} => wf.next = wf.at
  /\ wf.at \in {"wait", "status"} => wf.next = "check"
  /\ wf.at = "status" => config.status
  /\ wf.at = "crashed" => ~wf.guarded

(* The service, and what is on its way to it.                                   *)
ServiceType ==
  [requests : SUBSET ({"create", "cancel"} \X Nat),
   answer : {"none", "active", "completed", "rejected", "cancelled", "cannot_cancel",
             "failed", "accepted"},
   status : {"none", "active", "completed", "rejected", "cancelled", "cannot_cancel"},
   cancelling : BOOLEAN, pending : BOOLEAN, again : BOOLEAN]

(* The other variables, and how long the workflow has polled.                   *)
Shape ==
  /\ config \in [cancel : BOOLEAN, status : BOOLEAN, keyed : BOOLEAN]
  /\ external \in ServiceType
  /\ asked \in {"never", "early", "open", "late"}
  /\ row \in States \cup {"absent"}
  /\ outbox \in [States -> Nat]
  /\ late \in [States -> {"no", "running", "written"}]
  /\ faults \in 0..MaxFaults
  /\ wf.tries <= MaximumAttempts - 1
  /\ wf.elapsed <= MaxRuntime + PollInterval - 1
  /\ wf.at = "wait" => wf.elapsed < MaxRuntime
  /\ wf.next \in {"begin", "create"} => wf.elapsed = 0
  /\ wf.at \in {"persist", "emit"} /\ wf.next = "check" => wf.elapsed = 0
  /\ asked = "never" <=> ~wf.cancel

(* What a status that was told some time ago says of the action today.          *)
StillHolds(told, status) ==
  CASE told = "completed" -> status \in {"completed", "cannot_cancel"}
    [] told = "rejected"  -> status \in {"rejected", "cannot_cancel"}
    [] told \in {"cancelled", "cannot_cancel"} -> status = told
    [] OTHER -> TRUE

(* The workflow knows of the action what the service has of it, unless the      *)
(* service did something again or put its decision off.                         *)
Honest ==
  /\ wf.known => external.status # "none"
  /\ ~external.again =>
       /\ StillHolds(wf.signal, external.status)
       /\ wf.state = "CANCELLED" => external.status = "cancelled" \/ external.answer = "accepted"
       /\ wf.state = "COMPLETED" => external.status \in {"completed", "cannot_cancel"}
       /\ wf.state = "CANNOT_CANCEL" /\ config.cancel => external.status = "cannot_cancel"

(* An answer of the service is there for the activity that asked, and after it  *)
(* for the end of the workflow; the service decides on a cancellation only when *)
(* it was asked.                                                                *)
Answers ==
  /\ external.answer # "none" => external.status # "none"
  /\ wf.at \notin {"create", "cancel"} /\ wf.next # "done" => external.answer = "none"
  /\ wf.at = "cancel" \/ wf.next = "done" =>
       external.answer \in {"none", "cancelled", "cannot_cancel", "failed", "accepted"}
  /\ ~external.again => StillHolds(external.answer, external.status)
  /\ \A request \in external.requests : request[1] = "cancel" => external.cancelling
  /\ wf.at = "cancel" /\ external.answer # "none" => external.cancelling
  /\ external.cancelling => external.status # "none"
  /\ ~external.cancelling => external.status # "cannot_cancel" /\ ~external.pending

(* As long as no attempt failed, each request was sent once, and is on its way  *)
(* only while its activity waits for the answer.                                *)
Retries ==
  /\ external.again => ~config.keyed
  /\ faults = 0 =>
       /\ ~external.again /\ wf.tries = 0
       /\ \A request \in external.requests :
            request = Request /\ external.answer = "none" /\ wf.at \in {"create", "cancel"}
       /\ ~wf.known /\ external.answer = "none" => external.status = "none"
       /\ external.cancelling => wf.at = "cancel" \/ wf.next = "done"
       /\ wf.at = "cancel" /\ external.answer = "none" =>
            external.status # "cannot_cancel" /\ ~external.pending

(* A cancellation that came early is never polled past, one that came while the *)
(* workflow polled will be seen, and one that was seen is tried.                *)
Heeded ==
  /\ asked = "early" => wf.next # "check"
  /\ asked = "open" /\ wf.next = "check" =>
       /\ wf.elapsed < MaxRuntime
       /\ wf.at = "wait" => wf.elapsed + PollInterval < MaxRuntime
  /\ wf.next = "done" /\ wf.guarded /\ asked = "early" =>
       \/ wf.state \in {"CANCELLED", "CANNOT_CANCEL"}
       \/ wf.state = "FAILED" /\ external.cancelling
  /\ wf.next = "done" /\ wf.guarded /\ asked \in {"early", "open"} /\ config.cancel =>
       external.cancelling \/ external.status # "active" \/ external.again

(* The row and the event of the state are written once its transition is over.  *)
Written ==
  /\ wf.at \notin {"persist", "crashed"} =>
       row = wf.state \/ (row \in States /\ late[row] = "written")
  /\ wf.at \notin {"persist", "emit", "crashed"} => outbox[wf.state] > 0

ActionInv == Place /\ Shape /\ Honest /\ Answers /\ Heeded /\ Written /\ Retries

(* A transition changes four fields.                                            *)
LEMMA TransitionIs ==
  ASSUME NEW w \in WorkflowType, NEW s \in States,
         NEW n \in {"begin", "create", "check", "cancel", "done"}
  PROVE  /\ Transition(w, s, n) \in WorkflowType
         /\ Transition(w, s, n).at = "persist" /\ Transition(w, s, n).state = s
         /\ Transition(w, s, n).next = n /\ Transition(w, s, n).tries = 0
         /\ Transition(w, s, n).guarded = w.guarded /\ Transition(w, s, n).known = w.known
         /\ Transition(w, s, n).cancel = w.cancel /\ Transition(w, s, n).signal = w.signal
         /\ Transition(w, s, n).elapsed = w.elapsed
  BY DurableActionAssumption DEF Transition, WorkflowType

(* An attempt that fails is tried again, or the workflow goes to FAILED, or it  *)
(* ends for good.                                                               *)
LEMMA FailedIs ==
  ASSUME Place, wf.tries <= MaximumAttempts - 1
  PROVE  /\ Failed \in WorkflowType /\ Failed.tries <= MaximumAttempts - 1
         /\ \/ Failed = [wf EXCEPT !.tries = @ + 1]
            \/ wf.guarded /\ Failed = Transition([wf EXCEPT !.guarded = FALSE], "FAILED", "done")
            \/ ~wf.guarded /\ Failed = [wf EXCEPT !.at = "crashed"]
<1>1. CASE wf.tries + 1 < MaximumAttempts
  BY <1>1, DurableActionAssumption DEF Failed, Place, WorkflowType
<1>2. CASE ~(wf.tries + 1 < MaximumAttempts) /\ wf.guarded
  <2>1. Failed = Transition([wf EXCEPT !.guarded = FALSE], "FAILED", "done")
    BY <1>2 DEF Failed, Raised
  <2>2. [wf EXCEPT !.guarded = FALSE] \in WorkflowType
    BY DEF Place, WorkflowType
  <2> QED  BY <1>2, <2>1, <2>2, TransitionIs, DurableActionAssumption DEF States
<1>3. CASE ~(wf.tries + 1 < MaximumAttempts) /\ ~wf.guarded
  BY <1>3 DEF Failed, Raised, Place, WorkflowType
<1> QED  BY <1>1, <1>2, <1>3 DEF Place, WorkflowType

(* The same, field by field.                                                    *)
LEMMA FailedDoes ==
  ASSUME Place, wf.tries <= MaximumAttempts - 1, wf' = Failed
  PROVE  /\ wf'.known = wf.known /\ wf'.signal = wf.signal /\ wf'.elapsed = wf.elapsed
         /\ wf'.cancel = wf.cancel /\ wf' \in WorkflowType /\ wf'.tries <= MaximumAttempts - 1
         /\ \/ /\ wf'.state = wf.state /\ wf'.next = wf.next /\ wf'.guarded = wf.guarded
               /\ wf'.at \in {wf.at, "crashed"}
            \/ /\ wf'.state = "FAILED" /\ wf'.next = "done" /\ ~wf'.guarded
               /\ wf'.at = "persist" /\ wf.guarded
<1>1. wf \in WorkflowType
  BY DEF Place
<1>2. CASE Failed = [wf EXCEPT !.tries = @ + 1]
  BY <1>1, <1>2, FailedIs DEF WorkflowType
<1>3. CASE wf.guarded /\ Failed = Transition([wf EXCEPT !.guarded = FALSE], "FAILED", "done")
  <2> DEFINE w == [wf EXCEPT !.guarded = FALSE]
  <2>1. /\ w \in WorkflowType /\ ~w.guarded /\ w.known = wf.known /\ w.signal = wf.signal
        /\ w.elapsed = wf.elapsed /\ w.cancel = wf.cancel
    BY <1>1 DEF WorkflowType
  <2>2. "FAILED" \in States /\ wf' = Transition(w, "FAILED", "done")
    BY <1>3 DEF States
  <2> HIDE DEF w
  <2>3. /\ wf'.at = "persist" /\ wf'.state = "FAILED" /\ wf'.next = "done"
        /\ wf'.guarded = w.guarded /\ wf'.known = w.known /\ wf'.cancel = w.cancel
        /\ wf'.signal = w.signal /\ wf'.elapsed = w.elapsed
    <3>1. LET t == Transition(w, "FAILED", "done")
          IN  /\ t.at = "persist" /\ t.state = "FAILED" /\ t.next = "done"
              /\ t.guarded = w.guarded /\ t.known = w.known /\ t.cancel = w.cancel
              /\ t.signal = w.signal /\ t.elapsed = w.elapsed
      BY ZenonT(30), <2>1, <2>2, TransitionIs
    <3> QED  BY <2>2, <3>1
  <2>4. wf' \in WorkflowType /\ wf'.tries <= MaximumAttempts - 1
    BY FailedIs
  <2> QED  BY <1>3, <2>1, <2>3, <2>4
<1>4. CASE ~wf.guarded /\ Failed = [wf EXCEPT !.at = "crashed"]
  BY <1>1, <1>4, FailedIs DEF WorkflowType
<1> QED  BY <1>2, <1>3, <1>4, FailedIs

(* What a status decides.                                                       *)
LEMMA DecidedIs ==
  ASSUME NEW w \in WorkflowType, NEW status
  PROVE  Decided(w, status) \in WorkflowType
<1>1. \A s \in {"CANCELLED", "CANNOT_CANCEL", "FAILED", "COMPLETED"} :
        Transition(w, s, "done") \in WorkflowType
  BY TransitionIs DEF States
<1>2. [w EXCEPT !.at = "check", !.tries = 0] \in WorkflowType
  BY DEF WorkflowType
<1> QED  BY <1>1, <1>2 DEF Decided

(* A workflow whose attempt failed is where its state says.                     *)
LEMMA FailedPlaces ==
  ASSUME Place, Shape, wf' = Failed, config' = config, wf.at # "crashed", wf.at # "done"
  PROVE  Place'
<1>1. CASE Failed = [wf EXCEPT !.tries = @ + 1]
  BY <1>1, FailedIs DEF Place, WorkflowType, States, Shape
<1>2. CASE wf.guarded /\ Failed = Transition([wf EXCEPT !.guarded = FALSE], "FAILED", "done")
  <2>1. [wf EXCEPT !.guarded = FALSE] \in WorkflowType /\ [wf EXCEPT !.guarded = FALSE].guarded = FALSE
    BY DEF Place, WorkflowType
  <2> DEFINE w == [wf EXCEPT !.guarded = FALSE]
  <2>2. "FAILED" \in States /\ wf' = Transition(w, "FAILED", "done")
        /\ w \in WorkflowType /\ w.guarded = FALSE
    BY <1>2, <2>1 DEF States
  <2> HIDE DEF w
  <2>3. /\ wf' \in WorkflowType /\ wf'.at = "persist" /\ wf'.state = "FAILED"
        /\ wf'.next = "done" /\ wf'.guarded = FALSE
    <3>1. /\ Transition(w, "FAILED", "done") \in WorkflowType
          /\ Transition(w, "FAILED", "done").at = "persist"
          /\ Transition(w, "FAILED", "done").state = "FAILED"
          /\ Transition(w, "FAILED", "done").next = "done"
          /\ Transition(w, "FAILED", "done").guarded = w.guarded
      BY ZenonT(30), <2>2, TransitionIs
    <3> QED  BY <2>2, <3>1
  <2> QED  BY <2>3 DEF Place
<1>3. CASE ~wf.guarded /\ Failed = [wf EXCEPT !.at = "crashed"]
  BY <1>3, FailedIs DEF Place, WorkflowType, States, Shape
<1> QED  BY <1>1, <1>2, <1>3, FailedIs DEF Shape

(* What a status decides is where its state says.                               *)
LEMMA DecidedPlaces ==
  ASSUME Place, wf.next = "check", NEW status, wf' = Decided(wf, status), config' = config
  PROVE  Place'
<1>1. \A s \in {"CANCELLED", "CANNOT_CANCEL", "FAILED", "COMPLETED"} :
        wf' = Transition(wf, s, "done") => Place'
  <2>1. ASSUME NEW s \in {"CANCELLED", "CANNOT_CANCEL", "FAILED", "COMPLETED"},
               wf' = Transition(wf, s, "done")
        PROVE  Place'
    <3>1. s \in States /\ wf \in WorkflowType /\ wf.guarded /\ wf.known
      BY DEF States, Place
    <3>2. /\ wf' \in WorkflowType /\ wf'.at = "persist" /\ wf'.state = s
          /\ wf'.next = "done" /\ wf'.guarded /\ wf'.known
      <4>1. /\ Transition(wf, s, "done") \in WorkflowType
            /\ Transition(wf, s, "done").at = "persist" /\ Transition(wf, s, "done").state = s
            /\ Transition(wf, s, "done").next = "done"
            /\ Transition(wf, s, "done").guarded = wf.guarded
            /\ Transition(wf, s, "done").known = wf.known
        BY ZenonT(30), <3>1, TransitionIs
      <4> QED  BY <2>1, <3>1, <4>1
    <3> QED  BY <3>2 DEF Place
  <2> QED  BY <2>1
<1>2. wf' = [wf EXCEPT !.at = "check", !.tries = 0] => Place'
  <2>1. ASSUME wf' = [wf EXCEPT !.at = "check", !.tries = 0] PROVE Place'
    <3>0. wf \in WorkflowType
      BY DEF Place
    <3> DEFINE w == [wf EXCEPT !.at = "check", !.tries = 0]
    <3>a. w \in WorkflowType
      BY <3>0 DEF WorkflowType
    <3>b. /\ w.at = "check" /\ w.state = wf.state /\ w.next = wf.next
          /\ w.guarded = wf.guarded /\ w.known = wf.known
      BY <3>0 DEF WorkflowType
    <3> HIDE DEF w
    <3>1. /\ wf' \in WorkflowType /\ wf'.at = "check" /\ wf'.state = wf.state
          /\ wf'.next = wf.next /\ wf'.guarded = wf.guarded /\ wf'.known = wf.known
      <4>1. wf' = w
        BY <2>1 DEF w
      <4> QED  BY <4>1, <3>a, <3>b
    <3> QED  BY <3>1 DEF Place
  <2> QED  BY <2>1
<1> QED  BY <1>1, <1>2 DEF Decided

(* The service handles a request: the action is what it was, or starts, or is   *)
(* cancelled or not.                                                            *)
LEMMA HandlesStep ==
  ASSUME ActionInv, NEW sort \in {"create", "cancel"},
         NEW status \in {"active", "completed", "rejected", "cancelled", "cannot_cancel", "none"},
         NEW answer \in {"active", "completed", "rejected", "cancelled", "cannot_cancel",
                         "failed", "accepted"},
         Handles(sort, status, answer),
         sort = "create" => answer = status /\ status # "none",
         sort = "cancel" => answer \in {"cancelled", "cannot_cancel", "failed", "accepted"},
         sort = "cancel" /\ answer \in {"cancelled", "cannot_cancel"} => answer = status,
         external.status # "none" => status # "none",
         \/ status = external.status
         \/ sort = "create" /\ status = "active" /\ (config.keyed => external.status = "none")
         \/ sort = "cancel" /\ status = AfterCancel
  PROVE  ActionInv'
<1> USE DEF ActionInv
<1>1. PICK request \in external.requests :
        /\ request[1] = sort
        /\ external' = [external EXCEPT
             !.requests = @ \ {request}, !.status = status,
             !.answer = IF request = Request THEN answer ELSE @,
             !.pending = @ \/ answer = "accepted",
             !.again = @ \/ (sort = "create" /\ ~config.keyed /\ external.status # "none")
                         \/ (status = "cancelled" /\ external.status = "cannot_cancel")]
  BY DEF Handles
<1>2. UNCHANGED <<config, wf, asked, row, outbox, late, faults>>
  BY DEF Handles
<1> DEFINE told == IF request = Request THEN answer ELSE external.answer
           puts == external.pending \/ answer = "accepted"
           redone == \/ external.again
                     \/ sort = "create" /\ ~config.keyed /\ external.status # "none"
                     \/ status = "cancelled" /\ external.status = "cannot_cancel"
<1>a. external \in ServiceType
  BY DEF Shape
<1>b. /\ external' \in ServiceType
      /\ external'.requests = external.requests \ {request} /\ external'.status = status
      /\ external'.answer = told /\ external'.pending = puts
      /\ external'.cancelling = external.cancelling /\ external'.again = redone
  <2>1. told \in {"none", "active", "completed", "rejected", "cancelled", "cannot_cancel",
                  "failed", "accepted"}
    BY <1>a DEF ServiceType
  <2>2. puts \in BOOLEAN /\ redone \in BOOLEAN
    BY <1>a DEF ServiceType
  <2>3. external.requests \ {request} \in SUBSET ({"create", "cancel"} \X Nat)
    BY <1>a DEF ServiceType
  <2>4. external' = [external EXCEPT !.requests = external.requests \ {request}, !.status = status,
                                     !.answer = told, !.pending = puts, !.again = redone]
    BY ZenonT(30), <1>1, <1>a DEF ServiceType
  <2> HIDE DEF told, puts, redone
  <2> QED  BY <1>a, <2>1, <2>2, <2>3, <2>4 DEF ServiceType
<1>3. /\ external'.requests = external.requests \ {request} /\ external'.status = status
      /\ external'.cancelling = external.cancelling
  BY <1>b
<1>c. external'.answer = IF request = Request THEN answer ELSE external.answer
  BY <1>b
<1>d. external'.pending => external.pending \/ answer = "accepted"
  BY <1>b
<1>e. /\ external'.again => redone
      /\ redone => external'.again
  BY <1>b
<1> HIDE DEF told, puts
<1>f. external.status \in {"none", "active", "completed", "rejected", "cancelled", "cannot_cancel"}
  BY <1>a DEF ServiceType
<1>g. external.again => external'.again
  BY <1>e
(* The answer is for the activity that asked.                                   *)
<1>4. request = Request => wf.at = sort
  BY <1>1 DEF Request
<1>5. sort = "cancel" => external.cancelling
  BY <1>1 DEF Answers
<1>6. Place' /\ Shape'
  BY <1>2, <1>b DEF Place, Shape
(* How the action stands changes in few ways.                                   *)
<1>7. \/ external'.again
      \/ status = external.status
      \/ external.status = "none" /\ status \in {"active", "cancelled"}
      \/ sort = "cancel" /\ external.status = "active" /\ status = "cancelled"
      \/ sort = "cancel" /\ external.status \in {"completed", "rejected"} /\ status = "cannot_cancel"
  <2>1. CASE sort = "create" /\ status = "active" /\ (config.keyed => external.status = "none")
    BY <1>e, <2>1
  <2>2. CASE sort = "cancel" /\ status = AfterCancel
    BY <1>e, <1>f, <2>2 DEF AfterCancel
  <2> QED  BY <2>1, <2>2
<1> HIDE DEF redone
<1>8. Honest'
  <2>1. CASE external'.again
    BY <1>2, <1>3, <2>1 DEF Honest
  <2>2. CASE ~external'.again
    <3>1. ~external.again
      BY <1>g, <2>2
    <3>2. StillHolds(wf.signal, status)
      BY <1>7, <2>2, <3>1 DEF Honest, StillHolds, Place, WorkflowType
    <3>3. wf.at \in {"create", "cancel"} => wf.state \notin {"CANCELLED", "COMPLETED", "CANNOT_CANCEL"}
      BY DEF Place
    <3> QED  BY <1>2, <1>3, <1>4, <1>7, <1>c, <2>2, <3>1, <3>2, <3>3 DEF Honest
  <2> QED  BY <2>1, <2>2
<1>9. Answers'
  <2>1. ~external'.again => StillHolds(external'.answer, external'.status)
    <3>1. ~external'.again => StillHolds(external.answer, status)
      BY <1>7, <1>g DEF Answers, StillHolds
    <3>2. StillHolds(answer, status)
      BY DEF StillHolds
    <3> QED  BY <1>3, <1>c, <3>1, <3>2
  <2>2. ~external.cancelling => status # "cannot_cancel" /\ ~external'.pending
    BY <1>5, <1>d DEF Answers, AfterCancel
  <2>3. /\ wf.at \notin {"create", "cancel"} => external'.answer = external.answer
        /\ wf.at = "cancel" => external'.answer = external.answer \/ (external'.answer = answer /\ sort = "cancel")
        /\ external'.answer # "none" => status # "none"
    <3>1. sort = "cancel" => external.status # "none"
      BY <1>5 DEF Answers
    <3> QED  BY <1>4, <1>c, <3>1 DEF Answers
  <2>4. wf.at = "cancel" => wf.next = "cancel"
    BY DEF Place
  <2>5. external.cancelling => status # "none"
    BY DEF Answers
  <2>6. wf.at = "cancel" \/ wf.next = "done" =>
          external'.answer \in {"none", "cancelled", "cannot_cancel", "failed", "accepted"}
    <3>1. wf.at = "create" => wf.next = "create"
      BY DEF Place
    <3> QED  BY <2>3, <2>4, <3>1 DEF Answers
  <2> QED  BY <1>2, <1>3, <1>5, <2>1, <2>2, <2>3, <2>5, <2>6 DEF Answers
<1>10. Heeded'
  <2>1. status = "active" => external'.again \/ external.status \in {"none", "active"}
    BY <1>7
  <2>2. wf.next = "done" /\ wf.guarded => external.status # "none"
    BY DEF Place, Honest
  <2>3. CASE external'.again
    BY <1>2, <1>3, <2>3 DEF Heeded
  <2>4. CASE ~external'.again
    <3>1. ~external.again
      BY <1>g, <2>4
    <3> QED  BY <1>2, <1>3, <2>1, <2>2, <2>4, <3>1 DEF Heeded
  <2> QED  BY <2>3, <2>4
<1>11. Written'
  BY <1>2 DEF Written
<1>12. Retries'
  <2>1. external'.again => ~config.keyed
    BY <1>e DEF Retries, AfterCancel, redone
  <2>2. ASSUME faults = 0
        PROVE  /\ request = Request /\ external.answer = "none" /\ wf.at = sort /\ ~external.again
               /\ external'.answer = answer
               /\ sort = "create" => external.status = "none"
               /\ sort = "cancel" => external.status # "cannot_cancel"
    <3>1. request = Request /\ external.answer = "none" /\ ~external.again
      BY <2>2 DEF Retries
    <3>2. wf.at = sort
      BY <1>4, <3>1
    <3>3. sort = "create" => ~wf.known
      BY <3>2 DEF Place
    <3> QED  BY <1>c, <2>2, <3>1, <3>2, <3>3 DEF Retries
  <2>3. faults = 0 => ~external'.again /\ external'.answer # "none" /\ external'.requests = {}
    <3>1. ASSUME faults = 0 PROVE \A r \in external.requests : r = request
      BY <2>2, <3>1 DEF Retries
    <3>2. faults = 0 => ~external'.again
      BY <1>e, <2>2 DEF redone
    <3> QED  BY <1>3, <2>2, <3>1, <3>2
  <2>4. faults = 0 => (external'.cancelling => wf.at = "cancel" \/ wf.next = "done")
    BY <1>3 DEF Retries
  <2>5. faults = 0 => wf.tries = 0
    BY DEF Retries
  <2> QED  BY <1>2, <2>1, <2>3, <2>4, <2>5 DEF Retries
<1> QED  BY <1>6, <1>8, <1>9, <1>10, <1>11, <1>12

(* A create request.                                                            *)
LEMMA CreatesStep == ActionInv /\ ExternalCreates => ActionInv'
<1> SUFFICES ASSUME ActionInv, ExternalCreates PROVE ActionInv'
  OBVIOUS
<1>1. external.status \in {"none", "active", "completed", "rejected", "cancelled", "cannot_cancel"}
  BY DEF ActionInv, Shape, ServiceType
<1>2. CASE config.keyed /\ external.status # "none"
  BY <1>1, <1>2, HandlesStep DEF ExternalCreates
<1>3. CASE ~(config.keyed /\ external.status # "none")
  BY <1>3, HandlesStep DEF ExternalCreates
<1> QED  BY <1>2, <1>3

(* A request to cancel.                                                         *)
LEMMA CancelsStep == ActionInv /\ ExternalCancels => ActionInv'
<1> SUFFICES ASSUME ActionInv, ExternalCancels PROVE ActionInv'
  OBVIOUS
<1>1. AfterCancel \in {"cancelled", "cannot_cancel"} /\ Handles("cancel", AfterCancel, AfterCancel)
  BY DEF ExternalCancels, AfterCancel
<1> QED  BY <1>1, HandlesStep

(* A request to cancel that is not decided now.                                 *)
LEMMA DefersStep == ActionInv /\ ExternalDefers => ActionInv'
<1> SUFFICES ASSUME ActionInv, ExternalDefers PROVE ActionInv'
  OBVIOUS
<1>1. external.status \in {"none", "active", "completed", "rejected", "cancelled", "cannot_cancel"}
  BY DEF ActionInv, Shape, ServiceType
<1>2. PICK answer \in {"failed", "accepted"} : Handles("cancel", external.status, answer)
  BY DEF ExternalDefers
<1> QED  BY <1>1, <1>2, HandlesStep

(* Every step of an action keeps its invariant.                                 *)
LEMMA ActionStep == ActionInv /\ [Next]_vars => ActionInv'
<1> SUFFICES ASSUME ActionInv, [Next]_vars PROVE ActionInv'
  OBVIOUS
<1> USE DurableActionAssumption DEF ActionInv
<1>1. CASE Persist
  <2>1. Place'
    BY <1>1 DEF Persist, Place, WorkflowType, States, Shape, Honest
  <2>2. Shape'
    BY <1>1 DEF Persist, Place, WorkflowType, States, Shape
  <2>3. Honest'
    BY <1>1 DEF Persist, Place, WorkflowType, States, Shape, Honest, Answers, StillHolds
  <2>4. Heeded'
    BY <1>1 DEF Persist, Place, WorkflowType, States, Shape, Honest, Answers, StillHolds,
      Heeded
  <2>5. Written'
    BY <1>1 DEF Persist, Place, WorkflowType, States, Shape, Written
  <2>6. Answers'
    BY <1>1 DEF Persist, Place, WorkflowType, States, Shape,
      Honest, Answers, StillHolds
  <2>7. Retries'
    BY <1>1 DEF Persist, Place, WorkflowType, States, Shape,
      Answers, Request, Retries
  <2> QED  BY <2>1, <2>2, <2>3, <2>4, <2>5, <2>6, <2>7
<1>2. CASE Emit
  <2>1. Place'
    BY <1>2 DEF Emit, Reach, Transition, Place, WorkflowType, States, Shape,
      Honest
  <2>2. Shape'
    BY <1>2 DEF Emit, Reach, Transition, Place, WorkflowType, States, Shape
  <2>3. Honest'
    BY <1>2 DEF Emit, Reach, Transition, Place, WorkflowType, States, Shape,
      Honest, Answers, StillHolds
  <2>4. Heeded'
    BY <1>2 DEF Emit, Reach, Transition, Place, WorkflowType, States, Shape,
      Honest, Answers, StillHolds, Heeded
  <2>5. Written'
    BY <1>2 DEF Emit, Reach, Transition, Place, WorkflowType, States, Shape,
      Written
  <2>6. Answers'
    BY <1>2 DEF Emit, Reach, Transition, Place, WorkflowType, States, Shape,
      Honest, Answers, StillHolds
  <2>7. Retries'
    BY <1>2 DEF Emit, Reach, Transition, Place, WorkflowType, States, Shape,
      Answers, Request, Retries
  <2> QED  BY <2>1, <2>2, <2>3, <2>4, <2>5, <2>6, <2>7
<1>3. CASE AttemptFails
  <2>1. Place'
    BY <1>3, FailedPlaces DEF AttemptFails, Fault
  <2>2. /\ UNCHANGED <<config, asked, row, outbox, late>> /\ wf' = Failed
        /\ faults < MaxFaults /\ faults' = faults + 1
        /\ wf.at \in {"persist", "emit", "create", "status", "cancel"}
    BY <1>3 DEF AttemptFails, Fault
(* The service only loses a request, or its answer is not heard.                *)
  <2>3. /\ external' \in ServiceType /\ external'.requests \subseteq external.requests
        /\ external'.answer \in {"none", external.answer}
        /\ external'.status = external.status /\ external'.cancelling = external.cancelling
        /\ external'.pending = external.pending /\ external'.again = external.again
        /\ wf.at \in {"create", "cancel"} => external'.answer = "none"
    <3>1. external \in ServiceType
      BY DEF Shape
    <3>2. CASE external' = external /\ wf.at \notin {"create", "cancel"}
      BY <3>1, <3>2
    <3>3. ASSUME NEW r \in {external.requests, external.requests \ {Request}},
                 external' = [external EXCEPT !.answer = "none", !.requests = r]
          PROVE  /\ external' \in ServiceType /\ external'.requests \subseteq external.requests
                 /\ external'.answer = "none"
                 /\ external'.status = external.status /\ external'.cancelling = external.cancelling
                 /\ external'.pending = external.pending /\ external'.again = external.again
      BY <3>1, <3>3 DEF ServiceType
    <3> QED  BY <1>3, <3>2, <3>3 DEF AttemptFails, HangsUp
(* The workflow tries again, fails, or ends for good.                           *)
  <2>4. /\ wf'.known = wf.known /\ wf'.signal = wf.signal /\ wf'.elapsed = wf.elapsed
        /\ wf'.cancel = wf.cancel /\ wf' \in WorkflowType /\ wf'.tries <= MaximumAttempts - 1
        /\ \/ /\ wf'.state = wf.state /\ wf'.next = wf.next /\ wf'.guarded = wf.guarded
              /\ wf'.at \in {wf.at, "crashed"}
           \/ /\ wf'.state = "FAILED" /\ wf'.next = "done" /\ ~wf'.guarded
              /\ wf'.at = "persist" /\ wf.guarded
    BY <2>2, FailedDoes DEF Shape
  <2>5. Shape'
    <3>1. faults' \in 0..MaxFaults
      BY <2>2 DEF Shape
    <3>2. /\ wf'.at = "wait" => wf'.elapsed < MaxRuntime
          /\ wf'.next \in {"begin", "create"} => wf'.elapsed = 0
          /\ wf'.at \in {"persist", "emit"} /\ wf'.next = "check" => wf'.elapsed = 0
      BY <2>2, <2>4 DEF Shape
    <3>3. asked' = "never" <=> ~wf'.cancel
      BY <2>2, <2>4 DEF Shape
    <3>4. /\ config' \in [cancel : BOOLEAN, status : BOOLEAN, keyed : BOOLEAN]
          /\ asked' \in {"never", "early", "open", "late"} /\ row' \in States \cup {"absent"}
          /\ outbox' \in [States -> Nat] /\ late' \in [States -> {"no", "running", "written"}]
      BY <2>2 DEF Shape
    <3>5. wf'.elapsed <= MaxRuntime + PollInterval - 1
      BY <2>4 DEF Shape
    <3> QED  BY <2>3, <2>4, <3>1, <3>2, <3>3, <3>4, <3>5 DEF Shape
  <2>6. Honest'
    <3>1. CASE wf.at \in {"create", "cancel"}
      <4>1. wf.state \notin {"CANCELLED", "COMPLETED", "CANNOT_CANCEL"}
        BY <3>1 DEF Place
      <4>2. wf'.state \notin {"CANCELLED", "COMPLETED", "CANNOT_CANCEL"}
        BY <2>4, <4>1
      <4> QED  BY <2>3, <2>4, <4>2 DEF Honest
    <3>2. CASE wf.at \notin {"create", "cancel"}
      <4>1. external'.answer = external.answer
        BY <1>3, <3>2 DEF AttemptFails
      <4>2. wf'.state \in {wf.state, "FAILED"}
        BY <2>4
      <4> QED  BY <2>2, <2>3, <2>4, <4>1, <4>2 DEF Honest
    <3> QED  BY <3>1, <3>2
  <2>7. Answers'
    BY <2>2, <2>3, <2>4 DEF Answers, StillHolds, Place
  <2>8. Heeded'
    BY <2>2, <2>3, <2>4 DEF Heeded
  <2>9. Written'
    BY <2>2, <2>4 DEF Written
  <2>10. Retries'
    BY <2>2, <2>3 DEF Retries, Shape
  <2> QED  BY <2>1, <2>5, <2>6, <2>7, <2>8, <2>9, <2>10
<1>4. CASE AnswerLost
  <2>1. Place'
    BY <1>4, FailedPlaces DEF AnswerLost, Fault
  <2>2. Shape'
    BY <1>4 DEF AnswerLost, Fault, Failed, Raised, Transition, Place,
      WorkflowType, States, Shape
  <2>3. Honest'
    BY <1>4 DEF AnswerLost, Fault, Failed, Raised, Transition, Place,
      WorkflowType, States, Shape, Honest, Answers, StillHolds
  <2>4. Heeded'
    BY <1>4 DEF AnswerLost, Fault, Failed, Raised, Transition, Place,
      WorkflowType, States, Shape, Honest, Answers, StillHolds, Heeded
  <2>5. Written'
    BY <1>4 DEF AnswerLost, Fault, Failed, Raised, Transition, Place,
      WorkflowType, States, Shape, Written
  <2>6. Answers'
    BY <1>4 DEF AnswerLost, Fault, Failed, Raised, Transition, Place, WorkflowType, States, Shape,
      Honest, Answers, StillHolds
  <2>7. Retries'
    BY <1>4 DEF AnswerLost, Fault, Failed, Raised, Transition, Place, WorkflowType, States, Shape,
      Answers, Request, Retries
  <2> QED  BY <2>1, <2>2, <2>3, <2>4, <2>5, <2>6, <2>7
<1>5. CASE GivenUp
  <2>1. Place'
    BY <1>5, FailedPlaces DEF GivenUp, Fault
  <2>2. Shape'
    BY <1>5 DEF GivenUp, Fault, Failed, Raised, Transition, Place, WorkflowType,
      States, Shape
  <2>3. Honest'
    BY <1>5 DEF GivenUp, Fault, Failed, Raised, Transition, Place, WorkflowType,
      States, Shape, Honest, Answers, StillHolds
  <2>4. Heeded'
    BY <1>5 DEF GivenUp, Fault, Failed, Raised, Transition, Place, WorkflowType,
      States, Shape, Honest, Answers, StillHolds, Heeded
  <2>5. Written'
    BY <1>5 DEF GivenUp, Fault, Failed, Raised, Transition, Place, WorkflowType,
      States, Shape, Written
  <2>6. Answers'
    BY <1>5 DEF GivenUp, Fault, Failed, Raised, Transition, Place, WorkflowType, States, Shape,
      Honest, Answers, StillHolds
  <2>7. Retries'
    BY <1>5 DEF GivenUp, Fault, Failed, Raised, Transition, Place, WorkflowType, States, Shape,
      Answers, Request, Retries
  <2> QED  BY <2>1, <2>2, <2>3, <2>4, <2>5, <2>6, <2>7
<1>6. CASE LateWrite
  <2>1. Place'
    BY <1>6 DEF LateWrite, Place, WorkflowType, States, Shape, Honest
  <2>2. Shape'
    BY <1>6 DEF LateWrite, Place, WorkflowType, States, Shape
  <2>3. Honest'
    BY <1>6 DEF LateWrite, Place, WorkflowType, States, Shape, Honest,
      Answers, StillHolds
  <2>4. Heeded'
    BY <1>6 DEF LateWrite, Place, WorkflowType, States, Shape, Honest,
      Answers, StillHolds, Heeded
  <2>5. Written'
    BY <1>6 DEF LateWrite, Place, WorkflowType, States, Shape, Written
  <2>6. Answers'
    BY <1>6 DEF LateWrite, Place, WorkflowType, States, Shape,
      Honest, Answers, StillHolds
  <2>7. Retries'
    BY <1>6 DEF LateWrite, Place, WorkflowType, States, Shape,
      Answers, Request, Retries
  <2> QED  BY <2>1, <2>2, <2>3, <2>4, <2>5, <2>6, <2>7
<1>7. CASE Send
  <2>1. /\ wf.at \in {"create", "cancel"} /\ external.answer = "none"
        /\ external' = [external EXCEPT !.requests = external.requests \cup {Request},
                                        !.cancelling = external.cancelling \/ wf.at = "cancel"]
        /\ UNCHANGED <<config, wf, asked, row, outbox, late, faults>>
    BY <1>7 DEF Send
  <2>2. /\ external' \in ServiceType /\ external'.requests = external.requests \cup {Request}
        /\ external'.answer = "none" /\ external'.status = external.status
        /\ external'.pending = external.pending /\ external'.again = external.again
        /\ external'.cancelling = (external.cancelling \/ wf.at = "cancel")
    <3>1. Request \in {"create", "cancel"} \X Nat /\ external \in ServiceType
      BY <2>1 DEF Request, Place, WorkflowType, Shape
    <3>2. external.requests \cup {Request} \in SUBSET ({"create", "cancel"} \X Nat)
      BY <3>1 DEF ServiceType
    <3>3. (external.cancelling \/ wf.at = "cancel") \in BOOLEAN
      OBVIOUS
    <3> HIDE DEF Request
    <3> QED  BY <2>1, <3>1, <3>2, <3>3 DEF ServiceType
  <2>3. Place' /\ Shape'
    BY <2>1, <2>2 DEF Place, Shape
  <2>4. Honest'
    BY <2>1, <2>2 DEF Honest
  <2>5. Answers'
    <3>1. Request[1] = wf.at
      BY DEF Request
    <3>2. wf.at = "cancel" => external.status # "none"
      BY DEF Place, Honest
    <3> QED  BY <2>1, <2>2, <3>1, <3>2 DEF Answers, StillHolds
  <2>6. Heeded'
    BY <2>1, <2>2 DEF Heeded
  <2>7. Written'
    BY <2>1 DEF Written
  <2>8. Retries'
    <3>1. Request' = Request
      BY <2>1 DEF Request
    <3> QED  BY <2>1, <2>2, <3>1 DEF Retries
  <2> QED  BY <2>3, <2>4, <2>5, <2>6, <2>7, <2>8
<1>8. CASE ExternalCreates
  BY <1>8, CreatesStep
<1>9. CASE ExternalFinishes
  <2>1. Place'
    BY <1>9 DEF ExternalFinishes, Place, WorkflowType, States, Shape, ServiceType,
      Honest
  <2>2. Shape'
    BY <1>9 DEF ExternalFinishes, Place, WorkflowType, States, Shape, ServiceType
  <2>3. Honest'
    BY <1>9 DEF ExternalFinishes, Place, WorkflowType, States, Shape, ServiceType,
      Honest, Answers, StillHolds
  <2>4. Heeded'
    BY <1>9 DEF ExternalFinishes, Place, WorkflowType, States, Shape, ServiceType,
      Honest, Answers, StillHolds, Heeded
  <2>5. Written'
    BY <1>9 DEF ExternalFinishes, Place, WorkflowType, States, Shape, ServiceType,
      Written
  <2>6. Answers'
    BY <1>9 DEF ExternalFinishes, Place, WorkflowType, States, Shape, ServiceType,
      Honest, Answers, StillHolds
  <2>7. Retries'
    BY <1>9 DEF ExternalFinishes, Place, WorkflowType, States, Shape, ServiceType,
      Answers, Request, Retries
  <2> QED  BY <2>1, <2>2, <2>3, <2>4, <2>5, <2>6, <2>7
<1>10. CASE ExternalCancels
  BY <1>10, CancelsStep
<1>11. CASE ExternalDefers
  BY <1>11, DefersStep
<1>12. CASE ExternalDecides
  <2>1. /\ external.pending /\ external.status \in {"active", "completed", "rejected"}
        /\ external' = [external EXCEPT !.pending = FALSE, !.status = AfterCancel]
        /\ AfterCancel = IF external.status = "active" THEN "cancelled" ELSE "cannot_cancel"
        /\ UNCHANGED <<config, wf, asked, row, outbox, late, faults>>
    BY <1>12 DEF ExternalDecides, AfterCancel
  <2>2. /\ external' \in ServiceType
        /\ external'.status = AfterCancel /\ ~external'.pending
        /\ external'.requests = external.requests /\ external'.answer = external.answer
        /\ external'.cancelling = external.cancelling /\ external'.again = external.again
    BY <2>1 DEF Shape, ServiceType
  <2>3. Place' /\ Shape'
    BY <2>1, <2>2 DEF Place, Shape
  <2>4. Honest' /\ Answers'
    BY <2>1, <2>2 DEF Honest, Answers, StillHolds
  <2>5. Heeded'
    BY <2>1, <2>2 DEF Heeded
  <2>6. Written'
    BY <2>1 DEF Written
  <2>7. Retries'
    BY <2>1, <2>2 DEF Retries, Answers, Request
  <2> QED  BY <2>3, <2>4, <2>5, <2>6, <2>7
<1>13. CASE ExternalTells
  <2>1. Place'
    BY <1>13 DEF ExternalTells, Running, Place, WorkflowType, States, Shape, ServiceType,
      Honest
  <2>2. Shape'
    BY <1>13 DEF ExternalTells, Running, Place, WorkflowType, States, Shape, ServiceType
  <2>3. Honest'
    BY <1>13 DEF ExternalTells, Running, Place, WorkflowType, States, Shape, ServiceType,
      Honest, Answers, StillHolds
  <2>4. Heeded'
    BY <1>13 DEF ExternalTells, Running, Place, WorkflowType, States, Shape, ServiceType,
      Honest, Answers, StillHolds, Heeded
  <2>5. Written'
    BY <1>13 DEF ExternalTells, Running, Place, WorkflowType, States, Shape, ServiceType,
      Written
  <2>6. Answers'
    BY <1>13 DEF ExternalTells, Running, Place, WorkflowType, States, Shape, ServiceType,
      Honest, Answers, StillHolds
  <2>7. Retries'
    BY <1>13 DEF ExternalTells, Running, Place, WorkflowType, States, Shape, ServiceType,
      Answers, Request, Retries
  <2> QED  BY <2>1, <2>2, <2>3, <2>4, <2>5, <2>6, <2>7
<1>14. CASE CancelRequested
  <2>1. Place'
    BY <1>14 DEF CancelRequested, Running, OutOfTime, Place, WorkflowType,
      States, Shape, Honest
  <2>2. Shape'
    BY <1>14 DEF CancelRequested, Running, OutOfTime, Place, WorkflowType,
      States, Shape
  <2>3. Honest'
    BY <1>14 DEF CancelRequested, Running, OutOfTime, Place, WorkflowType,
      States, Shape, Honest, Answers, StillHolds
  <2>4. Heeded'
    BY <1>14 DEF CancelRequested, Running, OutOfTime, Place, WorkflowType,
      States, Shape, Honest, Answers, StillHolds, Heeded
  <2>5. Written'
    BY <1>14 DEF CancelRequested, Running, OutOfTime, Place, WorkflowType,
      States, Shape, Written
  <2>6. Answers'
    BY <1>14 DEF CancelRequested, Running, OutOfTime, Place, WorkflowType, States, Shape,
      Honest, Answers, StillHolds
  <2>7. Retries'
    BY <1>14 DEF CancelRequested, Running, OutOfTime, Place, WorkflowType, States, Shape,
      Answers, Request, Retries
  <2> QED  BY <2>1, <2>2, <2>3, <2>4, <2>5, <2>6, <2>7
<1>15. CASE CreateAnswers
  <2>1. Place'
    BY <1>15 DEF CreateAnswers, CancelAfterCreate, Transition, Place,
      WorkflowType, States, Shape, ServiceType, Honest
  <2>2. Shape'
    BY <1>15 DEF CreateAnswers, CancelAfterCreate, Transition, Place,
      WorkflowType, States, Shape, ServiceType
  <2>3. Honest'
    BY <1>15 DEF CreateAnswers, CancelAfterCreate, Transition, Place,
      WorkflowType, States, Shape, ServiceType, Honest, Answers, StillHolds
  <2>4. Heeded'
    BY <1>15 DEF CreateAnswers, CancelAfterCreate, Transition, Place,
      WorkflowType, States, Shape, ServiceType, Honest, Answers, StillHolds, Heeded
  <2>5. Written'
    BY <1>15 DEF CreateAnswers, CancelAfterCreate, Transition, Place,
      WorkflowType, States, Shape, ServiceType, Written
  <2>6. Answers'
    BY <1>15 DEF CreateAnswers, CancelAfterCreate, Transition, Place, WorkflowType, States, Shape, ServiceType,
      Honest, Answers, StillHolds
  <2>7. Retries'
    BY <1>15 DEF CreateAnswers, CancelAfterCreate, Transition, Place, WorkflowType, States, Shape, ServiceType,
      Answers, Request, Retries
  <2> QED  BY <2>1, <2>2, <2>3, <2>4, <2>5, <2>6, <2>7
<1>16. CASE Check
  <2>1. Place'
    BY ZenonT(30), <1>16 DEF Check, CancelAfterCreate, Transition, Place, WorkflowType,
      States, Shape, Honest
  <2>2. Shape'
    BY <1>16 DEF Check, CancelAfterCreate, Transition, Place, WorkflowType,
      States, Shape
  <2>3. Honest'
    BY <1>16 DEF Check, CancelAfterCreate, Transition, Place, WorkflowType,
      States, Shape, Honest, Answers, StillHolds
  <2>4. Heeded'
    BY <1>16 DEF Check, CancelAfterCreate, Transition, Place, WorkflowType,
      States, Shape, Honest, Answers, StillHolds, Heeded
  <2>5. Written'
    BY <1>16 DEF Check, CancelAfterCreate, Transition, Place, WorkflowType,
      States, Shape, Written
  <2>6. Answers'
    BY <1>16 DEF Check, CancelAfterCreate, Transition, Place, WorkflowType, States, Shape,
      Honest, Answers, StillHolds
  <2>7. Retries'
    BY <1>16 DEF Check, CancelAfterCreate, Transition, Place, WorkflowType, States, Shape,
      Answers, Request, Retries
  <2> QED  BY <2>1, <2>2, <2>3, <2>4, <2>5, <2>6, <2>7
<1>17. CASE WaitEnds
  <2>1. Place'
    <3> DEFINE w == [wf EXCEPT !.signal = "none", !.elapsed = @ + PollInterval]
    <3>a. w \in WorkflowType
      <4>1. wf.elapsed + PollInterval \in Nat
        BY DEF Place, WorkflowType
      <4>2. \A n \in Nat : [wf EXCEPT !.signal = "none", !.elapsed = n] \in WorkflowType
        BY DEF Place, WorkflowType
      <4> QED  BY <4>1, <4>2
    <3>b. \A v \in WorkflowType : /\ [v EXCEPT !.at = "status", !.tries = 0] \in WorkflowType
                                  /\ [v EXCEPT !.at = "check"] \in WorkflowType
      BY DEF WorkflowType
    <3>1. wf' \in WorkflowType
      BY <1>17, <3>a, <3>b, DecidedIs DEF WaitEnds
    <3> QED
      BY <1>17, <3>1 DEF WaitEnds, Decided, Transition, Place, WorkflowType,
        States, Shape, Honest
  <2>2. Shape'
    BY <1>17 DEF WaitEnds, Decided, Transition, Place, WorkflowType, States,
      Shape
  <2>3. Honest'
    BY <1>17 DEF WaitEnds, Decided, Transition, Place, WorkflowType, States,
      Shape, Honest, Answers, StillHolds
  <2>4. Heeded'
    BY <1>17 DEF WaitEnds, Decided, Transition, Place, WorkflowType, States,
      Shape, Honest, Answers, StillHolds, Heeded
  <2>5. Written'
    BY <1>17 DEF WaitEnds, Decided, Transition, Place, WorkflowType, States,
      Shape, Written
  <2>6. Answers'
    BY <1>17 DEF WaitEnds, Decided, Transition, Place, WorkflowType, States, Shape,
      Honest, Answers, StillHolds
  <2>7. Retries'
    BY <1>17 DEF WaitEnds, Decided, Transition, Place, WorkflowType, States, Shape,
      Answers, Request, Retries
  <2> QED  BY <2>1, <2>2, <2>3, <2>4, <2>5, <2>6, <2>7
<1>18. CASE StatusAnswers
  <2>1. Place'
    BY <1>18, DecidedPlaces DEF StatusAnswers, Place
  <2>2. Shape'
    BY <1>18 DEF StatusAnswers, Decided, Transition, Place, WorkflowType,
      States, Shape, ServiceType
  <2>3. Honest'
    BY <1>18 DEF StatusAnswers, Decided, Transition, Place, WorkflowType,
      States, Shape, ServiceType, Honest, Answers, StillHolds
  <2>4. Heeded'
    BY <1>18 DEF StatusAnswers, Decided, Transition, Place, WorkflowType,
      States, Shape, ServiceType, Honest, Answers, StillHolds, Heeded
  <2>5. Written'
    BY <1>18 DEF StatusAnswers, Decided, Transition, Place, WorkflowType,
      States, Shape, ServiceType, Written
  <2>6. Answers'
    BY <1>18 DEF StatusAnswers, Decided, Transition, Place, WorkflowType, States, Shape, ServiceType,
      Honest, Answers, StillHolds
  <2>7. Retries'
    BY <1>18 DEF StatusAnswers, Decided, Transition, Place, WorkflowType, States, Shape, ServiceType,
      Answers, Request, Retries
  <2> QED  BY <2>1, <2>2, <2>3, <2>4, <2>5, <2>6, <2>7
<1>19. CASE CancelAnswers
  <2>1. PICK state \in {"CANCELLED", "CANNOT_CANCEL", "FAILED"} :
          /\ wf' = Transition(wf, state, "done")
          /\ state = "CANCELLED" => external.answer \in {"cancelled", "accepted"}
          /\ state = "CANNOT_CANCEL" => external.answer = "cannot_cancel"
    BY <1>19 DEF CancelAnswers, Answers
  <2>2. /\ wf.at = "cancel" /\ external.answer # "none" /\ external.cancelling
        /\ UNCHANGED <<config, external, asked, row, outbox, late, faults>>
    BY <1>19 DEF CancelAnswers, Answers
  <2> USE <2>1, <2>2
  <2>3. Place'
    BY SMTT(30), TransitionIs DEF Place, WorkflowType, States, Shape, Honest
  <2>4. Shape'
    BY TransitionIs DEF Place, WorkflowType, States, Shape
  <2>5. Honest'
    BY SMTT(30), TransitionIs DEF Place, WorkflowType, States, Shape, Honest, Answers, StillHolds
  <2>6. Heeded'
    BY SMTT(30), TransitionIs DEF Place, WorkflowType, States, Shape, Honest, StillHolds,
      Heeded
  <2>7. Written'
    BY SMTT(30), TransitionIs DEF Place, WorkflowType, States, Shape, Written
  <2>8. Answers'
    BY SMTT(30), TransitionIs DEF Place, WorkflowType, States, Shape, Answers, StillHolds
  <2>9. Retries'
    BY SMTT(30), TransitionIs DEF Place, WorkflowType, States, Shape, Retries, Request
  <2> QED  BY <2>3, <2>4, <2>5, <2>6, <2>7, <2>8, <2>9
<1>20. CASE UNCHANGED vars
  BY <1>20 DEF vars, Place, Shape, Honest, Answers, StillHolds, Heeded, Written, Retries, Request
<1> QED
  BY <1>1, <1>2, <1>3, <1>4, <1>5, <1>6, <1>7, <1>8, <1>9, <1>10, <1>11, <1>12, <1>13, <1>14, <1>15, <1>16, <1>17, <1>18, <1>19, <1>20
  DEF Next, Workflow, Service

(* The first step of an action.                                                 *)
LEMMA ActionInit == Init => ActionInv
  BY DurableActionAssumption
  DEF Init, ActionInv, Place, WorkflowType, States, Shape, ServiceType, Honest, Answers, StillHolds,
    Heeded, Written, Retries, Request

(* What the invariant says of the properties of an action.                      *)
LEMMA ActionSays ==
  ASSUME ActionInv
  PROVE  TypeOK /\ CancelIsHonoured /\ SaysWhatHappened /\ RowIsCurrent /\ RepeatsAreRetries
<1> USE DurableActionAssumption DEF ActionInv, Place, WorkflowType, States, Shape
<1>1. TypeOK
  BY DEF TypeOK
<1>2. CancelIsHonoured
  BY DEF CancelIsHonoured, EarlyCancelIsDecided, CancelIsTried, Ended, Heeded
<1>3. SaysWhatHappened
  BY DEF SaysWhatHappened, Honest
<1>4. RowIsCurrent
  BY DEF RowIsCurrent, Written
<1>5. RepeatsAreRetries
  BY DEF RepeatsAreRetries, Retries
<1> QED  BY <1>1, <1>2, <1>3, <1>4, <1>5
--------------------------------------------------------------------------------
(* A webhook. Its workflow, and the executions of its activities.               *)
DeliveryType ==
  [at : {"request", "deliver", "finish", "done"}, n : Nat,
   state : {"REQUESTED", "DELIVERING", "DELIVERED", "FAILED"}]

ExecutionType ==
  [step : {"post", "record", "persist", "answer", "over"}, n : Nat,
   status : {"REQUESTED", "DELIVERING", "DELIVERED", "FAILED"}, ok : BOOLEAN]

DeliveryShape ==
  /\ delivery \in DeliveryType
  /\ delivery.n <= MaxAttempts
  /\ delivery.at = "request" <=> delivery.n = 0
  /\ delivery.at = "request" => delivery.state = "REQUESTED"
  /\ delivery.at = "deliver" => delivery.state = "DELIVERING"
  /\ delivery.at \in {"finish", "done"} => delivery.state \in {"DELIVERED", "FAILED"}
  /\ delivery.state = "FAILED" => delivery.n = MaxAttempts
  /\ execs \in Seq(ExecutionType)
  /\ Len(execs) > 0
  /\ deliveryRow \in [status : {"absent", "REQUESTED", "DELIVERING", "DELIVERED", "FAILED"},
                      attempts : Nat, stale : BOOLEAN]
  /\ deliveryRow.attempts <= delivery.n
  /\ tried \in [1..MaxAttempts -> Nat]
  /\ receiver \in [posts : Nat, accepted : Nat]
  /\ deliveryFaults \in 0..MaxFaults

(* What an execution is about to do belongs to the activity it is of; the one   *)
(* that is awaited is of the activity the workflow is at.                       *)
ExecutionsFit ==
  /\ \A i \in 1..Len(execs) :
       /\ execs[i].n <= delivery.n
       /\ execs[i].step \in {"post", "record"} => execs[i].n > 0
       /\ i < Len(execs) => execs[i].step # "answer"
  /\ LET e == execs[Len(execs)]
     IN  /\ e.n = delivery.n
         /\ delivery.at \in {"request", "finish"} =>
              e.step \in {"persist", "answer"} /\ e.status = delivery.state
         /\ delivery.at = "deliver" => e.step # "over"
         /\ delivery.at = "deliver" /\ e.step \in {"persist", "answer"} =>
              e.status = IF e.ok THEN "DELIVERED" ELSE "DELIVERING"
         /\ delivery.at = "done" => e.step = "over"

(* Who says that the webhook was delivered heard it from the receiver.          *)
DeliveryHonest ==
  /\ \A i \in 1..Len(execs) :
       execs[i].ok \/ execs[i].status = "DELIVERED" => receiver.accepted > 0
  /\ delivery.state = "DELIVERED" \/ deliveryRow.status = "DELIVERED" => receiver.accepted > 0

(* Every attempt that is over has its row, and the row of the delivery is       *)
(* written before the activity answers.                                         *)
DeliveryWritten ==
  LET e == execs[Len(execs)] IN
    /\ \A n \in 1..MaxAttempts :
         n < delivery.n \/ (n = delivery.n /\ (delivery.at \in {"finish", "done"} \/
                                               e.step \in {"persist", "answer"}))
         => tried[n] > 0
    /\ e.step = "answer" =>
         deliveryRow.attempts = delivery.n /\ (deliveryRow.status = e.status \/ deliveryRow.stale)
    /\ delivery.at = "done" =>
         /\ deliveryRow.attempts = delivery.n
         /\ deliveryRow.status = delivery.state \/ deliveryRow.stale

(* Executions that have yet to POST.                                            *)
Posting == {i \in 1..Len(execs) : execs[i].step = "post"}

(* A POST is made or still to be made for every attempt and for every fault.    *)
PostsAreCounted == receiver.posts + Cardinality(Posting) <= delivery.n + deliveryFaults

WebhookInv ==
  DeliveryShape /\ ExecutionsFit /\ DeliveryHonest /\ DeliveryWritten /\ PostsAreCounted

(* One execution is replaced by another.                                        *)
LEMMA Replaced ==
  ASSUME DeliveryShape, NEW i \in 1..Len(execs), NEW e \in ExecutionType,
         execs' = [execs EXCEPT ![i] = e]
  PROVE  /\ execs' \in Seq(ExecutionType) /\ Len(execs') = Len(execs)
         /\ \A j \in 1..Len(execs) : execs'[j] = IF j = i THEN e ELSE execs[j]
  BY ExceptSeq DEF DeliveryShape

(* What happens to one execution changes the number of those that will POST by  *)
(* one at most.                                                                 *)
LEMMA PostingChanges ==
  ASSUME DeliveryShape, execs' \in Seq(ExecutionType), NEW i \in 1..Len(execs'),
         \A j \in 1..Len(execs') : j # i => j <= Len(execs) /\ execs'[j].step = execs[j].step
  PROVE  /\ Cardinality(Posting) \in Nat /\ Cardinality(Posting') \in Nat
         /\ Cardinality(Posting') <= Cardinality(Posting) + 1
         /\ execs'[i].step # "post" => Cardinality(Posting') <= Cardinality(Posting)
         /\ i \in Posting /\ execs'[i].step # "post" =>
              Cardinality(Posting') <= Cardinality(Posting) - 1
<1>1. Len(execs) \in Nat /\ Len(execs') \in Nat
  BY DEF DeliveryShape
<1>2. IsFiniteSet(1..Len(execs)) /\ IsFiniteSet(1..Len(execs'))
  BY <1>1, FS_Interval
<1>3. IsFiniteSet(Posting) /\ IsFiniteSet(Posting')
  BY <1>2, FS_Subset DEF Posting
<1>4. Posting' \subseteq Posting \cup {i} /\ (execs'[i].step # "post" => Posting' \subseteq Posting \ {i})
  BY <1>1 DEF Posting
<1>5. IsFiniteSet(Posting \cup {i}) /\ Cardinality(Posting \cup {i}) <= Cardinality(Posting) + 1
  <2>1. Cardinality(Posting) \in Nat
    BY <1>3, FS_CardinalityType
  <2>2. IsFiniteSet(Posting \cup {i})
        /\ Cardinality(Posting \cup {i}) = IF i \in Posting THEN Cardinality(Posting)
                                           ELSE Cardinality(Posting) + 1
    BY <1>3, FS_AddElement
  <2> QED  BY <2>1, <2>2
<1>6. IsFiniteSet(Posting \ {i})
      /\ Cardinality(Posting \ {i}) = IF i \in Posting THEN Cardinality(Posting) - 1
                                      ELSE Cardinality(Posting)
  BY <1>3, FS_RemoveElement
<1>7. Cardinality(Posting') <= Cardinality(Posting \cup {i})
  BY <1>4, <1>5, FS_Subset
<1>8. execs'[i].step # "post" => Cardinality(Posting') <= Cardinality(Posting \ {i})
  BY <1>4, <1>6, FS_Subset
<1>9. Cardinality(Posting) \in Nat /\ Cardinality(Posting') \in Nat
  BY <1>3, FS_CardinalityType
<1> QED  BY <1>5, <1>6, <1>7, <1>8, <1>9, FS_CardinalityType

(* An execution posts.                                                          *)
LEMMA PostStep ==
  ASSUME WebhookInv, NEW i \in 1..Len(execs), Webhook!Post(i)
  PROVE  WebhookInv'
<1> USE DEF WebhookInv
<1>1. PICK ok \in BOOLEAN :
        /\ execs' = [execs EXCEPT ![i].step = "record", ![i].ok = ok]
        /\ \/ receiver' = [receiver EXCEPT !.posts = @ + 1, !.accepted = @ + 1]
           \/ ~ok /\ receiver' = [receiver EXCEPT !.posts = @ + 1]
           \/ ~ok /\ receiver' = receiver
  BY DEF Webhook!Post
<1>2. execs[i].step = "post" /\ UNCHANGED <<delivery, deliveryRow, tried, deliveryFaults>>
  BY DEF Webhook!Post
<1> DEFINE e == [execs[i] EXCEPT !.step = "record", !.ok = ok]
<1>3. /\ e \in ExecutionType /\ execs[i] \in ExecutionType
      /\ e.step = "record" /\ e.ok = ok /\ e.n = execs[i].n /\ e.status = execs[i].status
  <2>1. execs[i] \in ExecutionType
    BY ElementOfSeq DEF DeliveryShape
  <2> QED  BY <2>1 DEF ExecutionType
<1>4. execs' = [execs EXCEPT ![i] = e]
  BY <1>1 DEF DeliveryShape
<1> HIDE DEF e
<1>5. /\ execs' \in Seq(ExecutionType) /\ Len(execs') = Len(execs) /\ Len(execs) \in Nat
      /\ \A j \in 1..Len(execs) : execs'[j] = IF j = i THEN e ELSE execs[j]
  BY <1>3, <1>4, Replaced DEF DeliveryShape
<1>6. /\ receiver' \in [posts : Nat, accepted : Nat]
      /\ receiver'.posts <= receiver.posts + 1
      /\ receiver'.accepted >= receiver.accepted /\ (ok => receiver'.accepted > 0)
  <2>1. receiver \in [posts : Nat, accepted : Nat]
    BY DEF DeliveryShape
  <2>2. \A a, b \in Nat :
          LET r == [receiver EXCEPT !.posts = a, !.accepted = b]
          IN  r \in [posts : Nat, accepted : Nat] /\ r.posts = a /\ r.accepted = b
    BY <2>1
  <2>3. receiver.posts + 1 \in Nat /\ receiver.accepted + 1 \in Nat
    BY <2>1
  <2>4. \A a \in Nat :
          LET r == [receiver EXCEPT !.posts = a]
          IN  r \in [posts : Nat, accepted : Nat] /\ r.posts = a /\ r.accepted = receiver.accepted
    BY <2>1
  <2>5. CASE receiver' = [receiver EXCEPT !.posts = @ + 1, !.accepted = @ + 1]
    <3>1. receiver' = [receiver EXCEPT !.posts = receiver.posts + 1,
                                       !.accepted = receiver.accepted + 1]
      BY <2>1, <2>5
    <3>2. /\ receiver' \in [posts : Nat, accepted : Nat]
          /\ receiver'.posts = receiver.posts + 1
          /\ receiver'.accepted = receiver.accepted + 1
      BY <2>2, <2>3, <3>1
    <3> QED  BY <2>1, <3>2
  <2>6. CASE ~ok /\ receiver' = [receiver EXCEPT !.posts = @ + 1]
    BY <2>1, <2>3, <2>4, <2>6
  <2>7. CASE ~ok /\ receiver' = receiver
    BY <2>1, <2>7
  <2> QED  BY <1>1, <2>5, <2>6, <2>7
<1>7. DeliveryShape'
  BY <1>2, <1>5, <1>6 DEF DeliveryShape
<1>8. ExecutionsFit'
  BY SMTT(60), <1>2, <1>3, <1>5 DEF ExecutionsFit, DeliveryShape
<1>9. DeliveryHonest'
  <2>1. ASSUME NEW j \in 1..Len(execs), execs'[j].ok \/ execs'[j].status = "DELIVERED"
        PROVE  receiver'.accepted > 0
    <3>1. receiver.accepted \in Nat /\ receiver'.accepted \in Nat
      BY <1>6 DEF DeliveryShape
    <3>2. CASE j = i
      <4>1. execs'[j].ok = ok /\ execs'[j].status = execs[i].status
        BY <1>3, <1>5, <3>2
      <4> QED  BY <1>6, <2>1, <3>1, <4>1 DEF DeliveryHonest
    <3>3. CASE j # i
      <4>1. execs'[j] = execs[j]
        BY <1>5, <3>3
      <4> QED  BY <1>6, <2>1, <3>1, <4>1 DEF DeliveryHonest
    <3> QED  BY <3>2, <3>3
  <2> QED  BY <1>2, <1>5, <1>6, <2>1 DEF DeliveryHonest, DeliveryShape
<1>10. DeliveryWritten'
  BY <1>2, <1>3, <1>5 DEF DeliveryWritten, ExecutionsFit, DeliveryShape
<1>11. PostsAreCounted'
  <2>1. i \in Posting
    BY <1>2 DEF Posting
  <2>2. Cardinality(Posting') <= Cardinality(Posting) - 1
        /\ Cardinality(Posting) \in Nat /\ Cardinality(Posting') \in Nat
    BY SMTT(30), <1>3, <1>5, <2>1, PostingChanges
  <2> QED  BY <1>2, <1>6, <2>2 DEF PostsAreCounted, DeliveryShape, DeliveryType
<1> QED  BY <1>7, <1>8, <1>9, <1>10, <1>11

(* What an activity begins with.                                                *)
LEMMA Begins ==
  ASSUME NEW d \in DeliveryType, d.at # "done"
  PROVE  /\ Webhook!Activity(d) \in ExecutionType
         /\ Webhook!Activity(d).step = IF d.at = "deliver" THEN "post" ELSE "persist"
         /\ Webhook!Activity(d).n = d.n /\ Webhook!Activity(d).status = d.state
         /\ Webhook!Activity(d).ok = FALSE
  BY DEF DeliveryType, ExecutionType, Webhook!Activity

(* An execution writes the row of its attempt.                                  *)
LEMMA RecordStep ==
  ASSUME WebhookInv, NEW i \in 1..Len(execs), Webhook!Record(i)
  PROVE  WebhookInv'
<1> USE DEF WebhookInv
<1>1. /\ execs[i].step = "record"
      /\ tried' = [tried EXCEPT ![execs[i].n] = @ + 1]
      /\ execs' = [execs EXCEPT ![i].step = "persist",
                     ![i].status = IF execs[i].ok THEN "DELIVERED" ELSE "DELIVERING"]
      /\ UNCHANGED <<delivery, deliveryRow, receiver, deliveryFaults>>
  BY DEF Webhook!Record
<1> DEFINE status == IF execs[i].ok THEN "DELIVERED" ELSE "DELIVERING"
           e == [execs[i] EXCEPT !.step = "persist", !.status = status]
<1>2. execs[i] \in ExecutionType
  BY ElementOfSeq DEF DeliveryShape
<1>3. /\ e \in ExecutionType
      /\ e.step = "persist" /\ e.ok = execs[i].ok /\ e.n = execs[i].n /\ e.status = status
  BY <1>2 DEF ExecutionType
<1>4. execs' = [execs EXCEPT ![i] = e]
  BY <1>1 DEF DeliveryShape
<1> HIDE DEF e
<1>5. /\ execs' \in Seq(ExecutionType) /\ Len(execs') = Len(execs) /\ Len(execs) \in Nat
      /\ \A j \in 1..Len(execs) : execs'[j] = IF j = i THEN e ELSE execs[j]
  BY <1>3, <1>4, Replaced DEF DeliveryShape
<1>6. execs[i].n \in 1..MaxAttempts /\ MaxAttempts \in Nat
  BY <1>1, <1>2, WorkflowsAssumption
  DEF Webhook!WebhookAssumption, ExecutionsFit, ExecutionType, DeliveryShape, DeliveryType
<1>7. /\ tried' \in [1..MaxAttempts -> Nat]
      /\ tried'[execs[i].n] > 0
      /\ \A n \in 1..MaxAttempts : tried[n] > 0 => tried'[n] > 0
  BY <1>1, <1>6 DEF DeliveryShape
<1>8. DeliveryShape'
  BY <1>1, <1>5, <1>7 DEF DeliveryShape
<1>9. ExecutionsFit'
  BY <1>1, <1>3, <1>5 DEF ExecutionsFit, DeliveryShape
<1>10. DeliveryHonest'
  <2>1. ASSUME NEW j \in 1..Len(execs), execs'[j].ok \/ execs'[j].status = "DELIVERED"
        PROVE  receiver.accepted > 0
    <3>1. CASE j = i
      <4>1. execs'[j].ok = execs[i].ok /\ execs'[j].status = status
        BY <1>3, <1>5, <3>1
      <4> QED  BY <2>1, <4>1 DEF DeliveryHonest
    <3>2. CASE j # i
      <4>1. execs'[j] = execs[j]
        BY <1>5, <3>2
      <4> QED  BY <2>1, <4>1 DEF DeliveryHonest
    <3> QED  BY <3>1, <3>2
  <2> QED  BY <1>1, <1>5, <2>1 DEF DeliveryHonest
<1>11. DeliveryWritten'
  BY SMTT(30), <1>1, <1>3, <1>5, <1>7 DEF DeliveryWritten, ExecutionsFit, DeliveryShape
<1>12. PostsAreCounted'
  <2>1. Cardinality(Posting') <= Cardinality(Posting)
        /\ Cardinality(Posting) \in Nat /\ Cardinality(Posting') \in Nat
    BY <1>3, <1>5, PostingChanges
  <2> QED  BY <1>1, <2>1 DEF PostsAreCounted, DeliveryShape, DeliveryType
<1> QED  BY <1>8, <1>9, <1>10, <1>11, <1>12

(* An execution persists the delivery.                                          *)
LEMMA PersistStep ==
  ASSUME WebhookInv, NEW i \in 1..Len(execs), Webhook!Persist(i)
  PROVE  WebhookInv'
<1> USE DEF WebhookInv
<1> DEFINE e == IF i < Len(execs) THEN [execs[i] EXCEPT !.step = "over", !.ok = FALSE]
                ELSE [execs[i] EXCEPT !.step = "answer"]
           attempts == IF deliveryRow.attempts > execs[i].n THEN deliveryRow.attempts
                       ELSE execs[i].n
<1>1. /\ execs[i].step = "persist"
      /\ deliveryRow' = [status |-> execs[i].status, attempts |-> attempts,
                         stale |-> i < Len(execs)]
      /\ execs' = [execs EXCEPT ![i] = e]
      /\ UNCHANGED <<delivery, tried, receiver, deliveryFaults>>
  BY DEF Webhook!Persist, Webhook!Over, Webhook!Larger, Webhook!Last, DeliveryShape
<1>2. execs[i] \in ExecutionType /\ Len(execs) \in Nat
  BY ElementOfSeq DEF DeliveryShape
<1>3. /\ e \in ExecutionType /\ e.n = execs[i].n /\ e.status = execs[i].status
      /\ i < Len(execs) => e.step = "over" /\ e.ok = FALSE
      /\ i = Len(execs) => e.step = "answer" /\ e.ok = execs[i].ok
  <2>1. CASE i < Len(execs)
    <3>1. \A x \in ExecutionType :
            LET o == [x EXCEPT !.step = "over", !.ok = FALSE]
            IN  /\ o \in ExecutionType /\ o.n = x.n /\ o.status = x.status
                /\ o.step = "over" /\ o.ok = FALSE
      BY DEF ExecutionType
    <3>2. e = [execs[i] EXCEPT !.step = "over", !.ok = FALSE]
      BY <2>1
    <3> HIDE DEF e
    <3>3. /\ e \in ExecutionType /\ e.n = execs[i].n /\ e.status = execs[i].status
          /\ e.step = "over" /\ e.ok = FALSE
      BY <1>2, <3>1, <3>2
    <3>4. i # Len(execs)
      BY <1>2, <2>1
    <3> QED  BY <2>1, <3>3, <3>4
  <2>2. CASE ~(i < Len(execs))
    BY <1>2, <2>2 DEF ExecutionType
  <2> QED  BY <2>1, <2>2
<1> HIDE DEF e
<1>5. /\ execs' \in Seq(ExecutionType) /\ Len(execs') = Len(execs) /\ Len(execs) \in Nat
      /\ \A j \in 1..Len(execs) : execs'[j] = IF j = i THEN e ELSE execs[j]
  BY <1>1, <1>3, Replaced DEF DeliveryShape
<1>6. /\ attempts \in Nat /\ attempts <= delivery.n /\ deliveryRow.attempts <= attempts
      /\ execs[i].n <= attempts
  BY <1>2 DEF ExecutionsFit, ExecutionType, DeliveryShape, DeliveryType
<1>7. /\ deliveryRow'.status = execs[i].status /\ deliveryRow'.attempts = attempts
      /\ deliveryRow'.stale = (i < Len(execs))
      /\ deliveryRow' \in [status : {"absent", "REQUESTED", "DELIVERING", "DELIVERED", "FAILED"},
                           attempts : Nat, stale : BOOLEAN]
  <2>1. execs[i].status \in {"REQUESTED", "DELIVERING", "DELIVERED", "FAILED"}
    BY <1>2 DEF ExecutionType
  <2>2. (i < Len(execs)) \in BOOLEAN
    OBVIOUS
  <2> QED  BY <1>1, <1>6, <2>1, <2>2
<1> HIDE DEF attempts
<1>8. DeliveryShape'
  BY <1>1, <1>5, <1>6, <1>7 DEF DeliveryShape
<1>9. ExecutionsFit'
  <2>1. \A j \in 1..Len(execs) :
          /\ execs'[j].n = execs[j].n /\ execs'[j].status = execs[j].status
          /\ j = i \/ execs'[j] = execs[j]
    BY <1>3, <1>5
  <2>2. execs'[i].step = IF i < Len(execs) THEN "over" ELSE "answer"
    BY <1>3, <1>5
  <2>3. Len(execs) \in 1..Len(execs)
    BY <1>5 DEF DeliveryShape
  <2>4. \A j \in 1..Len(execs) :
          /\ execs'[j].n <= delivery.n
          /\ execs'[j].step \in {"post", "record"} => execs'[j].n > 0
          /\ j < Len(execs) => execs'[j].step # "answer"
    BY <1>5, <2>1, <2>2 DEF ExecutionsFit
  <2>5. CASE i = Len(execs)
    <3>1. /\ execs'[Len(execs)].n = execs[Len(execs)].n
          /\ execs'[Len(execs)].status = execs[Len(execs)].status
          /\ execs'[Len(execs)].ok = execs[Len(execs)].ok
          /\ execs'[Len(execs)].step = "answer" /\ execs[Len(execs)].step = "persist"
      <4>1. execs'[i] = e /\ ~(i < Len(execs))
        BY <1>5, <2>5
      <4> QED  BY <1>1, <1>3, <2>5, <4>1
    <3> QED  BY <1>1, <1>5, <2>4, <3>1 DEF ExecutionsFit
  <2>6. CASE i < Len(execs)
    <3>1. execs'[Len(execs)] = execs[Len(execs)]
      BY <2>1, <2>3, <2>6
    <3> QED  BY <1>1, <1>5, <2>4, <3>1 DEF ExecutionsFit
  <2> QED  BY <1>5, <2>5, <2>6
<1>10. DeliveryHonest'
  <2>1. ASSUME NEW j \in 1..Len(execs), execs'[j].ok \/ execs'[j].status = "DELIVERED"
        PROVE  receiver.accepted > 0
    <3>1. CASE j = i
      <4>1. (execs'[j].ok => execs[i].ok) /\ execs'[j].status = execs[i].status
        BY <1>2, <1>3, <1>5, <3>1
      <4> QED  BY <2>1, <4>1 DEF DeliveryHonest
    <3>2. CASE j # i
      <4>1. execs'[j] = execs[j]
        BY <1>5, <3>2
      <4> QED  BY <2>1, <4>1 DEF DeliveryHonest
    <3> QED  BY <3>1, <3>2
  <2> QED  BY <1>1, <1>5, <1>7, <2>1 DEF DeliveryHonest
<1>11. DeliveryWritten'
  <2>1. CASE i = Len(execs)
    BY <1>1, <1>3, <1>5, <1>6, <1>7, <2>1
    DEF DeliveryWritten, ExecutionsFit, DeliveryShape, DeliveryType
  <2>2. CASE i < Len(execs)
    <3>1. execs'[Len(execs)] = execs[Len(execs)] /\ Len(execs') = Len(execs)
      BY <1>5, <2>2 DEF DeliveryShape
    <3>2. /\ deliveryRow'.stale = TRUE
          /\ deliveryRow.attempts = delivery.n => deliveryRow'.attempts = delivery.n
      BY <1>6, <1>7, <2>2 DEF DeliveryShape, DeliveryType
    <3> QED  BY <1>1, <3>1, <3>2 DEF DeliveryWritten
  <2> QED  BY <1>5, <2>1, <2>2
<1>12. PostsAreCounted'
  <2>1. Cardinality(Posting') <= Cardinality(Posting)
        /\ Cardinality(Posting) \in Nat /\ Cardinality(Posting') \in Nat
    <3>1. e.step # "post"
      BY <1>2, <1>3
    <3> QED  BY <1>5, <3>1, PostingChanges
  <2> QED  BY <1>1, <2>1 DEF PostsAreCounted, DeliveryShape, DeliveryType
<1> QED  BY <1>8, <1>9, <1>10, <1>11, <1>12

(* The awaited execution raises, and its activity begins again.                 *)
LEMMA RaiseStep ==
  ASSUME WebhookInv, Webhook!Raise
  PROVE  WebhookInv'
<1> USE DEF WebhookInv
<1> DEFINE i == Len(execs)
           e == Webhook!Activity(delivery)
<1>1. /\ deliveryFaults < MaxFaults /\ deliveryFaults' = deliveryFaults + 1
      /\ execs[i].step # "over"
      /\ execs' = [execs EXCEPT ![i] = e]
      /\ UNCHANGED <<delivery, deliveryRow, tried, receiver>>
  BY DEF Webhook!Raise, Webhook!Last
<1>2. Len(execs) \in Nat /\ i \in 1..Len(execs) /\ delivery \in DeliveryType /\ delivery.at # "done"
  BY <1>1 DEF DeliveryShape, ExecutionsFit
<1>3. /\ e \in ExecutionType
      /\ e.step = IF delivery.at = "deliver" THEN "post" ELSE "persist"
      /\ e.n = delivery.n /\ e.status = delivery.state /\ e.ok = FALSE
  BY <1>2, Begins
<1> HIDE DEF e
<1>4. /\ execs' \in Seq(ExecutionType) /\ Len(execs') = i
      /\ \A j \in 1..i : execs'[j] = IF j = i THEN e ELSE execs[j]
  BY <1>1, <1>2, <1>3, Replaced
<1>5. execs'[i] = e /\ \A j \in 1..i : j # i => execs'[j] = execs[j]
  BY <1>2, <1>4
<1> HIDE DEF i
<1>6. DeliveryShape'
  <2>1. deliveryFaults' \in 0..MaxFaults
    BY <1>1, DurableActionAssumption DEF DeliveryShape
  <2> QED  BY <1>1, <1>2, <1>4, <2>1 DEF DeliveryShape
<1>7. ExecutionsFit'
  <2>1. e.n > 0 \/ e.step = "persist"
    BY <1>2, <1>3 DEF DeliveryShape, DeliveryType
  <2>2. \A j \in 1..i : j # i => /\ execs[j].n <= delivery.n
                                 /\ execs[j].step \in {"post", "record"} => execs[j].n > 0
                                 /\ execs[j].step # "answer"
    BY <1>2 DEF ExecutionsFit, i
  <2>3. \A j \in 1..i : /\ execs'[j].n <= delivery.n
                        /\ execs'[j].step \in {"post", "record"} => execs'[j].n > 0
                        /\ j < i => execs'[j].step # "answer"
    BY <1>2, <1>3, <1>5, <2>1, <2>2 DEF DeliveryType
  <2> QED  BY <1>1, <1>2, <1>3, <1>4, <1>5, <2>3 DEF ExecutionsFit, DeliveryType
<1>8. DeliveryHonest'
  <2>1. ASSUME NEW j \in 1..i, execs'[j].ok \/ execs'[j].status = "DELIVERED"
        PROVE  receiver.accepted > 0
    <3>1. CASE j = i
      BY <1>3, <1>5, <2>1, <3>1 DEF DeliveryHonest
    <3>2. CASE j # i
      BY <1>5, <2>1, <3>2 DEF DeliveryHonest, i
    <3> QED  BY <3>1, <3>2
  <2> QED  BY <1>1, <1>4, <2>1 DEF DeliveryHonest
<1>9. DeliveryWritten'
  <2>1. execs'[Len(execs')] = e /\ e.step # "answer"
    BY <1>2, <1>3, <1>4, <1>5
  <2>2. delivery.at = "finish" \/ e.step # "persist" \/ delivery.n = 0
    BY <1>2, <1>3 DEF DeliveryShape, DeliveryType
  <2> QED  BY <1>1, <1>2, <2>1, <2>2 DEF DeliveryWritten, DeliveryType
<1>10. PostsAreCounted'
  <2>1. i \in 1..Len(execs') /\ \A j \in 1..Len(execs') : j # i => j <= Len(execs) /\ execs'[j].step = execs[j].step
    BY <1>2, <1>4, <1>5 DEF i
  <2>2. /\ Cardinality(Posting) \in Nat /\ Cardinality(Posting') \in Nat
        /\ Cardinality(Posting') <= Cardinality(Posting) + 1
    BY <1>4, <2>1, PostingChanges
  <2> QED  BY <1>1, <2>2 DEF PostsAreCounted, DeliveryShape, DeliveryType
<1> QED  BY <1>6, <1>7, <1>8, <1>9, <1>10

(* The awaited execution times out: it runs on beside the one that is started.  *)
LEMMA TimeOutStep ==
  ASSUME WebhookInv, Webhook!TimeOut
  PROVE  WebhookInv'
<1> USE DEF WebhookInv
<1> DEFINE i == Len(execs)
           e == Webhook!Activity(delivery)
<1>1. /\ deliveryFaults < MaxFaults /\ deliveryFaults' = deliveryFaults + 1
      /\ execs[i].step \notin {"answer", "over"}
      /\ execs' = Append(execs, e)
      /\ UNCHANGED <<delivery, deliveryRow, tried, receiver>>
  BY DEF Webhook!TimeOut, Webhook!Last
<1>2. Len(execs) \in Nat /\ i \in 1..Len(execs) /\ delivery \in DeliveryType /\ delivery.at # "done"
  BY <1>1 DEF DeliveryShape, ExecutionsFit
<1>3. /\ e \in ExecutionType
      /\ e.step = IF delivery.at = "deliver" THEN "post" ELSE "persist"
      /\ e.n = delivery.n /\ e.status = delivery.state /\ e.ok = FALSE
  BY <1>2, Begins
<1> HIDE DEF e
<1>4. /\ execs' \in Seq(ExecutionType) /\ Len(execs') = i + 1
      /\ execs'[i + 1] = e /\ \A j \in 1..i : execs'[j] = execs[j]
  BY <1>1, <1>2, <1>3, AppendProperties DEF DeliveryShape
<1> HIDE DEF i
<1>5. \A j \in 1..(i + 1) : j = i + 1 \/ j \in 1..i
  BY <1>2 DEF i
<1>6. DeliveryShape'
  <2>1. deliveryFaults' \in 0..MaxFaults
    BY <1>1, DurableActionAssumption DEF DeliveryShape
  <2> QED  BY <1>1, <1>2, <1>4, <2>1 DEF DeliveryShape, i
<1>7. ExecutionsFit'
  <2>1. e.n > 0 \/ e.step = "persist"
    BY <1>2, <1>3 DEF DeliveryShape, DeliveryType
  <2>2. \A j \in 1..i : /\ execs[j].n <= delivery.n
                        /\ execs[j].step \in {"post", "record"} => execs[j].n > 0
                        /\ execs[j].step # "answer"
    BY <1>1, <1>2 DEF ExecutionsFit, i
  <2>3. \A j \in 1..(i + 1) : /\ execs'[j].n <= delivery.n
                              /\ execs'[j].step \in {"post", "record"} => execs'[j].n > 0
                              /\ j < i + 1 => execs'[j].step # "answer"
    BY <1>2, <1>3, <1>4, <1>5, <2>1, <2>2 DEF DeliveryType, i
  <2> QED  BY <1>1, <1>2, <1>3, <1>4, <2>3 DEF ExecutionsFit, DeliveryType
<1>8. DeliveryHonest'
  <2>1. ASSUME NEW j \in 1..(i + 1), execs'[j].ok \/ execs'[j].status = "DELIVERED"
        PROVE  receiver.accepted > 0
    <3>1. CASE j = i + 1
      BY <1>3, <1>4, <2>1, <3>1 DEF DeliveryHonest
    <3>2. CASE j \in 1..i
      BY <1>4, <2>1, <3>2 DEF DeliveryHonest, i
    <3> QED  BY <1>5, <3>1, <3>2
  <2> QED  BY <1>1, <1>4, <2>1 DEF DeliveryHonest
<1>9. DeliveryWritten'
  BY <1>1, <1>2, <1>3, <1>4 DEF DeliveryWritten, DeliveryShape, DeliveryType, i
<1>10. PostsAreCounted'
  <2>1. i + 1 \in 1..Len(execs')
        /\ \A j \in 1..Len(execs') : j # i + 1 => j <= Len(execs) /\ execs'[j].step = execs[j].step
    BY <1>2, <1>4, <1>5 DEF i
  <2>2. /\ Cardinality(Posting) \in Nat /\ Cardinality(Posting') \in Nat
        /\ Cardinality(Posting') <= Cardinality(Posting) + 1
    BY <1>4, <2>1, PostingChanges
  <2> QED  BY <1>1, <2>2 DEF PostsAreCounted, DeliveryShape, DeliveryType
<1> QED  BY <1>6, <1>7, <1>8, <1>9, <1>10

(* The awaited execution answers, and the workflow goes on.                     *)
LEMMA AnswerStep ==
  ASSUME WebhookInv, Webhook!Answer
  PROVE  WebhookInv'
<1> USE DEF WebhookInv
<1> DEFINE i == Len(execs)
<1>1. /\ execs[i].step = "answer"
      /\ UNCHANGED <<deliveryRow, tried, receiver, deliveryFaults>>
  BY DEF Webhook!Answer, Webhook!Last
<1>2. /\ Len(execs) \in Nat /\ i \in 1..Len(execs) /\ delivery \in DeliveryType
      /\ delivery.at # "done" /\ execs[i] \in ExecutionType
      /\ MaxAttempts \in Nat \ {0} /\ delivery.n \in Nat /\ execs[i].n = delivery.n
  BY <1>1, WorkflowsAssumption, ElementOfSeq
  DEF Webhook!WebhookAssumption, DeliveryShape, ExecutionsFit, DeliveryType
(* Where it goes, and which execution it awaits there.                          *)
<1>3. PICK e \in ExecutionType :
        /\ execs' = [execs EXCEPT ![i] = e]
        /\ delivery' \in DeliveryType
        /\ e.n = delivery'.n /\ e.status = delivery'.state /\ ~e.ok
        /\ \/ /\ delivery'.at = "deliver" /\ e.step = "post"
              /\ delivery'.n = delivery.n + 1 /\ delivery.n < MaxAttempts
              /\ delivery'.state = "DELIVERING"
           \/ /\ delivery.at = "deliver" /\ delivery'.at = "finish" /\ e.step = "persist"
              /\ delivery'.n = delivery.n
              /\ \/ delivery'.state = "DELIVERED" /\ execs[i].ok
                 \/ delivery'.state = "FAILED" /\ delivery.n = MaxAttempts
           \/ /\ delivery.at = "finish" /\ delivery'.at = "done" /\ e.step = "over"
              /\ delivery'.n = delivery.n /\ delivery'.state = delivery.state
  <2>1. ASSUME NEW d \in DeliveryType, d.at # "done", Webhook!GoTo(d)
        PROVE  LET e == Webhook!Activity(d)
               IN  /\ e \in ExecutionType /\ execs' = [execs EXCEPT ![i] = e] /\ delivery' = d
                   /\ e.step = IF d.at = "deliver" THEN "post" ELSE "persist"
                   /\ e.n = d.n /\ e.status = d.state /\ e.ok = FALSE
    BY <2>1, Begins DEF Webhook!GoTo, Webhook!Last
  <2>2. ASSUME NEW n \in Nat, n = delivery.n + 1, delivery.n < MaxAttempts, Webhook!Deliver(n)
        PROVE  \E e \in ExecutionType :
                 /\ execs' = [execs EXCEPT ![i] = e] /\ delivery' \in DeliveryType
                 /\ e.n = delivery'.n /\ e.status = delivery'.state /\ ~e.ok
                 /\ delivery'.at = "deliver" /\ e.step = "post"
                 /\ delivery'.n = delivery.n + 1 /\ delivery'.state = "DELIVERING"
    <3> DEFINE d == [at |-> "deliver", n |-> n, state |-> "DELIVERING"]
    <3>1. d \in DeliveryType /\ d.at = "deliver" /\ d.n = n /\ d.state = "DELIVERING"
      BY DEF DeliveryType
    <3>2. Webhook!GoTo(d)
      BY <2>2 DEF Webhook!Deliver
    <3> HIDE DEF d
    <3> QED  BY <2>1, <2>2, <3>1, <3>2
  <2>3. ASSUME NEW state \in {"DELIVERED", "FAILED"},
               Webhook!GoTo([delivery EXCEPT !.at = "finish", !.state = state])
        PROVE  \E e \in ExecutionType :
                 /\ execs' = [execs EXCEPT ![i] = e] /\ delivery' \in DeliveryType
                 /\ e.n = delivery'.n /\ e.status = delivery'.state /\ ~e.ok
                 /\ delivery'.at = "finish" /\ e.step = "persist"
                 /\ delivery'.n = delivery.n /\ delivery'.state = state
    <3> DEFINE d == [delivery EXCEPT !.at = "finish", !.state = state]
    <3>1. d \in DeliveryType /\ d.at = "finish" /\ d.n = delivery.n /\ d.state = state
      BY <1>2 DEF DeliveryType
    <3>2. Webhook!GoTo(d)
      BY <2>3
    <3> HIDE DEF d
    <3> QED  BY <2>1, <3>1, <3>2
  <2>4. CASE delivery.at = "request" /\ Webhook!Deliver(1)
    <3>1. delivery.n = 0
      BY <2>4 DEF DeliveryShape
    <3> QED  BY <1>2, <2>2, <2>4, <3>1
  <2>5. CASE /\ delivery.at = "deliver" /\ execs[i].ok
             /\ Webhook!GoTo([delivery EXCEPT !.at = "finish", !.state = "DELIVERED"])
    BY <2>3, <2>5
  <2>6. CASE delivery.at = "deliver" /\ delivery.n < MaxAttempts /\ Webhook!Deliver(delivery.n + 1)
    BY <1>2, <2>2, <2>6
  <2>7. CASE /\ delivery.at = "deliver" /\ ~(delivery.n < MaxAttempts)
             /\ Webhook!GoTo([delivery EXCEPT !.at = "finish", !.state = "FAILED"])
    <3>1. delivery.n = MaxAttempts
      BY <1>2, <2>7 DEF DeliveryShape
    <3> QED  BY <2>3, <2>7, <3>1
  <2>8. CASE /\ delivery.at = "finish" /\ delivery' = [delivery EXCEPT !.at = "done"]
             /\ execs' = [execs EXCEPT ![i] = Webhook!Over(execs[i])]
    <3> DEFINE e == [execs[i] EXCEPT !.step = "over", !.ok = FALSE]
    <3>1. /\ e \in ExecutionType /\ e.n = execs[i].n /\ e.status = execs[i].status
          /\ e.step = "over" /\ e.ok = FALSE
      BY <1>2 DEF ExecutionType
    <3>2. execs' = [execs EXCEPT ![i] = e]
      BY <2>8 DEF Webhook!Over
    <3>3. /\ delivery' \in DeliveryType /\ delivery'.at = "done"
          /\ delivery'.n = delivery.n /\ delivery'.state = delivery.state
      BY <1>2, <2>8 DEF DeliveryType
    <3>4. execs[i].status = delivery.state
      BY <2>8 DEF ExecutionsFit
    <3> HIDE DEF e
    <3> QED  BY <1>2, <2>8, <3>1, <3>2, <3>3, <3>4
  <2> QED
    BY <2>4, <2>5, <2>6, <2>7, <2>8
    DEF Webhook!Answer, Webhook!Failed, Webhook!Last
<1>4. /\ execs' \in Seq(ExecutionType) /\ Len(execs') = i
      /\ \A j \in 1..i : execs'[j] = IF j = i THEN e ELSE execs[j]
  BY <1>2, <1>3, Replaced
<1>5. execs'[i] = e /\ \A j \in 1..i : j # i => execs'[j] = execs[j]
  BY <1>2, <1>4
<1> HIDE DEF i
<1>6. /\ delivery.n <= delivery'.n /\ delivery'.n <= MaxAttempts
      /\ delivery'.at # "request" /\ delivery'.n > 0 /\ delivery'.n \in Nat
  BY <1>2, <1>3 DEF DeliveryShape, DeliveryType
<1>7. DeliveryShape'
  BY <1>1, <1>2, <1>3, <1>4, <1>6 DEF DeliveryShape, DeliveryType
<1>8. ExecutionsFit'
  <2>1. \A j \in 1..i : j # i => /\ execs[j].n <= delivery'.n
                                 /\ execs[j].step \in {"post", "record"} => execs[j].n > 0
                                 /\ execs[j].step # "answer"
    <3>1. \A j \in 1..i : execs[j].n \in Nat
      <4>1. \A j \in 1..Len(execs) : execs[j] \in ExecutionType
        BY ElementOfSeq DEF DeliveryShape
      <4> QED  BY <4>1 DEF ExecutionType, i
    <3> QED  BY <1>2, <1>6, <3>1 DEF ExecutionsFit, i
  <2>2. \A j \in 1..i : /\ execs'[j].n <= delivery'.n
                        /\ execs'[j].step \in {"post", "record"} => execs'[j].n > 0
                        /\ j < i => execs'[j].step # "answer"
    BY <1>2, <1>3, <1>5, <1>6, <2>1 DEF DeliveryType
  <2> QED  BY <1>2, <1>3, <1>4, <1>5, <2>2 DEF ExecutionsFit, DeliveryType
<1>9. DeliveryHonest'
  <2>1. e.status = "DELIVERED" \/ delivery'.state = "DELIVERED" => receiver.accepted > 0
    BY <1>2, <1>3 DEF DeliveryHonest, i
  <2>2. ASSUME NEW j \in 1..i, execs'[j].ok \/ execs'[j].status = "DELIVERED"
        PROVE  receiver.accepted > 0
    <3>1. CASE j = i
      BY <1>3, <1>5, <2>1, <2>2, <3>1
    <3>2. CASE j # i
      BY <1>5, <2>2, <3>2 DEF DeliveryHonest, i
    <3> QED  BY <3>1, <3>2
  <2> QED  BY <1>1, <1>4, <2>1, <2>2 DEF DeliveryHonest
<1>10. DeliveryWritten'
  <2>1. \A n \in 1..MaxAttempts : n <= delivery.n => tried[n] > 0
    BY <1>1, <1>2 DEF DeliveryWritten, i
  <2>2. /\ deliveryRow.attempts = delivery.n
        /\ delivery.at = "finish" => deliveryRow.status = delivery.state \/ deliveryRow.stale
    BY <1>1, <1>2 DEF DeliveryWritten, ExecutionsFit, i
  <2> QED  BY <1>1, <1>2, <1>3, <1>4, <1>5, <1>6, <2>1, <2>2 DEF DeliveryWritten, DeliveryType
<1>11. PostsAreCounted'
  <2>1. /\ i \in 1..Len(execs')
        /\ \A j \in 1..Len(execs') : j # i => j <= Len(execs) /\ execs'[j].step = execs[j].step
    BY <1>2, <1>4, <1>5 DEF i
  <2>2. /\ Cardinality(Posting) \in Nat /\ Cardinality(Posting') \in Nat
        /\ Cardinality(Posting') <= Cardinality(Posting) + 1
        /\ e.step # "post" => Cardinality(Posting') <= Cardinality(Posting)
    BY <1>4, <1>5, <2>1, PostingChanges
  <2>3. delivery'.n = delivery.n + 1 \/ (delivery'.n = delivery.n /\ e.step # "post")
    BY <1>3
  <2>4. receiver.posts \in Nat /\ deliveryFaults \in Nat
    BY DEF DeliveryShape
  <2> QED  BY SMTT(30), <1>1, <1>2, <2>2, <2>3, <2>4 DEF PostsAreCounted
<1> QED  BY <1>7, <1>8, <1>9, <1>10, <1>11

(* The first step of a webhook.                                                 *)
LEMMA WebhookInit == Webhook!Init => WebhookInv
<1> SUFFICES ASSUME Webhook!Init PROVE WebhookInv
  OBVIOUS
<1> USE DEF WebhookInv
<1> DEFINE e == Webhook!Activity(delivery)
<1>1. /\ delivery = [at |-> "request", n |-> 0, state |-> "REQUESTED"]
      /\ execs = <<e>>
      /\ deliveryRow = [status |-> "absent", attempts |-> 0, stale |-> FALSE]
      /\ tried = [n \in 1..MaxAttempts |-> 0]
      /\ receiver = [posts |-> 0, accepted |-> 0]
      /\ deliveryFaults = 0
      /\ MaxAttempts \in Nat \ {0} /\ MaxFaults \in Nat
  BY WorkflowsAssumption, DurableActionAssumption
  DEF Webhook!Init, Webhook!Attempts, Webhook!WebhookAssumption
<1>2. delivery \in DeliveryType
  BY <1>1 DEF DeliveryType
<1>3. /\ e \in ExecutionType /\ e.step = "persist"
      /\ e.n = 0 /\ e.status = "REQUESTED" /\ e.ok = FALSE
  BY <1>1, <1>2, Begins
<1> HIDE DEF e
<1>4. execs \in Seq(ExecutionType) /\ Len(execs) = 1 /\ execs[1] = e
  BY <1>1, <1>3
<1>5. DeliveryShape
  BY <1>1, <1>2, <1>4 DEF DeliveryShape
<1>6. ExecutionsFit
  BY <1>1, <1>3, <1>4 DEF ExecutionsFit
<1>7. DeliveryHonest
  BY <1>1, <1>3, <1>4 DEF DeliveryHonest
<1>8. DeliveryWritten
  BY <1>1, <1>3, <1>4 DEF DeliveryWritten
<1>9. PostsAreCounted
  <2>1. Posting = {}
    BY <1>3, <1>4 DEF Posting
  <2> QED  BY <1>1, <2>1, FS_EmptySet DEF PostsAreCounted
<1> QED  BY <1>5, <1>6, <1>7, <1>8, <1>9

(* Every step of a webhook keeps its invariant.                                 *)
LEMMA WebhookStep ==
  ASSUME WebhookInv, Webhook!Next \/ UNCHANGED webhook
  PROVE  WebhookInv'
<1>1. CASE Webhook!Next
  <2>1. ASSUME NEW i \in 1..Len(execs), Webhook!Work(i)
        PROVE  WebhookInv'
    BY <2>1, PostStep, RecordStep, PersistStep DEF Webhook!Work
  <2> QED
    BY <1>1, <2>1, RaiseStep, TimeOutStep, AnswerStep DEF Webhook!Next, Webhook!Last
<1>2. CASE UNCHANGED webhook
  BY <1>2
  DEF webhook, WebhookInv, DeliveryShape, ExecutionsFit, DeliveryHonest, DeliveryWritten,
    PostsAreCounted, Posting
<1> QED  BY <1>1, <1>2

(* What the invariant says of the properties of a webhook.                      *)
LEMMA WebhookSays ==
  ASSUME WebhookInv
  PROVE  /\ Webhook!TypeOK /\ Webhook!DeliveredIsAccepted /\ Webhook!FailedWasTried
         /\ Webhook!RowIsCurrent /\ Webhook!RepeatsAreExplained
<1> USE DEF WebhookInv
<1>1. /\ Len(execs) \in Nat /\ Len(execs) > 0 /\ delivery \in DeliveryType
      /\ MaxAttempts \in Nat \ {0} /\ MaxFaults \in Nat
  BY WorkflowsAssumption, DurableActionAssumption DEF Webhook!WebhookAssumption, DeliveryShape
<1>2. \A i \in 1..Len(execs) : execs[i] \in ExecutionType
  BY ElementOfSeq DEF DeliveryShape
<1>3. Webhook!TypeOK
  <2>1. /\ delivery.at \in {"request", "deliver", "finish", "done"}
        /\ delivery.n \in 0..MaxAttempts
        /\ deliveryRow.attempts <= delivery.n
        /\ deliveryFaults \in 0..MaxFaults
    BY <1>1 DEF DeliveryShape, DeliveryType
  <2>2. \A i \in 1..Len(execs) :
          execs[i].step \in {"post", "record", "persist", "answer", "over"}
    BY <1>2 DEF ExecutionType
  <2>3. /\ execs[Len(execs)].n = delivery.n
        /\ \A i \in 1..(Len(execs) - 1) : execs[i].n <= delivery.n /\ execs[i].step # "answer"
    BY <1>1 DEF ExecutionsFit
  <2> QED  BY <2>1, <2>2, <2>3 DEF Webhook!TypeOK, Webhook!Last
<1>4. Webhook!DeliveredIsAccepted
  BY DEF Webhook!DeliveredIsAccepted, DeliveryHonest
<1>5. Webhook!FailedWasTried
  BY <1>1 DEF Webhook!FailedWasTried, Webhook!Attempts, DeliveryShape, DeliveryWritten
<1>6. Webhook!RowIsCurrent
  BY DEF Webhook!RowIsCurrent, DeliveryWritten
<1>7. Webhook!RepeatsAreExplained
  <2>1. IsFiniteSet(Posting)
    <3>1. IsFiniteSet(1..Len(execs)) /\ Posting \subseteq 1..Len(execs)
      BY <1>1, FS_Interval DEF Posting
    <3> QED  BY <3>1, FS_Subset
  <2>2. Cardinality(Posting) \in Nat
    BY <2>1, FS_CardinalityType
  <2> QED
    BY <1>1, <2>2
    DEF Webhook!RepeatsAreExplained, PostsAreCounted, DeliveryShape, DeliveryType
<1> QED  BY <1>3, <1>4, <1>5, <1>6, <1>7
--------------------------------------------------------------------------------
(* Nothing a workflow tells its caller is more, or less, than what was done:    *)
(* the invariants of both hold in every reachable state of either.              *)
LEMMA WorkflowsInvariant == WorkflowsSpec => [](ActionInv /\ WebhookInv)
<1>1. WorkflowsInit => ActionInv /\ WebhookInv
  BY ActionInit, WebhookInit DEF WorkflowsInit
<1>2. ASSUME ActionInv /\ WebhookInv, [WorkflowsNext]_<<kind, vars, webhook>>
      PROVE  (ActionInv /\ WebhookInv)'
  <2>1. [Next]_vars /\ (Webhook!Next \/ UNCHANGED webhook)
    BY <1>2 DEF WorkflowsNext, Action, Delivers
  <2> QED  BY <1>2, <2>1, ActionStep, WebhookStep
<1> QED  BY <1>1, <1>2, PTL DEF WorkflowsSpec

(* A cancellation that was accepted is never dropped, whenever it comes: an     *)
(* action that was asked to be cancelled before its adapter was called ends     *)
(* without calling it, and one that is under way is asked of the service.       *)
THEOREM ActionHonoursCancel == Spec => []CancelIsHonoured
<1>1. ASSUME ActionInv, [Next]_vars PROVE ActionInv'
  BY <1>1, ActionStep
<1>2. ActionInv => CancelIsHonoured
  BY ActionSays
<1> QED  BY <1>1, <1>2, ActionInit, PTL DEF Spec

(* The same of the actions of the whole project.                                *)
THEOREM WorkflowsHonourCancel == WorkflowsSpec => []CancelIsHonoured
<1>1. ActionInv => CancelIsHonoured
  BY ActionSays
<1> QED  BY <1>1, WorkflowsInvariant, PTL

(* Types, and the last states: the rows in Postgres end as the workflows do     *)
(* unless a write came late, and a receiver is asked more often than the        *)
(* workflow counts only for each fault. A service does something again only for *)
(* a retry.                                                                     *)
THEOREM WorkflowsInv == WorkflowsSpec => []Inv
<1>1. ActionInv /\ WebhookInv => Inv
  BY ActionSays, WebhookSays DEF Inv
<1> QED  BY <1>1, WorkflowsInvariant, PTL

(* The verdict of a workflow is what happened: COMPLETED and CANCELLED are the  *)
(* service's own words and still true, but for a service that did something     *)
(* again for a retry or put its decision off; DELIVERED is the receiver's word, *)
(* and a webhook is given up only after every attempt it was allowed.           *)
THEOREM WorkflowsVerdict == WorkflowsSpec => []VerdictIsRight
<1>1. ActionInv /\ WebhookInv => VerdictIsRight
  BY ActionSays, WebhookSays DEF VerdictIsRight
<1> QED  BY <1>1, WorkflowsInvariant, PTL
=================================================================================
