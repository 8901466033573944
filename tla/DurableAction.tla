----------------------------- MODULE DurableAction -----------------------------
(* One durable action: DurableActionWorkflow with its activities, the row of    *)
(* tool_invocations, the outbox, the external service it asks to create, report *)
(* and cancel the action, and the user who may cancel at any moment. Every      *)
(* activity is attempted several times; an attempt may fail before or after     *)
(* what it does has taken effect, and one that timed out may still be running.  *)
EXTENDS Naturals, FiniteSets

CONSTANTS
  MaximumAttempts,   \* of an activity; 5 in _retry_policy
  PollInterval,      \* poll_interval_seconds
  MaxRuntime,        \* max_runtime_seconds
  MaxFaults          \* bound: attempts that fail

ASSUME DurableActionAssumption ==
  /\ MaximumAttempts \in Nat \ {0}
  /\ PollInterval \in Nat \ {0}
  /\ MaxRuntime \in Nat \ {0}
  /\ MaxFaults \in Nat

States == {"REQUESTED", "CREATE_IN_FLIGHT", "ACTIVE", "CANCEL_IN_FLIGHT", "CANCELLED",
           "COMPLETED", "CANNOT_CANCEL", "FAILED", "TIMED_OUT"}

VARIABLES
  config,            \* which of the optional endpoints the tool has; whether the
                     \* service honours the Idempotency-Key
  wf,                \* the workflow
  external,          \* the service: requests on their way to it and its answer to
                     \* the present attempt, how the action stands, whether it was
                     \* asked to cancel, puts a decision off, did something again
  asked,             \* when the user cancelled, seen from the workflow
  row,               \* tool_invocations: the status, or "absent"
  outbox,            \* state -> rows for its event
  late,              \* state -> its write that was given up: "no", "running", "written"
  faults

vars == <<config, wf, external, asked, row, outbox, late, faults>>

(* _transition: the state is set, then persisted, then announced; next is where *)
(* the workflow goes on from there.                                             *)
Transition(w, state, next) ==
  [w EXCEPT !.at = "persist", !.state = state, !.next = next, !.tries = 0]

Init ==
  /\ config \in [cancel : BOOLEAN, status : BOOLEAN, keyed : BOOLEAN]
  /\ wf = [at |-> "persist", state |-> "REQUESTED", next |-> "begin", tries |-> 0,
           guarded |-> FALSE, known |-> FALSE, cancel |-> FALSE, signal |-> "none",
           elapsed |-> 0]
  /\ external = [requests |-> {}, answer |-> "none", status |-> "none",
                 cancelling |-> FALSE, pending |-> FALSE, again |-> FALSE]
  /\ asked = "never"
  /\ row = "absent"
  /\ outbox = [s \in States |-> 0]
  /\ late = [s \in States |-> "no"]
  /\ faults = 0

Running == wf.at \notin {"done", "crashed"}

(* The workflow reaches its next step.                                          *)
Reach(w) ==
  IF w.next = "begin"
  THEN Transition([w EXCEPT !.guarded = TRUE], "CREATE_IN_FLIGHT", "create")
  ELSE [w EXCEPT !.at = w.next, !.tries = 0]

--------------------------------------------------------------------------------
(* persist_tool_state: an upsert of the row with the state of the workflow.     *)
Persist ==
  /\ wf.at = "persist"
  /\ row' = wf.state
  /\ wf' = [wf EXCEPT !.at = "emit", !.tries = 0]
  /\ UNCHANGED <<config, external, asked, outbox, late, faults>>

(* Mutant of Emit: the row is written only once the event is announced.         *)
EmitUnwritten ==
  /\ wf.at \in {"persist", "emit"}
  /\ outbox' = [outbox EXCEPT ![wf.state] = @ + 1]
  /\ wf' = Reach(wf)
  /\ UNCHANGED <<config, external, asked, row, late, faults>>

(* emit_tool_event: an outbox row under a new event id.                         *)
Emit ==
  /\ wf.at = "emit"
  /\ outbox' = [outbox EXCEPT ![wf.state] = @ + 1]
  /\ wf' = Reach(wf)
  /\ UNCHANGED <<config, external, asked, row, late, faults>>

(* The exception of an activity that used up its attempts: run handles it with  *)
(* one more transition; in the first transition and in that last one nobody     *)
(* does, and the workflow fails. (It is an ActivityError, so the handler of     *)
(* TimeoutError is never the one.)                                              *)
Raised ==
  IF wf.guarded
  THEN Transition([wf EXCEPT !.guarded = FALSE], "FAILED", "done")
  ELSE [wf EXCEPT !.at = "crashed"]

Failed ==
  IF wf.tries + 1 < MaximumAttempts THEN [wf EXCEPT !.tries = @ + 1] ELSE Raised

Fault ==
  /\ faults < MaxFaults
  /\ faults' = faults + 1
  /\ wf' = Failed

(* What an attempt asks of the service.                                         *)
Request == <<wf.at, wf.tries>>

(* An attempt is over without an answer. Its request is lost, or stays on its   *)
(* way, or was handled: then its answer is lost.                                *)
HangsUp ==
  external' \in {[external EXCEPT !.answer = "none", !.requests = r] :
                   r \in {external.requests, external.requests \ {Request}}}

(* An attempt fails: the activity is not reached, the request times out, or the *)
(* service answers with an error, or the record of the attempt cannot be written*)
AttemptFails ==
  /\ \/ wf.at \in {"persist", "emit", "status"} /\ UNCHANGED external
     \/ wf.at \in {"create", "cancel"} /\ HangsUp
  /\ Fault
  /\ UNCHANGED <<config, asked, row, outbox, late>>

(* An attempt commits its write and fails all the same.                         *)
AnswerLost ==
  /\ wf.at \in {"persist", "emit"}
  /\ row' = IF wf.at = "persist" THEN wf.state ELSE row
  /\ outbox' = IF wf.at = "emit" THEN [outbox EXCEPT ![wf.state] = @ + 1] ELSE outbox
  /\ Fault
  /\ UNCHANGED <<config, external, asked, late>>

(* An attempt times out (start_to_close_timeout) in the middle of its write.    *)
(* The next one starts, and nothing cancels this one.                           *)
GivenUp ==
  /\ wf.at = "persist"
  /\ late' = [late EXCEPT ![wf.state] = "running"]
  /\ Fault
  /\ UNCHANGED <<config, external, asked, row, outbox>>

LateWrite ==
  /\ \E s \in States :
       /\ late[s] = "running"
       /\ row' = s
       /\ late' = [late EXCEPT ![s] = "written"]
  /\ UNCHANGED <<config, wf, external, asked, outbox, faults>>

--------------------------------------------------------------------------------
(* _call_external_action: an attempt sends one request, with a key that is the  *)
(* same for every attempt.                                                      *)
Send ==
  /\ wf.at \in {"create", "cancel"}
  /\ Request \notin external.requests /\ external.answer = "none"
  /\ external' = [external EXCEPT !.requests = @ \cup {Request},
                                  !.cancelling = @ \/ wf.at = "cancel"]
  /\ UNCHANGED <<config, wf, asked, row, outbox, late, faults>>

(* The service handles a request, which its client may have given up: the       *)
(* answer is for the attempt that sent it.                                      *)
Handles(kind, status, answer) ==
  /\ \E request \in external.requests :
       /\ request[1] = kind
       /\ external' = [external EXCEPT
            !.requests = @ \ {request}, !.status = status,
            !.answer = IF request = Request THEN answer ELSE @,
            !.pending = @ \/ answer = "accepted",
            !.again = @ \/ (kind = "create" /\ ~config.keyed /\ external.status # "none")
                        \/ (status = "cancelled" /\ external.status = "cannot_cancel")]
  /\ UNCHANGED <<config, wf, asked, row, outbox, late, faults>>

(* A create request starts the action. A service that ignores the key, as the   *)
(* mock customer does, starts it anew for every one.                            *)
ExternalCreates ==
  IF config.keyed /\ external.status # "none"
  THEN Handles("create", external.status, external.status)
  ELSE Handles("create", "active", "active")

(* What a request to cancel makes of the action. What is over cannot be         *)
(* cancelled; a service that ignores the key forgets that it said so.           *)
AfterCancel ==
  IF \/ external.status \in {"completed", "rejected"}
     \/ config.keyed /\ external.status = "cannot_cancel"
  THEN "cannot_cancel" ELSE "cancelled"

ExternalCancels == Handles("cancel", AfterCancel, AfterCancel)

(* A service other than the mock may answer that it failed to cancel, or that it*)
(* took the request and decides later.                                          *)
ExternalDefers == \E answer \in {"failed", "accepted"} : Handles("cancel", external.status, answer)

ExternalDecides ==
  /\ external.pending
  /\ external.status \in {"active", "completed", "rejected"}
  /\ external' = [external EXCEPT !.pending = FALSE, !.status = AfterCancel]
  /\ UNCHANGED <<config, wf, asked, row, outbox, late, faults>>

(* The action comes to its own end.                                             *)
ExternalFinishes ==
  /\ external.status = "active"
  /\ \E s \in {"completed", "rejected"} : external' = [external EXCEPT !.status = s]
  /\ UNCHANGED <<config, wf, asked, row, outbox, late, faults>>

(* An ExternalStatusUpdated signal, with the status at this moment.             *)
ExternalTells ==
  /\ Running
  /\ external.status # "none"
  /\ wf' = [wf EXCEPT !.signal = external.status]
  /\ UNCHANGED <<config, external, asked, row, outbox, late, faults>>

(* The next look at the clock is the last: a cancellation is not looked for.    *)
OutOfTime ==
  \/ wf.elapsed >= MaxRuntime
  \/ wf.at = "wait" /\ wf.elapsed + PollInterval >= MaxRuntime

(* The cancel route: a signal, taken by a workflow that is still running.       *)
CancelRequested ==
  /\ Running
  /\ ~wf.cancel
  /\ wf' = [wf EXCEPT !.cancel = TRUE]
  /\ asked' = IF wf.next = "done" \/ OutOfTime THEN "late" ELSE IF wf.known THEN "open" ELSE "early"
  /\ UNCHANGED <<config, external, row, outbox, late, faults>>

--------------------------------------------------------------------------------
CancelAfterCreate(w) ==
  IF config.cancel THEN Transition(w, "CANCEL_IN_FLIGHT", "cancel")
  ELSE Transition(w, "CANNOT_CANCEL", "done")

(* Mutant of CreateAnswers: the signal that came early is forgotten.            *)
CreateForgets ==
  /\ wf.at = "create"
  /\ external.answer # "none"
  /\ external' = [external EXCEPT !.answer = "none"]
  /\ wf' = Transition([wf EXCEPT !.known = TRUE, !.cancel = FALSE], "ACTIVE", "check")
  /\ UNCHANGED <<config, asked, row, outbox, late, faults>>

(* Any answer gives the external id; the status in it is not looked at.         *)
CreateAnswers ==
  /\ wf.at = "create"
  /\ external.answer # "none"
  /\ external' = [external EXCEPT !.answer = "none"]
  /\ LET w == [wf EXCEPT !.known = TRUE]
     IN  wf' = IF wf.cancel THEN CancelAfterCreate(w) ELSE Transition(w, "ACTIVE", "check")
  /\ UNCHANGED <<config, asked, row, outbox, late, faults>>

(* _poll_until_terminal, the head of the loop.                                  *)
Check ==
  /\ wf.at = "check"
  /\ wf' = IF wf.elapsed >= MaxRuntime THEN Transition(wf, "TIMED_OUT", "done")
           ELSE IF wf.cancel THEN CancelAfterCreate(wf)
           ELSE [wf EXCEPT !.at = "wait"]
  /\ UNCHANGED <<config, external, asked, row, outbox, late, faults>>

(* What a status decides; any other goes around the loop again.                 *)
Decided(w, status) ==
  CASE status = "cancelled"     -> Transition(w, "CANCELLED", "done")
    [] status = "cannot_cancel" -> Transition(w, "CANNOT_CANCEL", "done")
    [] status = "rejected"      -> Transition(w, "FAILED", "done")
    [] status = "completed"     -> Transition(w, "COMPLETED", "done")
    [] OTHER                    -> [w EXCEPT !.at = "check", !.tries = 0]

(* Mutant of WaitEnds: only a wait without news counts.                         *)
WaitEndsUncounted ==
  /\ wf.at = "wait"
  /\ LET w == [wf EXCEPT !.signal = "none",
                         !.elapsed = IF wf.signal = "none" THEN @ + PollInterval ELSE @]
     IN  wf' = IF wf.signal # "none" THEN Decided(w, wf.signal)
               ELSE IF config.status THEN [w EXCEPT !.at = "status", !.tries = 0]
               ELSE [w EXCEPT !.at = "check"]
  /\ UNCHANGED <<config, external, asked, row, outbox, late, faults>>

(* The wait ends with the timer, a cancellation or a signalled status. In each  *)
(* case a whole interval counts, and a status is looked for first.              *)
WaitEnds ==
  /\ wf.at = "wait"
  /\ LET w == [wf EXCEPT !.signal = "none", !.elapsed = @ + PollInterval]
     IN  wf' = IF wf.signal # "none" THEN Decided(w, wf.signal)
               ELSE IF config.status THEN [w EXCEPT !.at = "status", !.tries = 0]
               ELSE [w EXCEPT !.at = "check"]
  /\ UNCHANGED <<config, external, asked, row, outbox, late, faults>>

StatusAnswers ==
  /\ wf.at = "status"
  /\ wf' = Decided(wf, external.status)
  /\ UNCHANGED <<config, external, asked, row, outbox, late, faults>>

(* Mutant of CancelAnswers: every answer means cancelled, a refusal too.        *)
CancelAccepted ==
  /\ wf.at = "cancel"
  /\ external.answer # "none"
  /\ wf' = Transition(wf, "CANCELLED", "done")
  /\ UNCHANGED <<config, external, asked, row, outbox, late, faults>>

(* A refusal and a failure are told apart; whatever else the service answers    *)
(* counts as cancelled, an answer that is no decision too.                      *)
CancelAnswers ==
  /\ wf.at = "cancel"
  /\ external.answer # "none"
  /\ wf' = Transition(wf, CASE external.answer = "cannot_cancel" -> "CANNOT_CANCEL"
                            [] external.answer = "failed"        -> "FAILED"
                            [] OTHER                             -> "CANCELLED", "done")
  /\ UNCHANGED <<config, external, asked, row, outbox, late, faults>>

Workflow ==
  \/ Persist \/ Emit
  \/ Send \/ CreateAnswers \/ CancelAnswers
  \/ Check \/ WaitEnds \/ StatusAnswers

Service == ExternalCreates \/ ExternalCancels

Next ==
  \/ Workflow \/ Service
  \/ ExternalDefers \/ ExternalDecides \/ ExternalFinishes
  \/ ExternalTells \/ CancelRequested
  \/ AttemptFails \/ AnswerLost \/ GivenUp \/ LateWrite

Spec == Init /\ [][Next]_vars

(* Temporal keeps the workflow going and the service handles the requests it    *)
(* got; the action itself need never finish, and no fault is owed.              *)
FairSpec == Spec /\ WF_vars(Workflow) /\ WF_vars(Service)

--------------------------------------------------------------------------------
(* Every variable has its type.                                                 *)
TypeOK ==
  /\ wf.at \in {"persist", "emit", "create", "check", "wait", "status", "cancel", "done", "crashed"}
  /\ wf.state \in States /\ row \in States \cup {"absent"}
  /\ wf.tries \in 0..(MaximumAttempts - 1)
  /\ wf.elapsed \in 0..(MaxRuntime + PollInterval - 1)
  /\ wf.at = "cancel" => config.cancel
  /\ wf.at = "status" => config.status
  /\ wf.at \in {"check", "wait", "status", "cancel"} => wf.known
  /\ asked = "never" <=> ~wf.cancel
  /\ faults \in 0..MaxFaults

(* Unless an activity used up its attempts.                                     *)
Ended == wf.at = "done" /\ wf.guarded

(* A cancellation that was asked for before the external id was known is        *)
(* decided: the action ends CANCELLED or CANNOT_CANCEL, or FAILED if the service*)
(* was asked and failed to cancel.                                              *)
EarlyCancelIsDecided ==
  (Ended /\ asked = "early") =>
    \/ wf.state \in {"CANCELLED", "CANNOT_CANCEL"}
    \/ wf.state = "FAILED" /\ external.cancelling

(* A cancellation that came before the last poll leaves no action active outside*)
(* that the service was not asked to cancel, but for one that was started again.*)
CancelIsTried ==
  (Ended /\ asked \in {"early", "open"} /\ config.cancel) =>
    external.cancelling \/ external.status # "active" \/ external.again

(* A cancellation is not forgotten, whenever it comes.                        *)
CancelIsHonoured == EarlyCancelIsDecided /\ CancelIsTried

(* The service does something a second time only for a retry, after an attempt  *)
(* that failed, and only if it ignores the key.                                 *)
RepeatsAreRetries == external.again => ~config.keyed /\ faults > 0

(* What the workflow says in the end is how the action stands outside: nothing  *)
(* that is said to be cancelled goes on, nothing that was done is said to have  *)
(* been cancelled. But for a service that did something again, and for one whose*)
(* answer to the cancellation was no decision.                                  *)
SaysWhatHappened ==
  (wf.at = "done" /\ ~external.again) =>
    /\ wf.state = "CANCELLED" => external.status = "cancelled" \/ external.answer = "accepted"
    /\ wf.state = "COMPLETED" => external.status \in {"completed", "cannot_cancel"}
    /\ wf.state = "CANNOT_CANCEL" /\ config.cancel => external.status = "cannot_cancel"

(* When the workflow ends, an event of its last state was announced and the row *)
(* has that state, unless a write that had been given up came late.             *)
RowIsCurrent ==
  wf.at = "done" =>
    /\ outbox[wf.state] > 0
    /\ row = wf.state \/ \E s \in States : row = s /\ late[s] = "written"

(* The workflow comes to its end although the action may stay active for ever   *)
(* and activities may use up their attempts. It fails without a last state only *)
(* when that happens in the first transition or in the last.                    *)
ActionEnds == <>(wf.at = "done" \/ (wf.at = "crashed" /\ wf.state \in {"REQUESTED", "FAILED"}))
================================================================================
