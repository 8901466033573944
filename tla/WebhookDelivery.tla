---------------------------- MODULE WebhookDelivery ----------------------------
(* One webhook: WebhookDeliveryWorkflow, the executions of its activities, the  *)
(* row of webhook_deliveries with its attempts, and the receiver. The workflow  *)
(* counts the attempts whose activity returns; Temporal starts an activity that *)
(* raised or timed out again, without limit, under the same attempt number, and *)
(* an execution that timed out may still be running.                            *)
EXTENDS Naturals, Sequences, FiniteSets

CONSTANTS
  MaxAttempts,       \* max_attempts of the input
  MaxFaults          \* bound: executions that raise or time out

(* What the constants are.                                                      *)
WebhookAssumption == MaxAttempts \in Nat \ {0} /\ MaxFaults \in Nat

VARIABLES
  wf,                \* the workflow
  execs,             \* the executions: the last is awaited, the others timed out
  row,               \* webhook_deliveries
  tried,             \* webhook_delivery_attempts: attempt number -> rows
  receiver,          \* POSTs that arrived, and those it accepted
  faults

vars == <<wf, execs, row, tried, receiver, faults>>

Attempts == 1..MaxAttempts

(* The activity the workflow is at, at its beginning.                           *)
Activity(w) ==
  [step |-> IF w.at = "deliver" THEN "post" ELSE "persist",
   n |-> w.n, status |-> w.state, ok |-> FALSE]

Over(e) == [e EXCEPT !.step = "over", !.ok = FALSE]

Init ==
  /\ wf = [at |-> "request", n |-> 0, state |-> "REQUESTED"]
  /\ execs = <<Activity(wf)>>
  /\ row = [status |-> "absent", attempts |-> 0, stale |-> FALSE]
  /\ tried = [n \in Attempts |-> 0]
  /\ receiver = [posts |-> 0, accepted |-> 0]
  /\ faults = 0

Last == Len(execs)

--------------------------------------------------------------------------------
(* The steps of execution i. deliver_webhook posts, writes its attempt and      *)
(* persists the delivery; the other activity only persists.                     *)

(* The POST is accepted, accepted with the answer lost, refused, or it does not *)
(* arrive.                                                                      *)
Post(i) ==
  /\ execs[i].step = "post"
  /\ \E ok \in BOOLEAN :
       /\ execs' = [execs EXCEPT ![i].step = "record", ![i].ok = ok]
       /\ \/ receiver' = [receiver EXCEPT !.posts = @ + 1, !.accepted = @ + 1]
          \/ ~ok /\ receiver' = [receiver EXCEPT !.posts = @ + 1]
          \/ ~ok /\ receiver' = receiver
  /\ UNCHANGED <<wf, row, tried, faults>>

(* The row of the attempt, failed or not.                                       *)
Record(i) ==
  /\ execs[i].step = "record"
  /\ tried' = [tried EXCEPT ![execs[i].n] = @ + 1]
  /\ execs' = [execs EXCEPT ![i].step = "persist",
                            ![i].status = IF execs[i].ok THEN "DELIVERED" ELSE "DELIVERING"]
  /\ UNCHANGED <<wf, row, receiver, faults>>

Larger(a, b) == IF a > b THEN a ELSE b

(* persist_webhook_delivery takes the status it is given and the larger number  *)
(* of attempts.                                                                 *)
Persist(i) ==
  /\ execs[i].step = "persist"
  /\ row' = [status |-> execs[i].status, attempts |-> Larger(row.attempts, execs[i].n),
             stale |-> i < Last]
  /\ execs' = [execs EXCEPT ![i] = IF i < Last THEN Over(@) ELSE [@ EXCEPT !.step = "answer"]]
  /\ UNCHANGED <<wf, tried, receiver, faults>>

Work(i) == Post(i) \/ Record(i) \/ Persist(i)

--------------------------------------------------------------------------------
(* Faults of the execution the workflow waits for: it raises (Postgres fails,   *)
(* before or after the commit; its worker dies) and Temporal starts another.    *)
Raise ==
  /\ faults < MaxFaults
  /\ execs[Last].step # "over"
  /\ faults' = faults + 1
  /\ execs' = [execs EXCEPT ![Last] = Activity(wf)]
  /\ UNCHANGED <<wf, row, tried, receiver>>

(* It exceeds start_to_close_timeout, and runs on.                              *)
TimeOut ==
  /\ faults < MaxFaults
  /\ execs[Last].step \notin {"answer", "over"}
  /\ faults' = faults + 1
  /\ execs' = Append(execs, Activity(wf))
  /\ UNCHANGED <<wf, row, tried, receiver>>

GoTo(w) ==
  /\ wf' = w
  /\ execs' = [execs EXCEPT ![Last] = Activity(w)]

Deliver(n) == GoTo([at |-> "deliver", n |-> n, state |-> "DELIVERING"])

(* After the backoff the next attempt, or the end.                              *)
Failed ==
  IF wf.n < MaxAttempts THEN Deliver(wf.n + 1)
  ELSE GoTo([wf EXCEPT !.at = "finish", !.state = "FAILED"])

(* The activity returns.                                                        *)
Answer ==
  /\ execs[Last].step = "answer"
  /\ \/ wf.at = "request" /\ Deliver(1)
     \/ /\ wf.at = "deliver"
        /\ IF execs[Last].ok THEN GoTo([wf EXCEPT !.at = "finish", !.state = "DELIVERED"])
           ELSE Failed
     \/ /\ wf.at = "finish"
        /\ wf' = [wf EXCEPT !.at = "done"]
        /\ execs' = [execs EXCEPT ![Last] = Over(@)]
  /\ UNCHANGED <<row, tried, receiver, faults>>

Next == (\E i \in 1..Last : Work(i)) \/ Answer \/ Raise \/ TimeOut

Spec == Init /\ [][Next]_vars

(* Temporal keeps the awaited execution and the workflow going; an execution    *)
(* that timed out may stop anywhere. Faults are finitely many.                  *)
Awaited == Work(Last) \/ Answer

FairSpec == Spec /\ WF_vars(Awaited)

--------------------------------------------------------------------------------
(* Every variable has its type; the workflow and its execution are at the same  *)
(* attempt.                                                                     *)
TypeOK ==
  /\ wf.at \in {"request", "deliver", "finish", "done"}
  /\ wf.n \in 0..MaxAttempts
  /\ \A i \in 1..Last : execs[i].step \in {"post", "record", "persist", "answer", "over"}
  /\ execs[Last].n = wf.n
  /\ \A i \in 1..(Last - 1) : execs[i].n <= wf.n /\ execs[i].step # "answer"
  /\ row.attempts <= wf.n
  /\ faults \in 0..MaxFaults

(* Nothing is said to be delivered that the receiver has not accepted.          *)
DeliveredIsAccepted ==
  (wf.state = "DELIVERED" \/ row.status = "DELIVERED") => receiver.accepted > 0

(* A webhook is given up only after every attempt it was allowed has its row.   *)
FailedWasTried ==
  (wf.at = "done" /\ wf.state = "FAILED") => \A n \in Attempts : tried[n] > 0

(* The row ends as the workflow does, with its number of attempts, unless an    *)
(* execution that had timed out wrote last.                                     *)
RowIsCurrent ==
  wf.at = "done" => row.attempts = wf.n /\ (row.status = wf.state \/ row.stale)

(* The receiver is asked more often than the workflow counts only for each      *)
(* fault.                                                                       *)
RepeatsAreExplained == receiver.posts <= wf.n + faults

(* The workflow comes to its end.                                               *)
DeliveryEnds == <>(wf.at = "done")
================================================================================
