------------------------------ MODULE MCWorkflows ------------------------------
(* The workflows that act on the outside world for TLC: a durable action, or a  *)
(* webhook. They have no state in common, so each behaviour has one of them and *)
(* the other stays where it begins.                                             *)
EXTENDS DurableAction

CONSTANT MaxAttempts

VARIABLES kind, delivery, execs, deliveryRow, tried, receiver, deliveryFaults

webhook == <<delivery, execs, deliveryRow, tried, receiver, deliveryFaults>>

Webhook == INSTANCE WebhookDelivery WITH
  wf <- delivery, row <- deliveryRow, faults <- deliveryFaults

ASSUME WorkflowsAssumption == Webhook!WebhookAssumption

WorkflowsInit ==
  /\ Init /\ Webhook!Init
  /\ \/ kind = "action"
     \/ kind = "webhook" /\ config = [cancel |-> FALSE, status |-> FALSE, keyed |-> FALSE]

Action(A)   == kind = "action" /\ A /\ UNCHANGED <<kind, webhook>>
Delivers(A) == kind = "webhook" /\ A /\ UNCHANGED <<kind, vars>>

WorkflowsNext == Action(Next) \/ Delivers(Webhook!Next)

(* Temporal keeps either workflow going; the service handles what it was asked. *)
WorkflowsSpec ==
  /\ WorkflowsInit
  /\ [][WorkflowsNext]_<<kind, vars, webhook>>
  /\ WF_vars(Action(Workflow)) /\ WF_vars(Action(Service))
  /\ WF_webhook(Delivers(Webhook!Awaited))

--------------------------------------------------------------------------------
(* The types of both, and their last states: the rows end as the workflows do   *)
(* unless a write came late, and every POST too many is explained by a fault, as*)
(* is whatever the service of an action did again.                              *)
Inv ==
  /\ TypeOK /\ RowIsCurrent /\ RepeatsAreRetries
  /\ Webhook!TypeOK /\ Webhook!RowIsCurrent /\ Webhook!RepeatsAreExplained

(* The verdict of a workflow is what happened outside: to the action, or at the *)
(* receiver of the webhook.                                                     *)
VerdictIsRight ==
  SaysWhatHappened /\ Webhook!DeliveredIsAccepted /\ Webhook!FailedWasTried

(* Either workflow comes to its end, whatever the service and the receiver do.  *)
EveryWorkflowEnds ==
  /\ kind = "action" => ActionEnds
  /\ kind = "webhook" => Webhook!DeliveryEnds
================================================================================
