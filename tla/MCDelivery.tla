------------------------------- MODULE MCDelivery -------------------------------
(* The two processes behind the database and the topics for TLC: the publishers *)
(* of the outbox, or the analytics writer. They have no state in common, so     *)
(* each behaviour has one of them and the other stays where it begins.          *)
EXTENDS OutboxPublisher

CONSTANTS
  Events, Rejected, Undecodable, BatchSize, MaxRows, MaxRetrySeconds,
  MaxOutages, MaxAnalyticsFaults

VARIABLES
  part, sent, committed, at, position, rows, todo, buffer, sending, delay, up, table,
  met, analyticsFaults, outages

analytics == <<sent, committed, at, position, rows, todo, buffer, sending, delay, up, table,
               met, analyticsFaults, outages>>

Analytics == INSTANCE AnalyticsWriter WITH
  MaxFaults <- MaxAnalyticsFaults, hit <- met, faults <- analyticsFaults

ASSUME DeliveryAssumption == Analytics!AnalyticsAssumption

DeliveryInit == Init /\ Analytics!Init /\ part \in {"outbox", "analytics"}

Publishes(A) == part = "outbox" /\ A /\ UNCHANGED <<part, analytics>>
Stores(A)    == part = "analytics" /\ A /\ UNCHANGED <<part, vars>>

DeliveryNext == Publishes(Next) \/ Stores(Analytics!Next)

(* The fairness of the two.                                                     *)
DeliverySpec ==
  /\ DeliveryInit
  /\ [][DeliveryNext]_<<part, vars, analytics>>
  /\ WF_vars(Publishes(Commit))
  /\ \A p \in Publishers : WF_vars(Publishes(Advance(p)))
  /\ WF_analytics(Stores(Analytics!Step))
  /\ WF_analytics(Stores(Analytics!Recover))

--------------------------------------------------------------------------------
(* Nothing is lost on the way: a row that is marked was published, an offset    *)
(* that is committed has its rows in ClickHouse. With the types of both.        *)
AtLeastOnce ==
  /\ TypeOK /\ MarkedIsPublished
  /\ Analytics!TypeOK /\ Analytics!CommittedIsStored

(* Without a fault nothing is repeated or overtaken: a repeated event or row    *)
(* has a fault that met it, and an insert carries one batch, whole and once.    *)
OnlyFaultsDisturb ==
  /\ RepeatsAreExplained /\ OvertakenAfterFault
  /\ Analytics!RepeatsAreExplained /\ Analytics!InsertIsBatch

(* Every row is published. Every event that normalizes is stored, but for those *)
(* an undecodable record holds back, unless the worker has ended for good.      *)
EverythingArrives == EventuallyPublished /\ Analytics!EventuallyStored
================================================================================
