---------------------------- MODULE OutboxPublisher ----------------------------
(* The transactional outbox: transactions that add rows, and one publisher per  *)
(* event worker that copies rows to Kafka and marks them. Fetching takes its    *)
(* row locks in a statement of its own, so nothing is locked between the fetch  *)
(* and the mark, and a publisher may stop at any point.                         *)
EXTENDS Naturals, Sequences, FiniteSets, SequencesExt

CONSTANTS
  Rows,
  Publishers,
  Limit,             \* rows of one batch; 100 in publish_batch
  MaxFaults          \* bound: failed statements, failed sends, crashes

ASSUME OutboxAssumption ==
  /\ Rows \subseteq Nat /\ IsFiniteSet(Rows) /\ IsFiniteSet(Publishers)
  /\ Limit \in Nat \ {0} /\ MaxFaults \in Nat

VARIABLES
  clock,             \* NOW() of the transactions
  row,               \* outbox_events
  pub,               \* publisher -> where it is and what is left of its batch
  topic,             \* what Kafka has taken
  hit,               \* row -> faults that met it while a publisher had it in hand
  faults

vars == <<clock, row, pub, topic, hit, faults>>

Idle == [at |-> "idle", batch |-> <<>>]

Init ==
  /\ clock = 0
  /\ row = [r \in Rows |-> [is |-> "none", created |-> 0, committed |-> 0, published |-> FALSE]]
  /\ pub = [p \in Publishers |-> Idle]
  /\ topic = <<>>
  /\ hit = [r \in Rows |-> 0]
  /\ faults = 0

With(is) == {r \in Rows : row[r].is = is}

(* A projection transaction begins. created_at is its NOW(), so all its rows    *)
(* have the same one, earlier than the moment they become visible. Rows are     *)
(* numbered in the order of their transactions.                                 *)
Begin ==
  \E new \in SUBSET With("none") :
    /\ new # {} /\ \A r \in new, o \in With("none") \ new : r < o
    /\ clock' = clock + 1
    /\ row' = [r \in Rows |->
                 IF r \in new THEN [row[r] EXCEPT !.is = "open", !.created = clock'] ELSE row[r]]
    /\ UNCHANGED <<pub, topic, hit, faults>>

CommitOf(r) ==
  /\ clock' = clock + 1
  /\ row' = [o \in Rows |->
               IF row[o].is = "open" /\ row[o].created = row[r].created
               THEN [row[o] EXCEPT !.is = "committed", !.committed = clock'] ELSE row[o]]
  /\ UNCHANGED <<pub, topic, hit, faults>>

Commit == \E r \in With("open") : CommitOf(r)

--------------------------------------------------------------------------------
Unpublished == {r \in With("committed") : ~row[r].published}

(* Batches of oldest rows, in an order created_at allows.                       *)
Batches(S) ==
  {b \in UNION {SetToSeqs(T) : T \in {T \in SUBSET S : T # {}}} :
     /\ Len(b) = Limit \/ Len(b) = Cardinality(S)
     /\ \A i, j \in 1..Len(b) : i < j => row[b[i]].created <= row[b[j]].created
     /\ \A i \in 1..Len(b) : \A r \in S \ Range(b) : row[b[i]].created <= row[r].created}

(* Mutant of Fetch: the youngest row first.                                     *)
FetchYoungest(p) ==
  /\ pub[p].at = "idle"
  /\ \E r \in Unpublished :
       /\ \A o \in Unpublished : row[o].created <= row[r].created
       /\ pub' = [pub EXCEPT ![p] = [at |-> "publish", batch |-> <<r>>]]
  /\ UNCHANGED <<clock, row, topic, hit, faults>>

(* publish_batch: the oldest rows up to the limit.                              *)
Fetch(p) ==
  /\ pub[p].at = "idle"
  /\ \E b \in Batches(Unpublished) : pub' = [pub EXCEPT ![p] = [at |-> "publish", batch |-> b]]
  /\ UNCHANGED <<clock, row, topic, hit, faults>>

InHand(p) == pub[p].batch[1]

NextRow(p) ==
  pub' = [pub EXCEPT ![p] =
            IF Len(@.batch) = 1 THEN Idle ELSE [at |-> "publish", batch |-> Tail(@.batch)]]

(* publish_raw returns.                                                         *)
Publish(p) ==
  /\ pub[p].at = "publish"
  /\ topic' = Append(topic, InHand(p))
  /\ pub' = [pub EXCEPT ![p].at = "mark"]
  /\ UNCHANGED <<clock, row, hit, faults>>

Mark(p) ==
  /\ pub[p].at = "mark"
  /\ row' = [row EXCEPT ![InHand(p)].published = TRUE]
  /\ NextRow(p)
  /\ UNCHANGED <<clock, topic, hit, faults>>

(* Mutant of Record: a row that failed is not tried again.                      *)
RecordAbandons(p) ==
  /\ pub[p].at = "record"
  /\ row' = [row EXCEPT ![InHand(p)].published = TRUE]
  /\ NextRow(p)
  /\ UNCHANGED <<clock, topic, hit, faults>>

(* The failure is written to the row, which stays unpublished; the rows after   *)
(* it are not held up.                                                          *)
Record(p) ==
  /\ pub[p].at = "record"
  /\ NextRow(p)
  /\ UNCHANGED <<clock, row, topic, hit, faults>>

Hit(p) ==
  /\ faults < MaxFaults
  /\ faults' = faults + 1
  /\ hit' = [hit EXCEPT ![InHand(p)] = @ + 1]

(* publish_raw raises, before or after Kafka has taken the message.             *)
PublishFails(p) ==
  /\ pub[p].at = "publish"
  /\ Hit(p)
  /\ topic' \in {topic, Append(topic, InHand(p))}
  /\ pub' = [pub EXCEPT ![p].at = "record"]
  /\ UNCHANGED <<clock, row>>

(* The UPDATE raises, before or after it is committed.                          *)
MarkFails(p) ==
  /\ pub[p].at = "mark"
  /\ Hit(p)
  /\ \E done \in {row[InHand(p)].published, TRUE} :
       row' = [row EXCEPT ![InHand(p)].published = done]
  /\ pub' = [pub EXCEPT ![p].at = "record"]
  /\ UNCHANGED <<clock, topic>>

(* The UPDATE of the handler raises too: run logs it and the batch is given up. *)
RecordFails(p) ==
  /\ pub[p].at = "record"
  /\ pub' = [pub EXCEPT ![p] = Idle]
  /\ UNCHANGED <<clock, row, topic, hit, faults>>

(* The worker stops in the middle of a batch and is started again.              *)
Crash(p) ==
  /\ pub[p].batch # <<>>
  /\ Hit(p)
  /\ pub' = [pub EXCEPT ![p] = Idle]
  /\ UNCHANGED <<clock, row, topic>>

Advance(p) == Fetch(p) \/ Publish(p) \/ Mark(p) \/ Record(p)

Next ==
  \/ Begin \/ Commit
  \/ \E p \in Publishers :
       \/ Advance(p)
       \/ PublishFails(p) \/ MarkFails(p) \/ RecordFails(p) \/ Crash(p)

Spec == Init /\ [][Next]_vars

(* Every publisher keeps running and every transaction is committed; that the   *)
(* faults are finitely many is the bound MaxFaults.                             *)
FairSpec == Spec /\ WF_vars(Commit) /\ \A p \in Publishers : WF_vars(Advance(p))

--------------------------------------------------------------------------------
(* Every variable has its type; a publisher holds committed rows only.          *)
TypeOK ==
  /\ clock \in 0..(2 * Cardinality(Rows))
  /\ \A r \in Rows : row[r].is \in {"none", "open", "committed"} /\ row[r].created <= clock
  /\ \A p \in Publishers :
       /\ pub[p].at \in {"idle", "publish", "mark", "record"}
       /\ pub[p].at = "idle" <=> pub[p].batch = <<>>
       /\ Range(pub[p].batch) \subseteq With("committed")
  /\ faults \in 0..MaxFaults

Times(r) == Cardinality({i \in 1..Len(topic) : topic[i] = r})

(* At least once: a row is marked only after Kafka has taken it.                *)
MarkedIsPublished == \A r \in Rows : row[r].published => Times(r) > 0

(* A row is in Kafka once more than it should be only for each other publisher  *)
(* that had it in its batch and for each fault that met it.                     *)
RepeatsAreExplained == \A r \in Rows : Times(r) <= Cardinality(Publishers) + hit[r]

First(r) == CHOOSE i \in 1..Len(topic) : topic[i] = r /\ \A j \in 1..(i - 1) : topic[j] # r

(* A row is overtaken by one of a younger transaction that became visible after *)
(* it only when a fault met it.                                                 *)
OvertakenAfterFault ==
  \A o, y \in With("committed") :
    (/\ row[o].created < row[y].created /\ row[o].committed < row[y].committed
     /\ hit[o] = 0 /\ Times(y) > 0)
    => Times(o) > 0 /\ First(o) < First(y)

(* Every row that is committed is published and marked: again and again there is*)
(* none that is not.                                                            *)
EventuallyPublished == []<>(Unpublished = {})
================================================================================
