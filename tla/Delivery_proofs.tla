---------------------------- MODULE Delivery_proofs -----------------------------
(* Proofs about the two processes behind the database and the topics: nothing is *)
(* marked or committed before it has arrived, whatever fails or crashes, for    *)
(* any number of rows, publishers, events and faults; and what is repeated or   *)
(* overtaken has a fault that met it.                                           *)
(*                                                                              *)
(* Both arguments follow what is on its way. A row of the outbox may still be   *)
(* published by every publisher that has it in its batch, and was published     *)
(* unmarked by those about to mark it; the rows of an analytics batch are all   *)
(* in ClickHouse, or none was added by the attempt that runs.                   *)
EXTENDS MCDelivery, FiniteSetTheorems, SequenceTheorems, WellFoundedInduction, TLAPS

--------------------------------------------------------------------------------
(* The analytics writer.                                                        *)

(* Types, and that the buffer is empty whenever the worker can be interrupted.  *)
AnalyticsTypes ==
  /\ sent \in 0..Events /\ committed \in 0..sent /\ position \in committed..sent
  /\ at \in Analytics!Ended \cup {"starting", "polling", "adding", "inserting", "committing"}
  /\ rows \in Seq(1..Events) /\ todo \in Seq(1..Events) /\ sending \in Seq(1..Events)
  /\ buffer = <<>>
  /\ delay \in 1..(2 * MaxRetrySeconds)
  /\ table \in [1..Events -> Nat] /\ met \in [1..Events -> Nat]
  /\ analyticsFaults \in 0..MaxAnalyticsFaults
  /\ \A e \in 1..Events : met[e] <= analyticsFaults

Distinct(s) == \A i, j \in 1..Len(s) : i # j => s[i] # s[j]

(* The batch in memory is that of the events after the committed offset, and an *)
(* insert has all of it: the writer never flushes a part of a batch.            *)
BatchInHand ==
  /\ at = "polling" => position = committed
  /\ at \in {"adding", "inserting", "committing"} =>
       /\ Distinct(rows) /\ Len(rows) <= MaxRows
       /\ \A e \in 1..Events :
            Contains(rows, e) <=> e > committed /\ e <= position /\ e \notin Rejected
  /\ at = "adding" => todo \in {rows, <<>>} /\ rows # <<>>
  /\ at = "inserting" => sending = rows /\ todo = <<>> /\ rows # <<>>
  /\ at \in {"starting", "polling", "adding", "committing"} => sending = <<>>

(* The attempt that runs has put the whole batch into ClickHouse.               *)
Done == at = "committing" \/ (at = "adding" /\ todo = <<>>)

(* What is committed or done is stored.                                         *)
StoredBehind ==
  /\ \A e \in (1..committed) \ Rejected : table[e] > 0
  /\ Done => \A e \in 1..Events : Contains(rows, e) => table[e] > 0

(* An event has as many rows as faults met it, but for the attempt that counts. *)
RowsExplained ==
  \A e \in 1..Events :
    /\ table[e] <= 1 + met[e]
    /\ e > committed => table[e] <= met[e] \/ (Done /\ Contains(rows, e))

AnalyticsInv == AnalyticsTypes /\ BatchInHand /\ StoredBehind /\ RowsExplained

--------------------------------------------------------------------------------
(* The outbox.                                                                  *)

RowType ==
  [is : {"none", "open", "committed"}, created : Nat, committed : Nat, published : BOOLEAN]
PublisherType == [at : {"idle", "publish", "mark", "record"}, batch : Seq(Rows)]

OutboxTypes ==
  /\ clock \in Nat /\ row \in [Rows -> RowType] /\ pub \in [Publishers -> PublisherType]
  /\ topic \in Seq(Rows) /\ hit \in [Rows -> Nat] /\ faults \in 0..MaxFaults
  /\ \A r \in Rows : row[r].created <= clock /\ row[r].committed <= clock

(* Each tick of the clock has moved a row forward.                              *)
ClockPaid == clock <= Cardinality(Rows \ With("none")) + Cardinality(With("committed"))

Taken(r) == \E i \in 1..Len(topic) : topic[i] = r

In(t, r) == \E i \in 1..Len(t) : t[i] = r

(* A batch has committed rows, each once; what is marked, or about to be, Kafka *)
(* has taken, and what is recorded as failed, a fault has met.                  *)
Held ==
  /\ \A p \in Publishers :
       /\ pub[p].at = "idle" <=> pub[p].batch = <<>>
       /\ Distinct(pub[p].batch)
       /\ \A i \in 1..Len(pub[p].batch) : row[pub[p].batch[i]].is = "committed"
       /\ pub[p].at = "mark" => Taken(InHand(p))
       /\ pub[p].at = "record" => hit[InHand(p)] > 0
  /\ \A i \in 1..Len(topic) : row[topic[i]].is = "committed"
  /\ \A r \in Rows : row[r].published => Taken(r)

(* Who may still publish a row, and who has and did not mark it yet.            *)
Due(r) ==
  {p \in Publishers : \E i \in 1..Len(pub[p].batch) :
     pub[p].batch[i] = r /\ (i > 1 \/ pub[p].at = "publish")}
Marking(r) == {p \in Publishers : pub[p].at = "mark" /\ InHand(p) = r}

(* Until it is marked, a row is in Kafka once for each fault that met it and    *)
(* each publisher about to mark it; from then on, each of the others that has   *)
(* it in its batch adds one.                                                    *)
Repeats ==
  \A r \in Rows :
    IF row[r].published
    THEN Times(r) + Cardinality(Due(r)) <= hit[r] + Cardinality(Publishers)
    ELSE Times(r) <= hit[r] + Cardinality(Marking(r))

(* A transaction began and was visible before the other.                        *)
Older(o, y) ==
  /\ row[o].is = "committed"
  /\ row[o].created < row[y].created /\ row[o].committed < row[y].committed

(* Where a row is, an older one that no fault met is before it.                 *)
InOrder ==
  \A o \in Rows : hit[o] = 0 =>
    /\ \A i \in 1..Len(topic) : Older(o, topic[i]) => \E j \in 1..(i - 1) : topic[j] = o
    /\ \A p \in Publishers : \A i \in 1..Len(pub[p].batch) :
         Older(o, pub[p].batch[i]) => Taken(o) \/ \E j \in 1..(i - 1) : pub[p].batch[j] = o

OutboxInv == OutboxTypes /\ ClockPaid /\ Held /\ Repeats /\ InOrder
--------------------------------------------------------------------------------
(* The constants of the analytics worker.                                       *)
LEMMA AnalyticsConstants ==
  /\ Events \in Nat /\ MaxAnalyticsFaults \in Nat /\ MaxOutages \in Nat
  /\ BatchSize \in Nat /\ MaxRows \in Nat /\ BatchSize <= MaxRows /\ MaxRows > 0
  /\ MaxRetrySeconds \in Nat /\ MaxRetrySeconds > 0
  BY DeliveryAssumption DEF Analytics!AnalyticsAssumption

(* Contains, of either module.                                                  *)
LEMMA SameContains ==
  ASSUME NEW s, NEW e
  PROVE  Analytics!Contains(s, e) <=> Contains(s, e)
  BY DEF Analytics!Contains, Contains

(* Cardinality, of either module.                                               *)
LEMMA SameCardinality ==
  ASSUME NEW S
  PROVE  Analytics!Cardinality(S) = Cardinality(S)
  BY DEF Analytics!Cardinality, Cardinality

(* An insert adds one row for each event it has.                                *)
LEMMA StoredOnce ==
  ASSUME AnalyticsTypes, NEW s \in Seq(1..Events), Distinct(s)
  PROVE  /\ Analytics!Stored(s) \in [1..Events -> Nat]
         /\ \A e \in 1..Events :
              Analytics!Stored(s)[e] = IF Contains(s, e) THEN table[e] + 1 ELSE table[e]
<1>1. ASSUME NEW e \in 1..Events
      PROVE  Cardinality({i \in DOMAIN s : s[i] = e}) = IF Contains(s, e) THEN 1 ELSE 0
  <2> DEFINE S == {i \in DOMAIN s : s[i] = e}
  <2>a. DOMAIN s = 1..Len(s)
    OBVIOUS
  <2>1. CASE Contains(s, e)
    <3>1. PICK k \in 1..Len(s) : s[k] = e
      BY <2>1 DEF Contains
    <3>2. S = {k}
      BY <2>a, <3>1 DEF Distinct
    <3> QED
      BY <2>1, <3>2, FS_Singleton
  <2>2. CASE ~Contains(s, e)
    <3>1. S = {}
      BY <2>a, <2>2 DEF Contains
    <3> QED
      BY <2>2, <3>1, FS_EmptySet
  <2> QED
    BY <2>1, <2>2
<1>2. \A e \in 1..Events : table[e] \in Nat
  BY DEF AnalyticsTypes
<1> DEFINE more(e) == table[e] + Analytics!Cardinality({i \in DOMAIN s : s[i] = e})
<1>3. Analytics!Stored(s) = [e \in 1..Events |-> more(e)]
  BY DEF Analytics!Stored
<1>4. ASSUME NEW e \in 1..Events
      PROVE  more(e) = IF Contains(s, e) THEN table[e] + 1 ELSE table[e]
  <2>1. more(e) = table[e] + Cardinality({i \in DOMAIN s : s[i] = e})
    BY SameCardinality
  <2>2. Cardinality({i \in DOMAIN s : s[i] = e}) = IF Contains(s, e) THEN 1 ELSE 0
    BY <1>1
  <2> HIDE DEF more
  <2> QED
    BY <2>1, <2>2, <1>2
<1> HIDE DEF more
<1>5. \A e \in 1..Events : more(e) \in Nat
  BY <1>2, <1>4
<1> QED
  BY <1>3, <1>4, <1>5

(* An insert without rows changes nothing.                                      *)
LEMMA StoredNothing ==
  ASSUME AnalyticsTypes
  PROVE  Analytics!Stored(<<>>) = table
<1>1. <<>> \in Seq(1..Events) /\ Distinct(<<>>) /\ \A e : ~Contains(<<>>, e)
  BY DEF Distinct, Contains
<1>2. /\ Analytics!Stored(<<>>) \in [1..Events -> Nat]
      /\ \A e \in 1..Events : Analytics!Stored(<<>>)[e] = table[e]
  BY <1>1, StoredOnce
<1>3. table \in [1..Events -> Nat]
  BY DEF AnalyticsTypes
<1> DEFINE t == Analytics!Stored(<<>>)
<1> HIDE DEF t
<1>4. t \in [1..Events -> Nat] /\ \A e \in 1..Events : t[e] = table[e]
  BY <1>2 DEF t
<1>5. t = table
  <2> DEFINE T == 1..Events
  <2>1. t \in [T -> Nat] /\ table \in [T -> Nat] /\ \A e \in T : t[e] = table[e]
    BY <1>3, <1>4
  <2> HIDE DEF T
  <2>2. t = [e \in T |-> t[e]] /\ table = [e \in T |-> table[e]]
    BY <2>1
  <2> QED
    BY <2>1, <2>2
<1> QED
  BY <1>5 DEF t

(* What a poll takes is the events after the position that normalize.           *)
LEMMA NormalizedIs ==
  ASSUME AnalyticsTypes, NEW n \in Analytics!Batches, NEW s \in Analytics!Normalized(n)
  PROVE  /\ s \in Seq(1..Events) /\ Distinct(s) /\ Len(s) <= MaxRows
         /\ \A e \in 1..Events :
              Contains(s, e) <=> e > position /\ e <= position + n /\ e \notin Rejected
<1> DEFINE S == ((position + 1)..(position + n)) \ Rejected
<1>1. /\ n \in 1..BatchSize /\ position + n <= sent /\ sent <= Events
      /\ position \in Nat /\ sent \in Nat /\ Events \in Nat /\ n \in Nat
  BY AnalyticsConstants DEF Analytics!Batches, Analytics!Fetches, AnalyticsTypes
<1>2. /\ s \in [1..Cardinality(S) -> S] /\ Analytics!Range(s) = S
      /\ \A i, j \in DOMAIN s : i < j => s[i] < s[j]
  <2>1. /\ s \in [1..Analytics!Cardinality(S) -> S] /\ Analytics!Range(s) = S
        /\ \A i, j \in DOMAIN s : i < j => s[i] < s[j]
    BY DEF Analytics!Normalized, Analytics!Fetched
  <2>2. Analytics!Cardinality(S) = Cardinality(S)
    BY SameCardinality
  <2> QED
    BY <2>1, <2>2
<1>3. IsFiniteSet(S) /\ Cardinality(S) <= n /\ Cardinality(S) \in Nat
  <2>1. IsFiniteSet((position + 1)..(position + n))
        /\ Cardinality((position + 1)..(position + n)) = n
    BY <1>1, FS_Interval
  <2>2. S \in SUBSET ((position + 1)..(position + n))
    OBVIOUS
  <2>3. IsFiniteSet(S) /\ Cardinality(S) <= n
    BY <2>1, <2>2, FS_Subset
  <2> QED
    BY <2>3, FS_CardinalityType
<1>4. S \subseteq 1..Events
  BY <1>1
<1>5. s \in Seq(1..Events) /\ Len(s) = Cardinality(S) /\ DOMAIN s = 1..Len(s)
  <2> DEFINE c == Cardinality(S)
             T == 1..Events
  <2>1. s \in [1..c -> S] /\ c \in Nat /\ S \subseteq T
    BY <1>2, <1>3, <1>4
  <2> HIDE DEF S, c, T
  <2>2. s \in [1..c -> T]
    BY <2>1
  <2>3. s \in Seq(T) /\ Len(s) = c /\ DOMAIN s = 1..c
    BY <2>1, <2>2
  <2> QED
    BY <2>3 DEF c, T
<1>6. Distinct(s)
  <2> SUFFICES ASSUME NEW i \in 1..Len(s), NEW j \in 1..Len(s), i # j PROVE s[i] # s[j]
    BY DEF Distinct
  <2>1. s[i] \in Nat /\ s[j] \in Nat
    BY <1>1, <1>5
  <2>2. i < j \/ j < i
    BY <1>5, <1>3
  <2>3. s[i] < s[j] \/ s[j] < s[i]
    BY <1>2, <1>5, <2>2
  <2> QED
    BY <2>1, <2>3
<1>7. \A e : Contains(s, e) <=> e \in S
  <2>1. Analytics!Range(s) = {s[i] : i \in 1..Len(s)}
    BY <1>5 DEF Analytics!Range
  <2> QED
    BY <1>2, <2>1 DEF Contains
<1>8. Len(s) <= MaxRows
  BY <1>1, <1>3, <1>5, AnalyticsConstants
<1>9. \A e \in 1..Events : e \in S <=> e > position /\ e <= position + n /\ e \notin Rejected
  BY <1>1
<1> QED
  BY <1>5, <1>6, <1>7, <1>8, <1>9

(* The smaller of two.                                                          *)
LEMMA MinOfTwo ==
  ASSUME NEW a \in Nat, NEW b \in Nat, b <= a
  PROVE  Analytics!Min({a, b}) = b
<1>1. b \in {a, b} /\ \A y \in {a, b} : b <= y
  OBVIOUS
<1>2. \A x \in {a, b} : (\A y \in {a, b} : x <= y) => x = b
  OBVIOUS
<1> QED
  BY <1>1, <1>2 DEF Analytics!Min

(* Nothing has been fetched.                                                    *)
LEMMA AnalyticsInit == Analytics!Init => AnalyticsInv
<1> SUFFICES ASSUME Analytics!Init PROVE AnalyticsInv
  OBVIOUS
<1>1. <<>> \in Seq(1..Events)
  OBVIOUS
<1>2. AnalyticsTypes
  BY <1>1, AnalyticsConstants DEF Analytics!Init, AnalyticsTypes
<1> QED
  BY <1>2, AnalyticsConstants DEF Analytics!Init, AnalyticsInv, BatchInHand, StoredBehind, RowsExplained, Done
(* Steps that leave the worker and ClickHouse as they are.                      *)
LEMMA AnalyticsQuiet ==
  ASSUME AnalyticsInv, Analytics!Publish \/ Analytics!Down \/ Analytics!Recover \/ UNCHANGED analytics
  PROVE  AnalyticsInv'
<1>1. /\ UNCHANGED <<committed, at, position, rows, todo, buffer, sending, delay, table, met,
                     analyticsFaults>>
      /\ sent' = sent \/ (sent < Events /\ sent' = sent + 1)
  BY DEF Analytics!Publish, Analytics!Down, Analytics!Recover, Analytics!worker, Analytics!bounds, analytics
<1>2. AnalyticsTypes'
  <2>1. AnalyticsTypes /\ sent \in 0..Events /\ committed \in 0..sent /\ position \in committed..sent
    BY DEF AnalyticsInv, AnalyticsTypes
  <2>2. sent' \in 0..Events /\ committed \in 0..sent' /\ position \in committed..sent'
    BY <1>1, <2>1, AnalyticsConstants
  <2> QED
    BY <1>1, <2>1, <2>2 DEF AnalyticsTypes
<1>3. BatchInHand'
  BY <1>1 DEF AnalyticsInv, BatchInHand, Distinct, Contains
<1>4. StoredBehind' /\ RowsExplained'
  BY <1>1 DEF AnalyticsInv, StoredBehind, RowsExplained, Done, Contains
<1> QED
  BY <1>2, <1>3, <1>4 DEF AnalyticsInv

(* The process ends, at a moment when it has no batch in its hands.             *)
LEMMA AnalyticsEnds ==
  ASSUME AnalyticsInv, Analytics!PingFails \/ Analytics!DecodeFails
  PROVE  AnalyticsInv'
<1>1. /\ at' \in {"unreachable", "undecodable"} /\ ~Done
      /\ UNCHANGED <<sent, committed, position, rows, todo, buffer, sending, delay, table, met,
                     analyticsFaults>>
  BY DEF Analytics!PingFails, Analytics!DecodeFails, Analytics!bounds, Done
<1>2. AnalyticsTypes'
  BY <1>1 DEF AnalyticsInv, AnalyticsTypes, Analytics!Ended
<1>3. BatchInHand'
  BY <1>1 DEF BatchInHand
<1>4. StoredBehind' /\ RowsExplained'
  BY <1>1 DEF AnalyticsInv, StoredBehind, RowsExplained, Done
<1> QED
  BY <1>2, <1>3, <1>4 DEF AnalyticsInv

(* The process is started again: it has nothing.                                *)
LEMMA AnalyticsRun ==
  ASSUME AnalyticsInv, Analytics!Run
  PROVE  AnalyticsInv'
<1>1. /\ at' = "starting" /\ ~Done
      /\ rows' = <<>> /\ todo' = <<>> /\ buffer' = <<>> /\ sending' = <<>> /\ delay' = 1
      /\ UNCHANGED <<sent, committed, position, table, met, analyticsFaults>>
  BY DEF Analytics!Run, Analytics!bounds, Analytics!Ended, Done
<1>2. AnalyticsTypes'
  <2>1. <<>> \in Seq(1..Events)
    OBVIOUS
  <2> QED
    BY <1>1, <2>1, AnalyticsConstants DEF AnalyticsInv, AnalyticsTypes
<1>3. BatchInHand'
  BY <1>1 DEF BatchInHand
<1>4. StoredBehind' /\ RowsExplained'
  BY <1>1 DEF AnalyticsInv, StoredBehind, RowsExplained, Done
<1> QED
  BY <1>2, <1>3, <1>4 DEF AnalyticsInv

(* The worker starts at the offset of its group.                                *)
LEMMA AnalyticsPing ==
  ASSUME AnalyticsInv, Analytics!Ping
  PROVE  AnalyticsInv'
<1>1. /\ at = "starting" /\ at' = "polling" /\ position' = committed
      /\ UNCHANGED <<sent, committed, rows, todo, buffer, sending, delay, table, met, analyticsFaults>>
  BY DEF Analytics!Ping, Analytics!bounds
<1>2. AnalyticsTypes'
  BY <1>1, AnalyticsConstants DEF AnalyticsInv, AnalyticsTypes
<1>3. BatchInHand'
  BY <1>1 DEF AnalyticsInv, BatchInHand
<1>4. StoredBehind' /\ RowsExplained'
  BY <1>1 DEF AnalyticsInv, StoredBehind, RowsExplained, Done
<1> QED
  BY <1>2, <1>3, <1>4 DEF AnalyticsInv

(* A new batch: nothing of it has been added.                                   *)
LEMMA AnalyticsPoll ==
  ASSUME AnalyticsInv, Analytics!Poll
  PROVE  AnalyticsInv'
<1>0. PICK n \in Analytics!Batches : \E s \in Analytics!Normalized(n) :
        /\ position' = position + n
        /\ rows' = s /\ todo' = s
        /\ at' = IF s = <<>> THEN "committing" ELSE "adding"
  BY DEF Analytics!Poll
<1>1. PICK new \in Analytics!Normalized(n) :
        /\ position' = position + n
        /\ rows' = new /\ todo' = new
        /\ at' = IF new = <<>> THEN "committing" ELSE "adding"
  BY <1>0
<1>2. /\ at = "polling" /\ delay' = 1
      /\ UNCHANGED <<sent, committed, buffer, sending, table, met, analyticsFaults>>
  BY DEF Analytics!Poll, Analytics!bounds
<1>3. AnalyticsTypes /\ position = committed /\ sending = <<>>
  BY <1>2 DEF AnalyticsInv, BatchInHand
<1>4. /\ new \in Seq(1..Events) /\ Distinct(new) /\ Len(new) <= MaxRows
      /\ \A e \in 1..Events :
           Contains(new, e) <=> e > position /\ e <= position + n /\ e \notin Rejected
  BY <1>3, NormalizedIs
<1>5. n \in Nat /\ position + n <= sent
  BY <1>1, AnalyticsConstants DEF Analytics!Batches, Analytics!Fetches
<1>6. AnalyticsTypes'
  <2>1. sent \in Nat /\ committed \in Nat /\ position \in Nat
    BY <1>3, AnalyticsConstants DEF AnalyticsTypes
  <2>2. position' \in committed'..sent' /\ delay' \in 1..(2 * MaxRetrySeconds)
    BY <1>1, <1>2, <1>3, <1>5, <2>1, AnalyticsConstants
  <2>3. at' \in {"adding", "committing"}
    BY <1>1
  <2> QED
    BY <1>1, <1>2, <1>3, <1>4, <2>2, <2>3 DEF AnalyticsTypes
<1>7. BatchInHand'
  BY <1>1, <1>2, <1>3, <1>4 DEF BatchInHand
<1>8. Done' => rows' = <<>>
  BY <1>1 DEF Done
<1>9. \A e : ~Contains(<<>>, e)
  BY DEF Contains
<1>10. StoredBehind' /\ RowsExplained'
  BY <1>2, <1>8, <1>9 DEF AnalyticsInv, StoredBehind, RowsExplained, Done
<1> QED
  BY <1>6, <1>7, <1>10 DEF AnalyticsInv

(* A flush takes the whole batch, or finds that it is done.                     *)
LEMMA AnalyticsFlush ==
  ASSUME AnalyticsInv, Analytics!Flush
  PROVE  AnalyticsInv'
<1>a. /\ AnalyticsTypes /\ buffer = <<>> /\ at = "adding" /\ todo \in {rows, <<>>} /\ rows # <<>>
      /\ rows \in Seq(1..Events) /\ todo \in Seq(1..Events) /\ Len(rows) <= MaxRows
  BY DEF AnalyticsInv, AnalyticsTypes, BatchInHand, Analytics!Flush
<1>1. Analytics!Min({MaxRows - Len(buffer), Len(todo)}) = Len(todo)
  <2>1. Len(todo) \in Nat /\ Len(todo) <= MaxRows /\ MaxRows - Len(buffer) = MaxRows
    BY <1>a, AnalyticsConstants
  <2> QED
    BY <2>1, MinOfTwo, AnalyticsConstants
<1>2. /\ sending' = buffer \o SubSeq(todo, 1, Len(todo))
      /\ todo' = SubSeq(todo, Len(todo) + 1, Len(todo))
      /\ at' = IF sending' = <<>> THEN "committing" ELSE "inserting"
      /\ buffer' = <<>>
      /\ UNCHANGED <<sent, committed, position, rows, delay, table, met, analyticsFaults>>
  BY <1>1 DEF Analytics!Flush, Analytics!bounds
<1>3. sending' = todo /\ todo' = <<>>
  <2>1. SubSeq(todo, 1, Len(todo)) = todo
    BY <1>a
  <2>2. <<>> \o todo = todo
    BY <1>a
  <2>3. SubSeq(todo, Len(todo) + 1, Len(todo)) = <<>>
    BY <1>a
  <2> QED
    BY <1>a, <1>2, <2>1, <2>2, <2>3
<1>4. AnalyticsTypes'
  <2>1. <<>> \in Seq(1..Events)
    OBVIOUS
  <2> QED
    BY <1>a, <1>2, <1>3, <2>1 DEF AnalyticsTypes
<1>5. BatchInHand'
  BY <1>a, <1>2, <1>3 DEF AnalyticsInv, BatchInHand
<1>6. Done' <=> Done
  BY <1>a, <1>2, <1>3 DEF Done
<1>7. StoredBehind' /\ RowsExplained'
  BY <1>2, <1>6 DEF AnalyticsInv, StoredBehind, RowsExplained
<1> QED
  BY <1>4, <1>5, <1>7 DEF AnalyticsInv

(* ClickHouse has taken the batch.                                              *)
LEMMA AnalyticsInserted ==
  ASSUME AnalyticsInv, Analytics!Inserted
  PROVE  AnalyticsInv'
<1>1. /\ at = "inserting" /\ table' = Analytics!Stored(sending) /\ sending' = <<>> /\ at' = "adding"
      /\ UNCHANGED <<sent, committed, position, rows, todo, buffer, delay, met, analyticsFaults>>
  BY DEF Analytics!Inserted, Analytics!bounds
<1>2. /\ AnalyticsTypes /\ sending = rows /\ todo = <<>> /\ rows # <<>> /\ ~Done
      /\ Distinct(rows) /\ rows \in Seq(1..Events)
  BY <1>1 DEF AnalyticsInv, AnalyticsTypes, BatchInHand, Done
<1>3. /\ table' \in [1..Events -> Nat]
      /\ \A e \in 1..Events : table'[e] = IF Contains(rows, e) THEN table[e] + 1 ELSE table[e]
  BY <1>1, <1>2, StoredOnce
<1>4. AnalyticsTypes'
  <2>1. <<>> \in Seq(1..Events)
    OBVIOUS
  <2> QED
    BY <1>1, <1>2, <1>3, <2>1 DEF AnalyticsTypes, Analytics!Ended
<1>5. BatchInHand'
  BY <1>1, <1>2 DEF AnalyticsInv, BatchInHand
<1>6. Done'
  BY <1>1, <1>2 DEF Done
<1>7. \A e \in 1..Events :
        /\ table[e] \in Nat /\ met[e] \in Nat /\ table[e] <= 1 + met[e]
        /\ e > committed => table[e] <= met[e]
        /\ Contains(rows, e) => e > committed
  BY <1>1, <1>2 DEF AnalyticsInv, AnalyticsTypes, RowsExplained, BatchInHand
<1>8. RowsExplained'
  BY <1>1, <1>3, <1>6, <1>7 DEF RowsExplained
<1>9. StoredBehind'
  <2>1. \A e \in (1..committed) \ Rejected : e \in 1..Events /\ table[e] > 0
    BY <1>2, AnalyticsConstants DEF AnalyticsInv, AnalyticsTypes, StoredBehind
  <2> QED
    BY <1>1, <1>3, <1>7, <2>1 DEF StoredBehind
<1> QED
  BY <1>4, <1>5, <1>8, <1>9 DEF AnalyticsInv
(* What the exception handler leaves: the batch from its start, or the end.     *)
LEMMA AnalyticsRetry ==
  ASSUME AnalyticsTypes, at = "inserting", Analytics!Retry, UNCHANGED <<position, rows>>
  PROVE  /\ sending' = <<>> /\ delay' \in 1..(2 * MaxRetrySeconds)
         /\ todo' \in {rows, todo}
         /\ at' = "outlasted" \/ (at' = "adding" /\ todo' = rows)
<1>1. delay \in 1..(2 * MaxRetrySeconds) /\ MaxRetrySeconds \in Nat
  BY AnalyticsConstants DEF AnalyticsTypes
<1>2. CASE delay > MaxRetrySeconds
  BY <1>1, <1>2 DEF Analytics!Retry
<1>3. CASE ~(delay > MaxRetrySeconds)
  BY <1>1, <1>3 DEF Analytics!Retry
<1> QED
  BY <1>2, <1>3

(* A failed insert adds nothing, and the attempt begins again.                  *)
LEMMA AnalyticsInsertFails ==
  ASSUME AnalyticsInv, Analytics!InsertFails
  PROVE  AnalyticsInv'
<1>1. /\ at = "inserting" /\ Analytics!Retry
      /\ UNCHANGED <<sent, committed, position, rows, buffer, table, met, analyticsFaults>>
  BY DEF Analytics!InsertFails, Analytics!bounds
<1>2. /\ AnalyticsTypes /\ rows # <<>> /\ ~Done
  BY <1>1 DEF AnalyticsInv, BatchInHand, Done
<1>3. /\ sending' = <<>> /\ delay' \in 1..(2 * MaxRetrySeconds)
      /\ todo' \in {rows, todo}
      /\ at' = "outlasted" \/ (at' = "adding" /\ todo' = rows)
  BY <1>1, <1>2, AnalyticsRetry
<1>4. AnalyticsTypes'
  <2>1. <<>> \in Seq(1..Events)
    OBVIOUS
  <2> QED
    BY <1>1, <1>2, <1>3, <2>1 DEF AnalyticsTypes, Analytics!Ended
<1>5. BatchInHand'
  BY <1>1, <1>2, <1>3 DEF AnalyticsInv, BatchInHand
<1>6. ~Done'
  BY <1>1, <1>2, <1>3 DEF Done
<1>7. StoredBehind' /\ RowsExplained'
  BY <1>1, <1>2, <1>6 DEF AnalyticsInv, StoredBehind, RowsExplained
<1> QED
  BY <1>4, <1>5, <1>7 DEF AnalyticsInv

(* A fault that meets the batch is counted for each of its events.              *)
LEMMA AnalyticsMeets ==
  ASSUME AnalyticsTypes, Analytics!Fault, Analytics!Meets
  PROVE  /\ analyticsFaults' \in 0..MaxAnalyticsFaults /\ met' \in [1..Events -> Nat]
         /\ \A e \in 1..Events :
              /\ met'[e] = IF Contains(rows, e) THEN met[e] + 1 ELSE met[e]
              /\ met'[e] <= analyticsFaults'
<1>1. /\ analyticsFaults \in 0..MaxAnalyticsFaults /\ met \in [1..Events -> Nat]
      /\ \A e \in 1..Events : met[e] <= analyticsFaults /\ met[e] \in Nat
  BY DEF AnalyticsTypes
<1>2. analyticsFaults < MaxAnalyticsFaults /\ analyticsFaults' = analyticsFaults + 1
  BY DEF Analytics!Fault
<1>3. met' = [e \in 1..Events |-> IF Contains(rows, e) THEN met[e] + 1 ELSE met[e]]
  BY SameContains DEF Analytics!Meets
<1>4. \A e \in 1..Events : met'[e] = IF Contains(rows, e) THEN met[e] + 1 ELSE met[e]
  BY <1>3
<1>5. met' \in [1..Events -> Nat]
  BY <1>1, <1>3
<1> QED
  BY <1>1, <1>2, <1>4, <1>5, AnalyticsConstants

(* An insert whose answer is late adds the rows, and each has met a fault.      *)
LEMMA AnalyticsInsertUnanswered ==
  ASSUME AnalyticsInv, Analytics!InsertUnanswered
  PROVE  AnalyticsInv'
<1>1. /\ at = "inserting" /\ Analytics!Retry /\ Analytics!Fault /\ Analytics!Meets
      /\ table' = Analytics!Stored(sending)
      /\ UNCHANGED <<sent, committed, position, rows, buffer>>
  BY DEF Analytics!InsertUnanswered
<1>2. /\ AnalyticsTypes /\ sending = rows /\ rows # <<>> /\ ~Done
      /\ Distinct(rows) /\ rows \in Seq(1..Events)
  BY <1>1 DEF AnalyticsInv, AnalyticsTypes, BatchInHand, Done
<1>3. /\ sending' = <<>> /\ delay' \in 1..(2 * MaxRetrySeconds)
      /\ todo' \in {rows, todo}
      /\ at' = "outlasted" \/ (at' = "adding" /\ todo' = rows)
  BY <1>1, <1>2, AnalyticsRetry
<1>4. /\ analyticsFaults' \in 0..MaxAnalyticsFaults /\ met' \in [1..Events -> Nat]
      /\ \A e \in 1..Events :
           /\ met'[e] = IF Contains(rows, e) THEN met[e] + 1 ELSE met[e]
           /\ met'[e] <= analyticsFaults'
  BY <1>1, <1>2, AnalyticsMeets
<1>5. /\ table' \in [1..Events -> Nat]
      /\ \A e \in 1..Events : table'[e] = IF Contains(rows, e) THEN table[e] + 1 ELSE table[e]
  BY <1>1, <1>2, StoredOnce
<1>6. AnalyticsTypes'
  <2>1. <<>> \in Seq(1..Events)
    OBVIOUS
  <2> QED
    BY <1>1, <1>2, <1>3, <1>4, <1>5, <2>1 DEF AnalyticsTypes, Analytics!Ended
<1>7. BatchInHand'
  BY <1>1, <1>2, <1>3 DEF AnalyticsInv, BatchInHand
<1>8. ~Done'
  BY <1>1, <1>2, <1>3 DEF Done
<1>9. \A e \in 1..Events :
        /\ table[e] \in Nat /\ met[e] \in Nat /\ table[e] <= 1 + met[e]
        /\ e > committed => table[e] <= met[e]
        /\ Contains(rows, e) => e > committed
  BY <1>1, <1>2 DEF AnalyticsInv, AnalyticsTypes, RowsExplained, BatchInHand
<1>10. RowsExplained'
  BY <1>1, <1>4, <1>5, <1>9 DEF RowsExplained
<1>11. StoredBehind'
  <2>1. \A e \in (1..committed) \ Rejected : e \in 1..Events /\ table[e] > 0
    BY <1>2, AnalyticsConstants DEF AnalyticsInv, AnalyticsTypes, StoredBehind
  <2> QED
    BY <1>1, <1>5, <1>8, <1>9, <2>1 DEF StoredBehind
<1> QED
  BY <1>6, <1>7, <1>10, <1>11 DEF AnalyticsInv

(* The offset is committed when the whole batch is stored.                      *)
LEMMA AnalyticsCommit ==
  ASSUME AnalyticsInv, Analytics!Commit
  PROVE  AnalyticsInv'
<1>1. /\ at = "committing" /\ committed' = position /\ at' = "polling"
      /\ UNCHANGED <<sent, position, rows, todo, buffer, sending, delay, table, met, analyticsFaults>>
  BY DEF Analytics!Commit, Analytics!bounds
<1>2. AnalyticsTypes /\ Done /\ sending = <<>> /\ ~Done'
  BY <1>1 DEF AnalyticsInv, BatchInHand, Done
<1>3. /\ sent \in 0..Events /\ committed \in 0..sent /\ position \in committed..sent /\ Events \in Nat
  BY <1>2, AnalyticsConstants DEF AnalyticsTypes
<1>4. AnalyticsTypes'
  <2>1. committed' \in 0..sent' /\ position' \in committed'..sent'
    BY <1>1, <1>3
  <2> QED
    BY <1>1, <1>2, <2>1 DEF AnalyticsTypes
<1>5. BatchInHand'
  BY <1>1, <1>2 DEF BatchInHand
<1>6. StoredBehind'
  <2> SUFFICES ASSUME NEW e \in (1..position) \ Rejected PROVE table[e] > 0
    BY <1>1, <1>2 DEF StoredBehind
  <2>1. e \in 1..Events
    BY <1>3
  <2>2. CASE e <= committed
    <3>1. e \in (1..committed) \ Rejected
      BY <1>3, <2>1, <2>2
    <3> QED
      BY <3>1 DEF AnalyticsInv, StoredBehind
  <2>3. CASE ~(e <= committed)
    <3>1. e > committed /\ e <= position
      BY <1>3, <2>1, <2>3
    <3>2. Contains(rows, e)
      BY <1>1, <2>1, <3>1 DEF AnalyticsInv, BatchInHand
    <3> QED
      BY <1>2, <2>1, <3>2 DEF AnalyticsInv, StoredBehind
  <2> QED
    BY <2>2, <2>3
<1>7. RowsExplained'
  <2> SUFFICES ASSUME NEW e \in 1..Events
               PROVE  table[e] <= 1 + met[e] /\ (e > position => table[e] <= met[e])
    BY <1>1 DEF RowsExplained
  <2>1. e > position => e > committed /\ ~Contains(rows, e)
    BY <1>1, <1>3 DEF AnalyticsInv, BatchInHand
  <2> QED
    BY <2>1 DEF AnalyticsInv, RowsExplained
<1> QED
  BY <1>4, <1>5, <1>6, <1>7 DEF AnalyticsInv

(* A crash: an insert may have its rows stored, a commit may be done.           *)
LEMMA AnalyticsCrash ==
  ASSUME AnalyticsInv, Analytics!Crash
  PROVE  AnalyticsInv'
<1>1. /\ at \notin Analytics!Ended /\ at' = "crashed" /\ Analytics!Fault /\ Analytics!Meets
      /\ table' \in {table, Analytics!Stored(sending)}
      /\ committed' = committed \/ (at = "committing" /\ committed' = position)
      /\ UNCHANGED <<sent, position, rows, todo, buffer, sending, delay>>
  BY DEF Analytics!Crash
<1>2. AnalyticsTypes /\ ~Done'
  BY <1>1 DEF AnalyticsInv, Done
<1>3. /\ analyticsFaults' \in 0..MaxAnalyticsFaults /\ met' \in [1..Events -> Nat]
      /\ \A e \in 1..Events :
           /\ met'[e] = IF Contains(rows, e) THEN met[e] + 1 ELSE met[e]
           /\ met'[e] <= analyticsFaults'
  BY <1>1, <1>2, AnalyticsMeets
<1>4. /\ table' \in [1..Events -> Nat]
      /\ \/ \A e \in 1..Events : table'[e] = table[e]
         \/ /\ at = "inserting"
            /\ \A e \in 1..Events :
                 table'[e] = IF Contains(rows, e) THEN table[e] + 1 ELSE table[e]
  <2>1. CASE table' = table
    BY <1>2, <2>1 DEF AnalyticsTypes
  <2>2. CASE table' = Analytics!Stored(sending) /\ at = "inserting"
    <3>1. sending = rows /\ Distinct(rows) /\ rows \in Seq(1..Events)
      BY <1>2, <2>2 DEF AnalyticsInv, AnalyticsTypes, BatchInHand
    <3> QED
      BY <1>2, <2>2, <3>1, StoredOnce
  <2>3. CASE table' = Analytics!Stored(sending) /\ at # "inserting"
    <3>1. sending = <<>>
      BY <1>1, <1>2, <2>3 DEF AnalyticsInv, AnalyticsTypes, BatchInHand, Analytics!Ended
    <3>2. table' = table
      BY <1>2, <2>3, <3>1, StoredNothing
    <3> QED
      BY <1>2, <3>2 DEF AnalyticsTypes
  <2> QED
    BY <1>1, <2>1, <2>2, <2>3
<1>5. /\ sent \in 0..Events /\ committed \in 0..sent /\ position \in committed..sent /\ Events \in Nat
  BY <1>2, AnalyticsConstants DEF AnalyticsTypes
<1>6. AnalyticsTypes'
  <2>1. committed' \in 0..sent' /\ position' \in committed'..sent'
    BY <1>1, <1>5
  <2> QED
    BY <1>1, <1>2, <1>3, <1>4, <2>1 DEF AnalyticsTypes, Analytics!Ended
<1>7. BatchInHand'
  BY <1>1 DEF BatchInHand
<1>a. \A e \in 1..Events :
        table[e] \in Nat /\ met[e] \in Nat /\ table'[e] \in Nat /\ table[e] <= table'[e]
  BY SMTT(30), <1>2, <1>4 DEF AnalyticsTypes
<1>8. StoredBehind'
  <2> SUFFICES ASSUME NEW e \in (1..committed') \ Rejected PROVE table'[e] > 0
    BY <1>1, <1>2 DEF StoredBehind
  <2>1. e \in 1..Events
    BY <1>1, <1>5
  <2>2. CASE e <= committed
    <3>1. e \in (1..committed) \ Rejected
      BY <1>5, <2>1, <2>2
    <3>2. table[e] > 0
      BY <3>1 DEF AnalyticsInv, StoredBehind
    <3> QED
      BY <1>a, <2>1, <3>2
  <2>3. CASE ~(e <= committed)
    <3>1. at = "committing" /\ e > committed /\ e <= position
      BY <1>1, <1>5, <2>1, <2>3
    <3>2. Contains(rows, e)
      BY <2>1, <3>1 DEF AnalyticsInv, BatchInHand
    <3>3. table[e] > 0
      BY <2>1, <3>1, <3>2 DEF AnalyticsInv, StoredBehind, Done
    <3> QED
      BY <1>a, <2>1, <3>3
  <2> QED
    BY <2>2, <2>3
<1>9. RowsExplained'
  <2> SUFFICES ASSUME NEW e \in 1..Events
               PROVE  table'[e] <= 1 + met'[e] /\ (e > committed' => table'[e] <= met'[e])
    BY DEF RowsExplained
  <2>1. /\ table[e] <= 1 + met[e]
        /\ e > committed => table[e] <= met[e] \/ (Done /\ Contains(rows, e))
    BY DEF AnalyticsInv, RowsExplained
  <2>2. e > committed' => e > committed
    BY <1>1, <1>5
  <2>3. CASE at = "inserting"
    <3>1. ~Done /\ (Contains(rows, e) => e > committed)
      BY <2>3 DEF AnalyticsInv, BatchInHand, Done
    <3>2. table'[e] <= IF Contains(rows, e) THEN table[e] + 1 ELSE table[e]
      BY <1>4, <1>a
    <3> QED
      BY <1>3, <1>a, <2>1, <2>2, <3>1, <3>2
  <2>4. CASE at # "inserting"
    <3>1. table'[e] = table[e]
      BY <1>4, <2>4
    <3> QED
      BY <1>3, <1>a, <2>1, <2>2, <3>1
  <2> QED
    BY <2>3, <2>4
<1> QED
  BY <1>6, <1>7, <1>8, <1>9 DEF AnalyticsInv

(* Every step of the worker, its topics and ClickHouse keeps the invariant.     *)
LEMMA AnalyticsNext ==
  AnalyticsInv /\ (Analytics!Next \/ UNCHANGED analytics) => AnalyticsInv'
  BY AnalyticsQuiet, AnalyticsEnds, AnalyticsRun, AnalyticsPing, AnalyticsPoll, AnalyticsFlush, AnalyticsInserted,
     AnalyticsInsertFails, AnalyticsInsertUnanswered, AnalyticsCommit, AnalyticsCrash
  DEF Analytics!Next, Analytics!Step

(* What the invariant says of the worker in every state.                        *)
LEMMA AnalyticsSays ==
  AnalyticsInv =>
    /\ Analytics!TypeOK /\ Analytics!CommittedIsStored
    /\ Analytics!RepeatsAreExplained /\ Analytics!InsertIsBatch
<1> SUFFICES ASSUME AnalyticsInv
             PROVE  /\ Analytics!TypeOK /\ Analytics!CommittedIsStored
                    /\ Analytics!RepeatsAreExplained /\ Analytics!InsertIsBatch
  OBVIOUS
<1>1. AnalyticsTypes /\ (at = "inserting" => sending = rows /\ rows # <<>>)
  BY DEF AnalyticsInv, BatchInHand
<1>2. /\ position \in 0..sent /\ <<>> \in Seq(1..Events)
      /\ \A e \in 1..Events : table[e] \in Nat /\ met[e] \in 0..MaxAnalyticsFaults
  BY SMTT(30), <1>1, AnalyticsConstants DEF AnalyticsTypes
<1>3. Analytics!TypeOK
  BY <1>1, <1>2 DEF Analytics!TypeOK, AnalyticsTypes
<1> QED
  BY <1>1, <1>3 DEF AnalyticsInv, StoredBehind, RowsExplained, Analytics!CommittedIsStored,
                    Analytics!RepeatsAreExplained, Analytics!InsertIsBatch
--------------------------------------------------------------------------------
(* What the invariant says of a publisher with a batch in its hand.             *)
LEMMA HandIs ==
  ASSUME OutboxTypes, Held, NEW p \in Publishers, pub[p].at # "idle"
  PROVE  /\ pub[p].batch \in Seq(Rows) /\ Len(pub[p].batch) \in Nat /\ Len(pub[p].batch) > 0
         /\ InHand(p) \in Rows /\ InHand(p) = pub[p].batch[1]
         /\ Distinct(pub[p].batch) /\ row[InHand(p)].is = "committed"
<1>1. pub[p] \in PublisherType
  BY DEF OutboxTypes
<1>2. pub[p].batch \in Seq(Rows)
  BY <1>1 DEF PublisherType
<1>3. pub[p].batch # <<>> /\ Distinct(pub[p].batch)
  BY DEF Held
<1>4. Len(pub[p].batch) \in Nat /\ Len(pub[p].batch) > 0
  BY <1>2, <1>3
<1>5. 1 \in 1..Len(pub[p].batch)
  BY <1>4
<1>6. pub[p].batch[1] \in Rows
  BY <1>2, <1>5
<1>7. row[pub[p].batch[1]].is = "committed"
  BY <1>5 DEF Held
<1> QED
  BY <1>2, <1>3, <1>4, <1>6, <1>7 DEF InHand

(* Types of the parts.                                                          *)
LEMMA PublisherParts ==
  /\ \A x \in PublisherType : x.batch \in Seq(Rows) /\ x.at \in {"idle", "publish", "mark", "record"}
  /\ \A b \in Seq(Rows) : \A a \in {"idle", "publish", "mark", "record"} :
       [at |-> a, batch |-> b] \in PublisherType
  BY DEF PublisherType

(* The next row of the batch, or none.                                          *)
Rest(x) == IF Len(x.batch) = 1 THEN Idle ELSE [at |-> "publish", batch |-> Tail(x.batch)]

(* One publisher moves: what it has in hand next, and what its row meets.       *)
Moves(p, x) ==
  /\ pub' = [pub EXCEPT ![p] = x]
  /\ clock' = clock
  /\ row' = row \/ row' = [row EXCEPT ![InHand(p)].published = TRUE]

Meets(p) ==
  faults < MaxFaults /\ faults' = faults + 1 /\ hit' = [hit EXCEPT ![InHand(p)] = @ + 1]

(* What the steps of a publisher are.                                           *)
LEMMA PublisherSteps ==
  ASSUME OutboxTypes, Held, NEW p \in Publishers
  PROVE  /\ Publish(p) =>
              /\ pub[p].at = "publish" /\ Moves(p, [at |-> "mark", batch |-> pub[p].batch])
              /\ topic' = Append(topic, InHand(p)) /\ UNCHANGED <<row, hit, faults>>
         /\ PublishFails(p) =>
              /\ pub[p].at = "publish" /\ Moves(p, [at |-> "record", batch |-> pub[p].batch])
              /\ topic' \in {topic, Append(topic, InHand(p))} /\ Meets(p) /\ UNCHANGED row
         /\ Mark(p) =>
              /\ pub[p].at = "mark" /\ Moves(p, Rest(pub[p])) /\ UNCHANGED <<topic, hit, faults>>
              /\ row' = [row EXCEPT ![InHand(p)].published = TRUE]
         /\ MarkFails(p) =>
              /\ pub[p].at = "mark" /\ Moves(p, [at |-> "record", batch |-> pub[p].batch])
              /\ Meets(p) /\ UNCHANGED topic
         /\ Record(p) =>
              /\ pub[p].at = "record" /\ Moves(p, Rest(pub[p])) /\ UNCHANGED <<row, topic, hit, faults>>
         /\ RecordFails(p) =>
              /\ pub[p].at = "record" /\ Moves(p, Idle) /\ UNCHANGED <<row, topic, hit, faults>>
         /\ Crash(p) =>
              /\ pub[p].at # "idle" /\ Moves(p, Idle) /\ Meets(p) /\ UNCHANGED <<row, topic>>
<1>1. pub[p] \in PublisherType /\ pub \in [Publishers -> PublisherType]
  BY DEF OutboxTypes
<1>2. \A a : [pub[p] EXCEPT !.at = a] = [at |-> a, batch |-> pub[p].batch]
  BY <1>1 DEF PublisherType
<1>3. \A a : [pub EXCEPT ![p].at = a] = [pub EXCEPT ![p] = [at |-> a, batch |-> pub[p].batch]]
  BY <1>1, <1>2
<1>4. Publish(p) =>
        /\ pub[p].at = "publish" /\ Moves(p, [at |-> "mark", batch |-> pub[p].batch])
        /\ topic' = Append(topic, InHand(p)) /\ UNCHANGED <<row, hit, faults>>
  BY <1>3 DEF Publish, Moves
<1>5. PublishFails(p) =>
        /\ pub[p].at = "publish" /\ Moves(p, [at |-> "record", batch |-> pub[p].batch])
        /\ topic' \in {topic, Append(topic, InHand(p))} /\ Meets(p) /\ UNCHANGED row
  BY <1>3 DEF PublishFails, Hit, Moves, Meets
<1>6. NextRow(p) => pub' = [pub EXCEPT ![p] = Rest(pub[p])]
  BY <1>1 DEF NextRow, Rest
<1>7. Mark(p) =>
        /\ pub[p].at = "mark" /\ Moves(p, Rest(pub[p])) /\ UNCHANGED <<topic, hit, faults>>
        /\ row' = [row EXCEPT ![InHand(p)].published = TRUE]
  BY <1>6 DEF Mark, Moves
<1>8. MarkFails(p) =>
        /\ pub[p].at = "mark" /\ Moves(p, [at |-> "record", batch |-> pub[p].batch])
        /\ Meets(p) /\ UNCHANGED topic
  <2> SUFFICES ASSUME MarkFails(p)
               PROVE  /\ pub[p].at = "mark" /\ Moves(p, [at |-> "record", batch |-> pub[p].batch])
                      /\ Meets(p) /\ UNCHANGED topic
    OBVIOUS
  <2>1. pub[p].at = "mark" /\ Meets(p) /\ UNCHANGED <<clock, topic>>
    BY DEF MarkFails, Hit, Meets
  <2>2. pub' = [pub EXCEPT ![p] = [at |-> "record", batch |-> pub[p].batch]]
    BY <1>3 DEF MarkFails
  <2>3. PICK done \in {row[InHand(p)].published, TRUE} :
          row' = [row EXCEPT ![InHand(p)].published = done]
    BY DEF MarkFails
  <2>4. row' = row \/ row' = [row EXCEPT ![InHand(p)].published = TRUE]
    <3>1. CASE done = TRUE
      BY <2>3, <3>1
    <3>2. CASE done = row[InHand(p)].published
      <4>1. InHand(p) \in Rows /\ row \in [Rows -> RowType] /\ row[InHand(p)] \in RowType
        BY <2>1, HandIs DEF OutboxTypes
      <4>2. [row[InHand(p)] EXCEPT !.published = done] = row[InHand(p)]
        BY <4>1, <3>2 DEF RowType
      <4>3. row' = [row EXCEPT ![InHand(p)] = row[InHand(p)]]
        BY <2>3, <4>1, <4>2
      <4> QED
        BY <4>1, <4>3
    <3> QED
      BY <2>3, <3>1, <3>2
  <2> QED
    BY <2>1, <2>2, <2>4 DEF Moves
<1>9. Record(p) =>
        /\ pub[p].at = "record" /\ Moves(p, Rest(pub[p])) /\ UNCHANGED <<row, topic, hit, faults>>
  BY <1>6 DEF Record, Moves
<1>10. RecordFails(p) =>
        /\ pub[p].at = "record" /\ Moves(p, Idle) /\ UNCHANGED <<row, topic, hit, faults>>
  BY DEF RecordFails, Moves
<1>11. Crash(p) =>
        /\ pub[p].at # "idle" /\ Moves(p, Idle) /\ Meets(p) /\ UNCHANGED <<row, topic>>
  BY DEF Crash, Hit, Moves, Meets, Held
<1> QED
  BY <1>4, <1>5, <1>7, <1>8, <1>9, <1>10, <1>11

(* Marking a row leaves everything else of the rows alone.                      *)
LEMMA RowsMoved ==
  ASSUME OutboxTypes, NEW p \in Publishers, NEW x, Moves(p, x), InHand(p) \in Rows
  PROVE  /\ row' \in [Rows -> RowType] /\ clock' = clock
         /\ \A r \in Rows :
              /\ row'[r].is = row[r].is /\ row'[r].created = row[r].created
              /\ row'[r].committed = row[r].committed
              /\ r # InHand(p) => row'[r].published = row[r].published
              /\ row[r].published => row'[r].published
         /\ row' = [row EXCEPT ![InHand(p)].published = TRUE] => row'[InHand(p)].published
<1>1. row \in [Rows -> RowType] /\ clock' = clock
  BY DEF OutboxTypes, Moves
<1> DEFINE Kept ==
             /\ row' \in [Rows -> RowType]
             /\ \A r \in Rows :
                  /\ row'[r].is = row[r].is /\ row'[r].created = row[r].created
                  /\ row'[r].committed = row[r].committed
                  /\ r # InHand(p) => row'[r].published = row[r].published
                  /\ row[r].published => row'[r].published
<1>2. row' = row => Kept
  BY <1>1
<1>3. row' = [row EXCEPT ![InHand(p)].published = TRUE] => Kept /\ row'[InHand(p)].published
  <2> SUFFICES ASSUME row' = [row EXCEPT ![InHand(p)].published = TRUE]
               PROVE  Kept /\ row'[InHand(p)].published
    OBVIOUS
  <2>1. row[InHand(p)] \in RowType
    BY <1>1
  <2> DEFINE new == [row[InHand(p)] EXCEPT !.published = TRUE]
  <2>2. /\ new \in RowType /\ new.published /\ new.is = row[InHand(p)].is
        /\ new.created = row[InHand(p)].created /\ new.committed = row[InHand(p)].committed
    BY <2>1 DEF RowType
  <2>3. row' = [row EXCEPT ![InHand(p)] = new]
    BY <1>1
  <2> HIDE DEF new
  <2> QED
    BY <1>1, <2>2, <2>3
<1> HIDE DEF Kept
<1>4. Kept
  BY <1>2, <1>3 DEF Moves
<1> QED
  BY <1>1, <1>3, <1>4 DEF Kept
(* A step of publisher p that leaves it with x and concerns row h.              *)
Step(p, x, h) ==
  /\ pub' = [pub EXCEPT ![p] = x] /\ clock' = clock
  /\ row' \in [Rows -> RowType]
  /\ \A r \in Rows :
       /\ row'[r].is = row[r].is /\ row'[r].created = row[r].created
       /\ row'[r].committed = row[r].committed
       /\ r # h => row'[r].published = row[r].published
       /\ row[r].published => row'[r].published
  /\ topic' \in {topic, Append(topic, h)} /\ row[h].is = "committed"
  /\ hit' \in [Rows -> Nat] /\ hit[h] <= hit'[h] /\ \A r \in Rows : r # h => hit'[r] = hit[r]
  /\ faults' \in 0..MaxFaults

(* What the publisher has then.                                                 *)
Fit(x) ==
  /\ x \in PublisherType /\ Distinct(x.batch)
  /\ x.at = "idle" <=> x.batch = <<>>
  /\ \A i \in 1..Len(x.batch) : row[x.batch[i]].is = "committed"

(* The topic grows at its end.                                                  *)
LEMMA TopicGrows ==
  ASSUME OutboxTypes, NEW h \in Rows, topic' \in {topic, Append(topic, h)}
  PROVE  /\ topic \in Seq(Rows) /\ topic' \in Seq(Rows) /\ Len(topic) \in Nat
         /\ Len(topic') \in {Len(topic), Len(topic) + 1}
         /\ \A i \in 1..Len(topic) : topic'[i] = topic[i]
         /\ topic' = Append(topic, h) => Len(topic') = Len(topic) + 1 /\ topic'[Len(topic) + 1] = h
         /\ Len(topic') = Len(topic) + 1 => topic' = Append(topic, h)
         /\ \A r : Taken(r) => Taken(r)'
         /\ topic' = Append(topic, h) => Taken(h)'
<1>1. topic \in Seq(Rows) /\ Len(topic) \in Nat
  BY DEF OutboxTypes
<1>2. CASE topic' = topic
  <2>1. Len(topic') # Len(topic) + 1
    BY <1>1, <1>2
  <2>2. topic' # Append(topic, h)
    BY <1>1, <1>2
  <2> QED
    BY <1>1, <1>2, <2>1, <2>2 DEF Taken
<1>3. CASE topic' = Append(topic, h)
  <2>1. /\ topic' \in Seq(Rows) /\ Len(topic') = Len(topic) + 1
        /\ topic'[Len(topic) + 1] = h /\ \A i \in 1..Len(topic) : topic'[i] = topic[i]
    BY <1>1, <1>3, AppendProperties
  <2> QED
    BY <1>1, <1>3, <2>1 DEF Taken
<1> QED
  BY <1>2, <1>3

(* Such a step keeps types, the clock and what publishers hold.                 *)
LEMMA StepHolds ==
  ASSUME OutboxTypes, ClockPaid, Held, NEW p \in Publishers, NEW x, NEW h \in Rows,
         Step(p, x, h), Fit(x),
         x.at = "mark" => Taken(x.batch[1])',
         x.at = "record" => hit'[x.batch[1]] > 0,
         row'[h].published => Taken(h)'
  PROVE  OutboxTypes' /\ ClockPaid' /\ Held'
<1>1. /\ topic \in Seq(Rows) /\ topic' \in Seq(Rows) /\ Len(topic) \in Nat
      /\ Len(topic') \in {Len(topic), Len(topic) + 1}
      /\ \A i \in 1..Len(topic) : topic'[i] = topic[i]
      /\ Len(topic') = Len(topic) + 1 => topic' = Append(topic, h)
      /\ topic' = Append(topic, h) => Len(topic') = Len(topic) + 1 /\ topic'[Len(topic) + 1] = h
      /\ \A r : Taken(r) => Taken(r)'
  BY TopicGrows DEF Step
<1>2. pub' = [pub EXCEPT ![p] = x] /\ pub \in [Publishers -> PublisherType] /\ x \in PublisherType
  BY DEF Step, Fit, OutboxTypes
<1>3. OutboxTypes'
  <2>1. pub' \in [Publishers -> PublisherType]
    BY <1>2
  <2> QED
    BY <1>1, <2>1 DEF Step, OutboxTypes
<1>4. With("none")' = With("none") /\ With("committed")' = With("committed")
  BY DEF Step, With
<1>5. ClockPaid'
  BY <1>4 DEF ClockPaid, Step
<1>6. \A r \in Rows : row'[r].is = row[r].is /\ hit[r] \in Nat /\ hit'[r] \in Nat /\ hit[r] <= hit'[r]
  BY DEF Step, OutboxTypes
<1>7. ASSUME NEW o \in Publishers
      PROVE  /\ pub'[o].at = "idle" <=> pub'[o].batch = <<>>
             /\ Distinct(pub'[o].batch)
             /\ \A i \in 1..Len(pub'[o].batch) : row'[pub'[o].batch[i]].is = "committed"
             /\ pub'[o].at = "mark" => In(topic', pub'[o].batch[1])
             /\ pub'[o].at = "record" => hit'[pub'[o].batch[1]] > 0
  <2>1. CASE o = p
    <3>1. pub'[o] = x
      BY <1>2, <2>1
    <3>2. x.batch \in Seq(Rows) /\ \A i \in 1..Len(x.batch) : x.batch[i] \in Rows
      BY <1>2, PublisherParts
    <3>3. \A i \in 1..Len(x.batch) : row'[x.batch[i]].is = "committed"
      BY <1>6, <3>2 DEF Fit
    <3>4. x.at = "mark" => In(topic', x.batch[1])
      BY DEF Taken, In
    <3> QED
      BY <3>1, <3>3, <3>4 DEF Fit
  <2>2. CASE o # p
    <3>1. pub'[o] = pub[o]
      BY <1>2, <2>2
    <3>2. /\ pub[o].batch \in Seq(Rows) /\ \A i \in 1..Len(pub[o].batch) : pub[o].batch[i] \in Rows
      BY <1>2, PublisherParts
    <3>3. \A i \in 1..Len(pub[o].batch) : row'[pub[o].batch[i]].is = "committed"
      BY <1>6, <3>2 DEF Held
    <3>4. pub[o].at = "mark" => In(topic', pub[o].batch[1])
      BY <1>1 DEF Held, InHand, Taken, In
    <3>5. pub[o].at = "record" => hit'[pub[o].batch[1]] > 0
      <4> SUFFICES ASSUME pub[o].at = "record" PROVE hit'[pub[o].batch[1]] > 0
        OBVIOUS
      <4>1. InHand(o) \in Rows /\ InHand(o) = pub[o].batch[1] /\ hit[InHand(o)] > 0
        BY HandIs DEF Held
      <4> QED
        BY <4>1, <1>6
    <3> QED
      BY <3>1, <3>3, <3>4, <3>5 DEF Held
  <2> QED
    BY <2>1, <2>2
<1>8. \A i \in 1..Len(topic') : row'[topic'[i]].is = "committed"
  <2> SUFFICES ASSUME NEW i \in 1..Len(topic') PROVE row'[topic'[i]].is = "committed"
    OBVIOUS
  <2>1. CASE i \in 1..Len(topic)
    <3>1. topic'[i] = topic[i] /\ topic[i] \in Rows /\ row[topic[i]].is = "committed"
      BY <1>1, <2>1 DEF Held
    <3> QED
      BY <3>1, <1>6
  <2>2. CASE i \notin 1..Len(topic)
    <3>1. i = Len(topic) + 1 /\ topic'[i] = h
      BY <1>1, <2>2
    <3> QED
      BY <3>1, <1>6 DEF Step
  <2> QED
    BY <2>1, <2>2
<1>9. \A r \in Rows : row'[r].published => Taken(r)'
  <2> SUFFICES ASSUME NEW r \in Rows, row'[r].published PROVE Taken(r)'
    OBVIOUS
  <2>1. CASE r = h
    BY <2>1
  <2>2. CASE r # h
    BY <1>1, <2>2 DEF Step, Held
  <2> QED
    BY <2>1, <2>2
<1>10. Held'
  BY <1>7, <1>8, <1>9 DEF Held, InHand, Taken, In
<1> QED
  BY <1>3, <1>5, <1>10

(* And the order: what is published was in hand and free of older rows.         *)
LEMMA StepOrder ==
  ASSUME OutboxTypes, Held, InOrder, NEW p \in Publishers, NEW x, NEW h \in Rows,
         Step(p, x, h), Fit(x),
         topic' = topic \/ (pub[p].at = "publish" /\ h = InHand(p)),
         \A o \in Rows : hit'[o] = 0 => \A i \in 1..Len(x.batch) :
           Older(o, x.batch[i]) => Taken(o)' \/ \E j \in 1..(i - 1) : x.batch[j] = o
  PROVE  InOrder'
<1>1. /\ topic \in Seq(Rows) /\ topic' \in Seq(Rows) /\ Len(topic) \in Nat
      /\ Len(topic') \in {Len(topic), Len(topic) + 1}
      /\ \A i \in 1..Len(topic) : topic'[i] = topic[i]
      /\ Len(topic') = Len(topic) + 1 => topic' = Append(topic, h)
      /\ topic' = Append(topic, h) => Len(topic') = Len(topic) + 1 /\ topic'[Len(topic) + 1] = h
      /\ \A r : Taken(r) => Taken(r)'
  BY TopicGrows DEF Step
<1>2. pub' = [pub EXCEPT ![p] = x] /\ pub \in [Publishers -> PublisherType] /\ x \in PublisherType
  BY DEF Step, Fit, OutboxTypes
<1>3. \A o \in Rows, y \in Rows : Older(o, y)' <=> Older(o, y)
  BY DEF Step, Older
<1>4. \A o \in Rows : hit'[o] = 0 => hit[o] = 0
  BY DEF Step, OutboxTypes
<1>5. ASSUME NEW o \in Rows, hit'[o] = 0, NEW i \in 1..Len(topic'), NEW y \in Rows, y = topic'[i],
             Older(o, y)
      PROVE  \E j \in 1..(i - 1) : topic'[j] = o
  <2>1. CASE i \in 1..Len(topic)
    <3>1. topic[i] = y
      BY <1>1, <1>5, <2>1
    <3>2. PICK j \in 1..(i - 1) : topic[j] = o
      BY <1>4, <1>5, <2>1, <3>1 DEF InOrder
    <3>3. j \in 1..Len(topic)
      BY <1>1, <2>1
    <3> QED
      BY <1>1, <3>2, <3>3
  <2>2. CASE i \notin 1..Len(topic)
    <3>1. i = Len(topic) + 1 /\ y = h /\ topic' # topic
      BY <1>1, <1>5, <2>2
    <3>2. pub[p].at = "publish" /\ h = pub[p].batch[1] /\ 1 \in 1..Len(pub[p].batch)
      BY <3>1, HandIs
    <3>3. Taken(o) \/ \E j \in 1..(1 - 1) : pub[p].batch[j] = o
      BY <1>4, <1>5, <3>1, <3>2 DEF InOrder
    <3>4. PICK j \in 1..Len(topic) : topic[j] = o
      BY <3>3 DEF Taken
    <3> QED
      BY <1>1, <3>1, <3>4
  <2> QED
    BY <2>1, <2>2
<1>6. ASSUME NEW o \in Rows, hit'[o] = 0, NEW q \in Publishers, NEW i \in 1..Len(pub'[q].batch),
             NEW y \in Rows, y = pub'[q].batch[i], Older(o, y)
      PROVE  Taken(o)' \/ \E j \in 1..(i - 1) : pub'[q].batch[j] = o
  <2>1. CASE q = p
    <3>1. pub'[q] = x
      BY <1>2, <2>1
    <3> QED
      BY <1>6, <3>1
  <2>2. CASE q # p
    <3>1. pub'[q] = pub[q]
      BY <1>2, <2>2
    <3>2. Taken(o) \/ \E j \in 1..(i - 1) : pub[q].batch[j] = o
      BY <1>4, <1>6, <3>1 DEF InOrder
    <3> QED
      BY <1>1, <3>1, <3>2
  <2> QED
    BY <2>1, <2>2
<1>7. \A i \in 1..Len(topic') : topic'[i] \in Rows
  BY <1>1
<1>8. \A q \in Publishers : \A i \in 1..Len(pub'[q].batch) : pub'[q].batch[i] \in Rows
  <2> SUFFICES ASSUME NEW q \in Publishers, NEW i \in 1..Len(pub'[q].batch)
               PROVE  pub'[q].batch[i] \in Rows
    OBVIOUS
  <2>1. pub'[q] \in PublisherType
    BY <1>2
  <2>2. pub'[q].batch \in Seq(Rows)
    BY <2>1, PublisherParts
  <2> QED
    BY <2>2
<1>9. \A o \in Rows : hit'[o] = 0 =>
        \A i \in 1..Len(topic') : Older(o, topic'[i]) => \E j \in 1..(i - 1) : topic'[j] = o
  BY <1>5, <1>7
<1>10. \A o \in Rows : hit'[o] = 0 =>
        \A q \in Publishers : \A i \in 1..Len(pub'[q].batch) :
          Older(o, pub'[q].batch[i]) => Taken(o)' \/ \E j \in 1..(i - 1) : pub'[q].batch[j] = o
  BY <1>6, <1>8
<1>11. \A o \in Rows :
         /\ \A i \in 1..Len(topic') : Older(o, topic[i])' <=> Older(o, topic'[i])
         /\ \A q \in Publishers : \A i \in 1..Len(pub'[q].batch) :
              Older(o, pub[q].batch[i])' <=> Older(o, pub'[q].batch[i])
  <2>1. \A o \in Rows, y \in Rows :
          /\ row'[o].is = row[o].is /\ row'[o].created = row[o].created
          /\ row'[o].committed = row[o].committed /\ row'[y].created = row[y].created
          /\ row'[y].committed = row[y].committed
    BY DEF Step
  <2> QED
    BY <1>7, <1>8, <2>1 DEF Older
<1> QED
  BY <1>9, <1>10, <1>11 DEF InOrder, Taken
(* What a publisher fetches: unpublished rows, each once and in the order of    *)
(* created_at, none of them younger than a row that is left.                    *)
LEMMA FetchedIs ==
  ASSUME OutboxTypes, NEW b \in Batches(Unpublished)
  PROVE  /\ b \in Seq(Rows) /\ Len(b) \in Nat /\ Len(b) > 0 /\ Distinct(b)
         /\ \A i \in 1..Len(b) : b[i] \in Unpublished
         /\ \A i, j \in 1..Len(b) : i < j => row[b[i]].created <= row[b[j]].created
         /\ \A i \in 1..Len(b), r \in Unpublished :
              (\A k \in 1..Len(b) : b[k] # r) => row[b[i]].created <= row[r].created
<1> DEFINE S == Unpublished
<1>1. S \subseteq Rows /\ IsFiniteSet(Rows)
  BY OutboxAssumption DEF Unpublished, With
<1>2. PICK T \in SUBSET S : T # {} /\ b \in SetToSeqs(T)
  BY DEF Batches
<1>3. b \in [1..Cardinality(T) -> T] /\ \A i, j \in 1..Cardinality(T) : i # j => b[i] # b[j]
  BY <1>2 DEF SetToSeqs
<1>4. IsFiniteSet(T)
  <2>1. T \in SUBSET Rows
    BY <1>1
  <2> QED
    BY <1>1, <2>1, FS_Subset
<1>5. Cardinality(T) \in Nat /\ Cardinality(T) > 0
  BY <1>2, <1>4, FS_CardinalityType, FS_EmptySet
<1>6. b \in Seq(Rows) /\ Len(b) = Cardinality(T) /\ DOMAIN b = 1..Len(b)
  <2> DEFINE c == Cardinality(T)
  <2>1. b \in [1..c -> T] /\ c \in Nat /\ T \subseteq Rows
    BY <1>1, <1>3, <1>5
  <2> HIDE DEF c, S
  <2>2. b \in [1..c -> Rows]
    BY <2>1
  <2>3. b \in Seq(Rows) /\ Len(b) = c /\ DOMAIN b = 1..c
    BY <2>1, <2>2
  <2> QED
    BY <2>3 DEF c
<1>7. \A i \in 1..Len(b) : b[i] \in Unpublished
  BY <1>3, <1>6
<1>8. \A i, j \in 1..Len(b) : i < j => row[b[i]].created <= row[b[j]].created
  BY DEF Batches
<1>9. ASSUME NEW i \in 1..Len(b), NEW r \in Unpublished, \A k \in 1..Len(b) : b[k] # r
      PROVE  row[b[i]].created <= row[r].created
  <2>1. r \notin Range(b)
    BY <1>6, <1>9 DEF Range
  <2> QED
    BY <2>1 DEF Batches
<1> QED
  BY <1>3, <1>5, <1>6, <1>7, <1>8, <1>9 DEF Distinct

(* What is left of a batch: the rows after the first.                           *)
LEMMA RestIs ==
  ASSUME OutboxTypes, Held, NEW p \in Publishers, pub[p].at # "idle"
  PROVE  /\ Fit(Rest(pub[p])) /\ Rest(pub[p]).at \in {"idle", "publish"}
         /\ Len(Rest(pub[p]).batch) = Len(pub[p].batch) - 1
         /\ \A i \in 1..Len(Rest(pub[p]).batch) : Rest(pub[p]).batch[i] = pub[p].batch[i + 1]
<1> DEFINE b == pub[p].batch
           x == Rest(pub[p])
<1>1. b \in Seq(Rows) /\ Len(b) \in Nat /\ Len(b) > 0 /\ Distinct(b)
  BY HandIs
<1>2. \A i \in 1..Len(b) : row[b[i]].is = "committed"
  BY DEF Held
<1>3. <<>> \in Seq(Rows) /\ Len(<<>>) = 0
  OBVIOUS
<1>4. CASE Len(b) = 1
  <2>1. x = [at |-> "idle", batch |-> <<>>]
    BY <1>4 DEF Rest, Idle
  <2> HIDE DEF x
  <2>2. x.at = "idle" /\ x.batch = <<>> /\ x \in PublisherType
    BY <2>1, <1>3, PublisherParts
  <2> QED
    BY <1>3, <1>4, <2>2 DEF Fit, Distinct, x
<1>5. CASE Len(b) # 1
  <2>1. x = [at |-> "publish", batch |-> Tail(b)]
    BY <1>5 DEF Rest
  <2> HIDE DEF x
  <2>2. /\ Tail(b) \in Seq(Rows) /\ Len(Tail(b)) = Len(b) - 1
        /\ \A i \in 1..(Len(b) - 1) : Tail(b)[i] = b[i + 1]
    BY <1>1
  <2>3. x.at = "publish" /\ x.batch = Tail(b) /\ x \in PublisherType
    BY <2>1, <2>2, PublisherParts
  <2>4. x.batch # <<>>
    <3> DEFINE n == Len(b)
               t == Tail(b)
    <3>1. n \in Nat /\ n > 0 /\ n # 1 /\ Len(t) = n - 1 /\ x.batch = t
      BY <1>1, <1>5, <2>2, <2>3
    <3> HIDE DEF n, t
    <3>2. Len(t) # 0
      BY <3>1
    <3> QED
      BY <1>3, <3>1, <3>2
  <2>5. \A i \in 1..Len(x.batch) : x.batch[i] = b[i + 1] /\ i + 1 \in 1..Len(b)
    BY <1>1, <2>2, <2>3
  <2>6. Distinct(x.batch)
    <3> SUFFICES ASSUME NEW i \in 1..Len(x.batch), NEW j \in 1..Len(x.batch), i # j
                 PROVE  x.batch[i] # x.batch[j]
      BY DEF Distinct
    <3>1. i + 1 \in 1..Len(b) /\ j + 1 \in 1..Len(b) /\ i + 1 # j + 1
      BY <2>5
    <3>2. b[i + 1] # b[j + 1]
      BY <1>1, <3>1 DEF Distinct
    <3> QED
      BY <2>5, <3>2
  <2>7. \A i \in 1..Len(x.batch) : row[x.batch[i]].is = "committed"
    BY <1>2, <2>5
  <2> QED
    BY <2>2, <2>3, <2>4, <2>5, <2>6, <2>7 DEF Fit, x
<1> QED
  BY <1>4, <1>5

(* A batch in the same hands fits, whatever is done with it.                    *)
LEMMA SameFits ==
  ASSUME OutboxTypes, Held, NEW p \in Publishers, pub[p].at # "idle",
         NEW a \in {"publish", "mark", "record"}
  PROVE  Fit([at |-> a, batch |-> pub[p].batch])
<1>1. /\ pub[p].batch \in Seq(Rows) /\ Len(pub[p].batch) > 0 /\ Distinct(pub[p].batch)
      /\ \A i \in 1..Len(pub[p].batch) : row[pub[p].batch[i]].is = "committed"
  BY HandIs DEF Held
<1>2. pub[p].batch # <<>>
  BY <1>1
<1> QED
  BY <1>1, <1>2, PublisherParts DEF Fit

(* Without a batch there is nothing to fit.                                     *)
LEMMA IdleFits == Fit(Idle)
<1>1. <<>> \in Seq(Rows) /\ Len(<<>>) = 0
  OBVIOUS
<1>2. Idle \in PublisherType /\ Idle.at = "idle" /\ Idle.batch = <<>>
  BY <1>1, PublisherParts DEF Idle
<1> QED
  BY <1>1, <1>2 DEF Fit, Distinct

(* The steps with a row in hand are steps concerning that row.                  *)
LEMMA StepOf ==
  ASSUME OutboxTypes, Held, NEW p \in Publishers, pub[p].at # "idle", NEW x, Moves(p, x),
         topic' \in {topic, Append(topic, InHand(p))},
         UNCHANGED <<hit, faults>> \/ Meets(p)
  PROVE  Step(p, x, InHand(p))
<1>1. InHand(p) \in Rows /\ row[InHand(p)].is = "committed"
  BY HandIs
<1>2. /\ row' \in [Rows -> RowType] /\ clock' = clock
      /\ \A r \in Rows :
           /\ row'[r].is = row[r].is /\ row'[r].created = row[r].created
           /\ row'[r].committed = row[r].committed
           /\ r # InHand(p) => row'[r].published = row[r].published
           /\ row[r].published => row'[r].published
  BY <1>1, RowsMoved
<1>3. hit \in [Rows -> Nat] /\ faults \in 0..MaxFaults /\ MaxFaults \in Nat
  BY OutboxAssumption DEF OutboxTypes
<1> DEFINE h == InHand(p)
<1>4. /\ hit' \in [Rows -> Nat] /\ hit[h] <= hit'[h]
      /\ \A r \in Rows : r # h => hit'[r] = hit[r]
      /\ faults' \in 0..MaxFaults
  <2>1. CASE UNCHANGED <<hit, faults>>
    BY <1>1, <1>3, <2>1
  <2>2. CASE Meets(p)
    <3>1. h \in Rows /\ hit' = [hit EXCEPT ![h] = hit[h] + 1]
      BY <1>1, <2>2 DEF Meets
    <3>2. hit[h] \in Nat /\ faults' \in 0..MaxFaults
      BY <1>1, <1>3, <2>2 DEF Meets
    <3> HIDE DEF h
    <3> QED
      BY <1>3, <3>1, <3>2
  <2> QED
    BY <2>1, <2>2
<1> QED
  BY <1>1, <1>2, <1>4 DEF Step, Moves
(* A publisher with x may still publish the row; it is about to mark it.        *)
DueIn(x, r) == \E i \in 1..Len(x.batch) : x.batch[i] = r /\ (i > 1 \/ x.at = "publish")
MarkIn(x, r) == x.at = "mark" /\ x.batch[1] = r

(* A set of publishers from which at most one goes or comes.                    *)
LEMMA CardMoves ==
  ASSUME NEW S \in SUBSET Publishers, NEW T \in SUBSET Publishers, NEW p \in Publishers,
         \A q \in Publishers : q # p => (q \in S <=> q \in T)
  PROVE  /\ Cardinality(S) \in Nat /\ Cardinality(T) \in Nat
         /\ (p \in S <=> p \in T) => Cardinality(T) = Cardinality(S)
         /\ p \in S /\ p \notin T => Cardinality(S) = Cardinality(T) + 1
         /\ p \notin S /\ p \in T => Cardinality(T) = Cardinality(S) + 1
<1>1. IsFiniteSet(S) /\ IsFiniteSet(T)
  BY OutboxAssumption, FS_Subset
<1>2. Cardinality(S) \in Nat /\ Cardinality(T) \in Nat
  BY <1>1, FS_CardinalityType
<1>3. (p \in S <=> p \in T) => S = T
  OBVIOUS
<1>4. p \in S /\ p \notin T => S = T \cup {p}
  OBVIOUS
<1>5. p \notin S /\ p \in T => T = S \cup {p}
  OBVIOUS
<1>6. p \notin T => Cardinality(T \cup {p}) = Cardinality(T) + 1
  BY <1>1, FS_AddElement
<1>7. p \notin S => Cardinality(S \cup {p}) = Cardinality(S) + 1
  BY <1>1, FS_AddElement
<1> QED
  BY <1>2, <1>3, <1>4, <1>5, <1>6, <1>7

(* No publisher is due to publish the row it is about to mark.                  *)
LEMMA DueOrMarking ==
  ASSUME OutboxTypes, Held, NEW r \in Rows
  PROVE  /\ Cardinality(Due(r)) \in Nat /\ Cardinality(Marking(r)) \in Nat
         /\ Cardinality(Publishers) \in Nat
         /\ Cardinality(Due(r)) + Cardinality(Marking(r)) <= Cardinality(Publishers)
<1>1. Due(r) \in SUBSET Publishers /\ Marking(r) \in SUBSET Publishers /\ IsFiniteSet(Publishers)
  BY OutboxAssumption DEF Due, Marking
<1>2. IsFiniteSet(Due(r)) /\ IsFiniteSet(Marking(r))
  BY <1>1, FS_Subset
<1>3. Due(r) \cap Marking(r) = {}
  <2> SUFFICES ASSUME NEW q \in Publishers, q \in Marking(r), q \in Due(r) PROVE FALSE
    BY <1>1
  <2>1. pub[q].at = "mark" /\ pub[q].batch[1] = r
    BY DEF Marking, InHand
  <2>2. PICK i \in 1..Len(pub[q].batch) : pub[q].batch[i] = r /\ i > 1
    BY <2>1 DEF Due
  <2>3. Distinct(pub[q].batch) /\ 1 \in 1..Len(pub[q].batch)
    BY <2>1, HandIs
  <2> QED
    BY <2>1, <2>2, <2>3 DEF Distinct
<1>4. Cardinality(Due(r) \cap Marking(r)) = 0
  BY <1>3, FS_EmptySet
<1>5. Cardinality(Due(r) \cup Marking(r))
        = Cardinality(Due(r)) + Cardinality(Marking(r)) - Cardinality(Due(r) \cap Marking(r))
  BY <1>2, FS_Union
<1>6. Due(r) \cup Marking(r) \in SUBSET Publishers
  BY <1>1
<1>7. Cardinality(Due(r) \cup Marking(r)) <= Cardinality(Publishers)
  BY <1>1, <1>6, FS_Subset
<1>8. /\ Cardinality(Due(r)) \in Nat /\ Cardinality(Marking(r)) \in Nat
      /\ Cardinality(Publishers) \in Nat
  BY <1>1, <1>2, FS_CardinalityType
<1> QED
  BY <1>4, <1>5, <1>7, <1>8

(* What is appended is counted once more.                                       *)
LEMMA TimesAppended ==
  ASSUME OutboxTypes, NEW h \in Rows, NEW r \in Rows, topic' \in {topic, Append(topic, h)}
  PROVE  /\ Times(r) \in Nat /\ Times(r)' \in Nat
         /\ topic' = topic \/ r # h => Times(r)' = Times(r)
         /\ topic' # topic /\ r = h => Times(r)' = Times(r) + 1
<1> DEFINE S == {i \in 1..Len(topic) : topic[i] = r}
           T == {i \in 1..Len(topic') : topic'[i] = r}
           n == Len(topic) + 1
<1>1. /\ topic \in Seq(Rows) /\ topic' \in Seq(Rows) /\ Len(topic) \in Nat
      /\ Len(topic') \in {Len(topic), Len(topic) + 1}
      /\ \A i \in 1..Len(topic) : topic'[i] = topic[i]
      /\ topic' = Append(topic, h) => Len(topic') = Len(topic) + 1 /\ topic'[Len(topic) + 1] = h
  BY TopicGrows
<1>2. IsFiniteSet(S) /\ n \notin S
  <2>1. IsFiniteSet(1..Len(topic))
    BY <1>1, FS_Interval
  <2>2. S \in SUBSET (1..Len(topic))
    OBVIOUS
  <2>3. IsFiniteSet(S)
    BY <2>1, <2>2, FS_Subset
  <2> QED
    BY <1>1, <2>3
<1>3. Times(r) = Cardinality(S) /\ Times(r)' = Cardinality(T)
  BY DEF Times
<1>4. topic' = topic => T = S
  OBVIOUS
<1>5. topic' = Append(topic, h) => T = IF r = h THEN S \cup {n} ELSE S
  <2> SUFFICES ASSUME topic' = Append(topic, h)
               PROVE  T = IF r = h THEN S \cup {n} ELSE S
    OBVIOUS
  <2>1. Len(topic') = n /\ topic'[n] = h /\ 1..n = (1..Len(topic)) \cup {n}
    BY <1>1
  <2>2. \A i : i \in T <=> i \in S \/ (i = n /\ r = h)
    BY <1>1, <2>1
  <2> HIDE DEF S, T, n
  <2>3. CASE r = h
    BY <2>2, <2>3
  <2>4. CASE r # h
    BY <2>2, <2>4
  <2> QED
    BY <2>3, <2>4
<1> HIDE DEF S, T, n
<1>6. Cardinality(S) \in Nat /\ Cardinality(S \cup {n}) = Cardinality(S) + 1
  BY <1>2, FS_AddElement, FS_CardinalityType
<1>7. topic' = topic \/ r # h => T = S
  BY <1>4, <1>5
<1>8. topic' # topic /\ r = h => T = S \cup {n}
  BY <1>5
<1> DEFINE k == Cardinality(S)
           l == Cardinality(T)
<1>9. /\ k \in Nat /\ Times(r) = k /\ Times(r)' = l
      /\ topic' = topic \/ r # h => l = k
      /\ topic' # topic /\ r = h => l = k + 1
  BY <1>3, <1>6, <1>7, <1>8
<1> HIDE DEF k, l
<1>10. l \in Nat
  BY <1>9
<1> QED
  BY <1>9, <1>10

(* A step keeps the count of repeats when the publisher gives a row up only for *)
(* a fault or because it is marked, and publishes what it has in hand.          *)
LEMMA StepRepeats ==
  ASSUME OutboxTypes, Held, Repeats, NEW p \in Publishers, NEW x, NEW h \in Rows,
         Step(p, x, h),
         \A r \in Rows : DueIn(x, r) /\ row'[r].published => DueIn(pub[p], r),
         \A r \in Rows : MarkIn(pub[p], r) =>
           MarkIn(x, r) \/ row'[r].published \/ hit'[r] = hit[r] + 1,
         topic' # topic =>
           /\ DueIn(pub[p], h) /\ ~DueIn(x, h) /\ ~MarkIn(pub[p], h)
           /\ MarkIn(x, h) \/ hit'[h] = hit[h] + 1
           /\ row'[h].published = row[h].published
  PROVE  Repeats'
<1> SUFFICES ASSUME NEW r \in Rows
             PROVE  IF row'[r].published
                    THEN Times(r)' + Cardinality(Due(r)') <= hit'[r] + Cardinality(Publishers)
                    ELSE Times(r)' <= hit'[r] + Cardinality(Marking(r)')
  BY DEF Repeats
<1>1. pub' = [pub EXCEPT ![p] = x] /\ pub \in [Publishers -> PublisherType]
  BY DEF Step, OutboxTypes
<1>2. \A q \in Publishers :
        /\ q \in Due(r) <=> DueIn(pub[q], r)
        /\ q \in Due(r)' <=> DueIn(pub'[q], r)
        /\ q \in Marking(r) <=> MarkIn(pub[q], r)
        /\ q \in Marking(r)' <=> MarkIn(pub'[q], r)
  BY DEF Due, Marking, DueIn, MarkIn, InHand
<1>3. pub'[p] = x /\ \A q \in Publishers : q # p => pub'[q] = pub[q]
  BY <1>1
<1>4. /\ Due(r) \in SUBSET Publishers /\ Due(r)' \in SUBSET Publishers
      /\ Marking(r) \in SUBSET Publishers /\ Marking(r)' \in SUBSET Publishers
  BY DEF Due, Marking
<1> DEFINE D == Cardinality(Due(r))
           E == Cardinality(Due(r)')
           M == Cardinality(Marking(r))
           N == Cardinality(Marking(r)')
           P == Cardinality(Publishers)
           k == Times(r)
           l == Times(r)'
<1>5. /\ D \in Nat /\ E \in Nat
      /\ (DueIn(pub[p], r) <=> DueIn(x, r)) => E = D
      /\ DueIn(pub[p], r) /\ ~DueIn(x, r) => D = E + 1
  BY <1>2, <1>3, <1>4, CardMoves
<1>6. /\ M \in Nat /\ N \in Nat
      /\ (MarkIn(pub[p], r) <=> MarkIn(x, r)) => N = M
      /\ MarkIn(pub[p], r) /\ ~MarkIn(x, r) => M = N + 1
      /\ ~MarkIn(pub[p], r) /\ MarkIn(x, r) => N = M + 1
  BY <1>2, <1>3, <1>4, CardMoves
<1>7. P \in Nat /\ D + M <= P
  BY DueOrMarking
<1>8. /\ k \in Nat /\ l \in Nat
      /\ topic' = topic \/ r # h => l = k
      /\ topic' # topic /\ r = h => l = k + 1
  BY TimesAppended DEF Step
<1>9. IF row[r].published THEN k + D <= hit[r] + P ELSE k <= hit[r] + M
  BY DEF Repeats
<1>10. /\ hit[r] \in Nat /\ hit'[r] \in Nat /\ hit[r] <= hit'[r]
       /\ row[r].published => row'[r].published
  <2>1. /\ hit \in [Rows -> Nat] /\ hit' \in [Rows -> Nat] /\ hit[h] <= hit'[h]
        /\ r # h => hit'[r] = hit[r]
        /\ row[r].published => row'[r].published
    BY DEF Step, OutboxTypes
  <2>2. hit[r] \in Nat /\ hit'[r] \in Nat
    BY <2>1
  <2> QED
    BY <2>1, <2>2
<1>11. row'[r].published => E <= D
  BY <1>5
<1>12. MarkIn(pub[p], r) => MarkIn(x, r) \/ row'[r].published \/ hit'[r] = hit[r] + 1
  OBVIOUS
<1> HIDE DEF D, E, M, N, P, k, l
<1>13. CASE topic' = topic \/ r # h
  <2>1. CASE row'[r].published
    <3>1. CASE row[r].published
      BY <1>5, <1>7, <1>8, <1>9, <1>10, <1>11, <1>13, <2>1, <3>1 DEF D, E, M, N, P, k, l
    <3>2. CASE ~row[r].published
      BY <1>5, <1>6, <1>7, <1>8, <1>9, <1>10, <1>11, <1>13, <2>1, <3>2 DEF D, E, M, N, P, k, l
    <3> QED
      BY <3>1, <3>2
  <2>2. CASE ~row'[r].published
    <3>1. ~row[r].published /\ k <= hit[r] + M /\ l = k
      BY <1>8, <1>9, <1>10, <1>13, <2>2
    <3>2. N >= M \/ (M = N + 1 /\ hit'[r] = hit[r] + 1)
      BY <1>6, <1>12, <2>2
    <3>3. l <= hit'[r] + N
      BY <1>6, <1>8, <1>10, <3>1, <3>2
    <3> QED
      BY <2>2, <3>3 DEF N, l
  <2> QED
    BY <2>1, <2>2
<1>14. CASE topic' # topic /\ r = h
  <2>1. /\ DueIn(pub[p], r) /\ ~DueIn(x, r) /\ ~MarkIn(pub[p], r)
        /\ MarkIn(x, r) \/ hit'[r] = hit[r] + 1
        /\ row'[r].published = row[r].published
    BY <1>14
  <2>2. l = k + 1 /\ D = E + 1
    BY <1>5, <1>8, <1>14, <2>1
  <2>3. CASE row'[r].published
    <3>1. l + E <= hit'[r] + P
      BY <1>5, <1>7, <1>8, <1>9, <1>10, <2>1, <2>2, <2>3
    <3> QED
      BY <2>3, <3>1 DEF l, E, P
  <2>4. CASE ~row'[r].published
    <3>1. k <= hit[r] + M
      BY <1>9, <2>1, <2>4
    <3>2. N = M + 1 \/ (N = M /\ hit'[r] = hit[r] + 1)
      BY <1>6, <2>1
    <3>3. l <= hit'[r] + N
      BY <1>6, <1>8, <1>10, <2>2, <3>1, <3>2
    <3> QED
      BY <2>4, <3>3 DEF N, l
  <2> QED
    BY <2>3, <2>4
<1> QED
  BY <1>13, <1>14
(* What is due, and about to be marked, before and after the row in hand.       *)
LEMMA HandDue ==
  ASSUME OutboxTypes, Held, NEW p \in Publishers, pub[p].at # "idle"
  PROVE  /\ pub[p].at = "publish" => DueIn(pub[p], InHand(p))
         /\ \A a \in {"mark", "record"}, r \in Rows :
              DueIn([at |-> a, batch |-> pub[p].batch], r) => DueIn(pub[p], r) /\ r # InHand(p)
         /\ \A r \in Rows : DueIn(Rest(pub[p]), r) => DueIn(pub[p], r) /\ r # InHand(p)
         /\ \A r \in Rows : ~DueIn(Idle, r) /\ ~MarkIn(Idle, r) /\ ~MarkIn(Rest(pub[p]), r)
         /\ \A r \in Rows : MarkIn(pub[p], r) => pub[p].at = "mark" /\ r = InHand(p)
         /\ MarkIn([at |-> "mark", batch |-> pub[p].batch], InHand(p))
<1> DEFINE b == pub[p].batch
           h == InHand(p)
<1>1. /\ b \in Seq(Rows) /\ Len(b) \in Nat /\ Len(b) > 0 /\ Distinct(b)
      /\ h \in Rows /\ h = b[1] /\ 1 \in 1..Len(b)
  BY HandIs
<1>2. pub[p].at = "publish" => DueIn(pub[p], h)
  BY <1>1 DEF DueIn
<1>3. \A i \in 1..Len(b) : i > 1 => b[i] # h /\ DueIn(pub[p], b[i])
  BY <1>1 DEF Distinct, DueIn
<1>4. ASSUME NEW a \in {"mark", "record"}, NEW r \in Rows, DueIn([at |-> a, batch |-> b], r)
      PROVE  DueIn(pub[p], r) /\ r # h
  <2>1. PICK i \in 1..Len(b) : b[i] = r /\ i > 1
    BY <1>4 DEF DueIn
  <2> QED
    BY <1>3, <2>1
<1>5. ASSUME NEW r \in Rows, DueIn(Rest(pub[p]), r)
      PROVE  DueIn(pub[p], r) /\ r # h
  <2>1. /\ Len(Rest(pub[p]).batch) = Len(b) - 1
        /\ \A i \in 1..Len(Rest(pub[p]).batch) : Rest(pub[p]).batch[i] = b[i + 1]
    BY RestIs
  <2>2. PICK i \in 1..Len(Rest(pub[p]).batch) : Rest(pub[p]).batch[i] = r
    BY <1>5 DEF DueIn
  <2>3. b[i + 1] = r /\ i + 1 \in 1..Len(b) /\ i + 1 > 1
    BY <1>1, <2>1, <2>2
  <2> QED
    BY <1>3, <2>3
<1>6. Rest(pub[p]).at \in {"idle", "publish"}
  BY RestIs
<1>7. \A r \in Rows : ~DueIn(Idle, r) /\ ~MarkIn(Idle, r) /\ ~MarkIn(Rest(pub[p]), r)
  <2>1. Idle.at = "idle" /\ Idle.batch = <<>> /\ Len(<<>>) = 0
    BY DEF Idle
  <2> QED
    BY <1>6, <2>1 DEF DueIn, MarkIn
<1>8. /\ \A r \in Rows : MarkIn(pub[p], r) => pub[p].at = "mark" /\ r = h
      /\ MarkIn([at |-> "mark", batch |-> b], h)
  BY <1>1 DEF MarkIn
<1> HIDE DEF b, h
<1> QED
  BY <1>2, <1>4, <1>5, <1>7, <1>8 DEF b, h

(* What the rest of a batch has, or the same batch, is in order after the step. *)
LEMMA HandOrder ==
  ASSUME OutboxTypes, Held, InOrder, NEW p \in Publishers, pub[p].at # "idle",
         NEW h \in Rows, h = InHand(p), topic' \in {topic, Append(topic, h)}, NEW o \in Rows, hit[o] = 0
  PROVE  /\ \A i \in 1..Len(pub[p].batch) : Older(o, pub[p].batch[i]) =>
              Taken(o)' \/ \E j \in 1..(i - 1) : pub[p].batch[j] = o
         /\ Taken(h)' \/ hit[h] > 0 =>
              \A i \in 1..Len(Rest(pub[p]).batch) : Older(o, Rest(pub[p]).batch[i]) =>
                Taken(o)' \/ \E j \in 1..(i - 1) : Rest(pub[p]).batch[j] = o
<1> DEFINE b == pub[p].batch
           c == Rest(pub[p]).batch
<1>1. b \in Seq(Rows) /\ Len(b) \in Nat /\ Len(b) > 0 /\ h \in Rows /\ h = b[1]
  BY HandIs
<1>2. \A r : Taken(r) => Taken(r)'
  BY <1>1, TopicGrows
<1>3. \A i \in 1..Len(b) : Older(o, b[i]) => Taken(o)' \/ \E j \in 1..(i - 1) : b[j] = o
  BY <1>2 DEF InOrder
<1>4. Len(c) = Len(b) - 1 /\ \A i \in 1..Len(c) : c[i] = b[i + 1]
  BY RestIs
<1>5. ASSUME Taken(h)' \/ hit[h] > 0, NEW i \in 1..Len(c), Older(o, c[i]), ~Taken(o)'
      PROVE  \E j \in 1..(i - 1) : c[j] = o
  <2>1. i + 1 \in 1..Len(b) /\ i \in Nat
    BY <1>1, <1>4
  <2>2. Older(o, b[i + 1])
    BY <1>4, <1>5
  <2>3. PICK j \in 1..((i + 1) - 1) : b[j] = o
    BY <1>3, <1>5, <2>1, <2>2
  <2>4. j # 1
    <3> SUFFICES ASSUME j = 1 PROVE FALSE
      OBVIOUS
    <3>1. o = h
      BY <1>1, <2>3
    <3>2. CASE Taken(h)'
      BY <1>5, <3>1, <3>2 DEF Taken
    <3>3. CASE hit[h] > 0
      BY <3>1, <3>3
    <3> QED
      BY <1>5, <3>2, <3>3
  <2>5. j - 1 \in 1..(i - 1) /\ j - 1 \in 1..Len(c) /\ (j - 1) + 1 = j
    BY <1>1, <1>4, <2>1, <2>3, <2>4
  <2>6. c[j - 1] = o
    BY <1>4, <2>3, <2>5
  <2> QED
    BY <2>5, <2>6
<1> HIDE DEF b, c
<1> QED
  BY <1>3, <1>5 DEF b, c
(* Kafka takes the row in hand, or not, and publish_raw returns or raises.      *)
LEMMA OutboxPublishes ==
  ASSUME OutboxInv, NEW p \in Publishers, Publish(p) \/ PublishFails(p)
  PROVE  OutboxInv'
<1>1. OutboxTypes /\ ClockPaid /\ Held /\ Repeats /\ InOrder
  BY DEF OutboxInv
<1>2. pub[p].at = "publish" /\ UNCHANGED row
  BY <1>1, PublisherSteps
<1>3. PICK h \in Rows : h = InHand(p)
  BY <1>1, <1>2, HandIs
<1>4. PICK a : a = IF Publish(p) THEN "mark" ELSE "record"
  OBVIOUS
<1>5. PICK x : x = [at |-> a, batch |-> pub[p].batch]
  OBVIOUS
<1>6. /\ Moves(p, x) /\ topic' \in {topic, Append(topic, h)}
      /\ Publish(p) => topic' = Append(topic, h) /\ UNCHANGED <<hit, faults>>
      /\ ~Publish(p) => Meets(p)
  BY <1>1, <1>3, <1>4, <1>5, PublisherSteps
<1>7. a \in {"mark", "record"} /\ x.at = a /\ x.batch = pub[p].batch /\ x.batch[1] = h
  BY <1>1, <1>2, <1>3, <1>4, <1>5, HandIs
<1>8. Fit(x)
  BY <1>1, <1>2, <1>5, <1>7, SameFits
<1>9. Step(p, x, h)
  BY <1>1, <1>2, <1>3, <1>6, StepOf
<1>10. /\ \A r : Taken(r) => Taken(r)'
       /\ topic' = Append(topic, h) => Taken(h)'
  BY <1>1, <1>6, TopicGrows
<1>11. a = "record" => hit'[h] = hit[h] + 1 /\ hit'[h] > 0
  <2> SUFFICES ASSUME a = "record" PROVE hit'[h] = hit[h] + 1 /\ hit'[h] > 0
    OBVIOUS
  <2>1. hit' = [hit EXCEPT ![h] = hit[h] + 1] /\ hit \in [Rows -> Nat]
    BY <1>1, <1>3, <1>4, <1>6 DEF Meets, OutboxTypes
  <2> QED
    BY <2>1
<1>12. x.at = "mark" => Taken(x.batch[1])'
  BY <1>4, <1>6, <1>7, <1>10 DEF Taken
<1>13. row'[h].published => Taken(h)'
  BY <1>1, <1>2, <1>10 DEF Held
<1>14. OutboxTypes' /\ ClockPaid' /\ Held'
  BY <1>1, <1>7, <1>8, <1>9, <1>11, <1>12, <1>13, StepHolds
<1>15. \A o \in Rows : hit'[o] = 0 => hit[o] = 0
  BY <1>1, <1>9 DEF Step, OutboxTypes
<1>16. \A o \in Rows : hit'[o] = 0 => \A i \in 1..Len(x.batch) :
         Older(o, x.batch[i]) => Taken(o)' \/ \E j \in 1..(i - 1) : x.batch[j] = o
  BY <1>1, <1>2, <1>3, <1>6, <1>7, <1>15, HandOrder
<1>17. InOrder'
  BY <1>1, <1>2, <1>3, <1>8, <1>9, <1>16, StepOrder
<1>18. /\ DueIn(pub[p], h) /\ \A r \in Rows : DueIn(x, r) => DueIn(pub[p], r) /\ r # h
       /\ \A r \in Rows : ~MarkIn(pub[p], r)
       /\ x.at = "mark" => MarkIn(x, h)
  BY <1>1, <1>2, <1>3, <1>5, <1>7, HandDue
<1>19. /\ DueIn(pub[p], h) /\ ~DueIn(x, h) /\ ~MarkIn(pub[p], h)
       /\ MarkIn(x, h) \/ hit'[h] = hit[h] + 1
       /\ row'[h].published = row[h].published
  BY <1>2, <1>7, <1>11, <1>18
<1>20. Repeats'
  BY <1>1, <1>9, <1>18, <1>19, StepRepeats
<1> QED
  BY <1>14, <1>17, <1>20 DEF OutboxInv

(* The row in hand is marked, and the publisher goes on with the rest.          *)
LEMMA OutboxMarks ==
  ASSUME OutboxInv, NEW p \in Publishers, Mark(p) \/ Record(p)
  PROVE  OutboxInv'
<1>1. OutboxTypes /\ ClockPaid /\ Held /\ Repeats /\ InOrder
  BY DEF OutboxInv
<1>2. pub[p].at \in {"mark", "record"} /\ UNCHANGED <<topic, hit, faults>>
  BY <1>1, PublisherSteps
<1>3. PICK h \in Rows : h = InHand(p)
  BY <1>1, <1>2, HandIs
<1>4. PICK x : x = Rest(pub[p])
  OBVIOUS
<1>5. /\ Moves(p, x)
      /\ pub[p].at = "mark" => row' = [row EXCEPT ![InHand(p)].published = TRUE]
      /\ pub[p].at = "record" => UNCHANGED row
  BY <1>1, <1>2, <1>4, PublisherSteps
<1>6. Fit(x) /\ x.at \in {"idle", "publish"}
  BY <1>1, <1>2, <1>4, RestIs
<1>7. topic' \in {topic, Append(topic, h)}
  BY <1>2
<1>8. Step(p, x, h)
  BY <1>1, <1>2, <1>3, <1>5, <1>7, StepOf
<1>9. \A r : Taken(r) => Taken(r)'
  BY <1>1, <1>7, TopicGrows
<1>10. Taken(h)' \/ hit[h] > 0
  BY <1>1, <1>2, <1>3, <1>9 DEF Held
<1>11. row'[h].published => Taken(h)'
  BY <1>1, <1>2, <1>3, <1>5, <1>9 DEF Held
<1>12. OutboxTypes' /\ ClockPaid' /\ Held'
  BY <1>1, <1>6, <1>8, <1>11, StepHolds
<1>13. \A o \in Rows : hit'[o] = 0 => \A i \in 1..Len(x.batch) :
         Older(o, x.batch[i]) => Taken(o)' \/ \E j \in 1..(i - 1) : x.batch[j] = o
  BY <1>1, <1>2, <1>3, <1>4, <1>7, <1>10, HandOrder
<1>14. InOrder'
  BY <1>1, <1>2, <1>6, <1>8, <1>13, StepOrder
<1>15. /\ \A r \in Rows : DueIn(x, r) => DueIn(pub[p], r)
       /\ \A r \in Rows : MarkIn(pub[p], r) => pub[p].at = "mark" /\ r = h
  BY <1>1, <1>2, <1>3, <1>4, HandDue
<1>16. \A r \in Rows : MarkIn(pub[p], r) => row'[r].published
  BY <1>1, <1>3, <1>5, <1>15, RowsMoved
<1>17. Repeats'
  BY <1>1, <1>2, <1>8, <1>15, <1>16, StepRepeats
<1> QED
  BY <1>12, <1>14, <1>17 DEF OutboxInv

(* The mark raises, before or after it is committed.                            *)
LEMMA OutboxMarkFails ==
  ASSUME OutboxInv, NEW p \in Publishers, MarkFails(p)
  PROVE  OutboxInv'
<1>1. OutboxTypes /\ ClockPaid /\ Held /\ Repeats /\ InOrder
  BY DEF OutboxInv
<1>2. pub[p].at = "mark" /\ UNCHANGED topic /\ Meets(p)
  BY <1>1, PublisherSteps
<1>3. PICK h \in Rows : h = InHand(p)
  BY <1>1, <1>2, HandIs
<1>4. PICK x : x = [at |-> "record", batch |-> pub[p].batch]
  OBVIOUS
<1>5. Moves(p, x) /\ topic' \in {topic, Append(topic, h)}
  BY <1>1, <1>2, <1>4, PublisherSteps
<1>6. Fit(x) /\ x.at = "record" /\ x.batch = pub[p].batch /\ x.batch[1] = h
  BY <1>1, <1>2, <1>3, <1>4, SameFits, HandIs
<1>7. Step(p, x, h)
  BY <1>1, <1>2, <1>3, <1>5, StepOf
<1>8. Taken(h)' /\ Taken(h) /\ \A r : Taken(r) => Taken(r)'
  BY <1>1, <1>2, <1>3, <1>5, TopicGrows DEF Held
<1>9. hit'[h] = hit[h] + 1 /\ hit'[h] > 0
  <2>1. hit' = [hit EXCEPT ![h] = hit[h] + 1] /\ hit \in [Rows -> Nat]
    BY <1>1, <1>2, <1>3 DEF Meets, OutboxTypes
  <2> QED
    BY <2>1
<1>10. OutboxTypes' /\ ClockPaid' /\ Held'
  BY <1>1, <1>6, <1>7, <1>8, <1>9, StepHolds
<1>11. \A o \in Rows : hit'[o] = 0 => hit[o] = 0
  BY <1>1, <1>7 DEF Step, OutboxTypes
<1>12. \A o \in Rows : hit'[o] = 0 => \A i \in 1..Len(x.batch) :
         Older(o, x.batch[i]) => Taken(o)' \/ \E j \in 1..(i - 1) : x.batch[j] = o
  BY <1>1, <1>2, <1>3, <1>5, <1>6, <1>11, HandOrder
<1>13. InOrder'
  BY <1>1, <1>2, <1>6, <1>7, <1>12, StepOrder
<1>14. /\ \A r \in Rows : DueIn(x, r) => DueIn(pub[p], r)
       /\ \A r \in Rows : MarkIn(pub[p], r) => r = h
  BY <1>1, <1>2, <1>3, <1>4, HandDue
<1>15. Repeats'
  BY <1>1, <1>2, <1>7, <1>9, <1>14, StepRepeats
<1> QED
  BY <1>10, <1>13, <1>15 DEF OutboxInv

(* The batch is given up, by a second failure or by a crash.                    *)
LEMMA OutboxGivesUp ==
  ASSUME OutboxInv, NEW p \in Publishers, RecordFails(p) \/ Crash(p)
  PROVE  OutboxInv'
<1>1. OutboxTypes /\ ClockPaid /\ Held /\ Repeats /\ InOrder
  BY DEF OutboxInv
<1>2. /\ pub[p].at # "idle" /\ UNCHANGED <<row, topic>>
      /\ (pub[p].at = "record" /\ UNCHANGED <<hit, faults>>) \/ Meets(p)
  BY <1>1, PublisherSteps
<1>3. PICK h \in Rows : h = InHand(p)
  BY <1>1, <1>2, HandIs
<1>4. PICK x : x = Idle
  OBVIOUS
<1>5. Moves(p, x) /\ topic' \in {topic, Append(topic, h)}
  BY <1>1, <1>2, <1>4, PublisherSteps
<1>6. Fit(x) /\ x.at = "idle" /\ x.batch = <<>>
  BY <1>4, IdleFits DEF Idle
<1>7. Step(p, x, h)
  BY <1>1, <1>2, <1>3, <1>5, StepOf
<1>8. row'[h].published => Taken(h)'
  BY <1>1, <1>2 DEF Held, Taken
<1>9. OutboxTypes' /\ ClockPaid' /\ Held'
  BY <1>1, <1>6, <1>7, <1>8, StepHolds
<1>10. Len(x.batch) = 0
  BY <1>6
<1>11. InOrder'
  BY <1>1, <1>2, <1>6, <1>7, <1>10, StepOrder
<1>12. /\ \A r \in Rows : ~DueIn(x, r)
       /\ \A r \in Rows : MarkIn(pub[p], r) => pub[p].at = "mark" /\ r = h
  BY <1>1, <1>2, <1>3, <1>4, HandDue
<1>13. Meets(p) => hit'[h] = hit[h] + 1
  <2> SUFFICES ASSUME Meets(p) PROVE hit'[h] = hit[h] + 1
    OBVIOUS
  <2>1. hit' = [hit EXCEPT ![h] = hit[h] + 1] /\ hit \in [Rows -> Nat]
    BY <1>1, <1>3 DEF Meets, OutboxTypes
  <2> QED
    BY <2>1
<1>14. Repeats'
  BY <1>1, <1>2, <1>7, <1>12, <1>13, StepRepeats
<1> QED
  BY <1>9, <1>11, <1>14 DEF OutboxInv

(* A publisher fetches a batch.                                                 *)
LEMMA OutboxFetches ==
  ASSUME OutboxInv, NEW p \in Publishers, Fetch(p)
  PROVE  OutboxInv'
<1>1. OutboxTypes /\ ClockPaid /\ Held /\ Repeats /\ InOrder
  BY DEF OutboxInv
<1>2. pub[p].at = "idle" /\ UNCHANGED <<clock, row, topic, hit, faults>>
  BY DEF Fetch
<1>3. PICK b \in Batches(Unpublished) : pub' = [pub EXCEPT ![p] = [at |-> "publish", batch |-> b]]
  BY DEF Fetch
<1>4. /\ b \in Seq(Rows) /\ Len(b) \in Nat /\ Len(b) > 0 /\ Distinct(b)
      /\ \A i \in 1..Len(b) : b[i] \in Unpublished
      /\ \A i, j \in 1..Len(b) : i < j => row[b[i]].created <= row[b[j]].created
      /\ \A i \in 1..Len(b), r \in Unpublished :
           (\A k \in 1..Len(b) : b[k] # r) => row[b[i]].created <= row[r].created
  BY <1>1, FetchedIs
<1>5. PICK x : x = [at |-> "publish", batch |-> b]
  OBVIOUS
<1>6. x.at = "publish" /\ x.batch = b /\ x \in PublisherType
  BY <1>4, <1>5, PublisherParts
<1>7. \A r \in Unpublished : r \in Rows /\ row[r].is = "committed" /\ ~row[r].published
  BY DEF Unpublished, With
<1>8. Fit(x)
  <2>1. b # <<>>
    BY <1>4
  <2> QED
    BY <1>4, <1>6, <1>7, <2>1 DEF Fit
<1>9. PICK h \in Rows : h = b[1] /\ row[h].is = "committed"
  <2>1. 1 \in 1..Len(b)
    BY <1>4
  <2> QED
    BY <1>4, <1>7, <2>1
<1>10. Step(p, x, h)
  BY <1>1, <1>2, <1>3, <1>5, <1>9 DEF Step, OutboxTypes
<1>11. \A r : Taken(r)' <=> Taken(r)
  BY <1>2 DEF Taken
<1>12. \A r \in Rows : row[r].published => Taken(r)'
  BY <1>1, <1>11 DEF Held
<1>13. OutboxTypes' /\ ClockPaid' /\ Held'
  BY <1>1, <1>2, <1>6, <1>8, <1>10, <1>12, StepHolds
<1>14. ASSUME NEW o \in Rows, NEW i \in 1..Len(b), Older(o, b[i]), ~Taken(o)'
       PROVE  \E j \in 1..(i - 1) : b[j] = o
  <2>1. row[o].created < row[b[i]].created /\ o \in Unpublished
    BY <1>12, <1>14 DEF Older, Unpublished, With
  <2>2. row[o].created \in Nat /\ b[i] \in Rows /\ row[b[i]].created \in Nat
    <3>1. b[i] \in Rows /\ row[o] \in RowType
      BY <1>1, <1>4 DEF OutboxTypes
    <3>2. row[b[i]] \in RowType
      BY <1>1, <3>1 DEF OutboxTypes
    <3> QED
      BY <3>1, <3>2 DEF RowType
  <2>3. PICK k \in 1..Len(b) : b[k] = o
    BY <1>4, <2>1, <2>2
  <2>4. k < i
    <3>1. k # i
      BY <2>1, <2>2, <2>3
    <3>2. ~(i < k)
      <4>1. i < k => row[b[i]].created <= row[b[k]].created
        BY <1>4
      <4> QED
        BY <2>1, <2>2, <2>3, <4>1
    <3> QED
      BY <1>4, <3>1, <3>2
  <2> QED
    BY <1>4, <2>3, <2>4
<1>15. \A o \in Rows : hit'[o] = 0 => \A i \in 1..Len(x.batch) :
         Older(o, x.batch[i]) => Taken(o)' \/ \E j \in 1..(i - 1) : x.batch[j] = o
  BY <1>6, <1>14
<1>16. InOrder'
  BY <1>1, <1>2, <1>8, <1>10, <1>15, StepOrder
<1>17. \A r \in Rows : DueIn(x, r) => ~row'[r].published
  BY <1>2, <1>4, <1>6, <1>7 DEF DueIn
<1>18. \A r \in Rows : ~MarkIn(pub[p], r)
  BY <1>2 DEF MarkIn
<1>19. Repeats'
  BY <1>1, <1>2, <1>10, <1>17, <1>18, StepRepeats
<1> QED
  BY <1>13, <1>16, <1>19 DEF OutboxInv
(* A transaction begins or is committed: rows that are committed stay as they   *)
(* are, and rows that become so are committed now.                              *)
Transacts ==
  /\ clock' = clock + 1 /\ row' \in [Rows -> RowType]
  /\ UNCHANGED <<pub, topic, hit, faults>>
  /\ \A r \in Rows :
       /\ row[r].is = "committed" => row'[r] = row[r]
       /\ row'[r].is = "committed" /\ row[r].is # "committed" => row'[r].committed = clock + 1
       /\ row'[r].created <= clock + 1 /\ row'[r].committed <= clock + 1
       /\ row'[r].published = row[r].published

(* Such a step keeps what is known of publishers and the topic.                 *)
LEMMA TransactionHolds ==
  ASSUME OutboxTypes, Held, Repeats, InOrder, Transacts
  PROVE  OutboxTypes' /\ Held' /\ Repeats' /\ InOrder'
<1>1. OutboxTypes'
  BY DEF OutboxTypes, Transacts
<1>2. /\ \A r : Taken(r)' <=> Taken(r)
      /\ \A p \in Publishers : InHand(p)' = InHand(p)
  BY DEF Taken, InHand, Transacts
<1>3. topic \in Seq(Rows) /\ \A i \in 1..Len(topic) : topic[i] \in Rows
  BY DEF OutboxTypes
<1>4. \A p \in Publishers : \A i \in 1..Len(pub[p].batch) : pub[p].batch[i] \in Rows
  <2> SUFFICES ASSUME NEW p \in Publishers, NEW i \in 1..Len(pub[p].batch)
               PROVE  pub[p].batch[i] \in Rows
    OBVIOUS
  <2>1. pub[p] \in PublisherType
    BY DEF OutboxTypes
  <2>2. pub[p].batch \in Seq(Rows)
    BY <2>1, PublisherParts
  <2> QED
    BY <2>2
<1>5. \A i \in 1..Len(topic) : row'[topic[i]] = row[topic[i]] /\ row[topic[i]].is = "committed"
  BY <1>3 DEF Held, Transacts
<1>6. \A p \in Publishers : \A i \in 1..Len(pub[p].batch) :
        row'[pub[p].batch[i]] = row[pub[p].batch[i]] /\ row[pub[p].batch[i]].is = "committed"
  BY <1>4 DEF Held, Transacts
<1>7. Held'
  <2>1. ASSUME NEW p \in Publishers
        PROVE  /\ pub'[p].at = "idle" <=> pub'[p].batch = <<>>
               /\ Distinct(pub'[p].batch)
               /\ \A i \in 1..Len(pub'[p].batch) : row'[pub'[p].batch[i]].is = "committed"
               /\ pub'[p].at = "mark" => In(topic', pub'[p].batch[1])
               /\ pub'[p].at = "record" => hit'[pub'[p].batch[1]] > 0
    BY <1>6 DEF Held, Transacts, Taken, In, InHand
  <2>2. \A i \in 1..Len(topic') : row'[topic'[i]].is = "committed"
    BY <1>5 DEF Transacts
  <2>3. \A r \in Rows : row'[r].published => Taken(r)'
    BY <1>2 DEF Held, Transacts
  <2> QED
    BY <2>1, <2>2, <2>3 DEF Held, InHand, Taken, In
<1>8. Repeats'
  <2>1. \A r \in Rows :
          /\ Times(r)' = Times(r) /\ Due(r)' = Due(r) /\ Marking(r)' = Marking(r)
          /\ hit'[r] = hit[r] /\ row'[r].published = row[r].published
    BY DEF Times, Due, Marking, InHand, Transacts
  <2> QED
    BY <2>1 DEF Repeats
<1>9. ASSUME NEW o \in Rows, NEW y \in Rows, row[y].is = "committed", Older(o, y)'
      PROVE  Older(o, y)
  <2>1. row'[y] = row[y]
    BY <1>9 DEF Transacts
  <2>2. row[y].committed <= clock /\ clock \in Nat /\ row[y].committed \in Nat
    BY DEF OutboxTypes, RowType
  <2>3. row[o].is = "committed"
    BY <1>9, <2>1, <2>2 DEF Older, Transacts
  <2>4. row'[o] = row[o]
    BY <2>3 DEF Transacts
  <2> QED
    BY <1>9, <2>1, <2>4 DEF Older
<1>10. ASSUME NEW o \in Rows, hit'[o] = 0, NEW i \in 1..Len(topic'), Older(o, topic[i])'
       PROVE  \E j \in 1..(i - 1) : topic'[j] = o
  <2>1. topic' = topic /\ hit[o] = 0
    BY <1>10 DEF Transacts
  <2>2. PICK y \in Rows : y = topic[i] /\ row[y].is = "committed"
    BY <1>3, <1>5, <2>1
  <2>3. Older(o, y)'
    BY <1>10, <2>1, <2>2 DEF Older
  <2>4. Older(o, topic[i])
    BY <1>9, <2>2, <2>3
  <2> QED
    BY <2>1, <2>4 DEF InOrder
<1>11. ASSUME NEW o \in Rows, hit'[o] = 0, NEW p \in Publishers, NEW i \in 1..Len(pub'[p].batch),
              Older(o, pub[p].batch[i])'
       PROVE  Taken(o)' \/ \E j \in 1..(i - 1) : pub'[p].batch[j] = o
  <2>1. pub' = pub /\ hit[o] = 0
    BY <1>11 DEF Transacts
  <2>2. PICK y \in Rows : y = pub[p].batch[i] /\ row[y].is = "committed"
    BY <1>4, <1>6, <2>1
  <2>3. Older(o, y)'
    BY <1>11, <2>1, <2>2 DEF Older
  <2>4. Older(o, pub[p].batch[i])
    BY <1>9, <2>2, <2>3
  <2> QED
    BY <1>2, <2>1, <2>4 DEF InOrder
<1>12. InOrder'
  BY <1>10, <1>11 DEF InOrder
<1> QED
  BY <1>1, <1>7, <1>8, <1>12

(* Sets of rows are finite, and counted.                                        *)
LEMMA RowsCount ==
  ASSUME NEW S \in SUBSET Rows
  PROVE  IsFiniteSet(S) /\ Cardinality(S) \in Nat /\ Cardinality(S) <= Cardinality(Rows)
         /\ Cardinality(Rows) \in Nat
<1>1. IsFiniteSet(Rows)
  BY OutboxAssumption
<1>2. IsFiniteSet(S) /\ Cardinality(S) <= Cardinality(Rows)
  BY <1>1, FS_Subset
<1> QED
  BY <1>1, <1>2, FS_CardinalityType

(* A larger set of rows counts more.                                            *)
LEMMA RowsCountMore ==
  ASSUME NEW T \in SUBSET Rows, NEW S \in SUBSET T, S # T
  PROVE  Cardinality(S) \in Nat /\ Cardinality(T) \in Nat /\ Cardinality(S) + 1 <= Cardinality(T)
<1>1. IsFiniteSet(T) /\ Cardinality(T) \in Nat
  BY RowsCount
<1>2. Cardinality(S) \in Nat
  BY RowsCount
<1>3. Cardinality(S) <= Cardinality(T) /\ Cardinality(S) # Cardinality(T)
  BY <1>1, FS_Subset
<1> QED
  BY <1>1, <1>2, <1>3
(* A transaction begins: its rows are open.                                     *)
LEMMA OutboxBegins == OutboxInv /\ Begin => OutboxInv'
<1> SUFFICES ASSUME OutboxInv, Begin PROVE OutboxInv'
  OBVIOUS
<1>1. OutboxTypes /\ ClockPaid /\ Held /\ Repeats /\ InOrder
  BY DEF OutboxInv
<1>2. PICK new \in SUBSET With("none") :
        /\ new # {} /\ clock' = clock + 1
        /\ row' = [r \in Rows |->
                     IF r \in new THEN [row[r] EXCEPT !.is = "open", !.created = clock'] ELSE row[r]]
        /\ UNCHANGED <<pub, topic, hit, faults>>
  BY DEF Begin
<1>3. clock \in Nat /\ \A r \in Rows : row[r] \in RowType /\ row[r].created <= clock /\ row[r].committed <= clock
  BY <1>1 DEF OutboxTypes
<1>4. \A r \in new : r \in Rows /\ row[r].is = "none"
  BY DEF With
<1>5. ASSUME NEW r \in new
      PROVE  /\ row'[r] \in RowType /\ row'[r].is = "open" /\ row'[r].created = clock + 1
             /\ row'[r].committed = row[r].committed /\ row'[r].published = row[r].published
  <2>1. row'[r] = [row[r] EXCEPT !.is = "open", !.created = clock']
    BY <1>2, <1>4
  <2>2. r \in Rows /\ clock' = clock + 1
    BY <1>2, <1>4
  <2>3. clock + 1 \in Nat /\ row[r] \in RowType
    BY <1>3, <2>2
  <2> QED
    BY <2>1, <2>2, <2>3 DEF RowType
<1>6. \A r \in Rows : r \notin new => row'[r] = row[r]
  BY <1>2
<1>7. row' \in [Rows -> RowType]
  <2>1. \A r \in Rows : row'[r] \in RowType
    BY <1>3, <1>5, <1>6
  <2>2. row' = [r \in Rows |-> row'[r]]
    BY <1>2
  <2> QED
    BY <2>1, <2>2
<1>8. \A r \in Rows : row[r].committed \in Nat /\ row[r].created \in Nat
  BY <1>3 DEF RowType
<1>9. Transacts
  <2>1. \A r \in Rows :
          /\ row[r].is = "committed" => row'[r] = row[r]
          /\ row'[r].is = "committed" /\ row[r].is # "committed" => row'[r].committed = clock + 1
          /\ row'[r].published = row[r].published
    BY <1>4, <1>5, <1>6
  <2>2. \A r \in Rows : row'[r].created <= clock + 1 /\ row'[r].committed <= clock + 1
    BY <1>3, <1>4, <1>5, <1>6, <1>8
  <2> QED
    BY <1>2, <1>7, <2>1, <2>2 DEF Transacts
<1>10. OutboxTypes' /\ Held' /\ Repeats' /\ InOrder'
  BY <1>1, <1>9, TransactionHolds
<1>11. ClockPaid'
  <2> DEFINE A == Rows \ With("none")
             B == With("committed")
  <2>1. B' = B
    BY <1>4, <1>5, <1>6 DEF With
  <2>2. A \subseteq A' /\ A' \subseteq Rows
    BY <1>4, <1>5, <1>6 DEF With
  <2>3. A # A'
    BY <1>2, <1>4, <1>5 DEF With
  <2>4. PICK S \in SUBSET Rows, T \in SUBSET Rows : S = A /\ T = A'
    BY <2>2
  <2>5. PICK C \in SUBSET Rows : C = B
    BY DEF With
  <2>6. Cardinality(S) \in Nat /\ Cardinality(T) \in Nat /\ Cardinality(S) + 1 <= Cardinality(T)
    <3>1. S \in SUBSET T /\ S # T
      BY <2>2, <2>3, <2>4
    <3> QED
      BY <3>1, RowsCountMore
  <2>7. Cardinality(C) \in Nat
    BY RowsCount
  <2>8. clock <= Cardinality(S) + Cardinality(C)
    BY <1>1, <2>4, <2>5 DEF ClockPaid
  <2>9. clock' <= Cardinality(T) + Cardinality(C)
    <3>1. clock \in Nat /\ clock' = clock + 1
      BY <1>2, <1>3
    <3> HIDE DEF A, B
    <3> QED
      BY <3>1, <2>6, <2>7, <2>8
  <2> QED
    BY <2>1, <2>4, <2>5, <2>9 DEF ClockPaid
<1> QED
  BY <1>10, <1>11 DEF OutboxInv

(* A transaction is committed: its rows become visible.                         *)
LEMMA OutboxCommits == OutboxInv /\ Commit => OutboxInv'
<1> SUFFICES ASSUME OutboxInv, Commit PROVE OutboxInv'
  OBVIOUS
<1>1. OutboxTypes /\ ClockPaid /\ Held /\ Repeats /\ InOrder
  BY DEF OutboxInv
<1>2. PICK t \in With("open") : CommitOf(t)
  BY DEF Commit
<1> DEFINE new == {o \in Rows : row[o].is = "open" /\ row[o].created = row[t].created}
<1>3. /\ clock' = clock + 1
      /\ row' = [o \in Rows |->
                   IF o \in new THEN [row[o] EXCEPT !.is = "committed", !.committed = clock'] ELSE row[o]]
      /\ UNCHANGED <<pub, topic, hit, faults>>
  BY <1>2 DEF CommitOf
<1>4. t \in new /\ \A r \in new : r \in Rows /\ row[r].is = "open"
  BY DEF With
<1> HIDE DEF new
<1>5. clock \in Nat /\ \A r \in Rows : row[r] \in RowType /\ row[r].created <= clock /\ row[r].committed <= clock
  BY <1>1 DEF OutboxTypes
<1>6. ASSUME NEW r \in new
      PROVE  /\ row'[r] \in RowType /\ row'[r].is = "committed" /\ row'[r].committed = clock + 1
             /\ row'[r].created = row[r].created /\ row'[r].published = row[r].published
  <2>1. row'[r] = [row[r] EXCEPT !.is = "committed", !.committed = clock']
    BY <1>3, <1>4
  <2>2. r \in Rows /\ clock' = clock + 1
    BY <1>3, <1>4
  <2>3. clock + 1 \in Nat /\ row[r] \in RowType
    BY <1>5, <2>2
  <2> QED
    BY <2>1, <2>2, <2>3 DEF RowType
<1>7. \A r \in Rows : r \notin new => row'[r] = row[r]
  BY <1>3
<1>8. row' \in [Rows -> RowType]
  <2>1. \A r \in Rows : row'[r] \in RowType
    BY <1>5, <1>6, <1>7
  <2>2. row' = [r \in Rows |-> row'[r]]
    BY <1>3
  <2> QED
    BY <2>1, <2>2
<1>9. \A r \in Rows : row[r].committed \in Nat /\ row[r].created \in Nat
  BY <1>5 DEF RowType
<1>10. Transacts
  <2>1. \A r \in Rows :
          /\ row[r].is = "committed" => row'[r] = row[r]
          /\ row'[r].is = "committed" /\ row[r].is # "committed" => row'[r].committed = clock + 1
          /\ row'[r].published = row[r].published
    BY <1>4, <1>6, <1>7
  <2>2. \A r \in Rows : row'[r].created <= clock + 1 /\ row'[r].committed <= clock + 1
    BY <1>4, <1>5, <1>6, <1>7, <1>9
  <2> QED
    BY <1>3, <1>8, <2>1, <2>2 DEF Transacts
<1>11. OutboxTypes' /\ Held' /\ Repeats' /\ InOrder'
  BY <1>1, <1>10, TransactionHolds
<1>12. ClockPaid'
  <2> DEFINE A == Rows \ With("none")
             B == With("committed")
  <2>1. A' = A
    BY <1>4, <1>6, <1>7 DEF With
  <2>2. B \subseteq B' /\ B' \subseteq Rows
    BY <1>4, <1>6, <1>7 DEF With
  <2>3. B # B'
    BY <1>4, <1>6 DEF With
  <2>4. PICK S \in SUBSET Rows, T \in SUBSET Rows : S = B /\ T = B'
    BY <2>2
  <2>5. PICK C \in SUBSET Rows : C = A
    OBVIOUS
  <2>6. Cardinality(S) \in Nat /\ Cardinality(T) \in Nat /\ Cardinality(S) + 1 <= Cardinality(T)
    <3>1. S \in SUBSET T /\ S # T
      BY <2>2, <2>3, <2>4
    <3> QED
      BY <3>1, RowsCountMore
  <2>7. Cardinality(C) \in Nat
    BY RowsCount
  <2>8. clock <= Cardinality(C) + Cardinality(S)
    BY <1>1, <2>4, <2>5 DEF ClockPaid
  <2>9. clock' <= Cardinality(C) + Cardinality(T)
    <3>1. clock \in Nat /\ clock' = clock + 1
      BY <1>3, <1>5
    <3> HIDE DEF A, B
    <3> QED
      BY <3>1, <2>6, <2>7, <2>8
  <2> QED
    BY <2>1, <2>4, <2>5, <2>9 DEF ClockPaid
<1> QED
  BY <1>11, <1>12 DEF OutboxInv

(* Nothing has happened.                                                        *)
LEMMA OutboxInit == Init => OutboxInv
<1> SUFFICES ASSUME Init PROVE OutboxInv
  OBVIOUS
<1>1. <<>> \in Seq(Rows) /\ Len(<<>>) = 0
  OBVIOUS
<1>2. Idle \in PublisherType /\ Idle.at = "idle" /\ Idle.batch = <<>>
  BY <1>1, PublisherParts DEF Idle
<1>3. pub \in [Publishers -> PublisherType] /\ \A p \in Publishers : pub[p] = Idle
  BY <1>2 DEF Init
<1>4. [is |-> "none", created |-> 0, committed |-> 0, published |-> FALSE] \in RowType
  BY DEF RowType
<1>5. /\ row \in [Rows -> RowType] /\ clock = 0
      /\ \A r \in Rows : /\ row[r].is = "none" /\ row[r].created = 0 /\ row[r].committed = 0
                         /\ ~row[r].published
  BY <1>4 DEF Init
<1>6. /\ topic = <<>> /\ hit \in [Rows -> Nat] /\ \A r \in Rows : hit[r] = 0
      /\ faults \in 0..MaxFaults
  BY OutboxAssumption DEF Init
<1>7. OutboxTypes
  BY <1>1, <1>3, <1>5, <1>6 DEF OutboxTypes
<1>8. ClockPaid
  <2>1. Rows \ With("none") \in SUBSET Rows /\ With("committed") \in SUBSET Rows
    BY DEF With
  <2>2. Cardinality(Rows \ With("none")) \in Nat /\ Cardinality(With("committed")) \in Nat
    BY <2>1, RowsCount
  <2> QED
    BY <1>5, <2>2 DEF ClockPaid
<1>9. Held
  BY <1>1, <1>2, <1>3, <1>5, <1>6 DEF Held, Distinct
<1>10. Repeats
  <2> SUFFICES ASSUME NEW r \in Rows PROVE Times(r) <= hit[r] + Cardinality(Marking(r))
    BY <1>5 DEF Repeats
  <2>1. {i \in 1..Len(topic) : topic[i] = r} = {}
    BY <1>1, <1>6
  <2>2. Times(r) = 0
    BY <2>1, FS_EmptySet DEF Times
  <2>3. Cardinality(Marking(r)) \in Nat
    BY <1>7, <1>9, DueOrMarking
  <2> QED
    BY <1>6, <2>2, <2>3
<1>11. InOrder
  BY <1>1, <1>2, <1>3, <1>6 DEF InOrder
<1> QED
  BY <1>7, <1>8, <1>9, <1>10, <1>11 DEF OutboxInv

(* Every step of the outbox keeps its invariant.                                *)
LEMMA OutboxNext == OutboxInv /\ (Next \/ UNCHANGED vars) => OutboxInv'
<1> SUFFICES ASSUME OutboxInv, Next \/ UNCHANGED vars PROVE OutboxInv'
  OBVIOUS
<1>1. CASE UNCHANGED vars
  <2>1. /\ clock' = clock /\ row' = row /\ pub' = pub /\ topic' = topic /\ hit' = hit
        /\ faults' = faults
    BY <1>1 DEF vars
  <2>2. OutboxTypes' <=> OutboxTypes
    BY <2>1 DEF OutboxTypes
  <2>3. ClockPaid' <=> ClockPaid
    BY <2>1 DEF ClockPaid, With
  <2>4. Held' <=> Held
    BY <2>1 DEF Held, Taken, InHand
  <2>5. Repeats' <=> Repeats
    BY <2>1 DEF Repeats, Times, Due, Marking, InHand
  <2>6. InOrder' <=> InOrder
    BY <2>1 DEF InOrder, Older, Taken
  <2> QED
    BY <2>2, <2>3, <2>4, <2>5, <2>6 DEF OutboxInv
<1>2. CASE Begin \/ Commit
  BY <1>2, OutboxBegins, OutboxCommits
<1>3. ASSUME NEW p \in Publishers,
             Advance(p) \/ PublishFails(p) \/ MarkFails(p) \/ RecordFails(p) \/ Crash(p)
      PROVE  OutboxInv'
  BY <1>3, OutboxPublishes, OutboxMarks, OutboxMarkFails, OutboxGivesUp, OutboxFetches DEF Advance
<1> QED
  BY <1>1, <1>2, <1>3 DEF Next
(* What Kafka has taken was taken a first time.                                 *)
LEMMA FirstIs ==
  ASSUME OutboxTypes, NEW r \in Rows, Taken(r)
  PROVE  /\ First(r) \in 1..Len(topic) /\ topic[First(r)] = r
         /\ \A j \in 1..Len(topic) : topic[j] = r => First(r) <= j
<1> DEFINE S == {i \in 1..Len(topic) : topic[i] = r}
<1>1. S \subseteq Nat /\ S # {} /\ Len(topic) \in Nat
  BY DEF Taken, OutboxTypes
<1>2. IsWellFoundedOn(OpToRel(<, Nat), Nat)
  BY NatLessThanWellFounded
<1>3. \E m \in S : \A k \in S : ~ (<<k, m>> \in OpToRel(<, Nat))
  BY <1>1, <1>2, WFMin
<1>4. PICK m \in S : \A k \in S : ~ (<<k, m>> \in OpToRel(<, Nat))
  BY <1>3
<1>5. \A k \in S : ~ (k < m)
  BY <1>1, <1>4 DEF OpToRel
<1>6. m \in 1..Len(topic) /\ topic[m] = r /\ \A j \in 1..(m - 1) : topic[j] # r
  BY <1>1, <1>5
<1>7. First(r) \in 1..Len(topic) /\ topic[First(r)] = r /\ \A j \in 1..(First(r) - 1) : topic[j] # r
  BY <1>6 DEF First
<1> HIDE DEF S
<1>8. ASSUME NEW j \in 1..Len(topic), topic[j] = r PROVE First(r) <= j
  <2>1. PICK f \in 1..Len(topic) : f = First(r) /\ \A k \in 1..(f - 1) : topic[k] # r
    BY <1>7
  <2>2. f <= j
    BY <1>1, <1>8, <2>1
  <2> QED
    BY <2>1, <2>2
<1> QED
  BY <1>7, <1>8

(* What Kafka has taken is there some times, and the other way round.           *)
LEMMA TakenTimes ==
  ASSUME OutboxTypes, NEW r \in Rows
  PROVE  Times(r) \in Nat /\ (Taken(r) <=> Times(r) > 0)
<1> DEFINE S == {i \in 1..Len(topic) : topic[i] = r}
<1>1. Len(topic) \in Nat
  BY DEF OutboxTypes
<1>2. IsFiniteSet(1..Len(topic)) /\ S \in SUBSET (1..Len(topic))
  BY <1>1, FS_Interval
<1>3. IsFiniteSet(S)
  BY <1>2, FS_Subset
<1>4. Cardinality(S) \in Nat /\ (Cardinality(S) = 0 <=> S = {})
  BY <1>3, FS_CardinalityType, FS_EmptySet
<1>5. Times(r) = Cardinality(S) /\ (Taken(r) <=> S # {})
  BY DEF Times, Taken
<1> HIDE DEF S
<1> QED
  BY <1>4, <1>5

(* What the invariant says of the outbox in every state.                        *)
LEMMA OutboxSays ==
  OutboxInv => TypeOK /\ MarkedIsPublished /\ RepeatsAreExplained /\ OvertakenAfterFault
<1> SUFFICES ASSUME OutboxInv
             PROVE  TypeOK /\ MarkedIsPublished /\ RepeatsAreExplained /\ OvertakenAfterFault
  OBVIOUS
<1>1. OutboxTypes /\ ClockPaid /\ Held /\ Repeats /\ InOrder
  BY DEF OutboxInv
<1>2. TypeOK
  <2>1. clock \in 0..(2 * Cardinality(Rows))
    <3> DEFINE S == Rows \ With("none")
               T == With("committed")
    <3>1. S \in SUBSET Rows /\ T \in SUBSET Rows
      BY DEF With
    <3>2. clock \in Nat /\ clock <= Cardinality(S) + Cardinality(T)
      BY <1>1 DEF OutboxTypes, ClockPaid
    <3> HIDE DEF S, T
    <3>3. /\ Cardinality(S) \in Nat /\ Cardinality(T) \in Nat /\ Cardinality(Rows) \in Nat
          /\ Cardinality(S) <= Cardinality(Rows) /\ Cardinality(T) <= Cardinality(Rows)
      BY <3>1, RowsCount
    <3> QED
      BY <3>2, <3>3
  <2>2. \A r \in Rows : row[r].is \in {"none", "open", "committed"} /\ row[r].created <= clock
    BY <1>1 DEF OutboxTypes, RowType
  <2>3. ASSUME NEW p \in Publishers
        PROVE  /\ pub[p].at \in {"idle", "publish", "mark", "record"}
               /\ pub[p].at = "idle" <=> pub[p].batch = <<>>
               /\ Range(pub[p].batch) \subseteq With("committed")
    <3>1. pub[p] \in PublisherType
      BY <1>1 DEF OutboxTypes
    <3>2. pub[p].at \in {"idle", "publish", "mark", "record"} /\ pub[p].batch \in Seq(Rows)
      BY <3>1 DEF PublisherType
    <3>3. \A i \in 1..Len(pub[p].batch) : pub[p].batch[i] \in Rows /\ row[pub[p].batch[i]].is = "committed"
      BY <1>1, <3>2 DEF Held
    <3>4. Range(pub[p].batch) = {pub[p].batch[i] : i \in 1..Len(pub[p].batch)}
      BY <3>2 DEF Range
    <3> QED
      BY <1>1, <3>2, <3>3, <3>4 DEF Held, With
  <2> QED
    BY <1>1, <2>1, <2>2, <2>3 DEF TypeOK, OutboxTypes
<1>3. MarkedIsPublished
  BY <1>1, TakenTimes DEF MarkedIsPublished, Held
<1>4. RepeatsAreExplained
  <2> SUFFICES ASSUME NEW r \in Rows PROVE Times(r) <= Cardinality(Publishers) + hit[r]
    BY DEF RepeatsAreExplained
  <2>1. /\ Cardinality(Due(r)) \in Nat /\ Cardinality(Marking(r)) \in Nat
        /\ Cardinality(Publishers) \in Nat
        /\ Cardinality(Due(r)) + Cardinality(Marking(r)) <= Cardinality(Publishers)
    BY <1>1, DueOrMarking
  <2>2. Times(r) \in Nat /\ hit[r] \in Nat
    BY <1>1, TakenTimes DEF OutboxTypes
  <2>3. IF row[r].published
        THEN Times(r) + Cardinality(Due(r)) <= hit[r] + Cardinality(Publishers)
        ELSE Times(r) <= hit[r] + Cardinality(Marking(r))
    BY <1>1 DEF Repeats
  <2> QED
    BY <2>1, <2>2, <2>3
<1>5. OvertakenAfterFault
  <2> SUFFICES ASSUME NEW o \in With("committed"), NEW y \in With("committed"),
                      row[o].created < row[y].created, row[o].committed < row[y].committed,
                      hit[o] = 0, Times(y) > 0
               PROVE  Times(o) > 0 /\ First(o) < First(y)
    BY DEF OvertakenAfterFault
  <2>1. o \in Rows /\ y \in Rows /\ Older(o, y)
    BY DEF With, Older
  <2>2. Taken(y)
    BY <1>1, <2>1, TakenTimes
  <2>3. PICK i \in 1..Len(topic) : i = First(y) /\ topic[i] = y
    BY <1>1, <2>1, <2>2, FirstIs
  <2>4. PICK j \in 1..(i - 1) : topic[j] = o
    BY <1>1, <2>1, <2>3 DEF InOrder
  <2>5. Len(topic) \in Nat
    BY <1>1 DEF OutboxTypes
  <2>6. j \in 1..Len(topic) /\ j < i
    BY <2>3, <2>4, <2>5
  <2>7. Taken(o)
    BY <2>4, <2>6 DEF Taken
  <2>8. First(o) \in 1..Len(topic) /\ First(o) <= j
    BY <1>1, <2>1, <2>4, <2>6, <2>7, FirstIs
  <2>9. Times(o) > 0
    BY <1>1, <2>1, <2>7, TakenTimes
  <2> QED
    BY <2>3, <2>6, <2>8, <2>9
<1> QED
  BY <1>2, <1>3, <1>4, <1>5

--------------------------------------------------------------------------------
(* Each behaviour has steps of one of the two, and both invariants hold in it.  *)
LEMMA DeliveryInvariants == DeliverySpec => [](OutboxInv /\ AnalyticsInv)
<1>1. DeliveryInit => OutboxInv /\ AnalyticsInv
  BY OutboxInit, AnalyticsInit DEF DeliveryInit
<1>2. OutboxInv /\ AnalyticsInv /\ [DeliveryNext]_<<part, vars, analytics>>
        => OutboxInv' /\ AnalyticsInv'
  BY OutboxNext, AnalyticsNext DEF DeliveryNext, Publishes, Stores
<1> QED
  BY <1>1, <1>2, PTL DEF DeliverySpec

(* Nothing is lost on the way, for any number of rows, publishers, events and   *)
(* faults: a row that is marked was published (publish_batch marks after        *)
(* publish_raw), an offset that is committed has its rows in ClickHouse (the    *)
(* consumer commits after the flush).                                           *)
THEOREM DeliveryAtLeastOnce == DeliverySpec => []AtLeastOnce
<1>1. OutboxInv /\ AnalyticsInv => AtLeastOnce
  BY OutboxSays, AnalyticsSays DEF AtLeastOnce
<1> QED
  BY <1>1, DeliveryInvariants, PTL

(* Whatever is repeated or overtaken has a fault that met it: several           *)
(* publishers alone repeat a row at most once each, and no row of an older,     *)
(* earlier transaction is overtaken; an insert carries one batch, once.         *)
THEOREM DeliveryOnlyFaults == DeliverySpec => []OnlyFaultsDisturb
<1>1. OutboxInv /\ AnalyticsInv => OnlyFaultsDisturb
  BY OutboxSays, AnalyticsSays DEF OnlyFaultsDisturb
<1> QED
  BY <1>1, DeliveryInvariants, PTL
=================================================================================
