----------------------------- MODULE Billing_proofs -----------------------------
(* Proofs about the bill of a call: a bill that calls itself FINALIZED counts    *)
(* all usage the session published before its barrier, for any log, any number  *)
(* of attempts, and whatever the projector, the reads of the readiness check    *)
(* and the attempts to finalize do between each other; the two ledgers of a     *)
(* call, the projector's and the final record, agree on the same records; and   *)
(* the adjustments for late usage keep up with the charges.                     *)
(*                                                                              *)
(* The first part is about the projector: what one event does to the rows, with *)
(* the loops over its measurements and over a batch taken one step at a time.   *)
(* The last part adds up: what the records cost is the sum over the usage that  *)
(* has been projected, each event at its cost.                                  *)
EXTENDS BillingFinalization, SequenceTheorems, FiniteSetTheorems, WellFoundedInduction, TLAPS

(* A set of naturals that holds 0 and is closed under successor is Nat. *)
LEMMA NatSetInduction ==
  ASSUME NEW S, 0 \in S, \A n \in Nat : n \in S => n + 1 \in S
  PROVE  \A n \in Nat : n \in S
<1>1. SUFFICES ASSUME Nat \ S # {} PROVE FALSE
  OBVIOUS
<1>2. IsWellFoundedOn(OpToRel(<, Nat), Nat)
  BY NatLessThanWellFounded
<1>3. \E m \in Nat \ S : \A k \in Nat \ S : ~ (<<k, m>> \in OpToRel(<, Nat))
  BY <1>1, <1>2, WFMin
<1>4. \E m \in Nat : m \notin S /\ \A k \in Nat : k < m => k \in S
  BY <1>3 DEF OpToRel
<1>5. PICK m \in Nat : m \notin S /\ \A k \in Nat : k < m => k \in S
  BY <1>4
<1>6. m # 0
  BY <1>5
<1>7. m - 1 \in Nat /\ m - 1 < m /\ (m - 1) + 1 = m
  BY <1>5, <1>6
<1> QED
  BY <1>5, <1>7

DbFields == {"keys", "timeline", "call", "metrics", "records", "usage", "rollup", "manifest",
             "expectations", "billing", "watermark", "final", "adjustments", "outbox"}

(* d is a record of the tables.                                                 *)
IsDb(d) == d = [f \in DbFields |-> d[f]]

(* The loop over the measurements of an event, as FoldLeft makes it.            *)
RecordStep(rows, e, f, s) ==
  IF s = {} THEN rows
  ELSE RecordMeasurement(f[s \ {Max(s)}], e, e.measurements[Max(s)])

RecordLoop(rows, e) ==
  CHOOSE f : f = [s \in SUBSET DOMAIN e.measurements |-> RecordStep(rows, e, f, s)]

(* The loop over a batch.                                                       *)
BatchStep(rows, items, f, s) ==
  IF s = {} THEN [db |-> rows, result |-> NoResult]
  ELSE LET acc == f[s \ {Max(s)}]
           item == items[Max(s)]
       IN  [db     |-> [ProjectOne(acc.db, item.event, item.offset)
                          EXCEPT !.watermark = Advanced(@, item)],
            result |-> Classified(acc.db, acc.result, item.event)]

BatchLoop(rows, items) ==
  CHOOSE f : f = [s \in SUBSET DOMAIN items |-> BatchStep(rows, items, f, s)]
--------------------------------------------------------------------------------
(* The greatest of the numbers up to k + 1 is k + 1, if it is among them.       *)
LEMMA MaxIs ==
  ASSUME NEW k \in Nat, NEW s \in SUBSET (1..(k + 1)), k + 1 \in s
  PROVE  Max(s) = k + 1 /\ s \ {Max(s)} \in SUBSET (1..k)
<1>1. \A y \in s : k + 1 >= y
  OBVIOUS
<1>2. \A x \in s : (\A y \in s : x >= y) => x = k + 1
  OBVIOUS
<1>3. Max(s) = k + 1
  BY <1>1, <1>2 DEF Max
<1> QED  BY <1>3

(* The loop over the measurements is met by a function.                         *)
LEMMA RecordLoopDef ==
  ASSUME NEW rows, NEW e, NEW n \in Nat, DOMAIN e.measurements = 1..n
  PROVE  RecordLoop(rows, e)
           = [s \in SUBSET (1..n) |-> RecordStep(rows, e, RecordLoop(rows, e), s)]
<1> DEFINE Has(k) == \E f : f = [s \in SUBSET (1..k) |-> RecordStep(rows, e, f, s)]
           S == {k \in Nat : Has(k)}
<1>1. 0 \in S
  <2> DEFINE f0 == [s \in SUBSET (1..0) |-> rows]
  <2>1. \A s \in SUBSET (1..0) : s = {}
    OBVIOUS
  <2>2. f0 = [s \in SUBSET (1..0) |-> RecordStep(rows, e, f0, s)]
    BY <2>1 DEF RecordStep
  <2> QED  BY <2>2
<1>2. ASSUME NEW k \in Nat, k \in S PROVE k + 1 \in S
  <2>1. PICK f : f = [s \in SUBSET (1..k) |-> RecordStep(rows, e, f, s)]
    BY <1>2
  <2> DEFINE g == [s \in SUBSET (1..(k + 1)) |->
                     IF k + 1 \in s THEN RecordStep(rows, e, f, s) ELSE f[s]]
  <2>2. \A s \in SUBSET (1..k) : s \in SUBSET (1..(k + 1)) /\ k + 1 \notin s
    OBVIOUS
  <2>3. \A s \in SUBSET (1..k) : g[s] = f[s]
    BY <2>2
  <2>4. ASSUME NEW s \in SUBSET (1..(k + 1))
        PROVE  g[s] = RecordStep(rows, e, g, s)
    <3>1. s = {} \/ s \ {Max(s)} \in SUBSET (1..k)
      <4>1. CASE k + 1 \in s
        BY <4>1, MaxIs
      <4>2. CASE k + 1 \notin s
        <5>1. s \in SUBSET (1..k)
          BY <4>2
        <5> QED  BY <5>1
      <4> QED  BY <4>1, <4>2
    <3>2. s = {} \/ g[s \ {Max(s)}] = f[s \ {Max(s)}]
      BY <2>3, <3>1
    <3>3. g[s] = IF k + 1 \in s THEN RecordStep(rows, e, f, s) ELSE f[s]
      OBVIOUS
    <3> HIDE DEF g
    <3>4. RecordStep(rows, e, g, s) = RecordStep(rows, e, f, s)
      BY <3>2 DEF RecordStep
    <3>5. CASE k + 1 \in s
      BY <3>3, <3>4, <3>5
    <3>6. CASE k + 1 \notin s
      <4>1. s \in SUBSET (1..k)
        BY <3>6
      <4>2. f[s] = RecordStep(rows, e, f, s)
        <5> DEFINE h == [t \in SUBSET (1..k) |-> RecordStep(rows, e, f, t)]
        <5>1. h[s] = RecordStep(rows, e, f, s)
          BY <4>1
        <5> QED  BY <5>1, <2>1
      <4> QED  BY <3>3, <3>4, <3>6, <4>2
    <3> QED  BY <3>5, <3>6
  <2>5. g = [s \in SUBSET (1..(k + 1)) |-> RecordStep(rows, e, g, s)]
    <3>1. g = [s \in SUBSET (1..(k + 1)) |-> g[s]]
      OBVIOUS
    <3> HIDE DEF g
    <3> QED  BY <2>4, <3>1
  <2> HIDE DEF g
  <2> QED  BY <2>5
<1>3. Has(n)
  <2> HIDE DEF Has
  <2>1. \A k \in Nat : k \in S
    BY <1>1, <1>2, NatSetInduction
  <2> QED  BY <2>1
<1> QED  BY <1>3 DEF RecordLoop

(* The loop, one measurement at a time.                                         *)
LEMMA RecordUnfold ==
  ASSUME NEW rows, NEW e, NEW n \in Nat, DOMAIN e.measurements = 1..n
  PROVE  /\ RecordLoop(rows, e)[1..0] = rows
         /\ \A k \in 0..(n - 1) :
              RecordLoop(rows, e)[1..(k + 1)]
                = RecordMeasurement(RecordLoop(rows, e)[1..k], e, e.measurements[k + 1])
<1> DEFINE f == RecordLoop(rows, e)
           h == [s \in SUBSET (1..n) |-> RecordStep(rows, e, f, s)]
<1>1. f = h
  BY RecordLoopDef
<1>2. \A s \in SUBSET (1..n) : h[s] = RecordStep(rows, e, f, s)
  OBVIOUS
<1> HIDE DEF f, h
<1>3. f[1..0] = rows
  <2>1. 1..0 = {} /\ 1..0 \in SUBSET (1..n)
    OBVIOUS
  <2> QED  BY <1>1, <1>2, <2>1 DEF RecordStep
<1>4. ASSUME NEW k \in 0..(n - 1)
      PROVE  f[1..(k + 1)] = RecordMeasurement(f[1..k], e, e.measurements[k + 1])
  <2>0. k \in Nat /\ k + 1 \in Nat /\ k + 1 <= n /\ k + 1 \in 1..(k + 1)
    OBVIOUS
  <2>1. 1..(k + 1) \in SUBSET (1..n) /\ 1..(k + 1) # {}
    <3>1. \A x \in 1..(k + 1) : x \in 1..n
      BY <2>0
    <3> QED  BY <2>0, <3>1
  <2>2. Max(1..(k + 1)) = k + 1
    BY <2>0, MaxIs
  <2>3. (1..(k + 1)) \ {k + 1} = 1..k
    BY <2>0
  <2>4. f[1..(k + 1)] = RecordStep(rows, e, f, 1..(k + 1))
    BY <1>1, <1>2, <2>1
  <2> QED  BY <2>1, <2>2, <2>3, <2>4 DEF RecordStep
<1> QED  BY <1>3, <1>4 DEF f

(* The fold over the measurements is the loop.                                  *)
LEMMA FoldIsRecordLoop ==
  ASSUME NEW rows, NEW e
  PROVE  FoldLeft(LAMBDA d, m : RecordMeasurement(d, e, m), rows, e.measurements)
           = RecordLoop(rows, e)[DOMAIN e.measurements]
<1> QED  BY DEF FoldLeft, MapThenFoldSet, RecordLoop, RecordStep

--------------------------------------------------------------------------------
(* What a statement of the projector leaves alone, of the columns the bill is   *)
(* written from, and that it takes no usage record away.                        *)
Keeps(d, n) ==
  /\ IsDb(n)
  /\ n.keys = d.keys /\ n.final = d.final /\ n.manifest = d.manifest
  /\ d.records \subseteq n.records

(* Keeping is transitive.                                                       *)
LEMMA KeepsOn ==
  ASSUME NEW a, NEW b, NEW c, Keeps(a, b), Keeps(b, c)
  PROVE  Keeps(a, c)
<1> QED  BY DEF Keeps

Recorded(d, id) == \E r \in d.records : r.event = id

(* A measurement leaves a record of its event.                                  *)
LEMMA RecordKeeps ==
  ASSUME NEW d, IsDb(d), NEW e, NEW m
  PROVE  /\ Keeps(d, RecordMeasurement(d, e, m))
         /\ Recorded(RecordMeasurement(d, e, m), e.id)
<1> DEFINE n == RecordMeasurement(d, e, m)
           fresh == \A r \in d.records : <<r.event, r.type>> # <<e.id, m.type>>
           row == [event |-> e.id, type |-> m.type, stage |-> e.stage,
                   qty |-> m.qty, cost |-> m.qty * UnitPrice[m.type]]
<1>1. IsDb(n) /\ n.keys = d.keys /\ n.final = d.final /\ n.manifest = d.manifest
  BY DEF RecordMeasurement, IsDb, DbFields
<1>2. n.records = IF fresh THEN d.records \cup {row} ELSE d.records
  BY DEF RecordMeasurement, IsDb, DbFields
<1> HIDE DEF n
<1>3. row.event = e.id
  OBVIOUS
<1> HIDE DEF row
<1>4. d.records \subseteq n.records
  BY <1>2
<1>5. Recorded(n, e.id)
  <2>1. CASE fresh
    BY <1>2, <1>3, <2>1 DEF Recorded
  <2>2. CASE ~fresh
    <3>1. PICK r \in d.records : <<r.event, r.type>> = <<e.id, m.type>>
      BY <2>2
    <3>2. r.event = e.id
      BY <3>1
    <3> QED  BY <1>4, <3>1, <3>2 DEF Recorded
  <2> QED  BY <2>1, <2>2
<1> QED  BY <1>1, <1>4, <1>5 DEF n, Keeps

(* What is recorded stays recorded.                                             *)
LEMMA RecordedStays ==
  ASSUME NEW a, NEW b, Keeps(a, b), NEW id, Recorded(a, id)
  PROVE  Recorded(b, id)
<1> QED  BY DEF Keeps, Recorded

(* The measurements of an event, all of them: if it has any, it is recorded.    *)
LEMMA LoopKeeps ==
  ASSUME NEW rows, IsDb(rows), NEW e, NEW n \in Nat, DOMAIN e.measurements = 1..n
  PROVE  LET d == FoldLeft(LAMBDA d, m : RecordMeasurement(d, e, m), rows, e.measurements)
         IN  Keeps(rows, d) /\ (n > 0 => Recorded(d, e.id))
<1> DEFINE f == RecordLoop(rows, e)
           Good(k) == Keeps(rows, f[1..k]) /\ (k > 0 => Recorded(f[1..k], e.id))
           S == {k \in Nat : k <= n => Good(k)}
<1> HIDE DEF f
<1>1. 0 \in S
  <2>1. f[1..0] = rows
    BY RecordUnfold DEF f
  <2>2. Keeps(rows, rows)
    BY DEF Keeps
  <2> QED  BY <2>1, <2>2
<1>2. ASSUME NEW k \in Nat, k \in S PROVE k + 1 \in S
  <2>1. SUFFICES ASSUME k + 1 <= n PROVE Good(k + 1)
    OBVIOUS
  <2>2. k \in 0..(n - 1) /\ k <= n
    BY <2>1
  <2>3. f[1..(k + 1)] = RecordMeasurement(f[1..k], e, e.measurements[k + 1])
    BY <2>2, RecordUnfold DEF f
  <2>4. Keeps(rows, f[1..k])
    BY <1>2, <2>2
  <2>5. IsDb(f[1..k])
    BY <2>4 DEF Keeps
  <2>6. /\ Keeps(f[1..k], f[1..(k + 1)])
        /\ Recorded(f[1..(k + 1)], e.id)
    BY <2>3, <2>5, RecordKeeps
  <2> QED  BY <2>4, <2>6, KeepsOn
<1>3. Good(n)
  <2> HIDE DEF Good
  <2>1. \A k \in Nat : k \in S
    BY <1>1, <1>2, NatSetInduction
  <2> QED  BY <2>1
<1>4. FoldLeft(LAMBDA d, m : RecordMeasurement(d, e, m), rows, e.measurements) = f[1..n]
  BY FoldIsRecordLoop DEF f
<1> QED  BY <1>3, <1>4

(* The other statements of the transaction.                                     *)
LEMMA BillingKeeps ==
  ASSUME NEW d, IsDb(d), NEW durations, NEW finalized
  PROVE  Keeps(d, UpdateCallBilling(d, durations, finalized))
<1> QED  BY DEF UpdateCallBilling, IsDb, DbFields, Keeps

(* The announcement of the new totals.                                          *)
LEMMA EnqueueKeeps ==
  ASSUME NEW d, IsDb(d), NEW e
  PROVE  Keeps(d, EnqueueBillingEvent(d, e))
<1> QED  BY DEF EnqueueBillingEvent, IsDb, DbFields, Keeps

(* The row of the metrics.                                                      *)
LEMMA MetricKeeps ==
  ASSUME NEW d, IsDb(d), NEW e
  PROVE  Keeps(d, ProjectMetric(d, e))
<1> QED  BY DEF ProjectMetric, IsDb, DbFields, Keeps

(* The row of the call, and what its end does to the bill.                      *)
LEMMA CallKeeps ==
  ASSUME NEW d, IsDb(d), NEW e
  PROVE  Keeps(d, ProjectCall(d, e))
<1>0. Keeps(d, d)
  BY DEF Keeps
<1>1. Keeps(d, ProjectStarted(d, e))
  BY DEF ProjectStarted, IsDb, DbFields, Keeps
<1>2. Keeps(d, ProjectEnded(d, e))
  <2> DEFINE c == [d EXCEPT !.call = [@ EXCEPT !.status = "CALL_COMPLETED", !.stage = e.stage,
                                               !.ended = TRUE]]
  <2>1. Keeps(d, c)
    BY DEF IsDb, DbFields, Keeps
  <2> HIDE DEF c
  <2>2. Keeps(c, UpdateCallBilling(c, {e.duration}, TRUE))
    BY <2>1, BillingKeeps DEF Keeps
  <2>3. Keeps(d, UpdateCallBilling(c, {e.duration}, TRUE))
    BY <2>1, <2>2, KeepsOn
  <2> QED  BY <1>0, <2>3 DEF ProjectEnded, c
<1>3. Keeps(d, ProjectFailed(d, e))
  <2> DEFINE c == IF d.call.status = "absent" THEN d
                  ELSE [d EXCEPT !.call = [@ EXCEPT !.status = "CALL_FAILED", !.stage = e.stage,
                                                    !.ended = TRUE]]
  <2>1. Keeps(d, c)
    BY DEF IsDb, DbFields, Keeps
  <2> HIDE DEF c
  <2>2. Keeps(c, UpdateCallBilling(c, {}, TRUE))
    BY <2>1, BillingKeeps DEF Keeps
  <2>3. Keeps(d, UpdateCallBilling(c, {}, TRUE))
    BY <2>1, <2>2, KeepsOn
  <2> QED  BY <2>3 DEF ProjectFailed, c
<1>4. Keeps(d, ProjectProgress(d, e))
  BY DEF ProjectProgress, IsDb, DbFields, Keeps
<1> QED  BY <1>0, <1>1, <1>2, <1>3, <1>4 DEF ProjectCall

--------------------------------------------------------------------------------
(* One event. A duplicate changes nothing; of any other the key is remembered,  *)
(* only a barrier brings a manifest, and what it measured is recorded.          *)
Projects(d, e, n) ==
  /\ IsDb(n)
  /\ n.final = d.final
  /\ d.records \subseteq n.records
  /\ n.keys \subseteq d.keys \cup {e.key}
  /\ n.manifest = d.manifest \/ IsBarrier(e)
  /\ (IsMeasured(e) /\ ~IsDuplicate(d, e)) => Recorded(n, e.id)

(* Every event is projected so.                                                 *)
LEMMA OneProjects ==
  ASSUME NEW d, IsDb(d), NEW e, NEW offset,
         NEW n \in Nat, IsUsage(e) => DOMAIN e.measurements = 1..n,
         IsMeasured(e) => n > 0
  PROVE  Projects(d, e, ProjectOne(d, e, offset))
<1>1. CASE IsDuplicate(d, e)
  BY <1>1 DEF ProjectOne, Projects
<1>2. CASE ~IsDuplicate(d, e)
  <2> DEFINE keyed == [d EXCEPT !.keys = @ \cup {e.key}, !.timeline = @ \cup {e.id}]
             c == ProjectCall(keyed, e)
             p == ProjectMetric(c, e)
             u == ProjectUsage(p, e, offset)
  <2>1. /\ IsDb(keyed) /\ keyed.keys = d.keys \cup {e.key}
        /\ keyed.records = d.records /\ keyed.final = d.final /\ keyed.manifest = d.manifest
    BY DEF IsDb, DbFields
  <2> HIDE DEF keyed
  <2>2. Keeps(keyed, c)
    BY <2>1, CallKeeps
  <2> HIDE DEF c
  <2>3. Keeps(c, p)
    BY <2>2, MetricKeeps DEF Keeps
  <2> HIDE DEF p
  <2>4. Keeps(keyed, p) /\ IsDb(p)
    BY <2>2, <2>3, KeepsOn DEF Keeps
  <2>5. CASE ~IsUsage(e)
    <3>1. u = p
      BY <2>5 DEF ProjectUsage, IsUsage, IsBarrier
    <3> QED  BY <1>2, <2>1, <2>4, <2>5, <3>1 DEF ProjectOne, Projects, Keeps, keyed, c, p, IsMeasured
  <2>6. CASE IsUsage(e) /\ IsBarrier(e)
    <3>1. u = ProjectManifest(p, e, offset)
      BY <2>6 DEF ProjectUsage
    <3>2. IsDb(u) /\ u.keys = p.keys /\ u.final = p.final /\ u.records = p.records
      BY <2>4, <3>1 DEF ProjectManifest, IsDb, DbFields
    <3> HIDE DEF u
    <3>3. Projects(d, e, u)
      BY <2>1, <2>4, <2>6, <3>2 DEF Projects, Keeps, IsMeasured
    <3> QED  BY <1>2, <3>3 DEF ProjectOne, keyed, c, p, u
  <2>7. CASE IsUsage(e) /\ ~IsBarrier(e)
    <3> DEFINE r == FoldLeft(LAMBDA q, m : RecordMeasurement(q, e, m), p, e.measurements)
               b == UpdateCallBilling(r, {}, FALSE)
    <3>1. u = EnqueueBillingEvent(b, e)
      BY <2>7 DEF ProjectUsage, ProjectMeasurements
    <3>2. Keeps(p, r) /\ Recorded(r, e.id)
      BY <2>4, <2>7, LoopKeeps DEF IsMeasured
    <3> HIDE DEF r
    <3>3. Keeps(r, b)
      BY <3>2, BillingKeeps DEF Keeps
    <3> HIDE DEF b
    <3>4. Keeps(b, u)
      BY <3>1, <3>3, EnqueueKeeps DEF Keeps
    <3> HIDE DEF u
    <3>5. Keeps(keyed, u) /\ Recorded(u, e.id)
      BY <2>4, <3>2, <3>3, <3>4, KeepsOn, RecordedStays
    <3>6. Projects(d, e, u)
      BY <2>1, <3>5 DEF Projects, Keeps
    <3> QED  BY <1>2, <3>6 DEF ProjectOne, keyed, c, p, u
  <2> QED  BY <2>5, <2>6, <2>7
<1> QED  BY <1>1, <1>2
(* A transaction of one event.                                                  *)
LEMMA BatchOfOne ==
  ASSUME NEW d, NEW item
  PROVE  /\ ProjectBatch(d, <<item>>).db
              = [ProjectOne(d, item.event, item.offset) EXCEPT !.watermark = Advanced(@, item)]
         /\ ProjectBatch(d, <<item>>).result = Classified(d, NoResult, item.event)
<1> DEFINE items == <<item>>
           f == BatchLoop(d, items)
           h == [s \in SUBSET {1} |-> BatchStep(d, items, f, s)]
           g0 == [s \in SUBSET {1} |-> BatchStep(d, items, [t \in SUBSET {1} |->
                    [db |-> d, result |-> NoResult]], s)]
<1>1. DOMAIN items = {1} /\ items[1] = item
  OBVIOUS
<1>2. \A s \in SUBSET {1} : s = {} \/ s = {1}
  OBVIOUS
<1>3. Max({1}) = 1 /\ {1} \ {1} = {}
  BY DEF Max
<1>4. ProjectBatch(d, items) = f[{1}]
  <2>1. ProjectBatch(d, items) = f[DOMAIN items]
    BY DEF ProjectBatch, FoldLeft, MapThenFoldSet, BatchLoop, BatchStep
  <2> QED  BY <1>1, <2>1
<1> HIDE DEF items
<1>5. f = h
  <2>1. \A s \in SUBSET {1} : g0[s] = BatchStep(d, items, g0, s)
    <3>1. g0[{}] = [db |-> d, result |-> NoResult]
      BY DEF BatchStep
    <3>2. ASSUME NEW s \in SUBSET {1} PROVE g0[s] = BatchStep(d, items, g0, s)
      <4>1. CASE s = {}
        BY <3>1, <4>1 DEF BatchStep
      <4>2. CASE s = {1}
        BY <1>3, <3>1, <4>2 DEF BatchStep
      <4> QED  BY <1>2, <4>1, <4>2
    <3> QED  BY <3>2
  <2>2. g0 = [s \in SUBSET {1} |-> BatchStep(d, items, g0, s)]
    <3>1. g0 = [s \in SUBSET {1} |-> g0[s]]
      OBVIOUS
    <3> HIDE DEF g0
    <3> QED  BY <2>1, <3>1
  <2> HIDE DEF g0
  <2> QED  BY <1>1, <2>2 DEF BatchLoop
<1>6. \A s \in SUBSET {1} : h[s] = BatchStep(d, items, f, s)
  OBVIOUS
<1> HIDE DEF f, h
<1>7. f[{}] = [db |-> d, result |-> NoResult]
  <2>1. {} \in SUBSET {1}
    OBVIOUS
  <2> QED  BY <1>5, <1>6, <2>1 DEF BatchStep
<1>8. f[{1}] = BatchStep(d, items, f, {1})
  BY <1>5, <1>6
<1>9. f[{1}].db = [ProjectOne(d, item.event, item.offset) EXCEPT !.watermark = Advanced(@, item)]
  <2>1. f[{} ].db = d
    BY <1>7
  <2>2. f[{1}].db = [ProjectOne(f[{}].db, items[1].event, items[1].offset)
                       EXCEPT !.watermark = Advanced(@, items[1])]
    BY <1>3, <1>8 DEF BatchStep
  <2> QED  BY <1>1, <2>1, <2>2
<1>10. f[{1}].result = Classified(d, NoResult, item.event)
  <2>1. f[{}].db = d /\ f[{}].result = NoResult
    BY <1>7
  <2>2. f[{1}].result = Classified(f[{}].db, f[{}].result, items[1].event)
    BY <1>3, <1>8 DEF BatchStep
  <2> QED  BY <1>1, <2>1, <2>2
<1> QED  BY <1>4, <1>9, <1>10 DEF items

(* And so it projects its event.                                                *)
LEMMA BatchProjects ==
  ASSUME NEW d, NEW item, Projects(d, item.event, ProjectOne(d, item.event, item.offset))
  PROVE  Projects(d, item.event, ProjectBatch(d, <<item>>).db)
<1> DEFINE n == ProjectOne(d, item.event, item.offset)
           w == [n EXCEPT !.watermark = Advanced(@, item)]
<1>1. ProjectBatch(d, <<item>>).db = w
  BY BatchOfOne
<1>2. IsDb(n)
  BY DEF Projects
<1> HIDE DEF n
<1>3. /\ IsDb(w) /\ w.final = n.final /\ w.records = n.records
      /\ w.keys = n.keys /\ w.manifest = n.manifest
  BY <1>2 DEF IsDb, DbFields
<1> HIDE DEF w
<1>4. Projects(d, item.event, w)
  BY <1>3 DEF Projects, n, Recorded
<1> QED  BY <1>1, <1>4
--------------------------------------------------------------------------------
(* The invariant. The projector has recorded the measured events up to its      *)
(* position, and remembers no key but those of events up to its positions.      *)
Places ==
  /\ plan \in Plans
  /\ IsDb(db)
  /\ position = [t \in {"usage-events", "call-events"} |-> position[t]]
  /\ position["usage-events"] \in 0..Len(UsageLog)
  /\ position["call-events"] \in 0..Len(CallLog)

Behind(i) == i \in 1..position["usage-events"]

RecordedBehind == \A i \in Measured : Behind(i) => Recorded(db, UsageLog[i].id)

KeysBehind ==
  \A k \in db.keys :
    \/ \E i \in 1..position["usage-events"] : k = UsageLog[i].key
    \/ \E i \in 1..position["call-events"] : k = CallLog[i].key

(* There is no manifest, in the database or in the eyes of the workflow, before *)
(* the barrier is behind the projector.                                         *)
BarrierBehind == \E j \in DOMAIN UsageLog : Behind(j) /\ IsBarrier(UsageLog[j])

ManifestBehind ==
  (db.manifest # NoManifest \/ wf.manifest # NoManifest \/ wf.ready) => BarrierBehind

(* All usage published before the barrier.                                      *)
Complete(ids) ==
  \A i \in Measured :
    (\E j \in DOMAIN UsageLog : j > i /\ IsBarrier(UsageLog[j])) => UsageLog[i].id \in ids

(* An attempt that has read the records for a workflow that found the usage     *)
(* ready has read all of it, and so has the one whose bill is there.            *)
AttemptsComplete ==
  \A i \in DOMAIN attempts : wf.ready /\ attempts[i].at # "usage" => Complete(attempts[i].counted)

WfFields == {"at", "manifest", "caughtUp", "missing", "elapsed", "updates", "observed", "ready"}

IsWf(w) == w = [f \in WfFields |-> w[f]]

IsAttempt(a) == a = [f \in {"at", "counted", "cost", "fee"} |-> a[f]]

AttemptShapes ==
  /\ attempts \in Seq({attempts[i] : i \in DOMAIN attempts})
  /\ \A i \in DOMAIN attempts : IsAttempt(attempts[i])

Shapes == IsWf(wf) /\ AttemptShapes

BillInv ==
  /\ Places
  /\ RecordedBehind
  /\ KeysBehind
  /\ ManifestBehind
  /\ Shapes
  /\ AttemptsComplete
  /\ ReadyIsComplete
(* An event that ends the call, in one way or the other.                        *)
IsEnd(e) == e.type \in {"call.ended", "call.failed"}

(* What the log holds, of the plan that is played.                              *)
LEMMA LogFacts ==
  ASSUME Places
  PROVE  /\ plan.span \in Nat
         /\ DOMAIN UsageLog = 1..Len(UsageLog) /\ DOMAIN CallLog = 1..Len(CallLog)
         /\ Len(UsageLog) \in Nat /\ Len(CallLog) \in Nat
         /\ \A i \in 1..Len(UsageLog) :
              /\ IsUsage(UsageLog[i])
              /\ UsageLog[i].measurements \in Seq([type : DOMAIN UnitPrice, qty : Nat])
              /\ IsBarrier(UsageLog[i]) \/ UsageLog[i].measurements # <<>>
              /\ \A m, n \in DOMAIN UsageLog[i].measurements :
                   UsageLog[i].measurements[m].type = UsageLog[i].measurements[n].type => m = n
         /\ \A i \in 1..Len(CallLog) : ~IsUsage(CallLog[i]) /\ CallLog[i].duration \in Nat
         /\ \A i, j \in 1..Len(UsageLog) :
              /\ IsBarrier(UsageLog[i]) /\ IsBarrier(UsageLog[j]) => i = j
              /\ UsageLog[i].key = UsageLog[j].key \/ UsageLog[i].id = UsageLog[j].id =>
                   UsageLog[i] = UsageLog[j]
         /\ \A i, j \in 1..Len(CallLog) :
              CallLog[i].type = "call.ended" /\ IsEnd(CallLog[j]) => CallLog[i] = CallLog[j]
         /\ \A i \in 1..Len(UsageLog), j \in 1..Len(CallLog) : UsageLog[i].key # CallLog[j].key
<1>1. plan \in Plans
  BY DEF Places
<1>2. ASSUME NEW i \in 1..Len(CallLog), NEW j \in 1..Len(CallLog),
             CallLog[i].type = "call.ended", IsEnd(CallLog[j])
      PROVE  CallLog[i] = CallLog[j]
  <2>1. CallLog = plan.calls
    BY DEF CallLog
  <2>2. /\ CallLog[j].type # "call.failed"
        /\ CallLog[j].type = "call.ended" => CallLog[i] = CallLog[j]
    BY <1>1, <1>2, <2>1, PlansAssumption
  <2>3. CallLog[j].type = "call.ended" \/ CallLog[j].type = "call.failed"
    BY <1>2 DEF IsEnd
  <2> QED  BY <2>2, <2>3
<1> QED  BY <1>1, <1>2, PlansAssumption DEF UsageLog, CallLog

(* Once the barrier is behind the projector, the records hold all usage before  *)
(* it.                                                                          *)
LEMMA RecordsComplete ==
  ASSUME Places, RecordedBehind, BarrierBehind
  PROVE  Complete({r.event : r \in db.records})
<1>1. PICK b \in DOMAIN UsageLog : Behind(b) /\ IsBarrier(UsageLog[b])
  BY DEF BarrierBehind
<1>2. SUFFICES ASSUME NEW i \in Measured,
                      NEW j \in DOMAIN UsageLog, j > i, IsBarrier(UsageLog[j])
               PROVE  UsageLog[i].id \in {r.event : r \in db.records}
  BY DEF Complete
<1>3. j = b
  BY <1>1, <1>2, LogFacts
<1>4. i \in 1..Len(UsageLog) /\ Len(UsageLog) \in Nat
  BY LogFacts DEF Measured
<1>5. position["usage-events"] \in Nat
  BY <1>4 DEF Places
<1>6. Behind(i)
  BY <1>1, <1>2, <1>3, <1>4, <1>5 DEF Behind
<1>7. Recorded(db, UsageLog[i].id)
  BY <1>6 DEF RecordedBehind
<1> QED  BY <1>7 DEF Recorded

--------------------------------------------------------------------------------
(* What a step that projects nothing leaves as it is.                           *)
LEMMA RowsStay ==
  ASSUME Places, RecordedBehind, KeysBehind, UNCHANGED <<plan, position>>,
         IsDb(db'), db'.keys = db.keys, db'.records = db.records
  PROVE  /\ Places' /\ RecordedBehind' /\ KeysBehind'
         /\ BarrierBehind <=> BarrierBehind'
<1>1. UsageLog' = UsageLog /\ CallLog' = CallLog
  BY DEF UsageLog, CallLog
<1>2. Places'
  BY <1>1 DEF Places
<1>3. Measured' = Measured
  BY <1>1 DEF Measured
<1>4. RecordedBehind'
  BY <1>1, <1>3 DEF RecordedBehind, Behind, Recorded
<1>5. KeysBehind'
  BY <1>1 DEF KeysBehind
<1>6. BarrierBehind <=> BarrierBehind'
  BY <1>1 DEF BarrierBehind, Behind
<1> QED  BY <1>2, <1>4, <1>5, <1>6

(* A bill is complete or not by the plan.                                       *)
LEMMA CompleteStays ==
  ASSUME UNCHANGED plan, NEW ids
  PROVE  Complete(ids)' <=> Complete(ids)
<1> QED  BY DEF Complete, Measured, UsageLog

(* The property, by the name of what it says.                                   *)
LEMMA ReadyBill == ReadyIsComplete <=> (db.final.status = "FINALIZED" => Complete(db.final.counted))
<1> QED  BY DEF ReadyIsComplete, Complete

(* A step that leaves the projector, the attempts and the bill alone.           *)
LEMMA OthersStay ==
  ASSUME BillInv, UNCHANGED <<plan, position, attempts>>,
         IsDb(db'), db'.keys = db.keys, db'.records = db.records, db'.manifest = db.manifest,
         db'.final = db.final, Shapes',
         wf'.ready = wf.ready, wf'.manifest \in {wf.manifest, db.manifest}
  PROVE  BillInv'
<1>1. /\ Places' /\ RecordedBehind' /\ KeysBehind'
      /\ BarrierBehind <=> BarrierBehind'
  BY RowsStay DEF BillInv
<1>2. ManifestBehind'
  BY <1>1 DEF BillInv, ManifestBehind
<1>3. AttemptsComplete'
  BY CompleteStays DEF BillInv, AttemptsComplete
<1>4. ReadyIsComplete'
  BY CompleteStays DEF BillInv, ReadyIsComplete, Complete, Measured, UsageLog
<1> QED  BY <1>1, <1>2, <1>3, <1>4 DEF BillInv

(* The workflow's own steps, but the one that decides.                          *)
LEMMA ReadsStep ==
  ASSUME BillInv,
         StartFinalization \/ SignalEnded \/ Hint \/ StartAdjustment \/ ReadManifest
           \/ ReadWatermark \/ ReadExpectations \/ ReadPresent \/ FinalizeAnswers
  PROVE  BillInv'
<1>1. UNCHANGED <<db, plan, position, attempts>>
  BY DEF StartFinalization, SignalEnded, Hint, StartAdjustment, ReadManifest, ReadWatermark,
         ReadExpectations, ReadPresent, FinalizeAnswers, Read
<1>2. IsWf(wf)
  BY DEF BillInv, Shapes
<1>3. /\ IsWf(wf')
      /\ wf'.ready = wf.ready /\ wf'.manifest \in {wf.manifest, db.manifest}
  <2>1. CASE StartFinalization
    BY <1>2, <2>1 DEF StartFinalization, IsWf, WfFields
  <2>2. CASE SignalEnded \/ StartAdjustment
    BY <1>2, <2>2 DEF SignalEnded, StartAdjustment, IsWf, WfFields
  <2>3. CASE Hint
    BY <1>2, <2>3 DEF Hint, IsWf, WfFields
  <2>4. CASE ReadManifest
    BY <1>2, <2>4 DEF ReadManifest, Read, IsWf, WfFields
  <2>5. CASE ReadWatermark
    BY <1>2, <2>5 DEF ReadWatermark, Read, IsWf, WfFields
  <2>6. CASE ReadExpectations
    BY <1>2, <2>6 DEF ReadExpectations, Read, IsWf, WfFields
  <2>7. CASE ReadPresent
    BY <1>2, <2>7 DEF ReadPresent, Read, IsWf, WfFields
  <2>8. CASE FinalizeAnswers
    BY <1>2, <2>8 DEF FinalizeAnswers, IsWf, WfFields
  <2> QED  BY <2>1, <2>2, <2>3, <2>4, <2>5, <2>6, <2>7, <2>8
<1>4. Shapes'
  BY <1>1, <1>3 DEF BillInv, Shapes, AttemptShapes
<1>5. IsDb(db')
  BY <1>1 DEF BillInv, Places
<1> QED  BY <1>1, <1>3, <1>4, <1>5, OthersStay

(* The announcements, and the adjustments.                                      *)
LEMMA WritesStep ==
  ASSUME BillInv,
         EmitFinalized \/ AdjustReadsFinal \/ AdjustReadsUsage \/ AdjustInserts
           \/ AdjustRetried \/ AdjustEmits
  PROVE  BillInv'
<1>1. UNCHANGED <<plan, position, attempts>>
  BY DEF EmitFinalized, AdjustReadsFinal, AdjustReadsUsage, AdjustInserts, AdjustRetried,
         AdjustEmits, Adjust
<1>2. IsDb(db)
  BY DEF BillInv, Places
<1>3. /\ IsDb(db') /\ db'.keys = db.keys /\ db'.records = db.records
      /\ db'.manifest = db.manifest /\ db'.final = db.final
  <2>1. CASE EmitFinalized
    BY <1>2, <2>1 DEF EmitFinalized, Announced, IsDb, DbFields, IsWf, WfFields
  <2>2. CASE AdjustReadsFinal \/ AdjustReadsUsage \/ AdjustRetried
    BY <1>2, <2>2 DEF AdjustReadsFinal, AdjustReadsUsage, AdjustRetried, IsWf, WfFields
  <2>3. CASE AdjustInserts
    <3>1. PICK row : db' = db \/ db' = [db EXCEPT !.adjustments = @ \cup {row}]
      BY <2>3 DEF AdjustInserts
    <3> QED  BY <1>2, <3>1 DEF IsDb, DbFields
  <2>4. CASE AdjustEmits
    BY <1>2, <2>4 DEF AdjustEmits, Announced, IsDb, DbFields, IsWf, WfFields
  <2> QED  BY <2>1, <2>2, <2>3, <2>4
<1>4. wf' = wf \/ wf' = [wf EXCEPT !.at = "done"]
  BY DEF EmitFinalized, AdjustReadsFinal, AdjustReadsUsage, AdjustInserts, AdjustRetried,
         AdjustEmits, Adjust
<1>5. IsWf(wf)
  BY DEF BillInv, Shapes
<1>6. /\ IsWf(wf')
      /\ wf'.ready = wf.ready /\ wf'.manifest = wf.manifest
  BY <1>4, <1>5 DEF IsWf, WfFields
<1>7. Shapes'
  BY <1>1, <1>6 DEF BillInv, Shapes, AttemptShapes
<1> QED  BY <1>1, <1>3, <1>6, <1>7, OthersStay
(* A sequence is one of its own elements.                                       *)
LEMMA SeqOfOwn ==
  ASSUME NEW S, NEW s \in Seq(S)
  PROVE  s \in Seq({s[i] : i \in DOMAIN s})
<1> QED  OBVIOUS

(* A step that starts the attempts or goes on with one of them, and leaves the  *)
(* rows alone.                                                                  *)
LEMMA AttemptsMove ==
  ASSUME BillInv, UNCHANGED <<db, plan, position>>,
         IsWf(wf'), AttemptShapes', wf'.manifest = wf.manifest,
         wf'.ready => BarrierBehind,
         AttemptsComplete',
         db.final.status = "FINALIZED" => Complete(db.final.counted)
  PROVE  BillInv'
<1>1. /\ Places' /\ RecordedBehind' /\ KeysBehind'
      /\ BarrierBehind <=> BarrierBehind'
  <2>1. IsDb(db')
    BY DEF BillInv, Places
  <2> QED  BY <2>1, RowsStay DEF BillInv
<1>2. ManifestBehind'
  BY <1>1 DEF BillInv, ManifestBehind
<1>3. ReadyIsComplete'
  BY DEF BillInv, ReadyIsComplete, Complete, Measured, UsageLog
<1>4. Shapes'
  BY DEF Shapes
<1> QED  BY <1>1, <1>2, <1>3, <1>4 DEF BillInv

(* The decision, and the end of the wait.                                       *)
LEMMA DecideStep ==
  ASSUME BillInv, Decide \/ Wake
  PROVE  BillInv'
<1> DEFINE first == [at |-> "usage", counted |-> {}, cost |-> 0, fee |-> 0]
<1>1. UNCHANGED <<db, plan, position>>
  BY DEF Decide, Wake
<1>2. IsWf(wf) /\ AttemptShapes /\ AttemptsComplete
  BY DEF BillInv, Shapes
<1>3. db.final.status = "FINALIZED" => Complete(db.final.counted)
  BY ReadyBill DEF BillInv
<1>4. IsWf(wf') /\ wf'.manifest = wf.manifest /\ (wf'.ready => wf.ready \/ Ready)
      /\ ((attempts' = attempts /\ wf'.ready = wf.ready) \/ attempts' = <<first>>)
  <2>1. CASE Decide
    <3>1. CASE Ready
      <4>1. attempts' = <<first>>
        BY <2>1, <3>1 DEF Decide
      <4>2. IsWf(wf') /\ wf'.manifest = wf.manifest
        BY <1>2, <2>1, <3>1 DEF Decide, IsWf, WfFields
      <4> QED  BY <3>1, <4>1, <4>2
    <3>2. CASE ~Ready
      BY <1>2, <2>1, <3>2 DEF Decide, IsWf, WfFields
    <3> QED  BY <3>1, <3>2
  <2>2. CASE Wake
    BY <1>2, <2>2 DEF Wake, IsWf, WfFields
  <2> QED  BY <2>1, <2>2
<1>5. attempts' = attempts \/ attempts' = <<first>>
  BY <1>4
<1>6. wf'.ready => BarrierBehind
  BY <1>4 DEF BillInv, ManifestBehind, Ready
<1>7. AttemptShapes'
  <2>1. CASE attempts' = attempts
    BY <1>2, <2>1 DEF AttemptShapes
  <2>2. CASE attempts' = <<first>>
    <3>1. attempts' \in Seq({first})
      BY <2>2
    <3>2. attempts' \in Seq({attempts'[i] : i \in DOMAIN attempts'})
      BY <3>1, SeqOfOwn
    <3>3. IsAttempt(first)
      BY DEF IsAttempt
    <3> QED  BY <2>2, <3>2, <3>3 DEF AttemptShapes
  <2> QED  BY <1>5, <2>1, <2>2
<1>8. AttemptsComplete'
  <2>1. CASE attempts' = attempts /\ wf'.ready = wf.ready
    BY <1>1, <1>2, <2>1, CompleteStays DEF AttemptsComplete
  <2>2. CASE attempts' = <<first>>
    BY <2>2 DEF AttemptsComplete
  <2> QED  BY <1>4, <2>1, <2>2
<1> QED  BY <1>1, <1>3, <1>4, <1>6, <1>7, <1>8, AttemptsMove

(* The reads of an attempt.                                                     *)
LEMMA FinalizeReadsStep ==
  ASSUME BillInv, FinalizeReadsUsage \/ FinalizeReadsDuration \/ FinalizeRetried
  PROVE  BillInv'
<1>1. UNCHANGED <<db, plan, position, wf>>
  BY DEF FinalizeReadsUsage, FinalizeReadsDuration, FinalizeRetried
<1>2. IsWf(wf) /\ AttemptShapes /\ AttemptsComplete
  BY DEF BillInv, Shapes
<1>3. db.final.status = "FINALIZED" => Complete(db.final.counted)
  BY ReadyBill DEF BillInv
<1>4. wf.ready => BarrierBehind
  BY DEF BillInv, ManifestBehind
<1>5. AttemptShapes' /\ AttemptsComplete'
  <2>1. ASSUME NEW i \in DOMAIN attempts, NEW a,
               attempts' = [attempts EXCEPT ![i] = a], IsAttempt(a),
               wf.ready /\ a.at # "usage" => Complete(a.counted)
        PROVE  AttemptShapes' /\ AttemptsComplete'
    <3> DEFINE S == {attempts[j] : j \in DOMAIN attempts}
    <3>1. attempts \in Seq(S \cup {a})
      BY <1>2 DEF AttemptShapes
    <3>2. attempts' \in Seq(S \cup {a})
      BY <2>1, <3>1
    <3>3. attempts' \in Seq({attempts'[j] : j \in DOMAIN attempts'})
      BY <3>2, SeqOfOwn
    <3>4. DOMAIN attempts' = DOMAIN attempts
          /\ \A j \in DOMAIN attempts : attempts'[j] = IF j = i THEN a ELSE attempts[j]
      BY <2>1
    <3>5. AttemptShapes'
      BY <1>2, <2>1, <3>3, <3>4 DEF AttemptShapes
    <3>6. AttemptsComplete'
      BY <1>1, <1>2, <2>1, <3>4, CompleteStays DEF AttemptsComplete
    <3> QED  BY <3>5, <3>6
  <2>2. CASE FinalizeReadsUsage
    <3>1. PICK i \in DOMAIN attempts :
            attempts' = [attempts EXCEPT
              ![i] = [@ EXCEPT !.at = "duration", !.counted = {r.event : r \in db.records},
                               !.cost = ProviderCents(db.records)]]
      BY <2>2 DEF FinalizeReadsUsage
    <3> DEFINE ids == {r.event : r \in db.records}
               a == [attempts[i] EXCEPT !.at = "duration", !.counted = ids,
                                        !.cost = ProviderCents(db.records)]
    <3>2. attempts' = [attempts EXCEPT ![i] = a]
      BY <3>1
    <3>3. wf.ready => Complete(ids)
      BY <1>4, RecordsComplete DEF BillInv
    <3>4. IsAttempt(attempts[i])
      BY <1>2 DEF AttemptShapes
    <3> HIDE DEF ids
    <3>5. IsAttempt(a) /\ a.counted = ids
      BY <3>4 DEF IsAttempt
    <3> HIDE DEF a
    <3> QED  BY <2>1, <3>2, <3>3, <3>5
  <2>3. CASE FinalizeReadsDuration
    <3>1. PICK i \in DOMAIN attempts :
            /\ At(i, "duration")
            /\ attempts' = [attempts EXCEPT
                 ![i] = [@ EXCEPT !.at = "write", !.fee = PlatformCents]]
      BY <2>3 DEF FinalizeReadsDuration
    <3> DEFINE a == [attempts[i] EXCEPT !.at = "write", !.fee = PlatformCents]
    <3>2. attempts' = [attempts EXCEPT ![i] = a]
      BY <3>1
    <3>3. IsAttempt(attempts[i]) /\ attempts[i].at = "duration"
      BY <1>2, <3>1 DEF AttemptShapes, At
    <3>4. IsAttempt(a) /\ a.counted = attempts[i].counted
      BY <3>3 DEF IsAttempt
    <3>5. wf.ready => Complete(attempts[i].counted)
      BY <1>2, <3>3 DEF AttemptsComplete
    <3> HIDE DEF a
    <3> QED  BY <2>1, <3>2, <3>4, <3>5
  <2>4. CASE FinalizeRetried
    <3> DEFINE first == [at |-> "usage", counted |-> {}, cost |-> 0, fee |-> 0]
               S == {attempts[j] : j \in DOMAIN attempts}
    <3>1. attempts' = Append(attempts, first)
      BY <2>4 DEF FinalizeRetried
    <3>2. IsAttempt(first) /\ first.at = "usage"
      BY DEF IsAttempt
    <3> HIDE DEF first
    <3>3. attempts \in Seq(S \cup {first})
      BY <1>2 DEF AttemptShapes
    <3>4. /\ attempts' \in Seq(S \cup {first})
          /\ Len(attempts) \in Nat
          /\ DOMAIN attempts = 1..Len(attempts)
          /\ DOMAIN attempts' = 1..(Len(attempts) + 1)
          /\ \A j \in 1..Len(attempts) : attempts'[j] = attempts[j]
          /\ attempts'[Len(attempts) + 1] = first
      BY <3>1, <3>3
    <3>5. attempts' \in Seq({attempts'[j] : j \in DOMAIN attempts'})
      BY <3>4, SeqOfOwn
    <3>6. ASSUME NEW j \in DOMAIN attempts'
          PROVE  (j \in DOMAIN attempts /\ attempts'[j] = attempts[j]) \/ attempts'[j] = first
      BY <3>4
    <3>7. AttemptShapes'
      BY <1>2, <3>2, <3>5, <3>6 DEF AttemptShapes
    <3>8. AttemptsComplete'
      BY <1>1, <1>2, <3>2, <3>6, CompleteStays DEF AttemptsComplete
    <3> QED  BY <3>7, <3>8
  <2> QED  BY <2>2, <2>3, <2>4
<1> QED  BY <1>1, <1>2, <1>3, <1>4, <1>5, AttemptsMove

(* The bill is written by an attempt that has read.                             *)
LEMMA FinalizeWritesStep ==
  ASSUME BillInv, FinalizeWrites
  PROVE  BillInv'
<1>1. PICK i \in DOMAIN attempts :
        /\ At(i, "write")
        /\ db' = [db EXCEPT !.final =
                    [status  |-> IF wf.ready THEN "FINALIZED" ELSE Policy,
                     total   |-> attempts[i].fee + attempts[i].cost,
                     counted |-> attempts[i].counted]]
        /\ attempts' = [attempts EXCEPT ![i].at = "answer"]
  BY DEF FinalizeWrites
<1>2. UNCHANGED <<plan, position, wf>>
  BY DEF FinalizeWrites
<1>3. IsWf(wf) /\ AttemptShapes /\ AttemptsComplete /\ IsDb(db)
  BY DEF BillInv, Shapes, Places
<1>4. /\ IsDb(db') /\ db'.keys = db.keys /\ db'.records = db.records
      /\ db'.manifest = db.manifest
      /\ db'.final.status = IF wf.ready THEN "FINALIZED" ELSE Policy
      /\ db'.final.counted = attempts[i].counted
  BY <1>1, <1>3 DEF IsDb, DbFields
<1>5. /\ Places' /\ RecordedBehind' /\ KeysBehind'
      /\ BarrierBehind <=> BarrierBehind'
  BY <1>2, <1>4, RowsStay DEF BillInv
<1>6. ManifestBehind'
  BY <1>2, <1>4, <1>5 DEF BillInv, ManifestBehind
<1>7. wf.ready => Complete(attempts[i].counted)
  BY <1>1, <1>3 DEF AttemptsComplete, At
<1>8. ReadyIsComplete'
  <2>1. db'.final.status = "FINALIZED" => wf.ready
    BY <1>4 DEF Policy
  <2>2. db'.final.status = "FINALIZED" => Complete(db'.final.counted)
    BY <1>4, <1>7, <2>1
  <2> QED  BY <1>2, <2>2 DEF ReadyIsComplete, Complete, Measured, UsageLog
<1> DEFINE a == [attempts[i] EXCEPT !.at = "answer"]
           S == {attempts[j] : j \in DOMAIN attempts}
<1>9. attempts' = [attempts EXCEPT ![i] = a]
  BY <1>1
<1>10. IsAttempt(attempts[i])
  BY <1>3 DEF AttemptShapes
<1>11. IsAttempt(a) /\ a.counted = attempts[i].counted
  BY <1>10 DEF IsAttempt
<1> HIDE DEF a
<1>12. attempts \in Seq(S \cup {a})
  BY <1>3 DEF AttemptShapes
<1>13. attempts' \in Seq(S \cup {a})
  BY <1>9, <1>12
<1>14. attempts' \in Seq({attempts'[j] : j \in DOMAIN attempts'})
  BY <1>13, SeqOfOwn
<1>15. DOMAIN attempts' = DOMAIN attempts
       /\ \A j \in DOMAIN attempts : attempts'[j] = IF j = i THEN a ELSE attempts[j]
  BY <1>9
<1>16. AttemptShapes'
  BY <1>3, <1>11, <1>14, <1>15 DEF AttemptShapes
<1>17. AttemptsComplete'
  BY <1>2, <1>3, <1>7, <1>11, <1>15, CompleteStays DEF AttemptsComplete
<1>18. Shapes'
  BY <1>2, <1>3, <1>16 DEF Shapes
<1> QED  BY <1>5, <1>6, <1>8, <1>17, <1>18 DEF BillInv
--------------------------------------------------------------------------------
(* The next record of a log has as many measurements as its type asks for.      *)
LEMMA RowMeasures ==
  ASSUME Places, NEW t \in DOMAIN Log, position[t] < Len(Log[t])
  PROVE  LET e == Log[t][position[t] + 1]
         IN  \E n \in Nat : (IsUsage(e) => DOMAIN e.measurements = 1..n) /\ (IsMeasured(e) => n > 0)
<1> DEFINE e == Log[t][position[t] + 1]
<1>1. CASE t = "usage-events"
  <2>1. Log[t] = UsageLog /\ position[t] + 1 \in 1..Len(UsageLog)
    BY <1>1, LogFacts DEF Log, Places
  <2>2. /\ e.measurements \in Seq([type : DOMAIN UnitPrice, qty : Nat])
        /\ IsBarrier(e) \/ e.measurements # <<>>
    BY <2>1, LogFacts
  <2> HIDE DEF e
  <2> DEFINE ms == e.measurements
  <2>3. ms \in Seq([type : DOMAIN UnitPrice, qty : Nat])
    BY <2>2
  <2> HIDE DEF ms
  <2>4. Len(ms) \in Nat /\ DOMAIN ms = 1..Len(ms) /\ (ms # <<>> => Len(ms) > 0)
    BY <2>3
  <2>5. \E n \in Nat : (IsUsage(e) => DOMAIN e.measurements = 1..n) /\ (IsMeasured(e) => n > 0)
    BY <2>2, <2>4 DEF IsMeasured, ms
  <2> QED  BY <2>5 DEF e
<1>2. CASE t # "usage-events"
  <2>1. t = "call-events"
    BY <1>2 DEF Log
  <2>2. Log[t] = CallLog /\ position[t] + 1 \in 1..Len(CallLog)
    BY <2>1, LogFacts DEF Log, Places
  <2>3. ~IsUsage(e)
    BY <2>2, LogFacts
  <2> QED  BY <2>3 DEF IsMeasured
<1> QED  BY <1>1, <1>2

(* A record of one of the logs is projected.                                    *)
LEMMA ProjectRow ==
  ASSUME Places, NEW t \in DOMAIN Log, position[t] < Len(Log[t])
  PROVE  LET e == Log[t][position[t] + 1]
         IN  Projects(db, e, ProjectBatch(db, <<[topic |-> t, offset |-> position[t], event |-> e]>>).db)
<1> DEFINE e == Log[t][position[t] + 1]
           item == [topic |-> t, offset |-> position[t], event |-> e]
<1>1. \E n \in Nat : (IsUsage(e) => DOMAIN e.measurements = 1..n) /\ (IsMeasured(e) => n > 0)
  BY RowMeasures
<1>2. PICK n \in Nat : (IsUsage(e) => DOMAIN e.measurements = 1..n) /\ (IsMeasured(e) => n > 0)
  BY <1>1
<1>3. IsDb(db)
  BY DEF Places
<1> HIDE DEF e
<1>4. Projects(db, e, ProjectOne(db, e, position[t]))
  BY <1>2, <1>3, OneProjects
<1>5. item.event = e /\ item.offset = position[t]
  OBVIOUS
<1> HIDE DEF item
<1>6. Projects(db, e, ProjectBatch(db, <<item>>).db)
  BY <1>4, <1>5, BatchProjects
<1> QED  BY <1>6 DEF item, e

(* The projector takes a step.                                                  *)
LEMMA ProjectStep ==
  ASSUME BillInv, Project
  PROVE  BillInv'
<1>1. PICK t \in DOMAIN Log :
        /\ position[t] < Len(Log[t])
        /\ db' = ProjectBatch(db, <<[topic |-> t, offset |-> position[t],
                                     event |-> Log[t][position[t] + 1]]>>).db
        /\ position' = [position EXCEPT ![t] = @ + 1]
  BY DEF Project
<1>2. UNCHANGED <<plan, wf, attempts>>
  BY DEF Project
<1>3. Places /\ Shapes /\ AttemptsComplete
  BY DEF BillInv
<1> DEFINE e == Log[t][position[t] + 1]
<1>4. Projects(db, e, db')
  BY <1>1, <1>3, ProjectRow
<1> HIDE DEF e
<1>5. UsageLog' = UsageLog /\ CallLog' = CallLog /\ Measured' = Measured
  BY <1>2 DEF UsageLog, CallLog, Measured
<1>6. t \in {"usage-events", "call-events"}
  BY DEF Log
<1> DEFINE u == position["usage-events"]
           c == position["call-events"]
<1>7. u \in Nat /\ c \in Nat /\ u <= Len(UsageLog) /\ c <= Len(CallLog)
  BY <1>3, LogFacts DEF Places
<1>8. /\ position' = [s \in {"usage-events", "call-events"} |-> position'[s]]
      /\ \A s \in {"usage-events", "call-events"} :
           position'[s] = IF s = t THEN position[s] + 1 ELSE position[s]
  BY <1>1, <1>3, <1>6 DEF Places
<1>9. \/ t = "usage-events" /\ u < Len(UsageLog) /\ e = UsageLog[u + 1] /\ u' = u + 1 /\ c' = c
      \/ t = "call-events" /\ c < Len(CallLog) /\ e = CallLog[c + 1] /\ c' = c + 1 /\ u' = u
  <2>1. CASE t = "usage-events"
    BY <1>1, <1>8, <2>1 DEF Log, e
  <2>2. CASE t = "call-events"
    BY <1>1, <1>8, <2>2 DEF Log, e
  <2> QED  BY <1>6, <2>1, <2>2
<1>10. Places'
  <2>1. plan' \in Plans /\ IsDb(db')
    BY <1>2, <1>3, <1>4 DEF Places, Projects
  <2>2. u' \in 0..Len(UsageLog) /\ c' \in 0..Len(CallLog)
    BY <1>3, <1>7, <1>9, LogFacts
  <2> QED  BY <1>5, <1>8, <2>1, <2>2 DEF Places
<1> HIDE DEF u, c
<1>11. u' \in Nat /\ c' \in Nat /\ u' >= u /\ c' >= c /\ u' <= Len(UsageLog)
  BY <1>3, <1>7, <1>9, LogFacts
<1>12. \A i : Behind(i) <=> i \in 1..u
  BY DEF Behind, u
<1>13. \A i : Behind(i)' <=> i \in 1..u'
  BY DEF Behind, u
<1>14. RecordedBehind'
  <2>1. SUFFICES ASSUME NEW i \in Measured, i \in 1..u'
                 PROVE  Recorded(db', UsageLog[i].id)
    BY <1>5, <1>13 DEF RecordedBehind, Recorded
  <2>2. CASE i \in 1..u
    <3>1. Recorded(db, UsageLog[i].id)
      BY <1>12, <2>2 DEF BillInv, RecordedBehind
    <3> QED  BY <1>4, <3>1 DEF Projects, Recorded
  <2>3. CASE i \notin 1..u
    <3>1. i = u + 1 /\ e = UsageLog[i] /\ u < Len(UsageLog)
      BY <1>7, <1>9, <2>1, <2>3
    <3>2. IsMeasured(e)
      BY <2>1, <3>1 DEF Measured
    <3>3. CASE ~IsDuplicate(db, e)
      BY <1>4, <3>1, <3>2, <3>3 DEF Projects
    <3>4. CASE IsDuplicate(db, e)
      <4>1. \/ \E j \in 1..u : e.key = UsageLog[j].key
            \/ \E j \in 1..c : e.key = CallLog[j].key
        BY <3>4 DEF IsDuplicate, BillInv, KeysBehind, u, c
      <4>2. \A j \in 1..c : j \in 1..Len(CallLog) /\ e.key # CallLog[j].key
        <5>1. i \in 1..Len(UsageLog)
          BY <1>3, <1>7, <3>1, LogFacts
        <5>2. \A j \in 1..c : j \in 1..Len(CallLog)
          BY <1>3, <1>7, LogFacts
        <5> QED  BY <1>3, <3>1, <5>1, <5>2, LogFacts
      <4>3. PICK j \in 1..u : e.key = UsageLog[j].key
        BY <4>1, <4>2
      <4>4. j \in 1..Len(UsageLog) /\ i \in 1..Len(UsageLog)
        BY <1>3, <1>7, <3>1, LogFacts
      <4>5. UsageLog[j] = UsageLog[i]
        BY <1>3, <3>1, <4>3, <4>4, LogFacts
      <4>6. j \in Measured
        BY <1>3, <2>1, <4>4, <4>5, LogFacts DEF Measured
      <4>7. Recorded(db, UsageLog[j].id)
        BY <1>12, <4>6 DEF BillInv, RecordedBehind
      <4> QED  BY <1>4, <4>5, <4>7 DEF Projects, Recorded
    <3> QED  BY <3>3, <3>4
  <2> QED  BY <2>2, <2>3
<1>15. KeysBehind'
  <2>1. SUFFICES ASSUME NEW k \in db'.keys
                 PROVE  \/ \E i \in 1..u' : k = UsageLog[i].key
                        \/ \E i \in 1..c' : k = CallLog[i].key
    BY <1>5 DEF KeysBehind, u, c
  <2>2. CASE k \in db.keys
    <3>1. \/ \E i \in 1..u : k = UsageLog[i].key
          \/ \E i \in 1..c : k = CallLog[i].key
      BY <2>2 DEF BillInv, KeysBehind, u, c
    <3>2. 1..u \subseteq 1..u' /\ 1..c \subseteq 1..c'
      BY <1>7, <1>11
    <3> QED  BY <3>1, <3>2
  <2>3. CASE k = e.key
    BY <1>7, <1>9, <2>3
  <2>4. k \in db.keys \/ k = e.key
    BY <1>4, <2>1 DEF Projects
  <2> QED  BY <2>2, <2>3, <2>4
<1>16. ManifestBehind'
  <2>1. BarrierBehind => BarrierBehind'
    <3>1. 1..u \subseteq 1..u'
      BY <1>7, <1>11
    <3> QED  BY <1>5, <1>12, <1>13, <3>1 DEF BarrierBehind
  <2>2. IsBarrier(e) => BarrierBehind'
    <3>1. SUFFICES ASSUME IsBarrier(e) PROVE BarrierBehind'
      OBVIOUS
    <3>2. CASE t = "usage-events"
      <4>1. u + 1 \in 1..Len(UsageLog) /\ e = UsageLog[u + 1] /\ u + 1 \in 1..u'
        BY <1>7, <1>9, <3>2
      <4>2. u + 1 \in DOMAIN UsageLog
        BY <1>3, <4>1, LogFacts
      <4> QED  BY <1>5, <1>13, <3>1, <4>1, <4>2 DEF BarrierBehind
    <3>3. CASE t = "call-events"
      <4>1. c + 1 \in 1..Len(CallLog) /\ e = CallLog[c + 1]
        BY <1>7, <1>9, <3>3
      <4>2. ~IsUsage(e)
        BY <1>3, <4>1, LogFacts
      <4> QED  BY <3>1, <4>2 DEF IsUsage, IsBarrier
    <3> QED  BY <1>6, <3>2, <3>3
  <2>3. db'.manifest = db.manifest \/ IsBarrier(e)
    BY <1>4 DEF Projects
  <2> QED  BY <1>2, <2>1, <2>2, <2>3 DEF BillInv, ManifestBehind
<1>17. AttemptsComplete'
  BY <1>2, <1>3, CompleteStays DEF AttemptsComplete
<1>18. ReadyIsComplete'
  <2>1. db'.final = db.final
    BY <1>4 DEF Projects
  <2> QED  BY <1>5, <2>1 DEF BillInv, ReadyIsComplete, Complete
<1>19. Shapes'
  BY <1>2, <1>3 DEF Shapes, AttemptShapes
<1> QED  BY <1>10, <1>14, <1>15, <1>16, <1>17, <1>18, <1>19 DEF BillInv

--------------------------------------------------------------------------------
(* Nothing is projected, read or billed at first.                               *)
LEMMA BillInit == Init => BillInv
<1>1. SUFFICES ASSUME Init PROVE BillInv
  OBVIOUS
<1>2. plan \in Plans /\ db = EmptyDb /\ attempts = <<>>
      /\ position = [t \in {"usage-events", "call-events"} |-> 0]
  BY <1>1 DEF Init, Log
<1>3. wf = [at |-> "absent", manifest |-> NoManifest, caughtUp |-> FALSE, missing |-> {},
            elapsed |-> 0, updates |-> 0, observed |-> 0, ready |-> FALSE]
  BY <1>1 DEF Init
<1>4. /\ IsDb(db) /\ db.keys = {} /\ db.manifest = NoManifest /\ db.final = NoFinal
  BY <1>2 DEF EmptyDb, IsDb, DbFields
<1>5. /\ position = [t \in {"usage-events", "call-events"} |-> position[t]]
      /\ position["usage-events"] = 0 /\ position["call-events"] = 0
  BY <1>2
<1>6. Len(UsageLog) \in Nat /\ Len(CallLog) \in Nat
  BY <1>2, PlansAssumption DEF UsageLog, CallLog
<1>7. Places
  BY <1>2, <1>4, <1>5, <1>6 DEF Places
<1>8. RecordedBehind
  BY <1>5 DEF RecordedBehind, Behind
<1>9. KeysBehind
  BY <1>4 DEF KeysBehind
<1>10. ManifestBehind
  BY <1>3, <1>4 DEF ManifestBehind
<1>11. Shapes
  <2>1. IsWf(wf)
    BY <1>3 DEF IsWf, WfFields
  <2>2. AttemptShapes
    BY <1>2 DEF AttemptShapes
  <2> QED  BY <2>1, <2>2 DEF Shapes
<1>12. AttemptsComplete
  BY <1>2 DEF AttemptsComplete
<1>13. ReadyIsComplete
  BY <1>4 DEF ReadyIsComplete, NoFinal
<1> QED  BY <1>7, <1>8, <1>9, <1>10, <1>11, <1>12, <1>13 DEF BillInv

(* Every step keeps the invariant.                                              *)
LEMMA BillNext == BillInv /\ [Next]_vars => BillInv'
<1>1. SUFFICES ASSUME BillInv, [Next]_vars PROVE BillInv'
  OBVIOUS
<1>2. CASE Worker
  BY <1>1, <1>2, ProjectStep, ReadsStep DEF Worker
<1>3. CASE Finalization
  BY <1>1, <1>3, ReadsStep, DecideStep, FinalizeReadsStep, FinalizeWritesStep, WritesStep
     DEF Finalization
<1>4. CASE Adjustment \/ AdjustRetried
  BY <1>1, <1>4, WritesStep DEF Adjustment
<1>5. CASE FinalizeRetried
  BY <1>1, <1>5, FinalizeReadsStep
<1>6. CASE UNCHANGED vars
  <2>1. UNCHANGED <<plan, position, attempts, db, wf>>
    BY <1>6 DEF vars
  <2>2. Shapes'
    BY <1>1, <2>1 DEF BillInv, Shapes, AttemptShapes
  <2>3. IsDb(db')
    BY <1>1, <2>1 DEF BillInv, Places
  <2> QED  BY <1>1, <2>1, <2>2, <2>3, OthersStay
<1> QED  BY <1>1, <1>2, <1>3, <1>4, <1>5, <1>6 DEF Next

(* The invariant of the bill.                                                   *)
THEOREM BillInvariant == Spec => []BillInv
<1> QED  BY BillInit, BillNext, PTL DEF Spec

(* A bill that calls itself FINALIZED counts every usage event the session      *)
(* published before its barrier: finalize_call_billing writes the status from a *)
(* readiness that was found several statements and any number of attempts ago.  *)
THEOREM FinalizedIsComplete == Spec => []ReadyIsComplete
<1>1. BillInv => ReadyIsComplete
  BY DEF BillInv
<1> QED  BY <1>1, BillInvariant, PTL

--------------------------------------------------------------------------------
(* The ledgers. The sums of call_billing are over the records that are there.   *)
EventIds(rows) == {r.event : r \in rows}

Totals(d) ==
  /\ d.billing.cost = TotalCost(d.records)
  /\ d.billing.fee = d.billing.duration * PlatformRate
  /\ d.billing.total = d.billing.fee + d.billing.cost

(* A record is of a usage event whose key is remembered, so no new event adds   *)
(* records under an old id.                                                     *)
RecordsKeyed ==
  \A r \in db.records : \E i \in Measured :
    UsageLog[i].id = r.event /\ UsageLog[i].key \in db.keys

(* Records once read, by the events they were of and what they cost: unless     *)
(* others have come since, that is still what the records cost.                 *)
Snapshot(counted, cost) ==
  /\ counted \subseteq EventIds(db.records)
  /\ counted = EventIds(db.records) => cost = ProviderCents(db.records)

(* The row of the call has the column that says when it ended.                  *)
IsCall(d) == "ended" \in DOMAIN d.call

(* The end of the call, once projected, has set its duration for good.          *)
EndKeyed ==
  \E j \in 1..Len(CallLog) : CallLog[j].type = "call.ended" /\ CallLog[j].key \in db.keys

AttemptsAgree ==
  \A i \in DOMAIN attempts :
    /\ attempts[i].at # "usage" => Snapshot(attempts[i].counted, attempts[i].cost)
    /\ attempts[i].at \in {"write", "answer"} =>
         attempts[i].fee = PlatformCents
    /\ attempts[i].at = "answer" => db.final # NoFinal

FinalAgrees ==
  db.final # NoFinal =>
    /\ attempts # <<>>
    /\ \E cost : /\ Snapshot(db.final.counted, cost)
                 /\ db.final.total = PlatformCents + cost

(* What the worker still has to do of the last batch: a workflow starts when the*)
(* end of the call is there, an adjustment when the final bill is.              *)
Meant(c) ==
  /\ c.kind = "start" => EndKeyed
  /\ c.kind = "adjust" => db.final # NoFinal

TodoTells == \E S : todo \in Seq(S) /\ \A c \in S : Meant(c)

(* The workflow, as far as the ledgers and its types need it.                   *)
Course ==
  /\ wf.at # "absent" => EndKeyed
  /\ wf.at \notin {"finalizing", "emitting", "done"} => wf.elapsed <= WaitTimeout
  /\ wf.updates \in Nat

LedgerInv ==
  /\ TypeOK
  /\ Totals(db)
  /\ IsCall(db)
  /\ RecordsKeyed
  /\ AttemptsAgree /\ FinalAgrees
  /\ TodoTells
  /\ Course

--------------------------------------------------------------------------------
(* What a transaction does to the sums. The statement that recomputes a bill    *)
(* leaves it right if the fee is that of the duration.                          *)
LEMMA BillingSums ==
  ASSUME NEW d, IsDb(d), d.billing.fee = d.billing.duration * PlatformRate,
         NEW durations, NEW finalized
  PROVE  LET n == UpdateCallBilling(d, durations, finalized)
         IN  /\ n.records = d.records /\ n.call = d.call /\ Totals(n)
             /\ durations = {} => n.billing.duration = d.billing.duration
<1> DEFINE n == UpdateCallBilling(d, durations, finalized)
           old == d.billing
           duration == IF durations = {} THEN old.duration ELSE CHOOSE x \in durations : TRUE
           fee == IF durations = {} THEN old.fee
                  ELSE (CHOOSE x \in durations : TRUE) * PlatformRate
           cost == TotalCost(d.records)
<1>1. /\ n.records = d.records /\ n.call = d.call
      /\ n.billing = [exists |-> TRUE, duration |-> duration, fee |-> fee, cost |-> cost,
                      total |-> fee + cost,
                      status |-> IF finalized THEN "FINALIZED" ELSE old.status]
  BY DEF UpdateCallBilling, IsDb, DbFields
<1>2. fee = duration * PlatformRate
  OBVIOUS
<1> HIDE DEF n, fee, cost
<1>3. /\ n.billing.duration = duration /\ n.billing.fee = fee /\ n.billing.cost = cost
      /\ n.billing.total = fee + cost
  BY <1>1
<1>4. Totals(n)
  BY <1>1, <1>2, <1>3 DEF Totals, cost
<1> QED  BY <1>1, <1>3, <1>4 DEF n

(* The bill, the records and the row of the call are as they were.              *)
Unbilled(d, n) == n.records = d.records /\ n.billing = d.billing /\ n.call = d.call

(* What the row of the call brings: only an end of the call sets the duration   *)
(* and the time of the end.                                                     *)
Sums(d, e, n) ==
  /\ n.records = d.records /\ Totals(n) /\ IsCall(n)
  /\ \/ n.billing.duration = d.billing.duration /\ n.call.ended = d.call.ended
     \/ IsEnd(e)

(* A statement about the row of the call alone.                                 *)
LEMMA RowSums ==
  ASSUME NEW d, Totals(d), NEW e, NEW n, n.records = d.records, n.billing = d.billing,
         IsCall(n), n.call.ended = d.call.ended \/ IsEnd(e)
  PROVE  Sums(d, e, n)
<1> QED  BY DEF Sums, Totals

(* The row of the call.                                                         *)
LEMMA CallSums ==
  ASSUME NEW d, IsDb(d), Totals(d), IsCall(d), NEW e
  PROVE  Sums(d, e, ProjectCall(d, e))
<1>1. Sums(d, e, d)
  BY RowSums
<1>2. ASSUME NEW n, NEW row, n = [d EXCEPT !.call = row], "ended" \in DOMAIN row,
             row.ended = d.call.ended \/ IsEnd(e)
      PROVE  IsDb(n) /\ Sums(d, e, n)
  <2>1. /\ IsDb(n) /\ n.records = d.records /\ n.billing = d.billing /\ n.call = row
    BY <1>2 DEF IsDb, DbFields
  <2>2. IsCall(n)
    BY <1>2, <2>1 DEF IsCall
  <2> QED  BY <1>2, <2>1, <2>2, RowSums
<1>3. Sums(d, e, ProjectStarted(d, e))
  <2> DEFINE n == ProjectStarted(d, e)
  <2>1. n.records = d.records /\ n.billing = d.billing
    BY DEF ProjectStarted, IsDb, DbFields
  <2>2. "ended" \in DOMAIN n.call /\ n.call.ended = d.call.ended
    BY DEF ProjectStarted, IsDb, DbFields, IsCall
  <2> HIDE DEF n
  <2> QED  BY <2>1, <2>2, RowSums DEF IsCall, n
<1>4. Sums(d, e, ProjectProgress(d, e))
  <2> DEFINE n == ProjectProgress(d, e)
  <2>1. n.records = d.records /\ n.billing = d.billing
    BY DEF ProjectProgress, IsDb, DbFields
  <2>2. "ended" \in DOMAIN n.call /\ n.call.ended = d.call.ended
    BY DEF ProjectProgress, IsDb, DbFields, IsCall
  <2> HIDE DEF n
  <2> QED  BY <2>1, <2>2, RowSums DEF IsCall, n
<1>5. ASSUME NEW c, IsDb(c), Sums(d, e, c), NEW durations, NEW finalized, IsEnd(e)
      PROVE  Sums(d, e, UpdateCallBilling(c, durations, finalized))
  <2>1. c.billing.fee = c.billing.duration * PlatformRate
    BY <1>5 DEF Sums, Totals
  <2>2. /\ UpdateCallBilling(c, durations, finalized).records = c.records
        /\ UpdateCallBilling(c, durations, finalized).call = c.call
        /\ Totals(UpdateCallBilling(c, durations, finalized))
    BY <1>5, <2>1, BillingSums
  <2> QED  BY <1>5, <2>2 DEF Sums, IsCall
<1>6. e.type = "call.ended" => Sums(d, e, ProjectEnded(d, e))
  <2>1. SUFFICES ASSUME e.type = "call.ended" PROVE Sums(d, e, ProjectEnded(d, e))
    OBVIOUS
  <2> DEFINE row == [d.call EXCEPT !.status = "CALL_COMPLETED", !.stage = e.stage, !.ended = TRUE]
             c == [d EXCEPT !.call = row]
  <2>2. "ended" \in DOMAIN row
    BY DEF IsCall
  <2>3. IsEnd(e)
    BY <2>1 DEF IsEnd
  <2>4. ProjectEnded(d, e) = d \/ ProjectEnded(d, e) = UpdateCallBilling(c, {e.duration}, TRUE)
    BY DEF ProjectEnded
  <2> HIDE DEF row
  <2>5. IsDb(c) /\ Sums(d, e, c)
    BY <1>2, <2>2, <2>3
  <2> HIDE DEF c
  <2>6. Sums(d, e, UpdateCallBilling(c, {e.duration}, TRUE))
    BY <1>5, <2>3, <2>5
  <2> QED  BY <1>1, <2>4, <2>6
<1>7. e.type = "call.failed" => Sums(d, e, ProjectFailed(d, e))
  <2>1. SUFFICES ASSUME e.type = "call.failed" PROVE Sums(d, e, ProjectFailed(d, e))
    OBVIOUS
  <2> DEFINE row == [d.call EXCEPT !.status = "CALL_FAILED", !.stage = e.stage, !.ended = TRUE]
             c == IF d.call.status = "absent" THEN d ELSE [d EXCEPT !.call = row]
  <2>2. "ended" \in DOMAIN row
    BY DEF IsCall
  <2>3. IsEnd(e)
    BY <2>1 DEF IsEnd
  <2>4. ProjectFailed(d, e) = UpdateCallBilling(c, {}, TRUE)
    BY DEF ProjectFailed
  <2> HIDE DEF row
  <2>5. IsDb(c) /\ Sums(d, e, c)
    BY <1>1, <1>2, <2>2, <2>3
  <2> HIDE DEF c
  <2>6. Sums(d, e, UpdateCallBilling(c, {}, TRUE))
    BY <1>5, <2>3, <2>5
  <2> QED  BY <2>4, <2>6
<1> QED  BY <1>1, <1>3, <1>4, <1>6, <1>7 DEF ProjectCall

(* The records that are new are of the event.                                   *)
Adds(d, e, n) ==
  /\ n.billing = d.billing /\ n.call = d.call
  /\ \A r \in n.records : r \in d.records \/ r.event = e.id

(* One measurement adds its record to no bill yet.                              *)
LEMMA MeasurementAdds ==
  ASSUME NEW d, IsDb(d), NEW e, NEW m
  PROVE  Adds(d, e, RecordMeasurement(d, e, m))
<1> DEFINE n == RecordMeasurement(d, e, m)
           fresh == \A r \in d.records : <<r.event, r.type>> # <<e.id, m.type>>
           row == [event |-> e.id, type |-> m.type, stage |-> e.stage,
                   qty |-> m.qty, cost |-> m.qty * UnitPrice[m.type]]
<1>1. /\ n.billing = d.billing /\ n.call = d.call
      /\ n.records = IF fresh THEN d.records \cup {row} ELSE d.records
  BY DEF RecordMeasurement, IsDb, DbFields
<1>2. row.event = e.id
  OBVIOUS
<1> HIDE DEF n, row
<1> QED  BY <1>1, <1>2 DEF Adds, n

(* All of them do.                                                              *)
LEMMA LoopAdds ==
  ASSUME NEW rows, IsDb(rows), NEW e, NEW n \in Nat, DOMAIN e.measurements = 1..n
  PROVE  Adds(rows, e,
              FoldLeft(LAMBDA d, m : RecordMeasurement(d, e, m), rows, e.measurements))
<1> DEFINE f == RecordLoop(rows, e)
           Good(k) == Keeps(rows, f[1..k]) /\ Adds(rows, e, f[1..k])
           S == {k \in Nat : k <= n => Good(k)}
<1> HIDE DEF f
<1>1. 0 \in S
  <2>1. f[1..0] = rows
    BY RecordUnfold DEF f
  <2> QED  BY <2>1 DEF Keeps, Adds
<1>2. ASSUME NEW k \in Nat, k \in S PROVE k + 1 \in S
  <2>1. SUFFICES ASSUME k + 1 <= n PROVE Good(k + 1)
    OBVIOUS
  <2>2. k \in 0..(n - 1) /\ k <= n
    BY <2>1
  <2>3. f[1..(k + 1)] = RecordMeasurement(f[1..k], e, e.measurements[k + 1])
    BY <2>2, RecordUnfold DEF f
  <2>4. Keeps(rows, f[1..k]) /\ Adds(rows, e, f[1..k])
    BY <1>2, <2>2
  <2>5. IsDb(f[1..k])
    BY <2>4 DEF Keeps
  <2>6. Keeps(f[1..k], f[1..(k + 1)]) /\ Adds(f[1..k], e, f[1..(k + 1)])
    BY <2>3, <2>5, RecordKeeps, MeasurementAdds
  <2>7. Keeps(rows, f[1..(k + 1)])
    BY <2>4, <2>6, KeepsOn
  <2> QED  BY <2>4, <2>6, <2>7 DEF Adds
<1>3. Good(n)
  <2> HIDE DEF Good
  <2>1. \A k \in Nat : k \in S
    BY <1>1, <1>2, NatSetInduction
  <2> QED  BY <2>1
<1>4. FoldLeft(LAMBDA d, m : RecordMeasurement(d, e, m), rows, e.measurements) = f[1..n]
  BY FoldIsRecordLoop DEF f
<1> QED  BY <1>3, <1>4

(* What an event does to the bill and the records: the sums are right behind it,*)
(* a duration and a time of the end come with the end of a call, records with   *)
(* usage, and neither with a duplicate.                                         *)
Pays(d, e, n) ==
  /\ Totals(n) /\ IsCall(n)
  /\ \/ n.billing.duration = d.billing.duration /\ n.call.ended = d.call.ended
     \/ IsEnd(e) /\ ~IsDuplicate(d, e)
  /\ \A r \in n.records : r \in d.records \/ (r.event = e.id /\ IsMeasured(e) /\ ~IsDuplicate(d, e))
  /\ n.keys = d.keys \cup {e.key}

(* Every event pays so.                                                         *)
LEMMA OnePays ==
  ASSUME NEW d, IsDb(d), Totals(d), IsCall(d), NEW e, NEW offset,
         NEW n \in Nat, IsUsage(e) => DOMAIN e.measurements = 1..n
  PROVE  Pays(d, e, ProjectOne(d, e, offset))
<1>1. CASE IsDuplicate(d, e)
  BY <1>1 DEF ProjectOne, Pays, IsDuplicate
<1>2. CASE ~IsDuplicate(d, e)
  <2> DEFINE keyed == [d EXCEPT !.keys = @ \cup {e.key}, !.timeline = @ \cup {e.id}]
             c == ProjectCall(keyed, e)
             p == ProjectMetric(c, e)
             u == ProjectUsage(p, e, offset)
  <2>1. IsDb(keyed) /\ keyed.keys = d.keys \cup {e.key} /\ Unbilled(d, keyed)
    BY DEF IsDb, DbFields, Unbilled
  <2> HIDE DEF keyed
  <2>2. Totals(keyed) /\ IsCall(keyed)
    BY <2>1 DEF Totals, Unbilled, IsCall
  <2>3. Keeps(keyed, c) /\ Sums(keyed, e, c)
    BY <2>1, <2>2, CallKeeps, CallSums
  <2> HIDE DEF c
  <2>4. Keeps(c, p) /\ Unbilled(c, p)
    <3>1. IsDb(c)
      BY <2>3 DEF Keeps
    <3>2. Unbilled(c, p)
      BY <3>1 DEF ProjectMetric, IsDb, DbFields, Unbilled
    <3> QED  BY <3>1, <3>2, MetricKeeps
  <2> HIDE DEF p
  <2>5. /\ IsDb(p) /\ p.keys = d.keys \cup {e.key} /\ p.records = d.records
        /\ Totals(p) /\ IsCall(p)
        /\ \/ p.billing.duration = d.billing.duration /\ p.call.ended = d.call.ended
           \/ IsEnd(e)
    BY <2>1, <2>3, <2>4 DEF Keeps, Unbilled, Totals, Sums, IsCall
  <2>6. CASE ~IsUsage(e)
    <3>1. u = p
      BY <2>6 DEF ProjectUsage, IsUsage, IsBarrier
    <3> QED  BY <1>2, <2>5, <3>1 DEF ProjectOne, Pays, keyed, c, p
  <2>7. CASE IsUsage(e) /\ IsBarrier(e)
    <3>1. u = ProjectManifest(p, e, offset)
      BY <2>7 DEF ProjectUsage
    <3>2. u.keys = p.keys /\ Unbilled(p, u)
      BY <2>5, <3>1 DEF ProjectManifest, IsDb, DbFields, Unbilled
    <3> HIDE DEF u
    <3>3. Pays(d, e, u)
      BY <1>2, <2>5, <3>2 DEF Pays, Unbilled, Totals, IsCall
    <3> QED  BY <1>2, <3>3 DEF ProjectOne, keyed, c, p, u
  <2>8. CASE IsUsage(e) /\ ~IsBarrier(e)
    <3> DEFINE r == FoldLeft(LAMBDA q, m : RecordMeasurement(q, e, m), p, e.measurements)
               b == UpdateCallBilling(r, {}, FALSE)
    <3>1. u = EnqueueBillingEvent(b, e)
      BY <2>8 DEF ProjectUsage, ProjectMeasurements
    <3>2. Keeps(p, r) /\ Adds(p, e, r)
      BY <2>5, <2>8, LoopKeeps, LoopAdds
    <3> HIDE DEF r
    <3>3. IsDb(r) /\ r.billing.fee = r.billing.duration * PlatformRate
      BY <2>5, <3>2 DEF Keeps, Adds, Totals
    <3>4. /\ Keeps(r, b) /\ b.records = r.records /\ b.call = r.call /\ Totals(b)
          /\ b.billing.duration = r.billing.duration
      BY <3>3, BillingKeeps, BillingSums
    <3> HIDE DEF b
    <3>5. Keeps(b, u) /\ Unbilled(b, u)
      <4>1. IsDb(b)
        BY <3>4 DEF Keeps
      <4>2. Unbilled(b, u)
        BY <3>1, <4>1 DEF EnqueueBillingEvent, IsDb, DbFields, Unbilled
      <4> QED  BY <3>1, <4>1, <4>2, EnqueueKeeps
    <3> HIDE DEF u
    <3>6. u.keys = d.keys \cup {e.key} /\ Totals(u) /\ u.records = r.records
          /\ u.billing.duration = p.billing.duration /\ u.call = p.call
      BY <2>5, <3>2, <3>4, <3>5 DEF Keeps, Adds, Unbilled, Totals
    <3>7. \A x \in u.records : x \in d.records \/ x.event = e.id
      BY <2>5, <3>2, <3>6 DEF Adds
    <3>8. Pays(d, e, u)
      BY <1>2, <2>5, <2>8, <3>6, <3>7 DEF Pays, IsMeasured, IsCall
    <3> QED  BY <1>2, <3>8 DEF ProjectOne, keyed, c, p, u
  <2> QED  BY <2>6, <2>7, <2>8
<1> QED  BY <1>1, <1>2

(* A flattened sequence of one sequence is that sequence.                       *)
LEMMA FlattenOne ==
  ASSUME NEW s
  PROVE  FlattenSeq(<<s>>) = s
<1> DEFINE seqs == <<s>>
           Step(g, i) == IF i = 1 THEN seqs[i] ELSE g[i - 1] \o seqs[i]
           f == CHOOSE g : g = [i \in 1..Len(seqs) |-> Step(g, i)]
           g0 == [i \in 1..1 |-> s]
<1>1. FlattenSeq(seqs) = f[1]
  BY DEF FlattenSeq
<1>2. seqs[1] = s /\ 1..Len(seqs) = {1} /\ 1..1 = {1}
  OBVIOUS
<1>3. g0 = [i \in 1..Len(seqs) |-> Step(g0, i)]
  BY <1>2
<1>4. f = [i \in 1..Len(seqs) |-> Step(f, i)]
  <2> HIDE DEF g0, Step
  <2> QED  BY <1>3
<1>5. f[1] = s
  <2> DEFINE h == [i \in 1..Len(seqs) |-> Step(f, i)]
  <2>1. h[1] = Step(f, 1)
    BY <1>2
  <2>2. Step(f, 1) = s
    BY <1>2
  <2> HIDE DEF f, Step
  <2> QED  BY <1>4, <2>1, <2>2
<1> QED  BY <1>1, <1>5

(* The calls that follow from one event: its workflow is started when it ends   *)
(* the call, an adjustment when it found the final bill.                        *)
LEMMA TodoOfOne ==
  ASSUME NEW d, NEW e
  PROVE  \E S : /\ Todo(Classified(d, NoResult, e)) \in Seq(S)
                /\ \A c \in S :
                     /\ c.kind = "start" => e.type = "call.ended" /\ ~IsDuplicate(d, e)
                     /\ c.kind = "adjust" => /\ d.final # NoFinal /\ IsMeasured(e)
                                             /\ ~IsDuplicate(d, e) /\ c.event = e
<1> DEFINE r == Classified(d, NoResult, e)
           Ends == e.type = "call.ended" /\ ~IsDuplicate(d, e)
           IsLate == d.final # NoFinal /\ IsMeasured(e) /\ ~IsDuplicate(d, e)
           Fits(c) == /\ c.kind = "start" => Ends
                      /\ c.kind = "adjust" => IsLate /\ c.event = e
           S == {c \in [kind : {"start", "ended", "hint", "adjust", "notice"}, event : {e}] :
                   Fits(c)}
           Of(kind) == [kind |-> kind, event |-> e]
<1>1. /\ r.ended = <<>> \/ (Ends /\ r.ended = <<e>>)
      /\ r.late = <<>> \/ (IsLate /\ r.late = <<e>>)
      /\ r.duplicates = <<>> \/ r.duplicates = <<e>>
      /\ r.usage => r.inserted = <<e>>
  BY DEF Classified, NoResult, IsMeasured
<1> HIDE DEF r
<1>2. Of("hint") \in S /\ Of("notice") \in S
  OBVIOUS
<1>3. Ends => Of("start") \in S /\ Of("ended") \in S
  OBVIOUS
<1>4. IsLate => Of("adjust") \in S
  OBVIOUS
<1> HIDE DEF S
<1>5. FlattenSeq([i \in DOMAIN r.ended |->
                    <<[kind |-> "start", event |-> r.ended[i]],
                      [kind |-> "ended", event |-> r.ended[i]]>>]) \in Seq(S)
  <2>1. CASE r.ended = <<>>
    <3>1. [i \in DOMAIN r.ended |-> <<[kind |-> "start", event |-> r.ended[i]],
                                      [kind |-> "ended", event |-> r.ended[i]]>>] = <<>>
      BY <2>1
    <3> QED  BY <3>1 DEF FlattenSeq
  <2>2. CASE Ends /\ r.ended = <<e>>
    <3> DEFINE two == <<Of("start"), Of("ended")>>
    <3>1. [i \in DOMAIN r.ended |-> <<[kind |-> "start", event |-> r.ended[i]],
                                      [kind |-> "ended", event |-> r.ended[i]]>>] = <<two>>
      <4>1. DOMAIN r.ended = 1..1 /\ \A i \in 1..1 : r.ended[i] = e
        BY <2>2
      <4>2. <<two>> = [i \in 1..1 |-> two]
        OBVIOUS
      <4> QED  BY <4>1, <4>2
    <3>2. two \in Seq(S)
      BY <1>3, <2>2
    <3> HIDE DEF two
    <3> QED  BY <3>1, <3>2, FlattenOne
  <2> QED  BY <1>1, <2>1, <2>2
<1>6. (IF r.usage THEN <<[kind |-> "hint", event |-> r.inserted[1]]>> ELSE <<>>) \in Seq(S)
  <2>1. CASE r.usage
    <3>1. r.inserted[1] = e
      BY <1>1, <2>1
    <3> QED  BY <1>2, <2>1, <3>1
  <2> QED  BY <2>1
<1>7. Calls("adjust", r.late) \in Seq(S)
  <2> DEFINE a == Calls("adjust", r.late)
  <2>1. CASE r.late = <<>>
    <3>1. a = <<>>
      BY <2>1 DEF Calls
    <3> HIDE DEF a
    <3>2. a \in Seq(S)
      BY <3>1
    <3> QED  BY <3>2 DEF a
  <2>2. CASE IsLate /\ r.late = <<e>>
    <3>1. a = <<Of("adjust")>>
      <4>1. DOMAIN r.late = 1..1 /\ \A i \in 1..1 : r.late[i] = e
        BY <2>2
      <4>2. <<Of("adjust")>> = [i \in 1..1 |-> Of("adjust")]
        OBVIOUS
      <4> QED  BY <4>1, <4>2 DEF Calls
    <3> HIDE DEF a
    <3>2. a \in Seq(S)
      BY <1>4, <2>2, <3>1
    <3> QED  BY <3>2 DEF a
  <2> QED  BY <1>1, <2>1, <2>2
<1>8. FlattenSeq([i \in DOMAIN r.duplicates |->
                    IF IsNotice(r.duplicates[i]) THEN <<>>
                    ELSE <<[kind |-> "notice", event |-> r.duplicates[i]]>>]) \in Seq(S)
  <2>1. CASE r.duplicates = <<>>
    <3>1. [i \in DOMAIN r.duplicates |->
             IF IsNotice(r.duplicates[i]) THEN <<>>
             ELSE <<[kind |-> "notice", event |-> r.duplicates[i]]>>] = <<>>
      BY <2>1
    <3> QED  BY <3>1 DEF FlattenSeq
  <2>2. CASE r.duplicates = <<e>>
    <3> DEFINE one == IF IsNotice(e) THEN <<>> ELSE <<Of("notice")>>
    <3>1. [i \in DOMAIN r.duplicates |->
             IF IsNotice(r.duplicates[i]) THEN <<>>
             ELSE <<[kind |-> "notice", event |-> r.duplicates[i]]>>] = <<one>>
      <4>1. DOMAIN r.duplicates = 1..1 /\ \A i \in 1..1 : r.duplicates[i] = e
        BY <2>2
      <4>2. <<one>> = [i \in 1..1 |-> one]
        OBVIOUS
      <4> QED  BY <4>1, <4>2
    <3>2. one \in Seq(S)
      BY <1>2
    <3> HIDE DEF one
    <3> QED  BY <3>1, <3>2, FlattenOne
  <2> QED  BY <1>1, <2>1, <2>2
<1>9. Todo(r) \in Seq(S)
  BY <1>5, <1>6, <1>7, <1>8 DEF Todo
<1>10. \A c \in S : Fits(c)
  BY DEF S
<1> QED  BY <1>9, <1>10 DEF r

--------------------------------------------------------------------------------
(* Rows that stay, with their bill, say what they said.                         *)
LEMMA LedgerStays ==
  ASSUME LedgerInv, UNCHANGED plan, db'.keys = db.keys, Unbilled(db, db')
  PROVE  /\ Totals(db') /\ IsCall(db') /\ RecordsKeyed'
         /\ EndKeyed' <=> EndKeyed
         /\ PlatformCents' = PlatformCents
         /\ \A counted, cost : Snapshot(counted, cost)' <=> Snapshot(counted, cost)
<1>1. UsageLog' = UsageLog /\ CallLog' = CallLog /\ Measured' = Measured
  BY DEF UsageLog, CallLog, Measured
<1>2. db'.records = db.records /\ db'.billing = db.billing /\ db'.call = db.call
  BY DEF Unbilled
<1>3. Totals(db') /\ IsCall(db') /\ PlatformCents' = PlatformCents
  BY <1>2 DEF LedgerInv, Totals, IsCall, PlatformCents, Lasted
<1>4. RecordsKeyed'
  BY <1>1, <1>2 DEF LedgerInv, RecordsKeyed
<1>5. EndKeyed' <=> EndKeyed
  BY <1>1 DEF EndKeyed
<1>6. \A counted, cost : Snapshot(counted, cost)' <=> Snapshot(counted, cost)
  BY <1>2 DEF Snapshot
<1> QED  BY <1>3, <1>4, <1>5, <1>6

(* A call that is made leaves the others to make.                               *)
LEMMA CallsLeft ==
  ASSUME TodoTells, EndKeyed => EndKeyed', db.final # NoFinal => db'.final # NoFinal,
         todo' = todo \/ (todo # <<>> /\ todo' = Tail(todo))
  PROVE  TodoTells'
<1>1. PICK S : todo \in Seq(S) /\ \A c \in S : Meant(c)
  BY DEF TodoTells
<1>2. todo' \in Seq(S)
  BY <1>1
<1>3. \A c \in S : Meant(c)'
  BY <1>1 DEF Meant
<1> QED  BY <1>2, <1>3 DEF TodoTells

(* A step that leaves rows, attempts and final bill alone.                      *)
LEMMA CalmStep ==
  ASSUME BillInv, LedgerInv, UNCHANGED <<plan, position, attempts>>,
         db'.keys = db.keys, Unbilled(db, db'), db'.final = db.final,
         todo' = todo \/ (todo # <<>> /\ todo' = Tail(todo)),
         adjusting' = adjusting \/ db.final # NoFinal,
         retries' = retries \/ (retries < MaxRetries /\ retries' = retries + 1),
         wf'.elapsed = wf.elapsed /\ wf'.observed = wf.observed,
         wf'.updates = wf.updates \/ wf'.updates = wf.updates + 1,
         \/ wf'.at = wf.at
         \/ wf.at = "absent" /\ wf'.at = "manifest" /\ EndKeyed
         \/ {wf.at, wf'.at} \subseteq {"manifest", "watermark", "expectations", "present", "decide"}
         \/ wf.at = "finalizing" /\ wf'.at = "emitting" /\ db.final # NoFinal
         \/ wf.at = "emitting" /\ wf'.at = "done"
  PROVE  LedgerInv'
<1>1. /\ Totals(db') /\ IsCall(db') /\ RecordsKeyed'
      /\ EndKeyed' <=> EndKeyed
      /\ PlatformCents' = PlatformCents
      /\ \A counted, cost : Snapshot(counted, cost)' <=> Snapshot(counted, cost)
  BY LedgerStays
<1>2. TodoTells'
  BY <1>1, CallsLeft DEF LedgerInv
<1>3. db'.billing = db.billing
  BY DEF Unbilled
<1>4. AttemptsAgree'
  BY <1>1, <1>3 DEF LedgerInv, AttemptsAgree
<1>5. FinalAgrees'
  BY <1>1, <1>3 DEF LedgerInv, FinalAgrees
<1>6. Course'
  BY <1>1 DEF LedgerInv, Course
<1>7. Late' = Late /\ Log' = Log /\ MaxRetries' = MaxRetries
  BY DEF Late, Log, UsageLog, CallLog, MaxRetries
<1>8. MaxRetries \in Nat
  BY WaitAssumption DEF BillInv, Places, MaxRetries
<1>9. wf.updates \in Nat /\ TypeOK
  BY DEF LedgerInv, Course
<1>10. TypeOK'
  <2>1. position' \in [DOMAIN Log' -> Nat] /\ \A t \in DOMAIN Log' : position'[t] <= Len(Log'[t])
    BY <1>7, <1>9 DEF TypeOK
  <2>2. /\ wf'.at \in {"absent", "manifest", "watermark", "expectations", "present", "decide",
                       "waiting", "finalizing", "emitting", "done"}
        /\ wf'.elapsed \in 0..(WaitTimeout + Wait)
        /\ wf'.at \in {"finalizing", "emitting", "done"} <=> attempts' # <<>>
        /\ wf'.at \in {"emitting", "done"} => db'.final # NoFinal
    BY <1>9 DEF TypeOK
  <2>3. wf'.observed \in 0..wf'.updates
    BY <1>9 DEF TypeOK
  <2>4. \A e \in Late' : adjusting'[e].at # "absent" => db'.final # NoFinal
    BY <1>7, <1>9 DEF TypeOK
  <2>5. retries' \in 0..MaxRetries'
    BY <1>7, <1>8, <1>9 DEF TypeOK
  <2> QED  BY <2>1, <2>2, <2>3, <2>4, <2>5 DEF TypeOK
<1> QED  BY <1>1, <1>2, <1>4, <1>5, <1>6, <1>10 DEF LedgerInv

(* The calls the worker makes, and what the workflow reads and is told.         *)
LEMMA ReadsLedger ==
  ASSUME BillInv, LedgerInv,
         StartFinalization \/ SignalEnded \/ Hint \/ StartAdjustment \/ ReadManifest
           \/ ReadWatermark \/ ReadExpectations \/ ReadPresent \/ FinalizeAnswers
  PROVE  LedgerInv'
<1>1. UNCHANGED <<db, plan, position, attempts, retries>>
  BY DEF StartFinalization, SignalEnded, Hint, StartAdjustment, ReadManifest, ReadWatermark,
         ReadExpectations, ReadPresent, FinalizeAnswers, Read
<1>2. Unbilled(db, db')
  BY <1>1 DEF Unbilled
<1>3. IsWf(wf)
  BY DEF BillInv, Shapes
<1>4. ASSUME todo # <<>> PROVE Meant(Head(todo))
  <2>1. PICK S : todo \in Seq(S) /\ \A c \in S : Meant(c)
    BY DEF LedgerInv, TodoTells
  <2> QED  BY <1>4, <2>1
<1>5. todo' = todo \/ (todo # <<>> /\ todo' = Tail(todo))
  BY DEF StartFinalization, SignalEnded, Hint, StartAdjustment, ReadManifest, ReadWatermark,
         ReadExpectations, ReadPresent, FinalizeAnswers, Read, Calling
<1>6. adjusting' = adjusting \/ db.final # NoFinal
  <2>1. CASE StartAdjustment
    BY <1>4, <2>1 DEF StartAdjustment, Calling, Meant
  <2>2. CASE ~StartAdjustment
    BY <2>2 DEF StartFinalization, SignalEnded, Hint, ReadManifest, ReadWatermark,
                ReadExpectations, ReadPresent, FinalizeAnswers, Read
  <2> QED  BY <2>1, <2>2
<1>7. /\ wf'.elapsed = wf.elapsed /\ wf'.observed = wf.observed
      /\ wf'.updates = wf.updates \/ wf'.updates = wf.updates + 1
      /\ \/ wf'.at = wf.at
         \/ wf.at = "absent" /\ wf'.at = "manifest" /\ EndKeyed
         \/ {wf.at, wf'.at} \subseteq {"manifest", "watermark", "expectations", "present", "decide"}
         \/ wf.at = "finalizing" /\ wf'.at = "emitting" /\ db.final # NoFinal
  <2>1. CASE StartFinalization
    <3>1. EndKeyed
      BY <1>4, <2>1 DEF StartFinalization, Calling, Meant
    <3> QED  BY <1>3, <2>1, <3>1 DEF StartFinalization, IsWf, WfFields
  <2>2. CASE SignalEnded \/ StartAdjustment
    BY <2>2 DEF SignalEnded, StartAdjustment
  <2>3. CASE Hint
    BY <1>3, <2>3 DEF Hint, IsWf, WfFields
  <2>4. CASE ReadManifest
    BY <1>3, <2>4 DEF ReadManifest, Read, IsWf, WfFields
  <2>5. CASE ReadWatermark
    BY <1>3, <2>5 DEF ReadWatermark, Read, IsWf, WfFields
  <2>6. CASE ReadExpectations
    BY <1>3, <2>6 DEF ReadExpectations, Read, IsWf, WfFields
  <2>7. CASE ReadPresent
    BY <1>3, <2>7 DEF ReadPresent, Read, IsWf, WfFields
  <2>8. CASE FinalizeAnswers
    <3>1. attempts # <<>> /\ attempts[Len(attempts)].at = "answer" /\ wf.at = "finalizing"
      BY <2>8 DEF FinalizeAnswers, At, LedgerInv, TypeOK
    <3>2. Len(attempts) \in DOMAIN attempts
      BY <3>1 DEF BillInv, Shapes, AttemptShapes
    <3>3. db.final # NoFinal
      BY <3>1, <3>2 DEF LedgerInv, AttemptsAgree
    <3> QED  BY <1>3, <2>8, <3>1, <3>3 DEF FinalizeAnswers, IsWf, WfFields
  <2> QED  BY <2>1, <2>2, <2>3, <2>4, <2>5, <2>6, <2>7, <2>8
<1> QED  BY <1>1, <1>2, <1>5, <1>6, <1>7, CalmStep

(* The announcements and the adjustments.                                       *)
LEMMA WritesLedger ==
  ASSUME BillInv, LedgerInv,
         EmitFinalized \/ AdjustReadsFinal \/ AdjustReadsUsage \/ AdjustInserts
           \/ AdjustRetried \/ AdjustEmits
  PROVE  LedgerInv'
<1>1. UNCHANGED <<plan, position, attempts, todo>>
  BY DEF EmitFinalized, AdjustReadsFinal, AdjustReadsUsage, AdjustInserts, AdjustRetried,
         AdjustEmits, Adjust
<1>2. IsDb(db) /\ IsWf(wf)
  BY DEF BillInv, Places, Shapes
<1>3. db'.keys = db.keys /\ Unbilled(db, db') /\ db'.final = db.final
  <2>1. CASE EmitFinalized
    BY <1>2, <2>1 DEF EmitFinalized, Announced, IsDb, DbFields, Unbilled
  <2>2. CASE AdjustReadsFinal \/ AdjustReadsUsage \/ AdjustRetried
    BY <1>2, <2>2 DEF AdjustReadsFinal, AdjustReadsUsage, AdjustRetried, Unbilled
  <2>3. CASE AdjustInserts
    <3>1. PICK row : db' = db \/ db' = [db EXCEPT !.adjustments = @ \cup {row}]
      BY <2>3 DEF AdjustInserts
    <3> QED  BY <1>2, <3>1 DEF IsDb, DbFields, Unbilled
  <2>4. CASE AdjustEmits
    BY <1>2, <2>4 DEF AdjustEmits, Announced, IsDb, DbFields, Unbilled
  <2> QED  BY <2>1, <2>2, <2>3, <2>4
<1>4. /\ retries' = retries \/ (retries < MaxRetries /\ retries' = retries + 1)
      /\ wf' = wf \/ (wf.at = "emitting" /\ wf' = [wf EXCEPT !.at = "done"])
  BY DEF EmitFinalized, AdjustReadsFinal, AdjustReadsUsage, AdjustInserts, AdjustRetried,
         AdjustEmits, Adjust
<1>5. /\ wf'.elapsed = wf.elapsed /\ wf'.observed = wf.observed /\ wf'.updates = wf.updates
      /\ wf'.at = wf.at \/ (wf.at = "emitting" /\ wf'.at = "done")
  BY <1>2, <1>4 DEF IsWf, WfFields
<1>6. adjusting' = adjusting \/ db.final # NoFinal
  <2>1. CASE EmitFinalized
    BY <2>1 DEF EmitFinalized
  <2>2. CASE ~EmitFinalized
    <3>1. \E e \in Late : adjusting[e].at # "absent"
      BY <2>2 DEF AdjustReadsFinal, AdjustReadsUsage, AdjustInserts, AdjustRetried,
                  AdjustEmits, Adjust
    <3> QED  BY <3>1 DEF LedgerInv, TypeOK
  <2> QED  BY <2>1, <2>2
<1> QED  BY <1>1, <1>3, <1>4, <1>5, <1>6, CalmStep

(* A step that starts the attempts or goes on with one, and leaves the rows     *)
(* alone.                                                                       *)
LEMMA AttemptsLedger ==
  ASSUME BillInv, LedgerInv, UNCHANGED <<db, plan, position, todo, adjusting>>,
         AttemptsAgree', attempts # <<>> => attempts' # <<>>,
         retries' \in 0..MaxRetries,
         wf.at # "absent", wf'.at \in {"manifest", "waiting", "finalizing", "emitting", "done"},
         wf'.at \in {"emitting", "done"} => wf.at = wf'.at,
         wf'.at \in {"finalizing", "emitting", "done"} <=> attempts' # <<>>,
         wf'.at \in {"manifest", "waiting"} => wf'.elapsed <= WaitTimeout,
         wf'.elapsed \in 0..(WaitTimeout + Wait),
         wf'.updates = wf.updates, wf'.observed \in 0..wf.updates
  PROVE  LedgerInv'
<1>1. /\ Totals(db') /\ IsCall(db') /\ RecordsKeyed'
      /\ EndKeyed' <=> EndKeyed
      /\ PlatformCents' = PlatformCents
      /\ \A counted, cost : Snapshot(counted, cost)' <=> Snapshot(counted, cost)
  BY LedgerStays DEF Unbilled
<1>2. TodoTells'
  BY <1>1, CallsLeft DEF LedgerInv
<1>3. FinalAgrees'
  BY <1>1 DEF LedgerInv, FinalAgrees
<1>4. Course'
  BY <1>1 DEF LedgerInv, Course
<1>5. Late' = Late /\ Log' = Log /\ MaxRetries' = MaxRetries
  BY DEF Late, Log, UsageLog, CallLog, MaxRetries
<1>6. TypeOK
  BY DEF LedgerInv
<1>7. TypeOK'
  <2>1. position' \in [DOMAIN Log' -> Nat] /\ \A t \in DOMAIN Log' : position'[t] <= Len(Log'[t])
    BY <1>5, <1>6 DEF TypeOK
  <2>2. /\ wf'.at \in {"absent", "manifest", "watermark", "expectations", "present", "decide",
                       "waiting", "finalizing", "emitting", "done"}
        /\ wf'.elapsed \in 0..(WaitTimeout + Wait)
        /\ wf'.observed \in 0..wf'.updates
        /\ wf'.at \in {"finalizing", "emitting", "done"} <=> attempts' # <<>>
        /\ wf'.at \in {"emitting", "done"} => db'.final # NoFinal
    BY <1>6 DEF TypeOK
  <2>3. \A e \in Late' : adjusting'[e].at # "absent" => db'.final # NoFinal
    BY <1>5, <1>6 DEF TypeOK
  <2>4. retries' \in 0..MaxRetries'
    BY <1>5
  <2> QED  BY <2>1, <2>2, <2>3, <2>4 DEF TypeOK
<1> QED  BY <1>1, <1>2, <1>3, <1>4, <1>7 DEF LedgerInv

(* The decision, and the end of the wait.                                       *)
LEMMA DecideLedger ==
  ASSUME BillInv, LedgerInv, Decide \/ Wake
  PROVE  LedgerInv'
<1> DEFINE first == [at |-> "usage", counted |-> {}, cost |-> 0, fee |-> 0]
<1>1. UNCHANGED <<db, plan, position, todo, adjusting, retries>>
  BY DEF Decide, Wake
<1>2. IsWf(wf) /\ AttemptsAgree /\ TypeOK
  BY DEF BillInv, Shapes, LedgerInv
<1>3. /\ WaitTimeout \in Nat /\ Wait \in Nat
      /\ wf.updates \in Nat /\ wf.observed \in 0..wf.updates /\ wf.elapsed \in Nat
  BY <1>2, WaitAssumption DEF Wait, LedgerInv, Course, TypeOK
<1>4. wf.at \in {"decide", "waiting"}
  BY DEF Decide, Wake
<1>5. wf.elapsed <= WaitTimeout /\ attempts = <<>>
  BY <1>2, <1>4 DEF LedgerInv, Course, TypeOK
<1>6. retries' \in 0..MaxRetries
  BY <1>1, <1>2 DEF TypeOK
<1>7. /\ wf'.at \in {"manifest", "waiting", "finalizing"}
      /\ (wf'.at = "finalizing" /\ attempts' = <<first>>)
           \/ (wf'.at # "finalizing" /\ attempts' = attempts)
      /\ wf'.at \in {"manifest", "waiting"} => wf'.elapsed <= WaitTimeout
      /\ wf'.elapsed \in 0..(WaitTimeout + Wait)
      /\ wf'.updates = wf.updates /\ wf'.observed \in 0..wf.updates
  <2>1. CASE Decide
    <3>1. \/ Ready /\ wf' = [wf EXCEPT !.at = "finalizing", !.ready = TRUE]
             /\ attempts' = <<first>>
          \/ wf' = [wf EXCEPT !.at = "waiting", !.observed = wf.updates] /\ attempts' = attempts
      BY <2>1 DEF Decide
    <3>2. wf'.elapsed = wf.elapsed /\ wf'.updates = wf.updates
          /\ wf'.observed \in {wf.observed, wf.updates}
          /\ \/ wf'.at = "finalizing" /\ attempts' = <<first>>
             \/ wf'.at = "waiting" /\ attempts' = attempts
      BY <1>2, <3>1 DEF IsWf, WfFields
    <3> HIDE DEF first
    <3> QED  BY <1>3, <1>5, <3>2
  <2>2. CASE Wake
    <3>1. LET over == wf.elapsed + Wait > WaitTimeout
          IN  /\ wf' = [wf EXCEPT !.elapsed = wf.elapsed + Wait,
                                  !.at = IF over THEN "finalizing" ELSE "manifest"]
              /\ attempts' = IF over THEN <<first>> ELSE attempts
      BY <2>2 DEF Wake, Elapsed
    <3>2. /\ wf'.elapsed = wf.elapsed + Wait /\ wf'.updates = wf.updates
          /\ wf'.observed = wf.observed
          /\ \/ wf.elapsed + Wait > WaitTimeout /\ wf'.at = "finalizing" /\ attempts' = <<first>>
             \/ ~(wf.elapsed + Wait > WaitTimeout) /\ wf'.at = "manifest" /\ attempts' = attempts
      BY <1>2, <3>1 DEF IsWf, WfFields
    <3> HIDE DEF first
    <3> QED  BY <1>3, <1>5, <3>2
  <2> QED  BY <2>1, <2>2
<1>8. wf'.at \in {"finalizing", "emitting", "done"} <=> attempts' # <<>>
  <2>1. <<first>> # <<>>
    OBVIOUS
  <2> HIDE DEF first
  <2> QED  BY <1>5, <1>7, <2>1
<1>9. AttemptsAgree'
  <2>1. CASE attempts' = <<first>>
    <3>1. \A i \in DOMAIN attempts' : attempts'[i].at = "usage"
      BY <2>1
    <3> QED  BY <3>1 DEF AttemptsAgree
  <2>2. CASE attempts' = <<>>
    BY <2>2 DEF AttemptsAgree
  <2> QED  BY <1>5, <1>7, <2>1, <2>2
<1> HIDE DEF first
<1> QED  BY <1>1, <1>4, <1>5, <1>6, <1>7, <1>8, <1>9, AttemptsLedger

(* The reads of an attempt, and the start of another.                           *)
LEMMA FinalizeReadsLedger ==
  ASSUME BillInv, LedgerInv, FinalizeReadsUsage \/ FinalizeReadsDuration \/ FinalizeRetried
  PROVE  LedgerInv'
<1>1. UNCHANGED <<db, plan, position, todo, wf, adjusting>>
  BY DEF FinalizeReadsUsage, FinalizeReadsDuration, FinalizeRetried
<1>2. AttemptShapes /\ AttemptsAgree /\ TypeOK
  BY DEF BillInv, Shapes, LedgerInv
<1>3. /\ PlatformCents' = PlatformCents
      /\ \A counted, cost : Snapshot(counted, cost)' <=> Snapshot(counted, cost)
  BY <1>1, LedgerStays DEF Unbilled
<1>4. MaxRetries \in Nat
  BY WaitAssumption DEF BillInv, Places, MaxRetries
<1>5. retries' \in 0..MaxRetries
  <2>1. retries' = retries \/ (retries < MaxRetries /\ retries' = retries + 1)
    BY DEF FinalizeReadsUsage, FinalizeReadsDuration, FinalizeRetried
  <2>2. retries \in 0..MaxRetries
    BY <1>2 DEF TypeOK
  <2> QED  BY <1>4, <2>1, <2>2
<1>6. attempts # <<>>
  <2>1. CASE FinalizeRetried
    BY <1>2, <2>1 DEF TypeOK, FinalizeRetried
  <2>2. CASE FinalizeReadsUsage \/ FinalizeReadsDuration
    <3>1. PICK i : i \in DOMAIN attempts
      BY <2>2 DEF FinalizeReadsUsage, FinalizeReadsDuration
    <3> QED  BY <3>1
  <2> QED  BY <2>1, <2>2
<1>7. AttemptsAgree' /\ attempts' # <<>>
  <2>1. ASSUME NEW i \in DOMAIN attempts, NEW a, attempts' = [attempts EXCEPT ![i] = a],
               a.at # "usage" => Snapshot(a.counted, a.cost),
               a.at = "write" => a.fee = PlatformCents,
               a.at # "answer"
        PROVE  AttemptsAgree' /\ attempts' # <<>>
    <3>1. DOMAIN attempts' = DOMAIN attempts
          /\ \A j \in DOMAIN attempts : attempts'[j] = IF j = i THEN a ELSE attempts[j]
      BY <2>1
    <3>2. SUFFICES ASSUME NEW j \in DOMAIN attempts
                   PROVE  /\ attempts'[j].at # "usage" =>
                               Snapshot(attempts'[j].counted, attempts'[j].cost)
                          /\ attempts'[j].at \in {"write", "answer"} =>
                               attempts'[j].fee = PlatformCents
                          /\ attempts'[j].at = "answer" => db.final # NoFinal
      <4>1. attempts' # <<>>
        BY <2>1, <3>1
      <4> QED  BY <1>1, <1>3, <3>1, <4>1 DEF AttemptsAgree
    <3>3. CASE j = i
      BY <2>1, <3>1, <3>3
    <3>4. CASE j # i
      BY <1>2, <3>1, <3>4 DEF AttemptsAgree
    <3> QED  BY <3>3, <3>4
  <2>2. CASE FinalizeReadsUsage
    <3>1. PICK i \in DOMAIN attempts :
            attempts' = [attempts EXCEPT
              ![i] = [@ EXCEPT !.at = "duration", !.counted = {r.event : r \in db.records},
                               !.cost = ProviderCents(db.records)]]
      BY <2>2 DEF FinalizeReadsUsage
    <3> DEFINE ids == {r.event : r \in db.records}
               a == [attempts[i] EXCEPT !.at = "duration", !.counted = ids,
                                        !.cost = ProviderCents(db.records)]
    <3>2. attempts' = [attempts EXCEPT ![i] = a]
      BY <3>1
    <3>3. ids = EventIds(db.records)
      BY DEF EventIds
    <3>4. IsAttempt(attempts[i])
      BY <1>2 DEF AttemptShapes
    <3> HIDE DEF ids
    <3>5. a.at = "duration" /\ a.counted = ids /\ a.cost = ProviderCents(db.records)
      BY <3>4 DEF IsAttempt
    <3>6. Snapshot(a.counted, a.cost)
      BY <3>3, <3>5 DEF Snapshot
    <3> HIDE DEF a
    <3> QED  BY <2>1, <3>2, <3>5, <3>6
  <2>3. CASE FinalizeReadsDuration
    <3>1. PICK i \in DOMAIN attempts :
            /\ At(i, "duration")
            /\ attempts' = [attempts EXCEPT
                 ![i] = [@ EXCEPT !.at = "write", !.fee = PlatformCents]]
      BY <2>3 DEF FinalizeReadsDuration
    <3> DEFINE fee == PlatformCents
               a == [attempts[i] EXCEPT !.at = "write", !.fee = fee]
    <3>2. attempts' = [attempts EXCEPT ![i] = a]
      BY <3>1
    <3>3. IsAttempt(attempts[i]) /\ attempts[i].at = "duration"
      BY <1>2, <3>1 DEF AttemptShapes, At
    <3> HIDE DEF fee
    <3>4. a.at = "write" /\ a.counted = attempts[i].counted /\ a.cost = attempts[i].cost
          /\ a.fee = fee
      BY <3>3 DEF IsAttempt
    <3>5. Snapshot(a.counted, a.cost)
      BY <1>2, <3>3, <3>4 DEF AttemptsAgree
    <3> HIDE DEF a
    <3> QED  BY <2>1, <3>2, <3>4, <3>5 DEF fee
  <2>4. CASE FinalizeRetried
    <3> DEFINE first == [at |-> "usage", counted |-> {}, cost |-> 0, fee |-> 0]
               S == {attempts[j] : j \in DOMAIN attempts}
    <3>1. attempts' = Append(attempts, first)
      BY <2>4 DEF FinalizeRetried
    <3>2. first.at = "usage"
      OBVIOUS
    <3> HIDE DEF first
    <3>3. attempts \in Seq(S \cup {first})
      BY <1>2 DEF AttemptShapes
    <3>4. /\ Len(attempts) \in Nat
          /\ DOMAIN attempts = 1..Len(attempts)
          /\ DOMAIN attempts' = 1..(Len(attempts) + 1)
          /\ \A j \in 1..Len(attempts) : attempts'[j] = attempts[j]
          /\ attempts'[Len(attempts) + 1] = first
      BY <3>1, <3>3
    <3>5. ASSUME NEW j \in DOMAIN attempts'
          PROVE  (j \in DOMAIN attempts /\ attempts'[j] = attempts[j]) \/ attempts'[j] = first
      BY <3>4
    <3>6. AttemptsAgree'
      BY <1>1, <1>2, <1>3, <3>2, <3>5 DEF AttemptsAgree
    <3>7. attempts' # <<>>
      BY <3>4
    <3> QED  BY <3>6, <3>7
  <2> QED  BY <2>2, <2>3, <2>4
<1>8. /\ wf.at \in {"finalizing", "emitting", "done"}
      /\ wf.elapsed \in 0..(WaitTimeout + Wait) /\ wf.observed \in 0..wf.updates
  BY <1>2, <1>6 DEF TypeOK
<1> QED  BY <1>1, <1>5, <1>6, <1>7, <1>8, AttemptsLedger

(* The final bill is what the attempt has read.                                 *)
LEMMA FinalizeWritesLedger ==
  ASSUME BillInv, LedgerInv, FinalizeWrites
  PROVE  LedgerInv'
<1>1. PICK i \in DOMAIN attempts :
        /\ At(i, "write")
        /\ db' = [db EXCEPT !.final =
                    [status  |-> IF wf.ready THEN "FINALIZED" ELSE Policy,
                     total   |-> attempts[i].fee + attempts[i].cost,
                     counted |-> attempts[i].counted]]
        /\ attempts' = [attempts EXCEPT ![i].at = "answer"]
  BY DEF FinalizeWrites
<1>2. UNCHANGED <<plan, position, todo, wf, adjusting, retries>>
  BY DEF FinalizeWrites
<1>3. AttemptShapes /\ AttemptsAgree /\ TypeOK /\ IsDb(db)
  BY DEF BillInv, Shapes, LedgerInv, Places
<1>4. /\ db'.keys = db.keys /\ Unbilled(db, db')
      /\ db'.final = [status  |-> IF wf.ready THEN "FINALIZED" ELSE Policy,
                      total   |-> attempts[i].fee + attempts[i].cost,
                      counted |-> attempts[i].counted]
  BY <1>1, <1>3 DEF IsDb, DbFields, Unbilled
<1>5. /\ db'.final.status \in {"FINALIZED", Policy}
      /\ db'.final.total = attempts[i].fee + attempts[i].cost
      /\ db'.final.counted = attempts[i].counted
  BY <1>4
<1>6. db'.final # NoFinal
  BY <1>5 DEF NoFinal, Policy
<1>7. /\ Totals(db') /\ IsCall(db') /\ RecordsKeyed'
      /\ EndKeyed' <=> EndKeyed
      /\ PlatformCents' = PlatformCents
      /\ \A counted, cost : Snapshot(counted, cost)' <=> Snapshot(counted, cost)
  BY <1>2, <1>4, LedgerStays
<1>8. TodoTells'
  BY <1>2, <1>6, <1>7, CallsLeft DEF LedgerInv
<1>9. IsAttempt(attempts[i]) /\ attempts[i].at = "write"
  BY <1>1, <1>3 DEF AttemptShapes, At
<1>10. /\ Snapshot(attempts[i].counted, attempts[i].cost)
       /\ attempts[i].fee = PlatformCents
  BY <1>3, <1>9 DEF AttemptsAgree
<1> DEFINE a == [attempts[i] EXCEPT !.at = "answer"]
<1>11. attempts' = [attempts EXCEPT ![i] = a]
  BY <1>1
<1>12. a.at = "answer" /\ a.counted = attempts[i].counted /\ a.cost = attempts[i].cost
       /\ a.fee = attempts[i].fee
  BY <1>9 DEF IsAttempt
<1> HIDE DEF a
<1>13. DOMAIN attempts' = DOMAIN attempts
       /\ \A j \in DOMAIN attempts : attempts'[j] = IF j = i THEN a ELSE attempts[j]
  BY <1>11
<1>14. attempts' # <<>> /\ attempts # <<>>
  BY <1>13
<1>15. AttemptsAgree'
  <2>1. SUFFICES ASSUME NEW j \in DOMAIN attempts
                 PROVE  /\ attempts'[j].at # "usage" =>
                             Snapshot(attempts'[j].counted, attempts'[j].cost)
                        /\ attempts'[j].at \in {"write", "answer"} =>
                             attempts'[j].fee = PlatformCents
    BY <1>4, <1>6, <1>7, <1>13 DEF AttemptsAgree
  <2>2. CASE j = i
    BY <1>10, <1>12, <1>13, <2>2
  <2>3. CASE j # i
    BY <1>3, <1>13, <2>3 DEF AttemptsAgree
  <2> QED  BY <2>2, <2>3
<1>16. FinalAgrees'
  <2> DEFINE ids == attempts[i].counted
             cost == attempts[i].cost
  <2>1. /\ ids \subseteq EventIds(db'.records)
        /\ ids = EventIds(db'.records) => cost = ProviderCents(db'.records)
    BY <1>4, <1>10 DEF Snapshot, Unbilled
  <2>2. db'.final.total = PlatformCents' + cost
    BY <1>4, <1>5, <1>7, <1>10
  <2>3. db'.final.counted = ids
    BY <1>5
  <2> HIDE DEF ids, cost
  <2> QED  BY <1>14, <2>1, <2>2, <2>3 DEF FinalAgrees, Snapshot
<1>17. Course'
  BY <1>2, <1>7 DEF LedgerInv, Course
<1>18. TypeOK'
  <2>1. Late' = Late /\ Log' = Log /\ MaxRetries' = MaxRetries
    BY <1>2 DEF Late, Log, UsageLog, CallLog, MaxRetries
  <2>2. wf.at \in {"finalizing", "emitting", "done"}
    BY <1>3, <1>14 DEF TypeOK
  <2> QED  BY <1>2, <1>3, <1>6, <1>14, <2>1, <2>2 DEF TypeOK
<1> QED  BY <1>7, <1>8, <1>15, <1>16, <1>17, <1>18 DEF LedgerInv

--------------------------------------------------------------------------------
(* A record of one of the logs is paid for.                                     *)
LEMMA RowPays ==
  ASSUME Places, Totals(db), IsCall(db), NEW t \in DOMAIN Log, position[t] < Len(Log[t])
  PROVE  LET e == Log[t][position[t] + 1]
         IN  Pays(db, e, ProjectBatch(db, <<[topic |-> t, offset |-> position[t], event |-> e]>>).db)
<1> DEFINE e == Log[t][position[t] + 1]
           item == [topic |-> t, offset |-> position[t], event |-> e]
           one == ProjectOne(db, e, position[t])
           w == [one EXCEPT !.watermark = Advanced(@, item)]
<1>1. PICK n \in Nat : (IsUsage(e) => DOMAIN e.measurements = 1..n) /\ (IsMeasured(e) => n > 0)
  BY RowMeasures
<1>2. IsDb(db)
  BY DEF Places
<1>3. item.event = e /\ item.offset = position[t]
  OBVIOUS
<1> HIDE DEF e, item
<1>4. Pays(db, e, one) /\ Projects(db, e, one)
  BY <1>1, <1>2, OnePays, OneProjects
<1>5. ProjectBatch(db, <<item>>).db = w
  <2>1. ProjectBatch(db, <<item>>).db
          = [ProjectOne(db, item.event, item.offset) EXCEPT !.watermark = Advanced(@, item)]
    BY BatchOfOne
  <2> QED  BY <1>3, <2>1
<1>6. IsDb(one)
  BY <1>4 DEF Projects
<1> HIDE DEF one
<1>7. /\ w.records = one.records /\ w.billing = one.billing /\ w.keys = one.keys
      /\ w.call = one.call
  BY <1>6 DEF IsDb, DbFields
<1> HIDE DEF w
<1>8. Pays(db, e, w)
  BY <1>4, <1>7 DEF Pays, Totals, IsCall
<1> QED  BY <1>5, <1>8 DEF e, item

(* The projector takes a step: the ledgers take the event together, a bill that *)
(* is being written is of fewer events from here on, and the duration of a call *)
(* that has ended stays.                                                        *)
LEMMA ProjectLedger ==
  ASSUME BillInv, LedgerInv, Project
  PROVE  LedgerInv'
<1>1. PICK t \in DOMAIN Log :
        /\ position[t] < Len(Log[t])
        /\ LET item == [topic |-> t, offset |-> position[t], event |-> Log[t][position[t] + 1]]
           IN  /\ db' = ProjectBatch(db, <<item>>).db
               /\ todo' = Todo(ProjectBatch(db, <<item>>).result)
        /\ position' = [position EXCEPT ![t] = @ + 1]
  BY DEF Project
<1>2. UNCHANGED <<plan, wf, attempts, adjusting, retries>>
  BY DEF Project
<1>3. Places /\ Totals(db) /\ IsCall(db) /\ RecordsKeyed /\ TypeOK
  BY DEF BillInv, LedgerInv
<1> DEFINE e == Log[t][position[t] + 1]
           item == [topic |-> t, offset |-> position[t], event |-> e]
<1>4. Projects(db, e, db')
  BY <1>1, <1>3, ProjectRow
<1>5. Pays(db, e, db')
  BY <1>1, <1>3, RowPays
<1>6. todo' = Todo(Classified(db, NoResult, e))
  <2>1. item.event = e
    OBVIOUS
  <2>2. todo' = Todo(ProjectBatch(db, <<item>>).result)
    BY <1>1
  <2> HIDE DEF e, item
  <2>3. ProjectBatch(db, <<item>>).result = Classified(db, NoResult, item.event)
    BY BatchOfOne
  <2> QED  BY <2>1, <2>2, <2>3
<1> DEFINE u == position["usage-events"]
           c == position["call-events"]
<1>7. \/ /\ u + 1 \in 1..Len(UsageLog) /\ e = UsageLog[u + 1] /\ IsUsage(e)
      \/ /\ c + 1 \in 1..Len(CallLog) /\ e = CallLog[c + 1] /\ ~IsUsage(e)
  <2>1. CASE t = "usage-events"
    <3>1. u + 1 \in 1..Len(UsageLog) /\ e = UsageLog[u + 1]
      BY <1>1, <1>3, <2>1, LogFacts DEF Log, Places
    <3> HIDE DEF e, u
    <3> QED  BY <1>3, <3>1, LogFacts
  <2>2. CASE t = "call-events"
    <3>1. c + 1 \in 1..Len(CallLog) /\ e = CallLog[c + 1]
      BY <1>1, <1>3, <2>2, LogFacts DEF Log, Places
    <3> HIDE DEF e, c
    <3> QED  BY <1>3, <3>1, LogFacts
  <2> QED  BY <2>1, <2>2 DEF Log
<1> HIDE DEF e, u, c
<1>8. UsageLog' = UsageLog /\ CallLog' = CallLog /\ Measured' = Measured
      /\ Late' = Late /\ Log' = Log /\ MaxRetries' = MaxRetries
  BY <1>2 DEF UsageLog, CallLog, Measured, Late, Log, MaxRetries
<1>9. DOMAIN UsageLog = 1..Len(UsageLog)
  BY <1>3, LogFacts
<1>10. db'.keys = db.keys \cup {e.key} /\ Totals(db') /\ IsCall(db') /\ db'.final = db.final
  BY <1>4, <1>5 DEF Pays, Projects
<1>11. IsMeasured(e) => u + 1 \in Measured /\ e = UsageLog[u + 1]
  BY <1>7, <1>9 DEF IsMeasured, Measured
<1>12. \A r \in db'.records : r \in db.records \/ (r.event = e.id /\ IsMeasured(e) /\ ~IsDuplicate(db, e))
  BY <1>5 DEF Pays
<1>13. RecordsKeyed'
  <2>1. SUFFICES ASSUME NEW r \in db'.records
                 PROVE  \E i \in Measured : UsageLog[i].id = r.event /\ UsageLog[i].key \in db'.keys
    BY <1>8 DEF RecordsKeyed
  <2>2. CASE r \in db.records
    BY <1>3, <1>10, <2>2 DEF RecordsKeyed
  <2>3. CASE r \notin db.records
    BY <1>10, <1>11, <1>12, <2>3
  <2> QED  BY <2>2, <2>3
<1>14. EndKeyed => EndKeyed'
  BY <1>8, <1>10 DEF EndKeyed
<1>15. IsEnd(e) => c + 1 \in 1..Len(CallLog) /\ e = CallLog[c + 1]
  BY <1>7 DEF IsUsage, IsEnd
<1>16. e.type = "call.ended" => EndKeyed'
  BY <1>8, <1>10, <1>15 DEF EndKeyed, IsEnd
<1>17. EndKeyed => PlatformCents' = PlatformCents
  <2>1. SUFFICES ASSUME EndKeyed, IsEnd(e)
                 PROVE  IsDuplicate(db, e)
    BY <1>2, <1>5 DEF Pays, PlatformCents, Lasted
  <2>2. PICK j \in 1..Len(CallLog) : CallLog[j].type = "call.ended" /\ CallLog[j].key \in db.keys
    BY <2>1 DEF EndKeyed
  <2>3. CallLog[j] = CallLog[c + 1]
    BY <1>3, <1>15, <2>1, <2>2, LogFacts
  <2> QED  BY <1>15, <2>1, <2>2, <2>3 DEF IsDuplicate
<1>18. ASSUME NEW counted, NEW cost, Snapshot(counted, cost)
       PROVE  /\ counted \subseteq EventIds(db'.records)
              /\ counted = EventIds(db'.records) => cost = ProviderCents(db'.records)
  <2>1. db.records \subseteq db'.records
    BY <1>4 DEF Projects
  <2>2. counted \subseteq EventIds(db'.records)
    BY <1>18, <2>1 DEF Snapshot, EventIds
  <2>3. CASE db'.records = db.records
    BY <1>18, <2>3 DEF Snapshot
  <2>4. CASE db'.records # db.records
    <3>1. PICK x \in db'.records : x \notin db.records
      BY <2>1, <2>4
    <3>2. x.event = e.id /\ IsMeasured(e) /\ ~IsDuplicate(db, e)
      BY <1>12, <3>1
    <3>3. e.id \notin EventIds(db.records)
      <4>1. SUFFICES ASSUME NEW r \in db.records, r.event = e.id PROVE FALSE
        BY DEF EventIds
      <4>2. PICK i \in Measured : UsageLog[i].id = e.id /\ UsageLog[i].key \in db.keys
        BY <1>3, <4>1 DEF RecordsKeyed
      <4>3. i \in 1..Len(UsageLog) /\ u + 1 \in 1..Len(UsageLog) /\ UsageLog[u + 1].id = e.id
        BY <1>9, <1>11, <3>2 DEF Measured
      <4>4. UsageLog[i] = UsageLog[u + 1]
        BY <1>3, <4>2, <4>3, LogFacts
      <4> QED  BY <1>11, <3>2, <4>2, <4>4 DEF IsDuplicate
    <3>4. e.id \in EventIds(db'.records)
      BY <3>1, <3>2 DEF EventIds
    <3>5. counted # EventIds(db'.records)
      BY <1>18, <3>3, <3>4 DEF Snapshot
    <3> QED  BY <2>2, <3>5
  <2> QED  BY <2>2, <2>3, <2>4
<1>19. TodoTells'
  <2>1. PICK S : /\ todo' \in Seq(S)
                 /\ \A x \in S : /\ x.kind = "start" => e.type = "call.ended" /\ ~IsDuplicate(db, e)
                                 /\ x.kind = "adjust" => db.final # NoFinal
    BY <1>6, TodoOfOne
  <2>2. \A x \in S : Meant(x)'
    BY <1>10, <1>16, <2>1 DEF Meant
  <2> QED  BY <2>1, <2>2 DEF TodoTells
<1>20. attempts # <<>> => PlatformCents' = PlatformCents
  <2>1. attempts # <<>> => wf.at # "absent"
    BY <1>3 DEF TypeOK
  <2> QED  BY <1>17, <2>1 DEF LedgerInv, Course
<1>21. AttemptsAgree'
  <2>1. SUFFICES ASSUME NEW i \in DOMAIN attempts
                 PROVE  /\ attempts[i].at # "usage" =>
                             /\ attempts[i].counted \subseteq EventIds(db'.records)
                             /\ attempts[i].counted = EventIds(db'.records) =>
                                  attempts[i].cost = ProviderCents(db'.records)
                        /\ attempts[i].at \in {"write", "answer"} =>
                             attempts[i].fee = PlatformCents'
                        /\ attempts[i].at = "answer" => db.final # NoFinal
    BY <1>2, <1>10 DEF AttemptsAgree, Snapshot
  <2>2. attempts # <<>>
    OBVIOUS
  <2>3. /\ attempts[i].at # "usage" => Snapshot(attempts[i].counted, attempts[i].cost)
        /\ attempts[i].at \in {"write", "answer"} =>
             attempts[i].fee = PlatformCents
        /\ attempts[i].at = "answer" => db.final # NoFinal
    BY DEF LedgerInv, AttemptsAgree
  <2> QED  BY <1>18, <1>20, <2>2, <2>3
<1>22. FinalAgrees'
  <2>1. SUFFICES ASSUME db.final # NoFinal PROVE FinalAgrees'
    BY <1>10 DEF FinalAgrees
  <2>2. PICK cost : /\ attempts # <<>>
                    /\ Snapshot(db.final.counted, cost)
                    /\ db.final.total = PlatformCents + cost
    BY <2>1 DEF LedgerInv, FinalAgrees
  <2>3. /\ db.final.counted \subseteq EventIds(db'.records)
        /\ db.final.counted = EventIds(db'.records) => cost = ProviderCents(db'.records)
    BY <1>18, <2>2
  <2>4. db.final.total = PlatformCents' + cost
    BY <1>20, <2>2
  <2> QED  BY <1>2, <1>10, <2>2, <2>3, <2>4 DEF FinalAgrees, Snapshot
<1>23. Course'
  BY <1>2, <1>14 DEF LedgerInv, Course
<1>24. TypeOK'
  <2>1. position' \in [DOMAIN Log -> Nat] /\ \A s \in DOMAIN Log : position'[s] <= Len(Log[s])
    <3>1. position \in [DOMAIN Log -> Nat] /\ \A s \in DOMAIN Log : position[s] <= Len(Log[s])
      BY <1>3 DEF TypeOK
    <3>2. \A s \in DOMAIN Log : Len(Log[s]) \in Nat
      BY <1>3, LogFacts DEF Log
    <3> QED  BY <1>1, <3>1, <3>2
  <2> QED  BY <1>2, <1>3, <1>8, <1>10, <2>1 DEF TypeOK
<1> QED  BY <1>10, <1>13, <1>19, <1>21, <1>22, <1>23, <1>24 DEF LedgerInv

(* No records cost nothing.                                                     *)
LEMMA NoCost == TotalCost({}) = 0
<1> DEFINE Pick(s) == CHOOSE x \in s : TRUE
           Step(g, s) == IF s = {} THEN 0 ELSE Pick(s).cost + g[s \ {Pick(s)}]
           f == CHOOSE g : g = [s \in SUBSET {} |-> Step(g, s)]
           g0 == [s \in SUBSET {} |-> 0]
           h == [s \in SUBSET {} |-> Step(f, s)]
<1>1. TotalCost({}) = f[{}]
  BY DEF TotalCost, MapThenSumSet, MapThenFoldSet
<1>2. g0 = [s \in SUBSET {} |-> Step(g0, s)]
  <2>1. \A s \in SUBSET {} : s = {}
    OBVIOUS
  <2> QED  BY <2>1
<1>3. f = h
  <2> HIDE DEF g0, Step
  <2> QED  BY <1>2
<1>4. h[{}] = 0
  OBVIOUS
<1> HIDE DEF f, h
<1> QED  BY <1>1, <1>3, <1>4

(* Nothing is recorded or charged at first.                                     *)
LEMMA LedgerInit == Init => LedgerInv
<1>1. SUFFICES ASSUME Init PROVE LedgerInv
  OBVIOUS
<1>2. plan \in Plans /\ db = EmptyDb /\ attempts = <<>> /\ todo = <<>> /\ retries = 0
      /\ position = [t \in DOMAIN Log |-> 0]
      /\ adjusting = [e \in Late |-> NoAdjustment]
  BY <1>1 DEF Init
<1>3. /\ wf.at = "absent" /\ wf.elapsed = 0 /\ wf.updates = 0 /\ wf.observed = 0
  BY <1>1 DEF Init
<1>4. /\ db.records = {} /\ db.final = NoFinal
      /\ db.billing.duration = 0 /\ db.billing.fee = 0 /\ db.billing.cost = 0
      /\ db.billing.total = 0 /\ IsCall(db)
  BY <1>2 DEF EmptyDb, IsCall
<1>5. /\ WaitTimeout \in Nat /\ Wait \in Nat /\ MaxRetries \in Nat /\ PlatformRate \in Nat
  BY <1>2, WaitAssumption, RateAssumption DEF Wait, MaxRetries
<1>6. \A t \in DOMAIN Log : Len(Log[t]) \in Nat
  BY <1>2, PlansAssumption DEF Log, UsageLog, CallLog
<1>7. TypeOK
  <2>1. \A e \in Late : adjusting[e].at = "absent"
    BY <1>2 DEF NoAdjustment
  <2> QED  BY <1>2, <1>3, <1>5, <1>6, <2>1 DEF TypeOK
<1>8. Totals(db)
  BY <1>4, <1>5, NoCost DEF Totals
<1>9. RecordsKeyed /\ AttemptsAgree /\ FinalAgrees
  BY <1>2, <1>4 DEF RecordsKeyed, AttemptsAgree, FinalAgrees
<1>10. TodoTells
  <2>1. todo \in Seq({})
    BY <1>2
  <2>2. \A c \in {} : Meant(c)
    OBVIOUS
  <2> QED  BY <2>1, <2>2 DEF TodoTells
<1>11. Course
  BY <1>3, <1>5 DEF Course
<1> QED  BY <1>4, <1>7, <1>8, <1>9, <1>10, <1>11 DEF LedgerInv

(* Every step keeps the ledgers together.                                       *)
LEMMA LedgerNext == BillInv /\ LedgerInv /\ [Next]_vars => LedgerInv'
<1>1. SUFFICES ASSUME BillInv, LedgerInv, [Next]_vars PROVE LedgerInv'
  OBVIOUS
<1>2. CASE Worker
  BY <1>1, <1>2, ProjectLedger, ReadsLedger DEF Worker
<1>3. CASE Finalization
  BY <1>1, <1>3, ReadsLedger, DecideLedger, FinalizeReadsLedger, FinalizeWritesLedger,
     WritesLedger DEF Finalization
<1>4. CASE Adjustment \/ AdjustRetried
  BY <1>1, <1>4, WritesLedger DEF Adjustment
<1>5. CASE FinalizeRetried
  BY <1>1, <1>5, FinalizeReadsLedger
<1>6. CASE UNCHANGED vars
  <2>1. UNCHANGED <<plan, position, attempts, db, wf, todo, adjusting, retries>>
    BY <1>6 DEF vars
  <2> QED  BY <1>1, <2>1, CalmStep DEF Unbilled
<1> QED  BY <1>1, <1>2, <1>3, <1>4, <1>5, <1>6 DEF Next

(* The invariant of the ledgers: what an attempt has read is still the sum of   *)
(* the records unless others have come since, and the duration of a call whose  *)
(* bill is being written no longer changes.                                     *)
THEOREM LedgerInvariant == Spec => []LedgerInv
<1> QED  BY LedgerInit, LedgerNext, BillInvariant, PTL DEF Spec

--------------------------------------------------------------------------------
(* Sums of natural numbers over a finite set, as MapThenSumSet makes them.      *)

PickOf(s) == CHOOSE x \in s : TRUE

SumStep(amount, g, s) == IF s = {} THEN 0 ELSE amount[PickOf(s)] + g[s \ {PickOf(s)}]

SumLoop(amount, set) == CHOOSE g : g = [s \in SUBSET set |-> SumStep(amount, g, s)]

Summable(amount, set) == IsFiniteSet(set) /\ \A x \in set : amount[x] \in Nat

SumFn(amount, set) == SumLoop(amount, set)[set]

(* What is left of a finite set has one element less.                           *)
LEMMA OneLess ==
  ASSUME NEW s, IsFiniteSet(s), NEW x \in s
  PROVE  /\ IsFiniteSet(s \ {x}) /\ Cardinality(s) \in Nat /\ Cardinality(s \ {x}) \in Nat
         /\ Cardinality(s) = Cardinality(s \ {x}) + 1
<1>1. IsFiniteSet(s \ {x}) /\ Cardinality(s \ {x}) = Cardinality(s) - 1
  BY FS_RemoveElement
<1>2. Cardinality(s) \in Nat /\ Cardinality(s \ {x}) \in Nat
  BY <1>1, FS_CardinalityType
<1> QED  BY <1>1, <1>2

(* The subsets of a finite set are finite, and no larger.                       *)
LEMMA Subsets ==
  ASSUME NEW set, IsFiniteSet(set), NEW s \in SUBSET set
  PROVE  /\ IsFiniteSet(s) /\ Cardinality(s) \in Nat /\ Cardinality(set) \in Nat
         /\ Cardinality(s) <= Cardinality(set)
         /\ s = {} <=> Cardinality(s) = 0
<1> QED  BY FS_Subset, FS_CardinalityType, FS_EmptySet

(* The sum exists.                                                              *)
LEMMA SumLoopDef ==
  ASSUME NEW amount, NEW set, IsFiniteSet(set)
  PROVE  \A s \in SUBSET set : SumLoop(amount, set)[s] = SumStep(amount, SumLoop(amount, set), s)
<1> DEFINE Good(h, n) == \A s \in SUBSET set : Cardinality(s) <= n => h[s] = SumStep(amount, h, s)
           N == {n \in Nat : \E h : Good(h, n)}
<1>1. 0 \in N
  <2> DEFINE h == [s \in SUBSET set |-> 0]
  <2>1. ASSUME NEW s \in SUBSET set, Cardinality(s) <= 0 PROVE h[s] = SumStep(amount, h, s)
    <3>1. s = {}
      BY <2>1, Subsets
    <3> QED  BY <3>1 DEF SumStep
  <2>2. Good(h, 0)
    BY <2>1
  <2> HIDE DEF h, Good
  <2> QED  BY <2>2
<1>2. ASSUME NEW n \in Nat, n \in N PROVE n + 1 \in N
  <2>1. PICK h : Good(h, n)
    BY <1>2
  <2> DEFINE k == [s \in SUBSET set |-> SumStep(amount, h, s)]
  <2>2. ASSUME NEW s \in SUBSET set, Cardinality(s) <= n PROVE k[s] = h[s]
    BY <2>1, <2>2
  <2>3. ASSUME NEW s \in SUBSET set, Cardinality(s) <= n + 1 PROVE k[s] = SumStep(amount, k, s)
    <3>1. k[s] = SumStep(amount, h, s)
      OBVIOUS
    <3>2. CASE s = {}
      BY <3>1, <3>2 DEF SumStep
    <3>3. CASE s # {}
      <4>1. PickOf(s) \in s
        BY <3>3 DEF PickOf
      <4>2. s \ {PickOf(s)} \in SUBSET set /\ Cardinality(s \ {PickOf(s)}) <= n
        BY <2>3, <4>1, OneLess, Subsets
      <4>3. k[s \ {PickOf(s)}] = h[s \ {PickOf(s)}]
        BY <2>2, <4>2
      <4> QED  BY <3>1, <4>3 DEF SumStep
    <3> QED  BY <3>2, <3>3
  <2>4. Good(k, n + 1)
    BY <2>3
  <2> HIDE DEF k, Good
  <2> QED  BY <2>4
<1>3. Cardinality(set) \in N
  <2> HIDE DEF N
  <2>1. \A n \in Nat : n \in N
    BY <1>1, <1>2, NatSetInduction
  <2> QED  BY <2>1, FS_CardinalityType
<1>4. PICK h : Good(h, Cardinality(set))
  BY <1>3
<1> DEFINE g == [s \in SUBSET set |-> h[s]]
<1>5. \A s \in SUBSET set : h[s] = SumStep(amount, h, s)
  BY <1>4, Subsets
<1>6. ASSUME NEW s \in SUBSET set PROVE g[s] = SumStep(amount, g, s)
  <2>1. s = {} \/ s \ {PickOf(s)} \in SUBSET set
    OBVIOUS
  <2>2. s = {} \/ g[s \ {PickOf(s)}] = h[s \ {PickOf(s)}]
    BY <2>1
  <2>3. SumStep(amount, g, s) = SumStep(amount, h, s)
    BY <2>2 DEF SumStep
  <2> QED  BY <1>5, <2>3
<1>7. g = [s \in SUBSET set |-> SumStep(amount, g, s)]
  <2>1. g = [s \in SUBSET set |-> g[s]]
    OBVIOUS
  <2> HIDE DEF g
  <2> QED  BY <1>6, <2>1
<1> DEFINE f == SumLoop(amount, set)
<1>8. f = [s \in SUBSET set |-> SumStep(amount, f, s)]
  <2> HIDE DEF g
  <2> QED  BY <1>7 DEF SumLoop
<1> DEFINE e == [s \in SUBSET set |-> SumStep(amount, f, s)]
<1>9. \A s \in SUBSET set : e[s] = SumStep(amount, f, s)
  OBVIOUS
<1>10. f = e
  BY <1>8
<1> HIDE DEF f, e
<1>11. \A s \in SUBSET set : f[s] = SumStep(amount, f, s)
  BY <1>9, <1>10
<1> QED  BY <1>11 DEF f

(* Which element is added first does not matter.                                *)
LEMMA SumWithout ==
  ASSUME NEW amount, NEW set, Summable(amount, set)
  PROVE  /\ SumLoop(amount, set)[{}] = 0
         /\ \A s \in SUBSET set :
              /\ SumLoop(amount, set)[s] \in Nat
              /\ \A x \in s : SumLoop(amount, set)[s]
                                = amount[x] + SumLoop(amount, set)[s \ {x}]
<1>0. IsFiniteSet(set) /\ \A x \in set : amount[x] \in Nat
  BY DEF Summable
<1> USE <1>0
<1> DEFINE g == SumLoop(amount, set)
           Cost(x) == amount[x]
           Fine(s) == g[s] \in Nat /\ \A x \in s : g[s] = Cost(x) + g[s \ {x}]
           N == {n \in Nat : \A s \in SUBSET set : Cardinality(s) <= n => Fine(s)}
<1>1. \A s \in SUBSET set : g[s] = SumStep(amount, g, s)
  BY SumLoopDef
<1>2. \A x \in set : Cost(x) \in Nat
  OBVIOUS
<1>3. \A s \in SUBSET set : s # {} =>
        /\ PickOf(s) \in s
        /\ g[s] = Cost(PickOf(s)) + g[s \ {PickOf(s)}]
  BY <1>1 DEF SumStep, PickOf
<1>4. g[{}] = 0
  <2>1. {} \in SUBSET set
    OBVIOUS
  <2> QED  BY <1>1, <2>1 DEF SumStep
<1> HIDE DEF g, Cost
<1>5. 0 \in N
  <2>1. ASSUME NEW s \in SUBSET set, Cardinality(s) <= 0 PROVE Fine(s)
    <3>1. s = {}
      BY <2>1, Subsets
    <3> QED  BY <1>4, <3>1
  <2> QED  BY <2>1
<1>6. ASSUME NEW n \in Nat, n \in N PROVE n + 1 \in N
  <2>1. ASSUME NEW s \in SUBSET set, Cardinality(s) <= n + 1 PROVE Fine(s)
    <3> DEFINE p == PickOf(s)
    <3>1. CASE s = {}
      BY <1>4, <3>1
    <3>2. CASE s # {}
      <4>1. p \in s /\ g[s] = Cost(p) + g[s \ {p}]
        BY <1>3, <3>2
      <4>2. \A x \in s : s \ {x} \in SUBSET set /\ Cardinality(s \ {x}) <= n
        <5>1. IsFiniteSet(s)
          BY Subsets
        <5> QED  BY <2>1, <5>1, OneLess
      <4> HIDE DEF p
      <4>3. \A x \in s : Fine(s \ {x})
        BY <1>6, <4>2
      <4>4. \A x \in s : Cost(x) \in Nat /\ g[s \ {x}] \in Nat
        BY <1>2, <4>3
      <4>5. ASSUME NEW x \in s, x # p PROVE g[s] = Cost(x) + g[s \ {x}]
        <5>1. g[s \ {p}] = Cost(x) + g[(s \ {p}) \ {x}]
          BY <4>1, <4>3, <4>5
        <5>2. g[s \ {x}] = Cost(p) + g[(s \ {x}) \ {p}]
          BY <4>1, <4>3, <4>5
        <5>3. (s \ {p}) \ {x} = (s \ {x}) \ {p}
          OBVIOUS
        <5>4. g[(s \ {x}) \ {p}] \in Nat
          <6>1. s \ {x} \in SUBSET set /\ p \in s \ {x}
            BY <4>1, <4>5
          <6>2. IsFiniteSet(s \ {x})
            BY <6>1, Subsets
          <6>3. (s \ {x}) \ {p} \in SUBSET set /\ Cardinality((s \ {x}) \ {p}) <= n
            <7> DEFINE a == s \ {x}
                       b == a \ {p}
            <7>1. /\ Cardinality(s) \in Nat /\ Cardinality(a) \in Nat
                  /\ Cardinality(s) = Cardinality(a) + 1 /\ IsFiniteSet(a)
              BY <4>5, <6>2, OneLess, Subsets
            <7>2. /\ Cardinality(b) \in Nat /\ Cardinality(a) = Cardinality(b) + 1
              BY <6>1, <6>2, OneLess
            <7>3. b \in SUBSET set
              OBVIOUS
            <7>4. Cardinality(a) <= n
              BY <4>2, <4>5
            <7> HIDE DEF a, b
            <7>5. Cardinality(b) <= n
              BY <7>1, <7>2, <7>4
            <7> QED  BY <7>3, <7>5 DEF a, b
          <6>4. Fine((s \ {x}) \ {p})
            BY <1>6, <6>3
          <6> QED  BY <6>4
        <5> DEFINE y == g[(s \ {x}) \ {p}]
                   u == g[s \ {p}]
                   v == g[s \ {x}]
        <5>5. u = Cost(x) + y /\ v = Cost(p) + y /\ g[s] = Cost(p) + u
          BY <4>1, <5>1, <5>2, <5>3
        <5>6. y \in Nat /\ Cost(x) \in Nat /\ Cost(p) \in Nat
          BY <4>1, <4>4, <5>4
        <5> HIDE DEF y, u, v
        <5>7. g[s] = Cost(x) + v
          BY <5>5, <5>6
        <5> QED  BY <5>7 DEF v
      <4>6. g[s] \in Nat
        BY <4>1, <4>4
      <4>7. \A x \in s : g[s] = Cost(x) + g[s \ {x}]
        BY <4>1, <4>5
      <4> QED  BY <4>6, <4>7
    <3> QED  BY <3>1, <3>2
  <2> QED  BY <2>1
<1>7. \A n \in Nat : n \in N
  <2> HIDE DEF N
  <2> QED  BY <1>5, <1>6, NatSetInduction
<1>8. \A s \in SUBSET set : Fine(s)
  <2>1. ASSUME NEW s \in SUBSET set PROVE Fine(s)
    <3>1. Cardinality(s) \in N /\ Cardinality(s) <= Cardinality(s)
      BY <1>7, Subsets
    <3> QED  BY <3>1
  <2> QED  BY <2>1
<1> QED  BY <1>4, <1>8 DEF g, Cost

(* The loop over fewer elements gives the same for what both have.              *)
LEMMA LoopsAgree ==
  ASSUME NEW amount, NEW set, NEW large, Summable(amount, large), set \subseteq large
  PROVE  \A s \in SUBSET set : SumLoop(amount, set)[s] = SumLoop(amount, large)[s]
<1> DEFINE f == SumLoop(amount, set)
           g == SumLoop(amount, large)
           N == {n \in Nat : \A s \in SUBSET set : Cardinality(s) = n => f[s] = g[s]}
<1>0. IsFiniteSet(set) /\ IsFiniteSet(large) /\ Summable(amount, set)
  BY FS_Subset DEF Summable
<1>1. f[{}] = 0 /\ \A s \in SUBSET set : \A x \in s : f[s] = amount[x] + f[s \ {x}]
  BY <1>0, SumWithout
<1>2. g[{}] = 0 /\ \A s \in SUBSET large : \A x \in s : g[s] = amount[x] + g[s \ {x}]
  BY SumWithout
<1> HIDE DEF f, g
<1>3. 0 \in N
  BY <1>0, <1>1, <1>2, Subsets
<1>4. ASSUME NEW n \in Nat, n \in N PROVE n + 1 \in N
  <2>1. ASSUME NEW s \in SUBSET set, Cardinality(s) = n + 1 PROVE f[s] = g[s]
    <3>1. PICK x \in s : TRUE
      BY <1>0, <2>1, Subsets
    <3>2. s \ {x} \in SUBSET set /\ Cardinality(s \ {x}) = n
      <4>1. IsFiniteSet(s)
        BY <1>0, Subsets
      <4>2. Cardinality(s) = Cardinality(s \ {x}) + 1 /\ Cardinality(s \ {x}) \in Nat
        BY <4>1, OneLess
      <4> QED  BY <2>1, <4>2
    <3>3. f[s \ {x}] = g[s \ {x}]
      BY <1>4, <3>2
    <3>4. s \in SUBSET large
      OBVIOUS
    <3> QED  BY <1>1, <1>2, <3>3, <3>4
  <2> QED  BY <2>1
<1>5. \A n \in Nat : n \in N
  <2> HIDE DEF N
  <2> QED  BY <1>3, <1>4, NatSetInduction
<1>6. \A s \in SUBSET set : f[s] = g[s]
  BY <1>0, <1>5, Subsets
<1> QED  BY <1>6 DEF f, g

(* Nothing adds up to nothing.                                                  *)
LEMMA SumNone == ASSUME NEW amount PROVE SumFn(amount, {}) = 0
<1>1. Summable(amount, {})
  BY FS_EmptySet DEF Summable
<1> QED  BY <1>1, SumWithout DEF SumFn

(* A sum is that of an element and that of the others.                          *)
LEMMA SumTakes ==
  ASSUME NEW amount, NEW set, Summable(amount, set), NEW x \in set, NEW rest, rest = set \ {x}
  PROVE  SumLoop(amount, set)[set] = amount[x] + SumLoop(amount, set)[rest]
<1>1. \A s \in SUBSET set : \A y \in s :
        SumLoop(amount, set)[s] = amount[y] + SumLoop(amount, set)[s \ {y}]
  <2>1. \A s \in SUBSET set :
          /\ SumLoop(amount, set)[s] \in Nat
          /\ \A y \in s : SumLoop(amount, set)[s] = amount[y] + SumLoop(amount, set)[s \ {y}]
    BY SumWithout
  <2> QED  BY <2>1
<1>2. set \in SUBSET set
  OBVIOUS
<1> QED  BY <1>1, <1>2

(* One element more adds its amount.                                            *)
LEMMA SumMore ==
  ASSUME NEW amount, NEW set, Summable(amount, set), NEW x, x \notin set,
         amount[x] \in Nat
  PROVE  /\ Summable(amount, set \cup {x})
         /\ SumFn(amount, set) \in Nat /\ SumFn(amount, set \cup {x}) \in Nat
         /\ SumFn(amount, set \cup {x}) = SumFn(amount, set) + amount[x]
<1> DEFINE large == set \cup {x}
<1>1. Summable(amount, large) /\ set \subseteq large /\ x \in large /\ large \ {x} = set
  BY FS_AddElement DEF Summable
<1> HIDE DEF large
<1>2. set \in SUBSET set /\ set \in SUBSET large
  BY <1>1
<1>3. SumLoop(amount, set)[set] = SumLoop(amount, large)[set]
  BY <1>1, <1>2, LoopsAgree
<1>4. SumLoop(amount, large)[set] \in Nat
  BY <1>1, <1>2, SumWithout
<1>5. SumLoop(amount, large)[large] = amount[x] + SumLoop(amount, large)[set]
  BY <1>1, SumTakes
<1>6. /\ SumFn(amount, set) \in Nat /\ SumFn(amount, large) \in Nat
      /\ SumFn(amount, large) = SumFn(amount, set) + amount[x]
  BY <1>3, <1>4, <1>5 DEF SumFn
<1> QED  BY <1>1, <1>6 DEF large

(* A sum over fewer elements is no larger.                                      *)
LEMMA SumMono ==
  ASSUME NEW amount, NEW large, Summable(amount, large), NEW set \in SUBSET large
  PROVE  /\ Summable(amount, set)
         /\ SumFn(amount, set) \in Nat /\ SumFn(amount, large) \in Nat
         /\ SumFn(amount, set) <= SumFn(amount, large)
<1> DEFINE g == SumLoop(amount, large)
           N == {n \in Nat : \A s \in SUBSET large :
                   set \subseteq s /\ Cardinality(s) = n => g[set] <= g[s]}
<1>0. IsFiniteSet(large) /\ Summable(amount, set)
  BY FS_Subset DEF Summable
<1>1. \A s \in SUBSET large : g[s] \in Nat /\ \A x \in s : g[s] = amount[x] + g[s \ {x}]
  BY SumWithout
<1>2. \A x \in large : amount[x] \in Nat
  BY DEF Summable
<1> HIDE DEF g
<1>3. 0 \in N
  <2>1. ASSUME NEW s \in SUBSET large, set \subseteq s, Cardinality(s) = 0 PROVE g[set] <= g[s]
    <3>1. s = {} /\ set = s
      BY <1>0, <2>1, Subsets
    <3>2. g[s] \in Nat
      BY <1>1
    <3> QED  BY <3>1, <3>2
  <2> QED  BY <2>1
<1>4. ASSUME NEW n \in Nat, n \in N PROVE n + 1 \in N
  <2>1. ASSUME NEW s \in SUBSET large, set \subseteq s, Cardinality(s) = n + 1
        PROVE  g[set] <= g[s]
    <3>1. CASE set = s
      BY <1>1, <3>1
    <3>2. CASE set # s
      <4>1. PICK x \in s : x \notin set
        BY <2>1, <3>2
      <4> DEFINE t == s \ {x}
      <4>2. t \in SUBSET large /\ set \subseteq t /\ Cardinality(t) = n
        <5>1. IsFiniteSet(s)
          BY <1>0, Subsets
        <5>2. Cardinality(s) = Cardinality(t) + 1 /\ Cardinality(t) \in Nat
          BY <5>1, OneLess
        <5> QED  BY <2>1, <4>1, <5>2
      <4>3. g[s] = amount[x] + g[t] /\ amount[x] \in Nat
        BY <1>1, <1>2
      <4> HIDE DEF t
      <4>4. g[set] <= g[t] /\ g[t] \in Nat /\ g[set] \in Nat
        BY <1>1, <1>4, <4>2
      <4> QED  BY <4>3, <4>4
    <3> QED  BY <3>1, <3>2
  <2> QED  BY <2>1
<1>5. \A n \in Nat : n \in N
  <2> HIDE DEF N
  <2> QED  BY <1>3, <1>4, NatSetInduction
<1>6. g[set] <= g[large]
  <2>1. Cardinality(large) \in N /\ large \in SUBSET large /\ set \subseteq large
    BY <1>0, <1>5, FS_CardinalityType
  <2> QED  BY <2>1
<1>7. SumLoop(amount, set)[set] = g[set]
  <2>1. \A s \in SUBSET set : SumLoop(amount, set)[s] = SumLoop(amount, large)[s]
    BY LoopsAgree
  <2> QED  BY <2>1 DEF g
<1>8. g[set] \in Nat /\ g[large] \in Nat
  BY <1>1
<1> QED  BY <1>0, <1>6, <1>7, <1>8 DEF SumFn, g

--------------------------------------------------------------------------------
(* What a measurement costs in a component, and what a measured event does.     *)
Part(e, c) ==
  [k \in DOMAIN e.measurements |->
     IF Component(e.stage, e.measurements[k].type) = c
     THEN e.measurements[k].qty * UnitPrice[e.measurements[k].type] ELSE 0]

Costs(c) == [e \in {UsageLog[i] : i \in Measured} |-> CostOf(e, c)]

Components == {"stt", "llm", "tts", "telephony"}

(* What the components come to when each is rounded on its own.                 *)
Rounded(f) == Cents(f["stt"]) + Cents(f["llm"]) + Cents(f["tts"]) + Cents(f["telephony"])

(* Division rounds down.                                                        *)
LEMMA Division ==
  ASSUME NEW a \in Nat, NEW b \in Nat \ {0}
  PROVE  /\ a \div b \in Nat
         /\ b * (a \div b) <= a
         /\ a < b * (a \div b) + b
  OBVIOUS

(* An amount in cents is half a cent off at the most.                           *)
LEMMA Near ==
  ASSUME NEW n \in Nat
  PROVE  /\ Cent \in Nat \ {0} /\ Cents(n) \in Nat
         /\ 2 * (Cent * Cents(n)) - 2 * n <= Cent
         /\ 2 * n - 2 * (Cent * Cents(n)) <= Cent
<1>0. Cent \in Nat \ {0}
  BY ActivityRateAssumption DEF Cent
<1> DEFINE k == Cent
           q == Cents(n)
<1>1. 2 * n + k \in Nat /\ 2 * k \in Nat \ {0}
  BY <1>0
<1>2. q = (2 * n + k) \div (2 * k)
  BY DEF Cents
<1> HIDE DEF k, q
<1>3. q \in Nat /\ (2 * k) * q <= 2 * n + k /\ 2 * n + k < (2 * k) * q + 2 * k
  BY <1>1, <1>2, Division
<1>4. (2 * k) * q = 2 * (k * q)
  BY <1>0, <1>3 DEF k
<1> DEFINE p == k * q
<1>5. p \in Nat
  BY <1>0, <1>3 DEF k
<1>6. 2 * p <= 2 * n + k /\ 2 * n + k < 2 * p + 2 * k
  BY <1>3, <1>4
<1> HIDE DEF p
<1>7. 2 * p - 2 * n <= k /\ 2 * n - 2 * p <= k
  BY <1>0, <1>5, <1>6 DEF k
<1> QED  BY <1>0, <1>3, <1>7 DEF p, k, q

(* A larger amount is no fewer cents.                                           *)
LEMMA Mono ==
  ASSUME NEW m \in Nat, NEW n \in Nat, m <= n
  PROVE  Cents(m) <= Cents(n)
<1>0. Cent \in Nat \ {0}
  BY Near
<1> DEFINE k == 2 * Cent
           a == 2 * m + Cent
           b == 2 * n + Cent
           p == Cents(m)
           q == Cents(n)
<1>1. a \in Nat /\ b \in Nat /\ k \in Nat \ {0} /\ a <= b
  BY <1>0
<1>2. p = a \div k /\ q = b \div k
  BY DEF Cents
<1> HIDE DEF a, b, k, p, q
<1>3. p \in Nat /\ q \in Nat /\ k * p <= a /\ b < k * q + k
  BY <1>1, <1>2, Division
<1>4. k * p < k * q + k
  BY <1>1, <1>3
<1>5. p <= q
  <2>1. SUFFICES ASSUME p >= q + 1 PROVE FALSE
    BY <1>3
  <2>2. k * p = k * q + k * (p - q)
    BY <1>1, <1>3
  <2>3. k * (p - q) >= k
    <3>1. p - q \in Nat /\ p - q >= 1
      BY <1>3, <2>1
    <3> QED  BY <1>1, <3>1
  <2>4. k * q \in Nat /\ k * (p - q) \in Nat
    BY <1>1, <1>3, <2>1
  <2> QED  BY <1>1, <1>4, <2>2, <2>3, <2>4
<1> QED  BY <1>5 DEF p, q

(* More in a component is no fewer cents in all.                                *)
LEMMA RoundedMono ==
  ASSUME NEW f, NEW g, \A c \in Components : f[c] \in Nat /\ g[c] \in Nat /\ f[c] <= g[c]
  PROVE  /\ Rounded(f) \in Nat /\ Rounded(g) \in Nat
         /\ Rounded(f) <= Rounded(g)
<1> DEFINE a(c) == Cents(f[c])
           b(c) == Cents(g[c])
<1>1. \A c \in Components : a(c) \in Nat /\ b(c) \in Nat /\ a(c) <= b(c)
  BY Near, Mono
<1>2. /\ Rounded(f) = a("stt") + a("llm") + a("tts") + a("telephony")
      /\ Rounded(g) = b("stt") + b("llm") + b("tts") + b("telephony")
  BY DEF Rounded
<1> HIDE DEF a, b
<1>3. /\ a("stt") \in Nat /\ a("llm") \in Nat /\ a("tts") \in Nat /\ a("telephony") \in Nat
      /\ b("stt") \in Nat /\ b("llm") \in Nat /\ b("tts") \in Nat /\ b("telephony") \in Nat
      /\ a("stt") <= b("stt") /\ a("llm") <= b("llm")
      /\ a("tts") <= b("tts") /\ a("telephony") <= b("telephony")
  BY <1>1 DEF Components
<1> QED  BY <1>2, <1>3

(* Four roundings are two cents off at the most.                                *)
LEMMA RoundedNear ==
  ASSUME NEW f, \A c \in Components : f[c] \in Nat
  PROVE  LET exact == f["stt"] + f["llm"] + f["tts"] + f["telephony"]
         IN  /\ exact \in Nat /\ Rounded(f) \in Nat
             /\ 2 * (Cent * Rounded(f)) - 2 * exact <= 4 * Cent
             /\ 2 * exact - 2 * (Cent * Rounded(f)) <= 4 * Cent
<1> DEFINE a == Cents(f["stt"])
           b == Cents(f["llm"])
           c == Cents(f["tts"])
           d == Cents(f["telephony"])
           w == f["stt"]
           x == f["llm"]
           y == f["tts"]
           z == f["telephony"]
           k == Cent
<1>1. w \in Nat /\ x \in Nat /\ y \in Nat /\ z \in Nat
  BY DEF Components
<1>2. /\ k \in Nat /\ a \in Nat /\ b \in Nat /\ c \in Nat /\ d \in Nat
      /\ 2 * (k * a) - 2 * w <= k /\ 2 * w - 2 * (k * a) <= k
      /\ 2 * (k * b) - 2 * x <= k /\ 2 * x - 2 * (k * b) <= k
      /\ 2 * (k * c) - 2 * y <= k /\ 2 * y - 2 * (k * c) <= k
      /\ 2 * (k * d) - 2 * z <= k /\ 2 * z - 2 * (k * d) <= k
  BY <1>1, Near
<1>3. Rounded(f) = a + b + c + d
  BY DEF Rounded
<1> HIDE DEF a, b, c, d, w, x, y, z, k
<1>4. k * (a + b + c + d) = k * a + k * b + k * c + k * d
  BY <1>2
<1>5. k * a \in Nat /\ k * b \in Nat /\ k * c \in Nat /\ k * d \in Nat
  BY <1>2
<1> DEFINE ka == k * a
           kb == k * b
           kc == k * c
           kd == k * d
<1> HIDE DEF ka, kb, kc, kd
<1>6. /\ 2 * (ka + kb + kc + kd) - 2 * (w + x + y + z) <= 4 * k
      /\ 2 * (w + x + y + z) - 2 * (ka + kb + kc + kd) <= 4 * k
  <2>1. /\ ka \in Nat /\ kb \in Nat /\ kc \in Nat /\ kd \in Nat
        /\ 2 * ka - 2 * w <= k /\ 2 * w - 2 * ka <= k
        /\ 2 * kb - 2 * x <= k /\ 2 * x - 2 * kb <= k
        /\ 2 * kc - 2 * y <= k /\ 2 * y - 2 * kc <= k
        /\ 2 * kd - 2 * z <= k /\ 2 * z - 2 * kd <= k
    BY <1>2, <1>5 DEF ka, kb, kc, kd
  <2> QED  BY <1>1, <1>2, <2>1
<1>7. /\ 2 * (k * Rounded(f)) - 2 * (w + x + y + z) <= 4 * k
      /\ 2 * (w + x + y + z) - 2 * (k * Rounded(f)) <= 4 * k
  BY <1>3, <1>4, <1>6 DEF ka, kb, kc, kd
<1>8. w + x + y + z \in Nat /\ Rounded(f) \in Nat
  BY <1>1, <1>2, <1>3
<1> QED  BY <1>7, <1>8 DEF w, x, y, z, k

(* The provider's side of a bill, by component.                                 *)
LEMMA ProviderIsRounded ==
  ASSUME NEW records
  PROVE  ProviderCents(records) = Rounded([c \in Components |-> CostIn(c, records)])
<1> QED  BY DEF ProviderCents, Rounded, Components

(* The cost of an event is the sum over its measurements.                       *)
LEMMA CostOfIsSum ==
  ASSUME NEW e, NEW c
  PROVE  CostOf(e, c) = SumFn(Part(e, c), DOMAIN e.measurements)
<1> DEFINE set == DOMAIN e.measurements
           Of(k) == IF Component(e.stage, e.measurements[k].type) = c
                    THEN e.measurements[k].qty * UnitPrice[e.measurements[k].type] ELSE 0
           A(g) == g = [s \in SUBSET set |-> IF s = {} THEN 0
                                             ELSE Of(PickOf(s)) + g[s \ {PickOf(s)}]]
           B(g) == g = [s \in SUBSET set |-> SumStep(Part(e, c), g, s)]
<1>1. CostOf(e, c) = (CHOOSE g : A(g))[set]
  BY DEF CostOf, MapThenSumSet, MapThenFoldSet, PickOf
<1>2. \A k \in set : Part(e, c)[k] = Of(k)
  BY DEF Part
<1> HIDE DEF set, Of
<1>3. \A g : A(g) <=> B(g)
  <2> SUFFICES ASSUME NEW g PROVE A(g) <=> B(g)
    OBVIOUS
  <2>1. ASSUME NEW s \in SUBSET set
        PROVE  (IF s = {} THEN 0 ELSE Of(PickOf(s)) + g[s \ {PickOf(s)}])
                 = SumStep(Part(e, c), g, s)
    <3>1. s # {} => PickOf(s) \in set
      BY DEF PickOf
    <3> QED  BY <1>2, <3>1 DEF SumStep
  <2> QED  BY <2>1
<1>4. (CHOOSE g : A(g)) = (CHOOSE g : B(g))
  <2> HIDE DEF A, B
  <2> QED  BY <1>3
<1> QED  BY <1>1, <1>4 DEF SumFn, SumLoop, set

(* The cost of some records is the sum over them.                               *)
LEMMA CostIsSum ==
  ASSUME NEW set, NEW cost, \A r \in set : cost[r] = r.cost
  PROVE  TotalCost(set) = SumFn(cost, set)
<1> DEFINE A(g) == g = [s \in SUBSET set |-> IF s = {} THEN 0
                                             ELSE PickOf(s).cost + g[s \ {PickOf(s)}]]
           B(g) == g = [s \in SUBSET set |-> SumStep(cost, g, s)]
<1>1. TotalCost(set) = (CHOOSE g : A(g))[set]
  BY DEF TotalCost, MapThenSumSet, MapThenFoldSet, PickOf
<1>2. \A g : A(g) <=> B(g)
  <2> SUFFICES ASSUME NEW g PROVE A(g) <=> B(g)
    OBVIOUS
  <2>1. ASSUME NEW s \in SUBSET set
        PROVE  (IF s = {} THEN 0 ELSE PickOf(s).cost + g[s \ {PickOf(s)}]) = SumStep(cost, g, s)
    <3>1. s # {} => PickOf(s) \in set
      BY DEF PickOf
    <3> QED  BY <3>1 DEF SumStep
  <2> QED  BY <2>1
<1>3. (CHOOSE g : A(g)) = (CHOOSE g : B(g))
  <2> HIDE DEF A, B
  <2> QED  BY <1>2
<1> QED  BY <1>1, <1>3 DEF SumFn, SumLoop

(* What is owed in a component for some measured events is the sum over them.   *)
LEMMA EventsAreSum ==
  ASSUME NEW c, NEW events \in SUBSET {UsageLog[i] : i \in Measured}
  PROVE  OwedIn(c, events) = Cents(SumFn(Costs(c), events))
<1> DEFINE A(g) == g = [s \in SUBSET events |-> IF s = {} THEN 0
                                                ELSE CostOf(PickOf(s), c) + g[s \ {PickOf(s)}]]
           B(g) == g = [s \in SUBSET events |-> SumStep(Costs(c), g, s)]
<1>1. OwedIn(c, events) = Cents((CHOOSE g : A(g))[events])
  BY DEF OwedIn, MapThenSumSet, MapThenFoldSet, PickOf
<1>2. \A e \in events : Costs(c)[e] = CostOf(e, c)
  BY DEF Costs
<1>3. \A g : A(g) <=> B(g)
  <2> SUFFICES ASSUME NEW g PROVE A(g) <=> B(g)
    OBVIOUS
  <2>1. ASSUME NEW s \in SUBSET events
        PROVE  (IF s = {} THEN 0 ELSE CostOf(PickOf(s), c) + g[s \ {PickOf(s)}])
                 = SumStep(Costs(c), g, s)
    <3>1. s # {} => PickOf(s) \in events
      BY DEF PickOf
    <3> QED  BY <1>2, <3>1 DEF SumStep
  <2> QED  BY <2>1
<1>4. (CHOOSE g : A(g)) = (CHOOSE g : B(g))
  <2> HIDE DEF A, B
  <2> QED  BY <1>3
<1> QED  BY <1>1, <1>4 DEF SumFn, SumLoop

(* And what is owed for them in all, by component.                              *)
LEMMA OwedIsRounded ==
  ASSUME NEW events \in SUBSET {UsageLog[i] : i \in Measured}
  PROVE  Owed(events) = Rounded([c \in Components |-> SumFn(Costs(c), events)])
<1> QED  BY EventsAreSum DEF Owed, Rounded, Components

--------------------------------------------------------------------------------
(* What the log says of an event that is measured.                              *)
MeasuredEvents == {UsageLog[i] : i \in Measured}

(* It is metered, of priced types, one measurement of each.                     *)
LEMMA MeasuredFacts ==
  ASSUME Places, NEW e \in MeasuredEvents
  PROVE  /\ IsUsage(e) /\ ~IsBarrier(e) /\ IsMeasured(e)
         /\ Len(e.measurements) \in Nat /\ DOMAIN e.measurements = 1..Len(e.measurements)
         /\ \A m, n \in DOMAIN e.measurements :
              e.measurements[m].type = e.measurements[n].type => m = n
         /\ \A c : \A k \in DOMAIN e.measurements : Part(e, c)[k] \in Nat
<1>1. PICK i \in Measured : e = UsageLog[i]
  BY DEF MeasuredEvents
<1>2. i \in 1..Len(UsageLog) /\ IsMeasured(e)
  BY <1>1, LogFacts DEF Measured
<1>3. /\ e.measurements \in Seq([type : DOMAIN UnitPrice, qty : Nat])
      /\ \A m, n \in DOMAIN e.measurements :
           e.measurements[m].type = e.measurements[n].type => m = n
  BY <1>1, <1>2, LogFacts
<1> DEFINE ms == e.measurements
<1>4. ms \in Seq([type : DOMAIN UnitPrice, qty : Nat])
  BY <1>3
<1> HIDE DEF ms
<1>5. /\ Len(ms) \in Nat /\ DOMAIN ms = 1..Len(ms)
      /\ \A k \in DOMAIN ms : ms[k].type \in DOMAIN UnitPrice /\ ms[k].qty \in Nat
  <2> DEFINE T == [type : DOMAIN UnitPrice, qty : Nat]
  <2>0. ms \in Seq(T)
    BY <1>4
  <2>1. \A m \in T : m.type \in DOMAIN UnitPrice /\ m.qty \in Nat
    OBVIOUS
  <2> HIDE DEF T
  <2>2. Len(ms) \in Nat /\ DOMAIN ms = 1..Len(ms) /\ \A k \in DOMAIN ms : ms[k] \in T
    BY <2>0
  <2> QED  BY <2>1, <2>2
<1>6. ASSUME NEW c, NEW k \in DOMAIN ms PROVE Part(e, c)[k] \in Nat
  <2> DEFINE qty == ms[k].qty
             price == UnitPrice[ms[k].type]
  <2>1. Part(e, c)[k] = qty * price \/ Part(e, c)[k] = 0
    BY <1>6 DEF Part, ms
  <2>2. qty \in Nat /\ price \in Nat
    BY <1>5, PriceAssumption
  <2> HIDE DEF qty, price
  <2> QED  BY <2>1, <2>2
<1> QED  BY <1>2, <1>3, <1>5, <1>6 DEF IsMeasured, ms

(* What it costs is a number.                                                   *)
LEMMA CostsNat ==
  ASSUME Places, NEW e \in MeasuredEvents, NEW c
  PROVE  Costs(c)[e] = CostOf(e, c) /\ CostOf(e, c) \in Nat
<1>1. IsFiniteSet(DOMAIN e.measurements)
  BY MeasuredFacts, FS_Interval
<1>2. Summable(Part(e, c), DOMAIN e.measurements)
  BY <1>1, MeasuredFacts DEF Summable
<1>3. DOMAIN e.measurements \in SUBSET DOMAIN e.measurements
  OBVIOUS
<1>4. SumFn(Part(e, c), DOMAIN e.measurements) \in Nat
  BY <1>2, <1>3, SumWithout DEF SumFn
<1> QED  BY <1>4, CostOfIsSum DEF Costs, MeasuredEvents

(* The rows of usage_records: each has its cost.                                *)
Booked(d) == IsFiniteSet(d.records) /\ \A r \in d.records : r.cost \in Nat

(* One record more costs what it costs.                                         *)
LEMMA CostMore ==
  ASSUME NEW set, IsFiniteSet(set), \A r \in set : r.cost \in Nat,
         NEW x, x \notin set, x.cost \in Nat
  PROVE  /\ TotalCost(set) \in Nat /\ IsFiniteSet(set \cup {x})
         /\ TotalCost(set \cup {x}) = TotalCost(set) + x.cost
<1> DEFINE cost == [r \in set \cup {x} |-> r.cost]
<1>1. \A r \in set \cup {x} : cost[r] = r.cost
  OBVIOUS
<1> HIDE DEF cost
<1>2. TotalCost(set \cup {x}) = SumFn(cost, set \cup {x}) /\ TotalCost(set) = SumFn(cost, set)
  BY <1>1, CostIsSum
<1>3. Summable(cost, set) /\ cost[x] \in Nat
  BY <1>1 DEF Summable
<1>4. /\ Summable(cost, set \cup {x}) /\ SumFn(cost, set) \in Nat
      /\ SumFn(cost, set \cup {x}) = SumFn(cost, set) + cost[x]
  BY <1>3, SumMore
<1> QED  BY <1>1, <1>2, <1>4 DEF Summable

(* In a component it costs that or nothing.                                     *)
LEMMA CostInMore ==
  ASSUME NEW set, IsFiniteSet(set), \A r \in set : r.cost \in Nat,
         NEW x, x \notin set, x.cost \in Nat, NEW c
  PROVE  /\ CostIn(c, set) \in Nat
         /\ CostIn(c, set \cup {x})
              = CostIn(c, set) + IF Component(x.stage, x.type) = c THEN x.cost ELSE 0
<1> DEFINE part == {r \in set : Component(r.stage, r.type) = c}
           larger == {r \in set \cup {x} : Component(r.stage, r.type) = c}
<1>1. IsFiniteSet(part) /\ (\A r \in part : r.cost \in Nat) /\ x \notin part
  BY FS_Subset
<1>2. CostIn(c, set) = TotalCost(part) /\ CostIn(c, set \cup {x}) = TotalCost(larger)
  BY DEF CostIn
<1>3. larger = IF Component(x.stage, x.type) = c THEN part \cup {x} ELSE part
  OBVIOUS
<1> HIDE DEF part, larger
<1>4. TotalCost(part) \in Nat /\ TotalCost(part \cup {x}) = TotalCost(part) + x.cost
  BY <1>1, CostMore
<1> QED  BY <1>2, <1>3, <1>4

(* What some records cost in a component is a number.                           *)
LEMMA CostInNat ==
  ASSUME NEW set, IsFiniteSet(set), \A r \in set : r.cost \in Nat, NEW c
  PROVE  CostIn(c, set) \in Nat
<1> DEFINE part == {r \in set : Component(r.stage, r.type) = c}
           cost == [r \in part |-> r.cost]
<1>1. IsFiniteSet(part)
  BY FS_Subset
<1>2. Summable(cost, part) /\ TotalCost(part) = SumFn(cost, part)
  BY <1>1, CostIsSum DEF Summable
<1>3. part \in SUBSET part
  OBVIOUS
<1> HIDE DEF cost
<1> QED  BY <1>2, <1>3, SumWithout DEF SumFn, CostIn

(* The keys, the adjustments and the bill stay.                                 *)
Same(d, n) ==
  n.keys = d.keys /\ n.adjustments = d.adjustments /\ n.billing = d.billing

(* What the measurements so far have added.                                     *)
Entered(d, n, e, k) ==
  /\ IsDb(n) /\ Booked(n) /\ Same(d, n)
  /\ \A r \in n.records :
       r \in d.records \/ \E i \in 1..k : r.event = e.id /\ r.type = e.measurements[i].type
  /\ \A c : CostIn(c, n.records) = CostIn(c, d.records) + SumFn(Part(e, c), 1..k)

(* One measurement more.                                                        *)
LEMMA MeasurementEnters ==
  ASSUME Places, NEW e \in MeasuredEvents, NEW d, Booked(d), \A r \in d.records : r.event # e.id,
         NEW k \in Nat, k + 1 \in DOMAIN e.measurements, NEW q, Entered(d, q, e, k)
  PROVE  Entered(d, RecordMeasurement(q, e, e.measurements[k + 1]), e, k + 1)
<1> DEFINE m == e.measurements[k + 1]
           n == RecordMeasurement(q, e, m)
           row == [event |-> e.id, type |-> m.type, stage |-> e.stage,
                   qty |-> m.qty, cost |-> m.qty * UnitPrice[m.type]]
<1>0. 1..(k + 1) = (1..k) \cup {k + 1} /\ k + 1 \notin 1..k
  OBVIOUS
<1>1. 1..k \subseteq DOMAIN e.measurements
  BY MeasuredFacts
<1>2. \A r \in q.records : <<r.event, r.type>> # <<e.id, m.type>>
  <2> SUFFICES ASSUME NEW r \in q.records, r.event = e.id, r.type = m.type PROVE FALSE
    OBVIOUS
  <2>1. r \notin d.records
    OBVIOUS
  <2>2. PICK i \in 1..k : r.type = e.measurements[i].type
    BY <2>1 DEF Entered
  <2>3. i = k + 1
    BY <1>1, <2>2, MeasuredFacts
  <2> QED  BY <1>0, <2>3
<1>3. IsDb(n) /\ Same(q, n) /\ n.records = q.records \cup {row}
  BY <1>2 DEF RecordMeasurement, Entered, IsDb, DbFields, Same
<1>4. row.event = e.id /\ row.type = m.type /\ row.stage = e.stage
  OBVIOUS
<1>5. \A c : Part(e, c)[k + 1] = IF Component(row.stage, row.type) = c THEN row.cost ELSE 0
  BY DEF Part
<1>6. row.cost \in Nat
  <2>1. Part(e, Component(row.stage, row.type))[k + 1] = row.cost
    BY <1>5
  <2>2. Part(e, Component(row.stage, row.type))[k + 1] \in Nat
    BY MeasuredFacts
  <2> HIDE DEF row
  <2> QED  BY <2>1, <2>2
<1>8. ASSUME NEW c
      PROVE  /\ SumFn(Part(e, c), 1..k) \in Nat /\ Part(e, c)[k + 1] \in Nat
             /\ SumFn(Part(e, c), 1..(k + 1)) = SumFn(Part(e, c), 1..k) + Part(e, c)[k + 1]
  <2> DEFINE a == Part(e, c)
             S == 1..k
             j == k + 1
  <2>0. \A i \in DOMAIN e.measurements : a[i] \in Nat
    BY MeasuredFacts
  <2>s. IsFiniteSet(S) /\ S \subseteq DOMAIN e.measurements
    BY <1>1, FS_Interval
  <2>t. j \in DOMAIN e.measurements /\ j \notin S /\ 1..(k + 1) = S \cup {j}
    BY <1>0
  <2> HIDE DEF a, S, j
  <2>1. Summable(a, S) /\ j \notin S /\ a[j] \in Nat /\ 1..(k + 1) = S \cup {j}
    BY <2>0, <2>s, <2>t DEF Summable
  <2>2. SumFn(a, S) \in Nat /\ SumFn(a, S \cup {j}) = SumFn(a, S) + a[j]
    BY <2>1, SumMore
  <2>3. /\ SumFn(a, S) \in Nat /\ a[j] \in Nat
        /\ SumFn(a, 1..(k + 1)) = SumFn(a, S) + a[j]
    BY <2>1, <2>2
  <2> QED  BY <2>3 DEF a, S, j
<1> HIDE DEF n, row
<1>9. row \notin q.records
  BY <1>2, <1>4
<1>10. IsFiniteSet(q.records \cup {row})
  BY <1>6, <1>9, CostMore DEF Entered, Booked
<1>11. Booked(n)
  <2>1. \A r \in n.records : r.cost \in Nat
    BY <1>3, <1>6 DEF Entered, Booked
  <2> QED  BY <1>3, <1>10, <2>1 DEF Booked
<1>12. \A r \in n.records :
         r \in d.records \/ \E i \in 1..(k + 1) : r.event = e.id /\ r.type = e.measurements[i].type
  BY <1>0, <1>3, <1>4 DEF Entered
<1>13. ASSUME NEW c
       PROVE  CostIn(c, n.records) = CostIn(c, d.records) + SumFn(Part(e, c), 1..(k + 1))
  <2>1. CostIn(c, n.records) = CostIn(c, q.records) + Part(e, c)[k + 1]
    <3>1. CostIn(c, q.records \cup {row})
            = CostIn(c, q.records) + IF Component(row.stage, row.type) = c THEN row.cost ELSE 0
      BY <1>6, <1>9, CostInMore DEF Entered, Booked
    <3> QED  BY <1>3, <1>5, <3>1
  <2>2. CostIn(c, q.records) = CostIn(c, d.records) + SumFn(Part(e, c), 1..k)
    BY DEF Entered
  <2>3. CostIn(c, d.records) \in Nat
    BY CostInNat DEF Booked
  <2> QED  BY <1>8, <2>1, <2>2, <2>3
<1> QED  BY <1>3, <1>11, <1>12, <1>13 DEF Entered, Same, n

(* All measurements of an event.                                                *)
LEMMA EventEnters ==
  ASSUME Places, NEW e \in MeasuredEvents, NEW d, IsDb(d), Booked(d), \A r \in d.records : r.event # e.id
  PROVE  LET n == FoldLeft(LAMBDA q, m : RecordMeasurement(q, e, m), d, e.measurements)
         IN  /\ IsDb(n) /\ Booked(n) /\ Same(d, n)
             /\ \A c : CostIn(c, n.records) = CostIn(c, d.records) + CostOf(e, c)
<1> DEFINE f == RecordLoop(d, e)
           n == Len(e.measurements)
           S == {k \in Nat : k <= n => Entered(d, f[1..k], e, k)}
<1>0. n \in Nat /\ DOMAIN e.measurements = 1..n
  BY MeasuredFacts
<1>u. /\ f[1..0] = d
      /\ \A k \in 0..(n - 1) : f[1..(k + 1)] = RecordMeasurement(f[1..k], e, e.measurements[k + 1])
  <2> HIDE DEF n
  <2> QED  BY <1>0, RecordUnfold
<1> HIDE DEF f, n
<1>1. 0 \in S
  <2>1. 1..0 = {}
    OBVIOUS
  <2>2. \A c : SumFn(Part(e, c), 1..0) = 0
    BY <2>1, SumNone
  <2>3. \A c : CostIn(c, d.records) \in Nat
    BY CostInNat DEF Booked
  <2>4. \A c : CostIn(c, d.records) = CostIn(c, d.records) + SumFn(Part(e, c), 1..0)
    BY <2>2, <2>3
  <2>5. Entered(d, d, e, 0)
    BY <2>4 DEF Entered, Same
  <2> QED  BY <1>u, <2>5
<1>2. ASSUME NEW k \in Nat, k \in S PROVE k + 1 \in S
  <2>1. SUFFICES ASSUME k + 1 <= n PROVE Entered(d, f[1..(k + 1)], e, k + 1)
    OBVIOUS
  <2>2. k \in 0..(n - 1) /\ k <= n /\ k + 1 \in DOMAIN e.measurements
    BY <1>0, <2>1
  <2>3. f[1..(k + 1)] = RecordMeasurement(f[1..k], e, e.measurements[k + 1])
    BY <1>u, <2>2
  <2>4. Entered(d, f[1..k], e, k)
    BY <1>2, <2>2
  <2> QED  BY <2>2, <2>3, <2>4, MeasurementEnters
<1>3. Entered(d, f[1..n], e, n)
  <2>1. \A k \in Nat : k \in S
    BY <1>1, <1>2, NatSetInduction
  <2> QED  BY <1>0, <2>1
<1>4. FoldLeft(LAMBDA q, m : RecordMeasurement(q, e, m), d, e.measurements) = f[1..n]
  BY <1>0, FoldIsRecordLoop DEF f
<1>5. \A c : SumFn(Part(e, c), 1..n) = CostOf(e, c)
  BY <1>0, CostOfIsSum
<1> QED  BY <1>3, <1>4, <1>5 DEF Entered

--------------------------------------------------------------------------------
(* What a statement outside of the loop over the measurements leaves alone, and *)
(* that a new duration is that of the event.                                    *)
Kept(d, e, n) ==
  /\ IsDb(n)
  /\ n.keys = d.keys /\ n.records = d.records /\ n.adjustments = d.adjustments
  /\ n.billing.duration \in {d.billing.duration, e.duration}

(* One after the other.                                                         *)
LEMMA KeptOn ==
  ASSUME NEW a, NEW b, NEW c, NEW e, Kept(a, e, b), Kept(b, e, c)
  PROVE  Kept(a, e, c)
<1> QED  BY DEF Kept

(* The bill of the call.                                                        *)
LEMMA BillingKept ==
  ASSUME NEW d, IsDb(d), NEW e, NEW durations \in {{}, {e.duration}}, NEW finalized
  PROVE  Kept(d, e, UpdateCallBilling(d, durations, finalized))
<1> DEFINE n == UpdateCallBilling(d, durations, finalized)
           duration == IF durations = {} THEN d.billing.duration
                       ELSE CHOOSE x \in durations : TRUE
<1>1. duration \in {d.billing.duration, e.duration}
  OBVIOUS
<1>2. /\ IsDb(n) /\ n.keys = d.keys /\ n.records = d.records /\ n.adjustments = d.adjustments
      /\ n.billing.duration = duration
  BY DEF UpdateCallBilling, IsDb, DbFields
<1> HIDE DEF n, duration
<1> QED  BY <1>1, <1>2 DEF Kept, n

(* The row of the call, and what its end does to the bill.                      *)
LEMMA CallKept ==
  ASSUME NEW d, IsDb(d), NEW e
  PROVE  Kept(d, e, ProjectCall(d, e))
<1>0. Kept(d, e, d)
  BY DEF Kept
<1>1. Kept(d, e, ProjectStarted(d, e))
  BY DEF ProjectStarted, IsDb, DbFields, Kept
<1>2. Kept(d, e, ProjectEnded(d, e))
  <2> DEFINE c == [d EXCEPT !.call = [@ EXCEPT !.status = "CALL_COMPLETED", !.stage = e.stage,
                                               !.ended = TRUE]]
  <2>1. Kept(d, e, c)
    BY DEF IsDb, DbFields, Kept
  <2> HIDE DEF c
  <2>2. Kept(c, e, UpdateCallBilling(c, {e.duration}, TRUE))
    <3>1. IsDb(c)
      BY <2>1 DEF Kept
    <3> QED  BY <3>1, BillingKept
  <2>3. Kept(d, e, UpdateCallBilling(c, {e.duration}, TRUE))
    BY <2>1, <2>2, KeptOn
  <2> QED  BY <1>0, <2>3 DEF ProjectEnded, c
<1>3. Kept(d, e, ProjectFailed(d, e))
  <2> DEFINE c == IF d.call.status = "absent" THEN d
                  ELSE [d EXCEPT !.call = [@ EXCEPT !.status = "CALL_FAILED", !.stage = e.stage,
                                                    !.ended = TRUE]]
  <2>1. Kept(d, e, c)
    BY DEF IsDb, DbFields, Kept
  <2> HIDE DEF c
  <2>2. Kept(c, e, UpdateCallBilling(c, {}, TRUE))
    <3>1. IsDb(c)
      BY <2>1 DEF Kept
    <3> QED  BY <3>1, BillingKept
  <2>3. Kept(d, e, UpdateCallBilling(c, {}, TRUE))
    BY <2>1, <2>2, KeptOn
  <2> QED  BY <2>3 DEF ProjectFailed, c
<1>4. Kept(d, e, ProjectProgress(d, e))
  BY DEF ProjectProgress, IsDb, DbFields, Kept
<1> QED  BY <1>0, <1>1, <1>2, <1>3, <1>4 DEF ProjectCall

(* What an event does to the charges: a measured event that is new adds its     *)
(* cost, any other leaves the records alone.                                    *)
Charged(d, e, n) ==
  /\ Booked(n)
  /\ n.adjustments = d.adjustments
  /\ n.billing.duration \in {d.billing.duration, e.duration}
  /\ IF IsMeasured(e) /\ ~IsDuplicate(d, e)
     THEN \A c : CostIn(c, n.records) = CostIn(c, d.records) + CostOf(e, c)
     ELSE n.records = d.records

(* Every event is charged so.                                                   *)
LEMMA OneCharged ==
  ASSUME Places, NEW d, IsDb(d), Booked(d), NEW e, NEW offset,
         IsMeasured(e) => e \in MeasuredEvents,
         IsMeasured(e) /\ ~IsDuplicate(d, e) => \A r \in d.records : r.event # e.id
  PROVE  Charged(d, e, ProjectOne(d, e, offset))
<1>1. CASE IsDuplicate(d, e)
  BY <1>1 DEF ProjectOne, Charged
<1>2. CASE ~IsDuplicate(d, e)
  <2> DEFINE keyed == [d EXCEPT !.keys = @ \cup {e.key}, !.timeline = @ \cup {e.id}]
             c == ProjectCall(keyed, e)
             p == ProjectMetric(c, e)
             u == ProjectUsage(p, e, offset)
  <2>1. /\ IsDb(keyed) /\ keyed.records = d.records /\ keyed.billing = d.billing
        /\ keyed.adjustments = d.adjustments
    BY DEF IsDb, DbFields
  <2> HIDE DEF keyed
  <2>2. Kept(keyed, e, c)
    BY <2>1, CallKept
  <2> HIDE DEF c
  <2>3. Kept(c, e, p)
    <3>1. IsDb(c)
      BY <2>2 DEF Kept
    <3> QED  BY <3>1 DEF ProjectMetric, IsDb, DbFields, Kept
  <2> HIDE DEF p
  <2>4. Kept(keyed, e, p)
    BY <2>2, <2>3, KeptOn
  <2>5. /\ IsDb(p) /\ Booked(p) /\ p.records = d.records /\ p.adjustments = d.adjustments
        /\ p.billing.duration \in {d.billing.duration, e.duration}
    BY <2>1, <2>4 DEF Kept, Booked
  <2>6. Charged(d, e, u)
    <3>1. CASE ~IsMeasured(e)
      <4>1. Kept(p, e, u)
        <5>1. u = p \/ u = ProjectManifest(p, e, offset)
          BY <3>1 DEF IsMeasured, ProjectUsage
        <5>2. Kept(p, e, p)
          BY <2>5 DEF Kept
        <5>3. Kept(p, e, ProjectManifest(p, e, offset))
          BY <2>5 DEF ProjectManifest, IsDb, DbFields, Kept
        <5> QED  BY <5>1, <5>2, <5>3
      <4> HIDE DEF u
      <4> QED  BY <2>5, <3>1, <4>1 DEF Kept, Charged, Booked
    <3>2. CASE IsMeasured(e)
      <4> DEFINE r == FoldLeft(LAMBDA q, m : RecordMeasurement(q, e, m), p, e.measurements)
                 b == UpdateCallBilling(r, {}, FALSE)
      <4>1. u = EnqueueBillingEvent(b, e)
        BY <3>2 DEF ProjectUsage, ProjectMeasurements, IsMeasured
      <4>2. \A x \in p.records : x.event # e.id
        BY <1>2, <2>5, <3>2
      <4>3. /\ IsDb(r) /\ Booked(r) /\ Same(p, r)
            /\ \A x : CostIn(x, r.records) = CostIn(x, p.records) + CostOf(e, x)
        BY <2>5, <3>2, <4>2, EventEnters
      <4> HIDE DEF r
      <4>4. Kept(r, e, b)
        BY <4>3, BillingKept
      <4> HIDE DEF b
      <4>5. Kept(b, e, u)
        <5>1. IsDb(b)
          BY <4>4 DEF Kept
        <5> QED  BY <4>1, <5>1 DEF EnqueueBillingEvent, IsDb, DbFields, Kept
      <4> HIDE DEF u
      <4>6. Kept(r, e, u)
        BY <4>4, <4>5, KeptOn
      <4>7. /\ Booked(u) /\ u.adjustments = d.adjustments
            /\ u.billing.duration \in {d.billing.duration, e.duration}
            /\ \A x : CostIn(x, u.records) = CostIn(x, d.records) + CostOf(e, x)
        BY <2>5, <4>3, <4>6 DEF Kept, Same, Booked
      <4> QED  BY <1>2, <3>2, <4>7 DEF Charged
    <3> QED  BY <3>1, <3>2
  <2> QED  BY <1>2, <2>6 DEF ProjectOne, keyed, c, p, u
<1> QED  BY <1>1, <1>2

(* A record of one of the logs is charged.                                      *)
LEMMA RowCharged ==
  ASSUME Places, RecordsKeyed, Booked(db), NEW t \in DOMAIN Log, position[t] < Len(Log[t])
  PROVE  LET e == Log[t][position[t] + 1]
         IN  Charged(db, e, ProjectBatch(db, <<[topic |-> t, offset |-> position[t], event |-> e]>>).db)
<1> DEFINE e == Log[t][position[t] + 1]
           item == [topic |-> t, offset |-> position[t], event |-> e]
           one == ProjectOne(db, e, position[t])
           w == [one EXCEPT !.watermark = Advanced(@, item)]
<1>1. PICK n \in Nat : (IsUsage(e) => DOMAIN e.measurements = 1..n) /\ (IsMeasured(e) => n > 0)
  BY RowMeasures
<1>2. IsDb(db)
  BY DEF Places
<1>3. item.event = e /\ item.offset = position[t]
  OBVIOUS
<1>4. IsMeasured(e) => e \in MeasuredEvents
  <2>1. CASE t = "usage-events"
    <3>1. position[t] + 1 \in 1..Len(UsageLog) /\ e = UsageLog[position[t] + 1]
      BY <2>1, LogFacts DEF Log, Places
    <3> HIDE DEF e
    <3>2. position[t] + 1 \in DOMAIN UsageLog
      BY <3>1, LogFacts
    <3> QED  BY <3>1, <3>2 DEF MeasuredEvents, Measured
  <2>2. CASE t = "call-events"
    <3>1. position[t] + 1 \in 1..Len(CallLog) /\ e = CallLog[position[t] + 1]
      BY <2>2, LogFacts DEF Log, Places
    <3> HIDE DEF e
    <3> QED  BY <3>1, LogFacts DEF IsMeasured
  <2> QED  BY <2>1, <2>2 DEF Log
<1> HIDE DEF e, item
<1>5. IsMeasured(e) /\ ~IsDuplicate(db, e) => \A r \in db.records : r.event # e.id
  <2> SUFFICES ASSUME IsMeasured(e), ~IsDuplicate(db, e), NEW r \in db.records, r.event = e.id
               PROVE  FALSE
    OBVIOUS
  <2>1. PICK i \in Measured : UsageLog[i].id = r.event /\ UsageLog[i].key \in db.keys
    BY DEF RecordsKeyed
  <2>2. PICK j \in Measured : e = UsageLog[j]
    BY <1>4 DEF MeasuredEvents
  <2>3. UsageLog[i] = e
    BY <2>1, <2>2, LogFacts DEF Measured
  <2> QED  BY <2>1, <2>3 DEF IsDuplicate
<1>6. Charged(db, e, one)
  BY <1>2, <1>4, <1>5, OneCharged
<1>7. ProjectBatch(db, <<item>>).db = w
  <2>1. ProjectBatch(db, <<item>>).db
          = [ProjectOne(db, item.event, item.offset) EXCEPT !.watermark = Advanced(@, item)]
    BY BatchOfOne
  <2> QED  BY <1>3, <2>1
<1>8. IsDb(one)
  BY <1>1, <1>2, OneProjects DEF Projects
<1> HIDE DEF one
<1>9. w.records = one.records /\ w.billing = one.billing /\ w.adjustments = one.adjustments
  BY <1>8 DEF IsDb, DbFields
<1> HIDE DEF w
<1>10. Charged(db, e, w)
  BY <1>6, <1>9 DEF Charged, Booked
<1> QED  BY <1>7, <1>10 DEF e, item

--------------------------------------------------------------------------------
(* The adjustments. The usage whose keys are stored, and the charges for it.    *)
Projected == {e \in MeasuredEvents : e.key \in db.keys}

Costed ==
  /\ Booked(db)
  /\ IsFiniteSet(Projected)
  /\ \A c : CostIn(c, db.records) = SumFn(Costs(c), Projected)
  /\ db.billing.duration \in Nat

KeyedBehind == \A i \in Measured : Behind(i) => UsageLog[i].key \in db.keys

(* An adjustment has started when its workflow has, or the worker is about to   *)
(* start it.                                                                    *)
Pending(id) == \E k \in DOMAIN todo : todo[k].kind = "adjust" /\ todo[k].event.id = id

Started(id) == adjusting[id].at # "absent" \/ Pending(id)

AnyStarted == \E id \in Late : Started(id)

StartedKnown ==
  \A id \in Late : Started(id) =>
    \E i \in DOMAIN UsageLog : UsageLog[i].id = id /\ UsageLog[i].key \in db.keys

IsAdjusting(a) == a = [f \in {"at", "base", "counted", "delta"} |-> a[f]]

AdjustShapes ==
  /\ adjusting = [id \in Late |-> adjusting[id]]
  /\ \A id \in Late : IsAdjusting(adjusting[id])
  /\ \A k \in DOMAIN todo : todo[k].kind = "adjust" => todo[k].event.id \in Late

(* What an adjustment has counted is no more than the charges, and no less than *)
(* the usage up to its event.                                                   *)
Bound(i) == Rounded([c \in Components |-> SumFn(Costs(c), UpTo(i))])

Within(id, n) ==
  /\ n \in Nat /\ n <= Charges
  /\ \A i \in Measured : First(i) /\ UsageLog[i].id = id => Bound(i) <= n

CountsWithin ==
  /\ \A id \in Late : adjusting[id].at = "insert" => Within(id, adjusting[id].counted)
  /\ \A a \in db.adjustments :
       a.event \in Late /\ Started(a.event) /\ Within(a.event, a.recomputed)

InsertedBehind == \A id \in Late : adjusting[id].at \in {"emit", "done"} => Adjusted(id)

(* An adjustment that misses nothing so far: what it has counted, or has        *)
(* written, are the charges. If there are adjustments, one of them is so.       *)
Current(id) ==
  /\ adjusting[id].at = "insert" => adjusting[id].counted = Charges
  /\ \A a \in db.adjustments : a.event = id => a.recomputed = Charges

SomeCurrent == AnyStarted => \E id \in Late : Started(id) /\ Current(id)

AdjustInv ==
  /\ Costed
  /\ KeyedBehind
  /\ StartedKnown
  /\ AdjustShapes
  /\ CountsWithin
  /\ InsertedBehind
  /\ SomeCurrent

--------------------------------------------------------------------------------
(* The charges are a number, and so is the cost in each component.              *)
LEMMA ChargesNat ==
  ASSUME Places, Costed
  PROVE  /\ \A c : CostIn(c, db.records) \in Nat /\ Summable(Costs(c), Projected)
         /\ ProviderCents(db.records) \in Nat /\ PlatformCents \in Nat /\ Charges \in Nat
         /\ ProviderCents(db.records) <= Charges
<1>1. \A c : \A e \in Projected : Costs(c)[e] \in Nat
  BY CostsNat DEF Projected
<1>2. \A c : Summable(Costs(c), Projected)
  BY <1>1 DEF Summable, Costed
<1>3. \A c : CostIn(c, db.records) \in Nat
  BY CostInNat DEF Costed, Booked
<1>4. ProviderCents(db.records) \in Nat
  <2> DEFINE f == [c \in Components |-> CostIn(c, db.records)]
  <2>1. \A c \in Components : f[c] \in Nat
    BY <1>3
  <2>2. ProviderCents(db.records) = Rounded(f)
    BY ProviderIsRounded
  <2> HIDE DEF f
  <2> QED  BY <2>1, <2>2, RoundedNear
<1>5. PlatformCents \in Nat
  <2>1. Lasted \in Nat
    BY LogFacts DEF Costed, Lasted
  <2>2. Lasted * ActivityRate \in Nat
    BY <2>1, ActivityRateAssumption
  <2> QED  BY <2>2, Near DEF PlatformCents
<1> QED  BY <1>2, <1>3, <1>4, <1>5 DEF Charges

(* The usage up to an event that has been projected, by where it is first, has  *)
(* been projected.                                                              *)
LEMMA UpToProjected ==
  ASSUME Places, KeysBehind, KeyedBehind,
         NEW i \in Measured, First(i), UsageLog[i].key \in db.keys
  PROVE  UpTo(i) \subseteq Projected
<1>1. i \in 1..Len(UsageLog) /\ DOMAIN UsageLog = 1..Len(UsageLog) /\ Len(UsageLog) \in Nat
  BY LogFacts DEF Measured
<1>2. position["usage-events"] \in 0..Len(UsageLog) /\ position["call-events"] \in 0..Len(CallLog)
  BY DEF Places
<1>3. \A j \in 1..position["call-events"] : UsageLog[i].key # CallLog[j].key
  <2>1. \A j \in 1..position["call-events"] : j \in 1..Len(CallLog)
    BY <1>2, LogFacts
  <2> QED  BY <1>1, <2>1, LogFacts
<1>4. PICK j \in 1..position["usage-events"] : UsageLog[i].key = UsageLog[j].key
  BY <1>3 DEF KeysBehind
<1>5. j \in 1..Len(UsageLog)
  BY <1>1, <1>2
<1>6. UsageLog[j] = UsageLog[i]
  BY <1>1, <1>4, <1>5, LogFacts
<1>7. i <= j
  BY <1>1, <1>5, <1>6 DEF First
<1>8. \A k \in Measured \cap 1..i : UsageLog[k].key \in db.keys
  <2>1. \A k \in Measured \cap 1..i : Behind(k)
    BY <1>1, <1>2, <1>4, <1>7 DEF Behind
  <2> QED  BY <2>1 DEF KeyedBehind
<1> QED  BY <1>8 DEF UpTo, Projected, MeasuredEvents

(* So the charges of the moment are within the bounds of an adjustment that has *)
(* started.                                                                     *)
LEMMA ChargesWithin ==
  ASSUME BillInv, AdjustInv, NEW id \in Late, Started(id)
  PROVE  Within(id, Charges)
<1>0. Places /\ KeysBehind /\ KeyedBehind /\ Costed
  BY DEF BillInv, AdjustInv
<1>1. /\ Charges \in Nat /\ ProviderCents(db.records) \in Nat
      /\ ProviderCents(db.records) <= Charges
  BY <1>0, ChargesNat
<1> DEFINE g == [c \in Components |-> CostIn(c, db.records)]
<1>3. ProviderCents(db.records) = Rounded(g)
  BY ProviderIsRounded
<1>4. \A c \in Components : g[c] = SumFn(Costs(c), Projected) /\ Summable(Costs(c), Projected)
  BY <1>0, ChargesNat DEF Costed
<1> HIDE DEF g
<1>2. ASSUME NEW i \in Measured, First(i), UsageLog[i].id = id
      PROVE  Bound(i) <= Charges
  <2>1. PICK j \in DOMAIN UsageLog : UsageLog[j].id = id /\ UsageLog[j].key \in db.keys
    BY DEF AdjustInv, StartedKnown
  <2>2. UsageLog[j] = UsageLog[i]
    BY <1>0, <1>2, <2>1, LogFacts DEF Measured
  <2>3. UpTo(i) \in SUBSET Projected
    BY <1>0, <1>2, <2>1, <2>2, UpToProjected
  <2> DEFINE f == [c \in Components |-> SumFn(Costs(c), UpTo(i))]
  <2>4. \A c \in Components : f[c] \in Nat /\ g[c] \in Nat /\ f[c] <= g[c]
    BY <1>4, <2>3, SumMono
  <2>5. Bound(i) = Rounded(f)
    BY DEF Bound
  <2> HIDE DEF f
  <2>6. Bound(i) \in Nat /\ Bound(i) <= ProviderCents(db.records)
    BY <1>3, <2>4, <2>5, RoundedMono
  <2> QED  BY <1>1, <2>6
<1> QED  BY <1>1, <1>2 DEF Within

(* There is a final bill when an adjustment has started, and the duration of    *)
(* the call is settled.                                                         *)
LEMMA StartedSettled ==
  ASSUME LedgerInv, NEW id \in Late, Started(id)
  PROVE  db.final # NoFinal /\ attempts # <<>> /\ EndKeyed
<1>1. db.final # NoFinal
  <2>1. CASE adjusting[id].at # "absent"
    BY <2>1 DEF LedgerInv, TypeOK
  <2>2. CASE Pending(id)
    <3>1. PICK S : todo \in Seq(S) /\ \A c \in S : Meant(c)
      BY DEF LedgerInv, TodoTells
    <3>2. PICK k \in DOMAIN todo : todo[k].kind = "adjust"
      BY <2>2 DEF Pending
    <3>3. todo[k] \in S
      BY <3>1, <3>2
    <3> QED  BY <3>1, <3>2, <3>3 DEF Meant
  <2> QED  BY <2>1, <2>2 DEF Started
<1>2. attempts # <<>>
  BY <1>1 DEF LedgerInv, FinalAgrees
<1>3. EndKeyed
  BY <1>2 DEF LedgerInv, TypeOK, Course
<1> QED  BY <1>1, <1>2, <1>3

(* The property follows: of all rows none is above the charges, and one is at   *)
(* the charges when everything has come to rest.                                *)
LEMMA InvCurrent ==
  ASSUME BillInv, LedgerInv, AdjustInv
  PROVE  AdjustmentsAreCurrent
<1>1. AdjustmentCoversItsEvent
  <2>1. SUFFICES ASSUME NEW i \in Measured, First(i),
                        adjusting[UsageLog[i].id].at \in {"emit", "done"}
                 PROVE  \E a \in db.adjustments :
                          a.event = UsageLog[i].id /\ a.recomputed >= Owed(UpTo(i))
    BY DEF AdjustmentCoversItsEvent
  <2>2. UsageLog[i].id \in Late
    BY DEF Late, Measured
  <2>3. PICK a \in db.adjustments : a.event = UsageLog[i].id
    BY <2>1, <2>2 DEF AdjustInv, InsertedBehind, Adjusted
  <2>4. Within(UsageLog[i].id, a.recomputed)
    BY <2>3 DEF AdjustInv, CountsWithin
  <2>5. Bound(i) <= a.recomputed
    BY <2>1, <2>4 DEF Within
  <2>6. UpTo(i) \in SUBSET {UsageLog[j] : j \in Measured}
    BY DEF UpTo
  <2>7. Owed(UpTo(i)) = Bound(i)
    BY <2>6, OwedIsRounded DEF Bound
  <2>8. UpTo(i) \subseteq Projected
    <3>1. Started(UsageLog[i].id)
      BY <2>1 DEF Started
    <3>2. PICK j \in DOMAIN UsageLog : UsageLog[j].id = UsageLog[i].id /\ UsageLog[j].key \in db.keys
      BY <2>2, <3>1 DEF AdjustInv, StartedKnown
    <3>3. Places /\ KeysBehind /\ KeyedBehind
      BY DEF BillInv, AdjustInv
    <3>4. UsageLog[j] = UsageLog[i]
      BY <3>2, <3>3, LogFacts DEF Measured
    <3> QED  BY <2>1, <3>2, <3>3, <3>4, UpToProjected
  <2>9. Bound(i) \in Nat
    <3> DEFINE f == [c \in Components |-> SumFn(Costs(c), UpTo(i))]
    <3>1. \A c : Summable(Costs(c), Projected)
      BY ChargesNat DEF BillInv, AdjustInv
    <3>2. \A c \in Components : f[c] \in Nat
      BY <2>8, <3>1, SumMono
    <3>3. Bound(i) = Rounded(f)
      BY DEF Bound
    <3> HIDE DEF f
    <3> QED  BY <3>2, <3>3, RoundedNear
  <2>10. a.recomputed \in Nat
    BY <2>4 DEF Within
  <2> DEFINE b == Bound(i)
             n == a.recomputed
  <2>11. n >= b
    <3>1. b \in Nat /\ n \in Nat /\ b <= n
      BY <2>5, <2>9, <2>10
    <3> HIDE DEF b, n
    <3> QED  BY <3>1
  <2> HIDE DEF b, n
  <2>12. a.recomputed >= Owed(UpTo(i))
    BY <2>7, <2>11 DEF b, n
  <2> QED  BY <2>3, <2>12
<1>2. NewestAdjustmentIsCurrent
  <2>1. SUFFICES ASSUME AtRest, db.adjustments # {}
                 PROVE  Charges = Max({a.recomputed : a \in db.adjustments})
    BY DEF NewestAdjustmentIsCurrent
  <2>2. AnyStarted
    BY <2>1 DEF AdjustInv, CountsWithin, AnyStarted
  <2>3. PICK id \in Late : Started(id) /\ Current(id)
    BY <2>2 DEF AdjustInv, SomeCurrent
  <2>4. adjusting[id].at = "done"
    BY <2>1, <2>3 DEF AtRest, Started, Pending
  <2>5. PICK a \in db.adjustments : a.event = id
    BY <2>4 DEF AdjustInv, InsertedBehind, Adjusted
  <2>6. a.recomputed = Charges
    BY <2>3, <2>5 DEF Current
  <2> DEFINE all == {x.recomputed : x \in db.adjustments}
  <2>7. \A n \in all : n \in Nat /\ n <= Charges
    BY DEF AdjustInv, CountsWithin, Within
  <2>8. Charges \in all
    BY <2>6
  <2>9. Charges \in Nat
    BY <2>7, <2>8
  <2> HIDE DEF all
  <2>10. \A n \in all : (\A m \in all : n >= m) => n = Charges
    BY <2>7, <2>8, <2>9
  <2>11. \A m \in all : Charges >= m
    BY <2>7, <2>9
  <2>12. Max(all) = Charges
    BY <2>8, <2>10, <2>11 DEF Max
  <2> QED  BY <2>12 DEF all
<1> QED  BY <1>1, <1>2 DEF AdjustmentsAreCurrent

--------------------------------------------------------------------------------
(* A step that projects nothing leaves the charges and their bounds alone.      *)
LEMMA ChargesStay ==
  ASSUME AdjustInv, UNCHANGED <<plan, position>>, db'.keys = db.keys, Unbilled(db, db')
  PROVE  /\ Costed' /\ KeyedBehind'
         /\ Charges' = Charges /\ Late' = Late /\ UsageLog' = UsageLog
         /\ \A id, n : Within(id, n)' <=> Within(id, n)
<1>1. UsageLog' = UsageLog /\ Measured' = Measured
  BY DEF UsageLog, Measured
<1>2. Late' = Late /\ MeasuredEvents' = MeasuredEvents /\ \A c : Costs(c)' = Costs(c)
  BY <1>1 DEF Late, MeasuredEvents, Costs
<1>3. db'.records = db.records /\ db'.billing = db.billing /\ db'.call = db.call
  BY DEF Unbilled
<1>4. Projected' = Projected
  BY <1>2 DEF Projected
<1>5. Costed'
  BY <1>2, <1>3, <1>4 DEF AdjustInv, Costed, Booked
<1>6. KeyedBehind'
  BY <1>1 DEF AdjustInv, KeyedBehind, Behind
<1>7. Charges' = Charges
  BY <1>3 DEF Charges, PlatformCents, Lasted
<1>8. \A i : (First(i)' <=> First(i)) /\ Bound(i)' = Bound(i)
  BY <1>1, <1>2 DEF First, Bound, UpTo
<1>9. \A id, n : Within(id, n)' <=> Within(id, n)
  BY <1>1, <1>7, <1>8 DEF Within
<1> QED  BY <1>1, <1>2, <1>5, <1>6, <1>7, <1>9

(* What is pending when a call is made: all that was but the call itself.       *)
LEMMA PendingStays ==
  ASSUME TodoTells, todo' = todo \/ (todo # <<>> /\ todo' = Tail(todo))
  PROVE  /\ \A k \in DOMAIN todo' : \E j \in DOMAIN todo : todo'[k] = todo[j]
         /\ \A id : Pending(id)' => Pending(id)
         /\ \A id : Pending(id) =>
              \/ Pending(id)'
              \/ /\ todo # <<>> /\ todo' = Tail(todo)
                 /\ Head(todo).kind = "adjust" /\ Head(todo).event.id = id
<1>1. PICK S : todo \in Seq(S)
  BY DEF TodoTells
<1>2. CASE todo' = todo
  BY <1>2 DEF Pending
<1>3. CASE todo # <<>> /\ todo' = Tail(todo)
  <2>1. /\ DOMAIN todo = 1..Len(todo) /\ Len(todo) \in Nat /\ Len(todo) > 0
        /\ DOMAIN todo' = 1..(Len(todo) - 1)
        /\ \A k \in 1..(Len(todo) - 1) : todo'[k] = todo[k + 1]
        /\ Head(todo) = todo[1]
    BY <1>1, <1>3
  <2>2. \A k \in DOMAIN todo' : k + 1 \in DOMAIN todo /\ todo'[k] = todo[k + 1]
    BY <2>1
  <2>3. \A id : Pending(id)' => Pending(id)
    BY <2>2 DEF Pending
  <2>4. ASSUME NEW id, Pending(id)
        PROVE  \/ Pending(id)'
               \/ Head(todo).kind = "adjust" /\ Head(todo).event.id = id
    <3>1. PICK k \in DOMAIN todo : todo[k].kind = "adjust" /\ todo[k].event.id = id
      BY <2>4 DEF Pending
    <3>2. CASE k = 1
      BY <2>1, <3>1, <3>2
    <3>3. CASE k # 1
      <4>1. k - 1 \in DOMAIN todo' /\ todo'[k - 1] = todo[k]
        BY <2>1, <3>1, <3>3
      <4> QED  BY <3>1, <4>1 DEF Pending
    <3> QED  BY <3>2, <3>3
  <2> QED  BY <1>3, <2>2, <2>3, <2>4
<1> QED  BY <1>2, <1>3

(* A step that neither projects nor adjusts.                                    *)
LEMMA CalmAdjust ==
  ASSUME LedgerInv, AdjustInv, UNCHANGED <<plan, position, adjusting>>,
         db'.keys = db.keys, Unbilled(db, db'), db'.adjustments = db.adjustments,
         \/ todo' = todo
         \/ todo # <<>> /\ Head(todo).kind # "adjust" /\ todo' = Tail(todo)
  PROVE  AdjustInv'
<1>1. /\ Costed' /\ KeyedBehind'
      /\ Charges' = Charges /\ Late' = Late /\ UsageLog' = UsageLog
      /\ \A id, n : Within(id, n)' <=> Within(id, n)
  BY ChargesStay
<1>2. TodoTells
  BY DEF LedgerInv
<1>3. /\ \A k \in DOMAIN todo' : \E j \in DOMAIN todo : todo'[k] = todo[j]
      /\ \A id : Pending(id)' <=> Pending(id)
  BY <1>2, PendingStays
<1>4. \A id : Started(id)' <=> Started(id)
  BY <1>3 DEF Started
<1>5. StartedKnown'
  BY <1>1, <1>4 DEF AdjustInv, StartedKnown
<1>6. AdjustShapes'
  BY <1>1, <1>3 DEF AdjustInv, AdjustShapes, IsAdjusting
<1>7. CountsWithin'
  BY <1>1, <1>4 DEF AdjustInv, CountsWithin
<1>8. InsertedBehind'
  BY <1>1 DEF AdjustInv, InsertedBehind, Adjusted
<1>9. SomeCurrent'
  <2>1. \A id : Current(id)' <=> Current(id)
    BY <1>1 DEF Current
  <2> QED  BY <1>1, <1>4, <2>1 DEF AdjustInv, SomeCurrent, AnyStarted
<1> QED  BY <1>1, <1>5, <1>6, <1>7, <1>8, <1>9 DEF AdjustInv

(* An adjustment goes on: only when it reads does it count, and then all there  *)
(* is; only what it has counted does it write.                                  *)
LEMMA MoveAdjust ==
  ASSUME BillInv, LedgerInv, AdjustInv, UNCHANGED <<plan, position>>,
         db'.keys = db.keys, Unbilled(db, db'),
         todo' = todo \/ (todo # <<>> /\ todo' = Tail(todo)),
         NEW id \in Late, Started(id), NEW a, IsAdjusting(a), a.at # "absent",
         adjusting' = [adjusting EXCEPT ![id] = a],
         \A x : Pending(x) => Pending(x)' \/ x = id,
         a.at = "insert" => a.counted = Charges,
         a.at \in {"emit", "done"} => \E r \in db'.adjustments : r.event = id,
         \/ db'.adjustments = db.adjustments
         \/ \E r : /\ db'.adjustments = db.adjustments \cup {r}
                   /\ r.event = id /\ r.recomputed = adjusting[id].counted
                   /\ adjusting[id].at = "insert"
  PROVE  AdjustInv'
<1>1. /\ Costed' /\ KeyedBehind'
      /\ Charges' = Charges /\ Late' = Late /\ UsageLog' = UsageLog
      /\ \A x, n : Within(x, n)' <=> Within(x, n)
  BY ChargesStay
<1>2. TodoTells
  BY DEF LedgerInv
<1>3. /\ \A k \in DOMAIN todo' : \E j \in DOMAIN todo : todo'[k] = todo[j]
      /\ \A x : Pending(x)' => Pending(x)
  BY <1>2, PendingStays
<1>4. /\ adjusting' = [x \in Late |-> adjusting'[x]]
      /\ \A x \in Late : adjusting'[x] = IF x = id THEN a ELSE adjusting[x]
  BY DEF AdjustInv, AdjustShapes
<1>5. \A x \in Late : Started(x)' <=> Started(x)
  BY <1>3, <1>4 DEF Started
<1>6. StartedKnown'
  BY <1>1, <1>5 DEF AdjustInv, StartedKnown
<1>7. AdjustShapes'
  BY <1>1, <1>3, <1>4 DEF AdjustInv, AdjustShapes, IsAdjusting
<1>8. Within(id, Charges)
  BY ChargesWithin
<1>9. ASSUME NEW r \in db'.adjustments
      PROVE  r \in db.adjustments
             \/ (r.event = id /\ r.recomputed = adjusting[id].counted /\ adjusting[id].at = "insert")
  OBVIOUS
<1>10. CountsWithin'
  <2>1. \A x \in Late : adjusting'[x].at = "insert" => Within(x, adjusting'[x].counted)
    BY <1>4, <1>8 DEF AdjustInv, CountsWithin
  <2>2. ASSUME NEW r \in db'.adjustments
        PROVE  r.event \in Late /\ Started(r.event) /\ Within(r.event, r.recomputed)
    BY <1>9 DEF AdjustInv, CountsWithin
  <2> QED  BY <1>1, <1>5, <2>1, <2>2 DEF CountsWithin
<1>11. db.adjustments \subseteq db'.adjustments
  OBVIOUS
<1>12. InsertedBehind'
  <2>1. ASSUME NEW x \in Late, adjusting'[x].at \in {"emit", "done"}
        PROVE  \E r \in db'.adjustments : r.event = x
    <3>1. CASE x = id
      BY <1>4, <2>1, <3>1
    <3>2. CASE x # id
      BY <1>4, <1>11, <2>1, <3>2 DEF AdjustInv, InsertedBehind, Adjusted
    <3> QED  BY <3>1, <3>2
  <2> QED  BY <1>1, <2>1 DEF InsertedBehind, Adjusted
<1>13. SomeCurrent'
  <2>1. PICK x \in Late : Started(x) /\ Current(x)
    BY DEF AdjustInv, SomeCurrent, AnyStarted
  <2>2. adjusting'[x].at = "insert" => adjusting'[x].counted = Charges
    BY <1>4, <2>1 DEF Current
  <2>3. \A r \in db'.adjustments : r.event = x => r.recomputed = Charges
    BY <1>9, <2>1 DEF Current
  <2>4. Current(x)'
    BY <1>1, <2>2, <2>3 DEF Current
  <2> QED  BY <1>1, <1>5, <2>1, <2>4 DEF SomeCurrent
<1> QED  BY <1>1, <1>6, <1>7, <1>10, <1>12, <1>13 DEF AdjustInv

(* The worker's calls, and the steps of the workflow that bills.                *)
LEMMA CallsAdjust ==
  ASSUME BillInv, LedgerInv, AdjustInv,
         StartFinalization \/ SignalEnded \/ Hint \/ Finalization \/ FinalizeRetried
  PROVE  AdjustInv'
<1>1. UNCHANGED <<plan, position, adjusting>>
  BY DEF StartFinalization, SignalEnded, Hint, Finalization, FinalizeRetried, ReadManifest,
         ReadWatermark, ReadExpectations, ReadPresent, Decide, Wake, FinalizeReadsUsage,
         FinalizeReadsDuration, FinalizeWrites, FinalizeAnswers, EmitFinalized, Read
<1>2. \/ todo' = todo
      \/ todo # <<>> /\ Head(todo).kind # "adjust" /\ todo' = Tail(todo)
  BY DEF StartFinalization, SignalEnded, Hint, Finalization, FinalizeRetried, ReadManifest,
         ReadWatermark, ReadExpectations, ReadPresent, Decide, Wake, FinalizeReadsUsage,
         FinalizeReadsDuration, FinalizeWrites, FinalizeAnswers, EmitFinalized, Read, Calling
<1>3. IsDb(db)
  BY DEF BillInv, Places
<1>4. db'.keys = db.keys /\ Unbilled(db, db') /\ db'.adjustments = db.adjustments
  <2>1. CASE EmitFinalized
    BY <1>3, <2>1 DEF EmitFinalized, Announced, IsDb, DbFields, Unbilled
  <2>2. CASE FinalizeWrites
    <3>1. PICK row : db' = [db EXCEPT !.final = row]
      BY <2>2 DEF FinalizeWrites
    <3> QED  BY <1>3, <3>1 DEF IsDb, DbFields, Unbilled
  <2>3. CASE ~EmitFinalized /\ ~FinalizeWrites
    <3>1. db' = db
      BY <2>3 DEF StartFinalization, SignalEnded, Hint, Finalization, FinalizeRetried, ReadManifest,
         ReadWatermark, ReadExpectations, ReadPresent, Decide, Wake, FinalizeReadsUsage,
         FinalizeReadsDuration, FinalizeAnswers, Read
    <3> QED  BY <3>1 DEF Unbilled
  <2> QED  BY <2>1, <2>2, <2>3
<1> QED  BY <1>1, <1>2, <1>4, CalmAdjust

(* The start of an adjustment, and its steps.                                   *)
LEMMA AdjustSteps ==
  ASSUME BillInv, LedgerInv, AdjustInv,
         StartAdjustment \/ Adjustment \/ AdjustRetried
  PROVE  AdjustInv'
<1>1. UNCHANGED <<plan, position>>
  BY DEF StartAdjustment, Adjustment, AdjustRetried, AdjustReadsFinal, AdjustReadsUsage,
         AdjustInserts, AdjustEmits, Adjust
<1>2. IsDb(db) /\ \A x \in Late : IsAdjusting(adjusting[x])
  BY DEF BillInv, Places, AdjustInv, AdjustShapes
<1>3. CASE StartAdjustment
  <2> DEFINE id == Head(todo).event.id
             a == [adjusting[id] EXCEPT !.at = "final"]
  <2>1. /\ todo # <<>> /\ Head(todo).kind = "adjust" /\ todo' = Tail(todo)
        /\ adjusting' = [adjusting EXCEPT ![id] = a]
        /\ db' = db
    BY <1>3 DEF StartAdjustment, Calling
  <2>2. PICK S : todo \in Seq(S)
    BY DEF LedgerInv, TodoTells
  <2>3. 1 \in DOMAIN todo /\ Head(todo) = todo[1]
    BY <2>1, <2>2
  <2>4. id \in Late /\ Started(id)
    BY <2>1, <2>3 DEF AdjustInv, AdjustShapes, Started, Pending
  <2>5. IsAdjusting(a) /\ a.at = "final"
    BY <1>2, <2>4 DEF IsAdjusting
  <2>6. TodoTells
    BY DEF LedgerInv
  <2>7. \A x : Pending(x) => Pending(x)' \/ x = id
    BY <2>1, <2>6, PendingStays
  <2> HIDE DEF id, a
  <2>8. Unbilled(db, db')
    BY <2>1 DEF Unbilled
  <2> QED  BY <1>1, <2>1, <2>4, <2>5, <2>7, <2>8, MoveAdjust
<1>4. ASSUME NEW id \in Late, NEW a, IsAdjusting(a), a.at # "absent", adjusting[id].at # "absent",
             adjusting' = [adjusting EXCEPT ![id] = a], todo' = todo,
             db'.keys = db.keys, Unbilled(db, db'),
             a.at = "insert" => a.counted = Charges,
             a.at \in {"emit", "done"} => \E r \in db'.adjustments : r.event = id,
             \/ db'.adjustments = db.adjustments
             \/ \E r : /\ db'.adjustments = db.adjustments \cup {r}
                       /\ r.event = id /\ r.recomputed = adjusting[id].counted
                       /\ adjusting[id].at = "insert"
      PROVE  AdjustInv'
  <2>1. Started(id)
    BY <1>4 DEF Started
  <2>2. \A x : Pending(x) => Pending(x)' \/ x = id
    BY <1>4 DEF Pending
  <2> QED  BY <1>1, <1>4, <2>1, <2>2, MoveAdjust
<1>5. CASE AdjustReadsFinal
  <2>1. PICK id \in Late :
          Adjust(id, "final", [adjusting[id] EXCEPT !.at = "usage", !.base = db.final.total])
            /\ db' = db
    BY <1>5 DEF AdjustReadsFinal
  <2> DEFINE a == [adjusting[id] EXCEPT !.at = "usage", !.base = db.final.total]
  <2>2. IsAdjusting(a) /\ a.at = "usage"
    BY <1>2 DEF IsAdjusting
  <2>3. adjusting[id].at = "final" /\ adjusting' = [adjusting EXCEPT ![id] = a] /\ todo' = todo
    BY <2>1 DEF Adjust
  <2> HIDE DEF a
  <2>4. Unbilled(db, db')
    BY <2>1 DEF Unbilled
  <2> QED  BY <1>4, <2>1, <2>2, <2>3, <2>4
<1>6. CASE AdjustReadsUsage
  <2> DEFINE n == ProviderCents(db.records) + PlatformCents
  <2>0. n = Charges
    BY DEF Charges
  <2>1. PICK id \in Late :
          Adjust(id, "usage", [adjusting[id] EXCEPT !.at = "insert", !.counted = n]) /\ db' = db
    BY <1>6 DEF AdjustReadsUsage
  <2> HIDE DEF n
  <2> DEFINE a == [adjusting[id] EXCEPT !.at = "insert", !.counted = n]
  <2>2. IsAdjusting(a) /\ a.at = "insert" /\ a.counted = n
    BY <1>2 DEF IsAdjusting
  <2>3. adjusting[id].at = "usage" /\ adjusting' = [adjusting EXCEPT ![id] = a] /\ todo' = todo
    BY <2>1 DEF Adjust
  <2> HIDE DEF a
  <2>4. Unbilled(db, db')
    BY <2>1 DEF Unbilled
  <2> QED  BY <1>4, <2>0, <2>1, <2>2, <2>3, <2>4
<1>7. CASE AdjustInserts
  <2>1. PICK id \in Late :
          LET delta == adjusting[id].counted - adjusting[id].base IN
            /\ Adjust(id, "insert", [adjusting[id] EXCEPT !.at = "emit", !.delta = delta])
            /\ db' = IF Adjusted(id) THEN db
                     ELSE [db EXCEPT !.adjustments =
                             @ \cup {[event |-> id, previous |-> adjusting[id].base,
                                      recomputed |-> adjusting[id].counted, delta |-> delta]}]
    BY <1>7 DEF AdjustInserts
  <2> DEFINE delta == adjusting[id].counted - adjusting[id].base
             a == [adjusting[id] EXCEPT !.at = "emit", !.delta = delta]
             r == [event |-> id, previous |-> adjusting[id].base,
                   recomputed |-> adjusting[id].counted, delta |-> delta]
  <2>2. Adjust(id, "insert", a)
        /\ db' = IF Adjusted(id) THEN db ELSE [db EXCEPT !.adjustments = @ \cup {r}]
    BY <2>1
  <2> HIDE DEF delta
  <2>3. IsAdjusting(a) /\ a.at = "emit"
    BY <1>2 DEF IsAdjusting
  <2>4. adjusting[id].at = "insert" /\ adjusting' = [adjusting EXCEPT ![id] = a] /\ todo' = todo
    BY <2>2 DEF Adjust
  <2>5. r.event = id /\ r.recomputed = adjusting[id].counted
    OBVIOUS
  <2> HIDE DEF a, r
  <2>6. /\ db'.keys = db.keys /\ Unbilled(db, db')
        /\ \/ Adjusted(id) /\ db'.adjustments = db.adjustments
           \/ db'.adjustments = db.adjustments \cup {r}
    BY <1>2, <2>2 DEF IsDb, DbFields, Unbilled
  <2>7. \E x \in db'.adjustments : x.event = id
    <3>1. CASE Adjusted(id) /\ db'.adjustments = db.adjustments
      BY <3>1 DEF Adjusted
    <3>2. CASE db'.adjustments = db.adjustments \cup {r}
      BY <2>5, <3>2
    <3> QED  BY <2>6, <3>1, <3>2
  <2>8. \/ db'.adjustments = db.adjustments
        \/ \E x : /\ db'.adjustments = db.adjustments \cup {x}
                  /\ x.event = id /\ x.recomputed = adjusting[id].counted
                  /\ adjusting[id].at = "insert"
    BY <2>4, <2>5, <2>6
  <2> QED  BY <1>4, <2>3, <2>4, <2>6, <2>7, <2>8
<1>8. CASE AdjustRetried
  <2>1. PICK id \in Late : /\ adjusting[id].at \in {"usage", "insert", "emit"}
                           /\ Adjust(id, adjusting[id].at, [adjusting[id] EXCEPT !.at = "final"])
                           /\ db' = db
    BY <1>8 DEF AdjustRetried
  <2> DEFINE a == [adjusting[id] EXCEPT !.at = "final"]
  <2>2. IsAdjusting(a) /\ a.at = "final"
    BY <1>2 DEF IsAdjusting
  <2>3. adjusting[id].at # "absent" /\ adjusting' = [adjusting EXCEPT ![id] = a] /\ todo' = todo
    BY <2>1 DEF Adjust
  <2> HIDE DEF a
  <2>4. Unbilled(db, db')
    BY <2>1 DEF Unbilled
  <2> QED  BY <1>4, <2>1, <2>2, <2>3, <2>4
<1>9. CASE AdjustEmits
  <2>1. PICK id \in Late : /\ Adjust(id, "emit", [adjusting[id] EXCEPT !.at = "done"])
                           /\ db' = Announced("billing.adjustment_created", id)
    BY <1>9 DEF AdjustEmits
  <2> DEFINE a == [adjusting[id] EXCEPT !.at = "done"]
  <2>2. IsAdjusting(a) /\ a.at = "done"
    BY <1>2 DEF IsAdjusting
  <2>3. adjusting[id].at = "emit" /\ adjusting' = [adjusting EXCEPT ![id] = a] /\ todo' = todo
    BY <2>1 DEF Adjust
  <2> HIDE DEF a
  <2>4. db'.keys = db.keys /\ Unbilled(db, db') /\ db'.adjustments = db.adjustments
    BY <1>2, <2>1 DEF Announced, IsDb, DbFields, Unbilled
  <2>5. \E r \in db'.adjustments : r.event = id
    BY <2>3, <2>4 DEF AdjustInv, InsertedBehind, Adjusted
  <2> QED  BY <1>4, <2>2, <2>3, <2>4, <2>5
<1> QED  BY <1>3, <1>5, <1>6, <1>7, <1>8, <1>9 DEF Adjustment

--------------------------------------------------------------------------------
(* A late usage event that is new: the call for its adjustment is among those   *)
(* that follow.                                                                 *)
LEMMA TodoOfLate ==
  ASSUME NEW d, NEW e, d.final # NoFinal, IsMeasured(e), ~IsDuplicate(d, e)
  PROVE  LET calls == Todo(Classified(d, NoResult, e))
         IN  \E k \in DOMAIN calls : calls[k].kind = "adjust" /\ calls[k].event = e
<1> DEFINE r == Classified(d, NoResult, e)
           hint == [kind |-> "hint", event |-> e]
           adjust == [kind |-> "adjust", event |-> e]
<1>1. /\ r.ended = <<>> /\ r.late = <<e>> /\ r.duplicates = <<>>
      /\ r.usage /\ r.inserted = <<e>>
  <2>1. IsUsage(e) /\ ~IsBarrier(e) /\ e.type # "call.ended"
    BY DEF IsMeasured, IsUsage
  <2> DEFINE none == [inserted |-> <<>>, ended |-> <<>>, usage |-> FALSE, late |-> <<>>,
                      duplicates |-> <<>>]
  <2>2. r = [none EXCEPT !.inserted = Append(@, e), !.ended = @, !.usage = @ \/ IsUsage(e),
                         !.late = Append(@, e)]
    BY <2>1 DEF Classified, NoResult
  <2>3. /\ r.ended = none.ended /\ r.late = Append(none.late, e)
        /\ r.duplicates = none.duplicates /\ r.usage = (none.usage \/ IsUsage(e))
        /\ r.inserted = Append(none.inserted, e)
    BY <2>2, Zenon
  <2>4. Append(<<>>, e) = <<e>>
    OBVIOUS
  <2> HIDE DEF r
  <2> QED  BY <2>1, <2>3, <2>4
<1> HIDE DEF r
<1>2. FlattenSeq([i \in DOMAIN r.ended |->
                    <<[kind |-> "start", event |-> r.ended[i]],
                      [kind |-> "ended", event |-> r.ended[i]]>>]) = <<>>
  <2>1. [i \in DOMAIN r.ended |-> <<[kind |-> "start", event |-> r.ended[i]],
                                    [kind |-> "ended", event |-> r.ended[i]]>>] = <<>>
    BY <1>1
  <2> QED  BY <2>1 DEF FlattenSeq
<1>3. FlattenSeq([i \in DOMAIN r.duplicates |->
                    IF IsNotice(r.duplicates[i]) THEN <<>>
                    ELSE <<[kind |-> "notice", event |-> r.duplicates[i]]>>]) = <<>>
  <2>1. [i \in DOMAIN r.duplicates |->
           IF IsNotice(r.duplicates[i]) THEN <<>>
           ELSE <<[kind |-> "notice", event |-> r.duplicates[i]]>>] = <<>>
    BY <1>1
  <2> QED  BY <2>1 DEF FlattenSeq
<1>4. (IF r.usage THEN <<[kind |-> "hint", event |-> r.inserted[1]]>> ELSE <<>>) = <<hint>>
  <2>1. r.inserted[1] = e
    BY <1>1
  <2> QED  BY <1>1, <2>1
<1>5. Calls("adjust", r.late) = <<adjust>>
  <2>1. DOMAIN r.late = 1..1 /\ \A i \in 1..1 : r.late[i] = e
    BY <1>1
  <2>2. <<adjust>> = [i \in 1..1 |-> adjust]
    OBVIOUS
  <2> QED  BY <2>1, <2>2 DEF Calls
<1>6. adjust.kind = "adjust" /\ adjust.event = e
  OBVIOUS
<1> HIDE DEF hint, adjust
<1>7. Todo(r) = <<>> \o <<hint>> \o <<adjust>> \o <<>>
  BY <1>2, <1>3, <1>4, <1>5 DEF Todo
<1>8. 2 \in DOMAIN Todo(r) /\ Todo(r)[2] = adjust
  BY <1>7
<1> QED  BY <1>6, <1>8 DEF r

(* The projector takes a step: an event adds its cost to the charges, and if it *)
(* is late it is followed by the call for its own adjustment, which has counted *)
(* nothing yet and so misses nothing.                                           *)
LEMMA ProjectAdjust ==
  ASSUME BillInv, LedgerInv, AdjustInv, Project
  PROVE  AdjustInv'
<1>1. PICK t \in DOMAIN Log :
        /\ position[t] < Len(Log[t])
        /\ LET item == [topic |-> t, offset |-> position[t], event |-> Log[t][position[t] + 1]]
           IN  /\ db' = ProjectBatch(db, <<item>>).db
               /\ todo' = Todo(ProjectBatch(db, <<item>>).result)
        /\ position' = [position EXCEPT ![t] = @ + 1]
  BY DEF Project
<1>2. UNCHANGED <<plan, adjusting>> /\ todo = <<>>
  BY DEF Project
<1>3. /\ Places /\ Totals(db) /\ IsCall(db) /\ RecordsKeyed /\ Booked(db) /\ Costed
      /\ KeyedBehind
  BY DEF BillInv, LedgerInv, AdjustInv, Costed
<1> DEFINE e == Log[t][position[t] + 1]
           item == [topic |-> t, offset |-> position[t], event |-> e]
           u == position["usage-events"]
           c == position["call-events"]
<1>4. Pays(db, e, db') /\ Projects(db, e, db') /\ Charged(db, e, db')
  BY <1>1, <1>3, RowPays, ProjectRow, RowCharged
<1>5. todo' = Todo(Classified(db, NoResult, e))
  <2>1. item.event = e
    OBVIOUS
  <2>2. todo' = Todo(ProjectBatch(db, <<item>>).result)
    BY <1>1
  <2> HIDE DEF e, item
  <2>3. ProjectBatch(db, <<item>>).result = Classified(db, NoResult, item.event)
    BY BatchOfOne
  <2> QED  BY <2>1, <2>2, <2>3
<1>6. \/ /\ u + 1 \in 1..Len(UsageLog) /\ e = UsageLog[u + 1] /\ IsUsage(e) /\ u' = u + 1
      \/ /\ c + 1 \in 1..Len(CallLog) /\ e = CallLog[c + 1] /\ ~IsUsage(e) /\ u' = u
  <2>1. CASE t = "usage-events"
    <3>1. u + 1 \in 1..Len(UsageLog) /\ e = UsageLog[u + 1] /\ u' = u + 1
      BY <1>1, <1>3, <2>1, LogFacts DEF Log, Places
    <3> HIDE DEF e, u
    <3> QED  BY <1>3, <3>1, LogFacts
  <2>2. CASE t = "call-events"
    <3>1. c + 1 \in 1..Len(CallLog) /\ e = CallLog[c + 1] /\ u' = u
      BY <1>1, <1>3, <2>2, LogFacts DEF Log, Places
    <3> HIDE DEF e, c, u
    <3> QED  BY <1>3, <3>1, LogFacts
  <2> QED  BY <2>1, <2>2 DEF Log
<1> HIDE DEF e, item
<1>7. UsageLog' = UsageLog /\ CallLog' = CallLog /\ Measured' = Measured /\ Late' = Late
      /\ MeasuredEvents' = MeasuredEvents /\ \A x : Costs(x)' = Costs(x)
  BY <1>2 DEF UsageLog, CallLog, Measured, Late, MeasuredEvents, Costs
<1>8. db'.keys = db.keys \cup {e.key} /\ db'.final = db.final /\ db'.adjustments = db.adjustments
      /\ Booked(db')
  BY <1>4 DEF Pays, Projects, Charged
<1>9. DOMAIN UsageLog = 1..Len(UsageLog) /\ u \in Nat
  BY <1>3, LogFacts DEF Places, u
<1> DEFINE New == IsMeasured(e) /\ ~IsDuplicate(db, e)
<1>10. IsMeasured(e) =>
         e \in MeasuredEvents /\ e.id \in Late /\ \E i \in Measured : e = UsageLog[i]
  <2> SUFFICES ASSUME IsMeasured(e)
               PROVE  e \in MeasuredEvents /\ e.id \in Late /\ \E i \in Measured : e = UsageLog[i]
    OBVIOUS
  <2>1. u + 1 \in DOMAIN UsageLog /\ e = UsageLog[u + 1]
    BY <1>6, <1>9 DEF IsMeasured
  <2>2. u + 1 \in Measured
    BY <2>1 DEF Measured
  <2> QED  BY <2>1, <2>2 DEF MeasuredEvents, Late
<1>11. \A x \in MeasuredEvents : x.key = e.key => x = e
  <2> SUFFICES ASSUME NEW x \in MeasuredEvents, x.key = e.key PROVE x = e
    OBVIOUS
  <2>1. PICK i \in 1..Len(UsageLog) : x = UsageLog[i]
    BY <1>9 DEF MeasuredEvents, Measured
  <2>2. e \in {UsageLog[j] : j \in 1..Len(UsageLog)} \/ e \in {CallLog[j] : j \in 1..Len(CallLog)}
    BY <1>6
  <2> QED  BY <1>3, <2>1, <2>2, LogFacts
<1>12. IF New THEN Projected' = Projected \cup {e} /\ e \notin Projected
              ELSE Projected' = Projected
  <2>1. Projected' = {x \in MeasuredEvents : x.key \in db.keys \/ x.key = e.key}
    BY <1>7, <1>8 DEF Projected
  <2>2. CASE New
    BY <1>10, <1>11, <2>1, <2>2 DEF Projected, IsDuplicate
  <2>3. CASE ~New /\ IsDuplicate(db, e)
    BY <2>1, <2>3 DEF Projected, IsDuplicate
  <2>4. CASE ~New /\ ~IsMeasured(e)
    <3>1. e \notin MeasuredEvents
      BY <2>4 DEF MeasuredEvents, Measured
    <3>2. \A x \in MeasuredEvents : x.key # e.key
      BY <1>11, <3>1
    <3>3. Projected' = {x \in MeasuredEvents : x.key \in db.keys}
      BY <2>1, <3>2
    <3> QED  BY <2>4, <3>3 DEF Projected
  <2> QED  BY <2>2, <2>3, <2>4
<1>13. IF New THEN \A x : CostIn(x, db'.records) = CostIn(x, db.records) + CostOf(e, x)
              ELSE db'.records = db.records
  BY <1>4 DEF Charged
<1>14. /\ \A x : Summable(Costs(x), Projected) /\ CostIn(x, db.records) \in Nat
       /\ ProviderCents(db.records) \in Nat /\ PlatformCents \in Nat /\ Charges \in Nat
  BY <1>3, ChargesNat
<1>15. New => \A x : CostOf(e, x) \in Nat /\ Costs(x)[e] = CostOf(e, x)
  BY <1>3, <1>10, CostsNat
<1>16. ASSUME NEW x
       PROVE  /\ IsFiniteSet(Projected')
              /\ CostIn(x, db'.records) = SumFn(Costs(x), Projected')
              /\ CostIn(x, db.records) \in Nat /\ CostIn(x, db'.records) \in Nat
              /\ CostIn(x, db.records) <= CostIn(x, db'.records)
  <2>1. CASE New
    <3>1. /\ Summable(Costs(x), Projected \cup {e})
          /\ SumFn(Costs(x), Projected \cup {e}) = SumFn(Costs(x), Projected) + Costs(x)[e]
      BY <1>12, <1>14, <1>15, <2>1, SumMore
    <3>2. CostIn(x, db'.records) = SumFn(Costs(x), Projected')
      BY <1>3, <1>12, <1>13, <1>15, <2>1, <3>1 DEF Costed
    <3>3. IsFiniteSet(Projected')
      BY <1>12, <2>1, <3>1 DEF Summable
    <3>4. CostIn(x, db'.records) = CostIn(x, db.records) + CostOf(e, x) /\ CostOf(e, x) \in Nat
      BY <1>13, <1>15, <2>1
    <3> QED  BY <1>14, <3>2, <3>3, <3>4
  <2>2. CASE ~New
    BY <1>3, <1>12, <1>13, <1>14, <2>2 DEF Costed
  <2> QED  BY <2>1, <2>2
<1>17. db'.billing.duration \in Nat
  <2>1. db'.billing.duration \in {db.billing.duration, e.duration}
    BY <1>4 DEF Charged
  <2>2. db'.billing.duration = db.billing.duration \/ IsEnd(e)
    BY <1>4 DEF Pays
  <2>3. IsEnd(e) => e.duration \in Nat
    <3>1. IsEnd(e) => c + 1 \in 1..Len(CallLog) /\ e = CallLog[c + 1]
      BY <1>6 DEF IsUsage, IsEnd
    <3> QED  BY <1>3, <3>1, LogFacts
  <2> QED  BY <1>3, <2>1, <2>2, <2>3 DEF Costed
<1>18. Costed'
  <2>1. IsFiniteSet(Projected')
    BY <1>16
  <2>2. \A x : CostIn(x, db'.records) = SumFn(Costs(x), Projected)'
    BY <1>7, <1>16
  <2> QED  BY <1>8, <1>17, <2>1, <2>2 DEF Costed
<1>19. KeyedBehind'
  <2>1. SUFFICES ASSUME NEW i \in Measured, i \in 1..u'
                 PROVE  UsageLog[i].key \in db'.keys
    BY <1>7 DEF KeyedBehind, Behind, u
  <2>2. CASE i \in 1..u
    BY <1>3, <1>8, <2>2 DEF KeyedBehind, Behind, u
  <2>3. CASE i \notin 1..u
    <3>1. i = u + 1 /\ e = UsageLog[i]
      BY <1>6, <1>9, <2>1, <2>3
    <3> QED  BY <1>8, <3>1
  <2> QED  BY <2>2, <2>3
<1>20. EndKeyed => PlatformCents' = PlatformCents
  <2>1. SUFFICES ASSUME EndKeyed, IsEnd(e)
                 PROVE  IsDuplicate(db, e)
    BY <1>2, <1>4 DEF Pays, PlatformCents, Lasted
  <2>2. PICK j \in 1..Len(CallLog) : CallLog[j].type = "call.ended" /\ CallLog[j].key \in db.keys
    BY <2>1 DEF EndKeyed
  <2>3. c + 1 \in 1..Len(CallLog) /\ e = CallLog[c + 1]
    BY <1>6, <2>1 DEF IsUsage, IsEnd
  <2>4. CallLog[j] = CallLog[c + 1]
    BY <1>3, <2>1, <2>2, <2>3, LogFacts
  <2> QED  BY <2>2, <2>3, <2>4 DEF IsDuplicate
<1>21. ASSUME AnyStarted
       PROVE  /\ db.final # NoFinal
              /\ Charges <= Charges' /\ Charges' \in Nat
              /\ ~New => Charges' = Charges
  <2>1. PICK id \in Late : Started(id)
    BY <1>21 DEF AnyStarted
  <2>2. db.final # NoFinal /\ EndKeyed
    BY <2>1, StartedSettled
  <2>3. PlatformCents' = PlatformCents
    BY <1>20, <2>2
  <2> DEFINE f == [x \in Components |-> CostIn(x, db.records)]
             g == [x \in Components |-> CostIn(x, db'.records)]
             a == ProviderCents(db.records)
             b == ProviderCents(db'.records)
             p == PlatformCents
  <2>4. Charges = a + p /\ Charges' = b + p
    BY <2>3 DEF Charges
  <2>5. a = Rounded(f) /\ b = Rounded(g)
    BY ProviderIsRounded
  <2>6. \A x \in Components : f[x] \in Nat /\ g[x] \in Nat /\ f[x] <= g[x]
    BY <1>16
  <2>7. ~New => a = b
    BY <1>13
  <2>8. p \in Nat
    BY <1>14
  <2> HIDE DEF a, b, f, g, p, New
  <2>9. a \in Nat /\ b \in Nat /\ a <= b
    BY <2>5, <2>6, RoundedMono
  <2>10. Charges <= Charges' /\ Charges' \in Nat /\ (~New => Charges' = Charges)
    BY <2>4, <2>7, <2>8, <2>9
  <2> QED  BY <2>2, <2>10
<1>22. \A id : ~Pending(id)
  BY <1>2 DEF Pending
<1>23. ASSUME NEW k \in DOMAIN todo', todo'[k].kind = "adjust"
       PROVE  db.final # NoFinal /\ New /\ todo'[k].event = e
  <2>1. PICK S : /\ todo' \in Seq(S)
                 /\ \A x \in S : x.kind = "adjust" => /\ db.final # NoFinal /\ IsMeasured(e)
                                                      /\ ~IsDuplicate(db, e) /\ x.event = e
    BY <1>5, TodoOfOne
  <2>2. todo'[k] \in S
    BY <1>23, <2>1
  <2> QED  BY <1>23, <2>1, <2>2
<1>24. \A id : Started(id) => Started(id)'
  BY <1>2, <1>22 DEF Started
<1>25. ASSUME NEW id, Started(id)', ~Started(id)
       PROVE  db.final # NoFinal /\ New /\ id = e.id
  <2>1. Pending(id)'
    BY <1>2, <1>25 DEF Started
  <2>2. PICK k \in DOMAIN todo' : todo'[k].kind = "adjust" /\ todo'[k].event.id = id
    BY <2>1 DEF Pending
  <2> QED  BY <1>23, <2>2
<1>26. StartedKnown'
  <2>1. SUFFICES ASSUME NEW id \in Late, Started(id)'
                 PROVE  \E i \in DOMAIN UsageLog : UsageLog[i].id = id /\ UsageLog[i].key \in db'.keys
    BY <1>7 DEF StartedKnown
  <2>2. CASE Started(id)
    BY <1>8, <2>2 DEF AdjustInv, StartedKnown
  <2>3. CASE ~Started(id)
    <3>1. id = e.id /\ \E i \in Measured : e = UsageLog[i]
      BY <1>10, <1>25, <2>1, <2>3
    <3> QED  BY <1>8, <3>1 DEF Measured
  <2> QED  BY <2>2, <2>3
<1>27. AdjustShapes'
  <2>1. \A k \in DOMAIN todo' : todo'[k].kind = "adjust" => todo'[k].event.id \in Late
    BY <1>10, <1>23
  <2> QED  BY <1>2, <1>7, <2>1 DEF AdjustInv, AdjustShapes, IsAdjusting
<1>28. \A i : (First(i)' <=> First(i)) /\ Bound(i)' = Bound(i)
  BY <1>7 DEF First, Bound, UpTo
<1>29. ASSUME NEW id, NEW n, Within(id, n), AnyStarted PROVE Within(id, n)'
  <2>1. n \in Nat /\ n <= Charges
    BY <1>29 DEF Within
  <2>2. Charges <= Charges' /\ Charges' \in Nat
    BY <1>21, <1>29
  <2>3. n <= Charges'
    BY <1>14, <2>1, <2>2
  <2> QED  BY <1>7, <1>28, <1>29, <2>1, <2>3 DEF Within
<1>30. CountsWithin'
  <2>1. ASSUME NEW id \in Late, adjusting[id].at = "insert"
        PROVE  Within(id, adjusting[id].counted)'
    <3>1. Within(id, adjusting[id].counted)
      BY <2>1 DEF AdjustInv, CountsWithin
    <3>2. AnyStarted
      BY <2>1 DEF AnyStarted, Started
    <3> QED  BY <1>2, <1>29, <3>1, <3>2
  <2>2. ASSUME NEW a \in db.adjustments
        PROVE  a.event \in Late /\ Started(a.event)' /\ Within(a.event, a.recomputed)'
    <3>1. a.event \in Late /\ Started(a.event) /\ Within(a.event, a.recomputed)
      BY <2>2 DEF AdjustInv, CountsWithin
    <3>2. AnyStarted
      BY <3>1 DEF AnyStarted
    <3> QED  BY <1>24, <1>29, <3>1, <3>2
  <2> QED  BY <1>2, <1>7, <1>8, <2>1, <2>2 DEF CountsWithin
<1>31. InsertedBehind'
  BY <1>2, <1>7, <1>8 DEF AdjustInv, InsertedBehind, Adjusted
<1>32. SomeCurrent'
  <2>1. SUFFICES ASSUME NEW id \in Late, Started(id)'
                 PROVE  \E x \in Late : Started(x)' /\ Current(x)'
    BY <1>7 DEF SomeCurrent, AnyStarted
  <2>2. CASE New /\ db.final # NoFinal
    <3>1. PICK x \in Late : x = e.id
      BY <1>10, <2>2
    <3>2. Started(x)'
      <4>1. PICK k \in DOMAIN todo' : todo'[k].kind = "adjust" /\ todo'[k].event = e
        BY <1>5, <2>2, TodoOfLate
      <4>2. todo'[k].event.id = x
        BY <3>1, <4>1
      <4> QED  BY <4>1, <4>2 DEF Started, Pending
    <3>3. ~Started(x)
      <4>1. SUFFICES ASSUME Started(x) PROVE FALSE
        OBVIOUS
      <4>2. PICK i \in DOMAIN UsageLog : UsageLog[i].id = x /\ UsageLog[i].key \in db.keys
        BY <4>1 DEF AdjustInv, StartedKnown
      <4>3. UsageLog[i] = e
        BY <1>3, <1>9, <1>10, <2>2, <3>1, <4>2, LogFacts DEF Measured
      <4> QED  BY <2>2, <4>2, <4>3 DEF IsDuplicate
    <3>4. adjusting[x].at = "absent"
      BY <3>3 DEF Started
    <3>5. \A a \in db.adjustments : a.event # x
      BY <3>3 DEF AdjustInv, CountsWithin
    <3>6. Current(x)'
      BY <1>2, <1>8, <3>4, <3>5 DEF Current
    <3> QED  BY <3>2, <3>6
  <2>3. CASE ~(New /\ db.final # NoFinal)
    <3>1. Started(id)
      BY <1>25, <2>1, <2>3
    <3>2. AnyStarted
      BY <3>1 DEF AnyStarted
    <3>3. Charges' = Charges
      BY <1>21, <2>3, <3>2
    <3>4. PICK x \in Late : Started(x) /\ Current(x)
      BY <3>2 DEF AdjustInv, SomeCurrent
    <3>5. Current(x)'
      BY <1>2, <1>8, <3>3, <3>4 DEF Current
    <3> QED  BY <1>24, <3>4, <3>5
  <2> QED  BY <2>2, <2>3
<1> QED  BY <1>18, <1>19, <1>26, <1>27, <1>30, <1>31, <1>32 DEF AdjustInv

--------------------------------------------------------------------------------
(* At first there is no usage, no charge and no adjustment.                     *)
LEMMA AdjustInit == Init => AdjustInv
<1> SUFFICES ASSUME Init PROVE AdjustInv
  OBVIOUS
<1>1. /\ db.records = {} /\ db.keys = {} /\ db.adjustments = {} /\ db.billing.duration = 0
      /\ todo = <<>> /\ adjusting = [id \in Late |-> NoAdjustment]
      /\ position["usage-events"] = 0
  BY DEF Init, EmptyDb, Log
<1>2. \A id \in Late : adjusting[id] = NoAdjustment
  BY <1>1
<1>3. \A id \in Late : ~Started(id)
  BY <1>1, <1>2 DEF Started, Pending, NoAdjustment
<1>4. Costed
  <2>1. Projected = {}
    BY <1>1 DEF Projected
  <2>2. ASSUME NEW c PROVE CostIn(c, db.records) = SumFn(Costs(c), Projected)
    <3>1. {r \in db.records : Component(r.stage, r.type) = c} = {}
      BY <1>1
    <3>2. CostIn(c, db.records) = 0
      BY <3>1, NoCost DEF CostIn
    <3> QED  BY <2>1, <3>2, SumNone
  <2>3. Booked(db)
    BY <1>1, FS_EmptySet DEF Booked
  <2>4. IsFiniteSet(Projected)
    BY <2>1, FS_EmptySet
  <2> QED  BY <1>1, <2>2, <2>3, <2>4 DEF Costed
<1>5. KeyedBehind
  BY <1>1 DEF KeyedBehind, Behind
<1>6. StartedKnown
  BY <1>3 DEF StartedKnown
<1>7. AdjustShapes
  <2>1. \A id \in Late : IsAdjusting(adjusting[id])
    BY <1>2 DEF IsAdjusting, NoAdjustment
  <2> QED  BY <1>1, <2>1 DEF AdjustShapes
<1>8. CountsWithin
  BY <1>1, <1>2 DEF CountsWithin, NoAdjustment
<1>9. InsertedBehind
  BY <1>2 DEF InsertedBehind, NoAdjustment
<1>10. SomeCurrent
  BY <1>3 DEF SomeCurrent, AnyStarted
<1> QED  BY <1>4, <1>5, <1>6, <1>7, <1>8, <1>9, <1>10 DEF AdjustInv

(* Every step keeps what the adjustments stand on.                              *)
LEMMA AdjustNext == BillInv /\ LedgerInv /\ AdjustInv /\ [Next]_vars => AdjustInv'
<1> SUFFICES ASSUME BillInv, LedgerInv, AdjustInv, [Next]_vars
             PROVE  AdjustInv'
  OBVIOUS
<1>1. CASE Project
  BY <1>1, ProjectAdjust
<1>2. CASE StartFinalization \/ SignalEnded \/ Hint \/ Finalization \/ FinalizeRetried
  BY <1>2, CallsAdjust
<1>3. CASE StartAdjustment \/ Adjustment \/ AdjustRetried
  BY <1>3, AdjustSteps
<1>4. CASE UNCHANGED vars
  BY <1>4, CalmAdjust DEF vars, Unbilled
<1> QED  BY <1>1, <1>2, <1>3, <1>4 DEF Next, Worker

(* What the adjustments stand on holds in every state.                          *)
THEOREM AdjustInvariant == Spec => []AdjustInv
<1>1. Spec => []BillInv /\ []LedgerInv
  BY BillInvariant, LedgerInvariant, PTL
<1>2. Init => AdjustInv
  BY AdjustInit
<1>3. BillInv /\ LedgerInv /\ AdjustInv /\ [Next]_vars => AdjustInv'
  BY AdjustNext
<1> QED  BY <1>1, <1>2, <1>3, PTL DEF Spec

(* Every late event has its adjustment, which misses nothing that was projected *)
(* before it, and the newest adjustment says what the call costs once all has   *)
(* come to rest: create_billing_adjustment recomputes from the records as they  *)
(* are when it reads, whatever ran meanwhile.                                   *)
THEOREM AdjustmentsKeepUp == Spec => []AdjustmentsAreCurrent
<1>1. BillInv /\ LedgerInv /\ AdjustInv => AdjustmentsAreCurrent
  BY InvCurrent
<1> QED  BY <1>1, BillInvariant, LedgerInvariant, AdjustInvariant, PTL

--------------------------------------------------------------------------------
(* The components of some records are all of them.                              *)
LEMMA ComponentsAreAll ==
  ASSUME NEW d, Booked(d)
  PROVE  TotalCost(d.records) = CostIn("stt", d.records) + CostIn("llm", d.records)
                                  + CostIn("tts", d.records) + CostIn("telephony", d.records)
<1> DEFINE All(s) == CostIn("stt", s) + CostIn("llm", s) + CostIn("tts", s) + CostIn("telephony", s)
           N == {n \in Nat : \A s \in SUBSET d.records : Cardinality(s) = n => TotalCost(s) = All(s)}
<1>0. IsFiniteSet(d.records) /\ \A r \in d.records : r.cost \in Nat
  BY DEF Booked
<1>1. 0 \in N
  <2>1. SUFFICES ASSUME NEW s \in SUBSET d.records, Cardinality(s) = 0
                 PROVE  TotalCost(s) = All(s)
    OBVIOUS
  <2>2. s = {}
    BY <1>0, <2>1, Subsets
  <2>3. ASSUME NEW c PROVE CostIn(c, s) = 0
    <3>1. {r \in s : Component(r.stage, r.type) = c} = {}
      BY <2>2
    <3> QED  BY <3>1, NoCost DEF CostIn
  <2> QED  BY <2>2, <2>3, NoCost
<1>2. ASSUME NEW n \in Nat, n \in N PROVE n + 1 \in N
  <2>1. SUFFICES ASSUME NEW s \in SUBSET d.records, Cardinality(s) = n + 1
                 PROVE  TotalCost(s) = All(s)
    OBVIOUS
  <2>2. PICK x \in s : TRUE
    BY <1>0, <2>1, Subsets
  <2> DEFINE t == s \ {x}
             k == Component(x.stage, x.type)
  <2>3. /\ t \in SUBSET d.records /\ s = t \cup {x} /\ x \notin t
        /\ \A r \in t : r.cost \in Nat
        /\ x.cost \in Nat
    BY <1>0, <2>2
  <2>4. IsFiniteSet(t) /\ Cardinality(t) = n
    <3>1. IsFiniteSet(s)
      BY <1>0, Subsets
    <3>2. /\ IsFiniteSet(t) /\ Cardinality(t) \in Nat
          /\ Cardinality(s) = Cardinality(t) + 1
      BY <2>2, <3>1, OneLess
    <3> QED  BY <2>1, <3>2
  <2>5. k \in Components
    BY DEF Component, Components
  <2> HIDE DEF t, k
  <2>6. TotalCost(t) = All(t)
    BY <1>2, <2>3, <2>4
  <2>7. TotalCost(t) \in Nat /\ TotalCost(s) = TotalCost(t) + x.cost
    BY <2>3, <2>4, CostMore
  <2>8. ASSUME NEW c
        PROVE  CostIn(c, t) \in Nat /\ CostIn(c, s) = CostIn(c, t) + IF k = c THEN x.cost ELSE 0
    BY <2>3, <2>4, CostInMore DEF k
  <2> DEFINE w == CostIn("stt", t)
             y == CostIn("llm", t)
             z == CostIn("tts", t)
             v == CostIn("telephony", t)
  <2>9. w \in Nat /\ y \in Nat /\ z \in Nat /\ v \in Nat
    BY <2>8
  <2>10. All(s) = (w + IF k = "stt" THEN x.cost ELSE 0) + (y + IF k = "llm" THEN x.cost ELSE 0)
                    + (z + IF k = "tts" THEN x.cost ELSE 0)
                    + (v + IF k = "telephony" THEN x.cost ELSE 0)
    BY <2>8
  <2>11. All(t) = w + y + z + v
    OBVIOUS
  <2> HIDE DEF w, y, z, v, All
  <2>12. All(s) = (w + y + z + v) + x.cost
    BY <2>3, <2>5, <2>9, <2>10 DEF Components
  <2> QED  BY <2>6, <2>7, <2>11, <2>12
<1>3. \A n \in Nat : n \in N
  <2> HIDE DEF N
  <2> QED  BY <1>1, <1>2, NatSetInduction
<1>4. TotalCost(d.records) = All(d.records)
  <2>1. Cardinality(d.records) \in N /\ d.records \in SUBSET d.records
    BY <1>0, <1>3, FS_CardinalityType
  <2> QED  BY <2>1
<1> QED  BY <1>4

(* A bill that was written from all records there are is within the rounding of *)
(* its five amounts of what those records cost.                                 *)
LEMMA InvLedgers ==
  ASSUME BillInv, LedgerInv, AdjustInv
  PROVE  Inv
<1>1. SUFFICES ASSUME db.final # NoFinal, db.final.counted = EventIds(db.records)
               PROVE  LET exact == db.billing.total - db.billing.fee + Lasted * ActivityRate
                          off   == 2 * (Cent * db.final.total - exact)
                      IN  off <= 5 * Cent /\ -off <= 5 * Cent
  BY DEF Inv, LedgersAgree, LedgerInv, EventIds
<1> DEFINE w == CostIn("stt", db.records)
           x == CostIn("llm", db.records)
           y == CostIn("tts", db.records)
           z == CostIn("telephony", db.records)
           l == Lasted * ActivityRate
           p == ProviderCents(db.records)
           q == PlatformCents
           k == Cent
           f == [c \in Components |-> CostIn(c, db.records)]
<1>2. /\ Places /\ Costed /\ Booked(db) /\ Totals(db)
  BY DEF BillInv, LedgerInv, AdjustInv, Costed
<1>3. db.final.total = q + p
  BY <1>1 DEF LedgerInv, FinalAgrees, Snapshot
<1>4. w \in Nat /\ x \in Nat /\ y \in Nat /\ z \in Nat /\ p \in Nat /\ q \in Nat
  BY <1>2, ChargesNat
<1>5. l \in Nat
  <2>1. Lasted \in Nat
    BY <1>2, LogFacts DEF Costed, Lasted
  <2> QED  BY <2>1, ActivityRateAssumption
<1>6. db.billing.total - db.billing.fee = w + x + y + z
  <2>1. TotalCost(db.records) = w + x + y + z
    BY <1>2, ComponentsAreAll
  <2>2. db.billing.fee \in Nat
    BY <1>2, RateAssumption DEF Costed, Totals
  <2>3. db.billing.total = db.billing.fee + TotalCost(db.records)
    BY <1>2 DEF Totals
  <2> HIDE DEF w, x, y, z
  <2> QED  BY <1>4, <2>1, <2>2, <2>3
<1>7. k \in Nat /\ 2 * (k * q) - 2 * l <= k /\ 2 * l - 2 * (k * q) <= k
  <2> HIDE DEF l
  <2> QED  BY <1>5, Near DEF PlatformCents, l
<1>8. /\ 2 * (k * p) - 2 * (w + x + y + z) <= 4 * k
      /\ 2 * (w + x + y + z) - 2 * (k * p) <= 4 * k
  <2>1. p = Rounded(f)
    BY ProviderIsRounded
  <2>2. \A c \in Components : f[c] \in Nat
    BY <1>2, ChargesNat
  <2>3. f["stt"] = w /\ f["llm"] = x /\ f["tts"] = y /\ f["telephony"] = z
    BY DEF Components
  <2> HIDE DEF f, p, w, x, y, z
  <2> QED  BY <2>1, <2>2, <2>3, RoundedNear
<1> HIDE DEF w, x, y, z, l, p, q, k, f
<1> DEFINE e == w + x + y + z
           kp == k * p
           kq == k * q
<1>9. e \in Nat /\ kp \in Nat /\ kq \in Nat
  BY <1>4, <1>7
<1>10. k * (q + p) = kq + kp
  BY <1>4, <1>7
<1> HIDE DEF e, kp, kq
<1>11. /\ 2 * ((kq + kp) - (e + l)) <= 5 * k
       /\ -(2 * ((kq + kp) - (e + l))) <= 5 * k
  <2>1. /\ 2 * kq - 2 * l <= k /\ 2 * l - 2 * kq <= k
        /\ 2 * kp - 2 * e <= 4 * k /\ 2 * e - 2 * kp <= 4 * k
    BY <1>7, <1>8 DEF e, kp, kq
  <2> QED  BY <1>5, <1>7, <1>9, <2>1
<1> QED  BY <1>3, <1>6, <1>10, <1>11 DEF e, l, k

(* The final record and the projector's bill say the same, but for the rounding *)
(* to cents and the rates: whenever finalize_call_billing has read all usage    *)
(* there is, whatever was projected or attempted meanwhile, and for any prices, *)
(* durations and rates.                                                         *)
THEOREM LedgersOfACallAgree == Spec => []Inv
<1>1. BillInv /\ LedgerInv /\ AdjustInv => Inv
  BY InvLedgers
<1> QED  BY <1>1, BillInvariant, LedgerInvariant, AdjustInvariant, PTL
================================================================================
