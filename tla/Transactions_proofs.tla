-------------------------- MODULE Transactions_proofs ---------------------------
(* Proofs about the projection transactions, for any number of workers, any     *)
(* plan of what they fetch and any number of faults. Three ideas carry them.    *)
(*                                                                              *)
(* The row locks: no row is in two open transactions (Shape), so a transaction  *)
(* that commits disturbs what another has seen only in rows that the other has  *)
(* not written. A rollup is incremented from what the transaction sees, and who *)
(* adds a record has the rollup of its call until it commits (Counted).         *)
(*                                                                              *)
(* A sum that was read before a wait: WriteCost writes what SumRecords has read *)
(* while others could commit. It is still the sum, because a transaction that   *)
(* adds a record keeps everyone else from adding one (it has the rollup), and   *)
(* one that adds none has taken the bill, which everyone who adds a record of   *)
(* the call must write before it commits (Priced).                              *)
(*                                                                              *)
(* The order of the log: a worker has projected everything before the batch it  *)
(* works on, and everything before the event it is at (Projected), so the rows  *)
(* of a transaction, with those committed, hold an event only together with     *)
(* all before it in its topic (InOrder). That is what makes a watermark true    *)
(* (Marked), and why call.started never comes back after call.failed (Judged).  *)
EXTENDS ProjectionTransactions, FiniteSetTheorems, SequenceTheorems, WellFoundedInduction, TLAPS

(* A set of naturals that holds 0 and is closed under successor is Nat. *)
LEMMA NatSetInduction ==
  ASSUME NEW S, 0 \in S, \A n \in Nat : n \in S => n + 1 \in S
  PROVE  \A n \in Nat : n \in S
<1>1. SUFFICES ASSUME Nat \ S # {} PROVE FALSE
  OBVIOUS
<1>2. IsWellFoundedOn(OpToRel(<, Nat), Nat)
  BY NatLessThanWellFounded
<1>3. \E m \in Nat \ S : \A k \in Nat \ S : ~ (<<k, m>> \in OpToRel(<, Nat))
  BY <1>1, <1>2, WFMin
<1>4. \E m \in Nat : m \notin S /\ \A k \in Nat : k < m => k \in S
  BY <1>3 DEF OpToRel
<1>5. PICK m \in Nat : m \notin S /\ \A k \in Nat : k < m => k \in S
  BY <1>4
<1>6. m # 0
  BY <1>5
<1>7. m - 1 \in Nat /\ m - 1 < m /\ (m - 1) + 1 = m
  BY <1>5, <1>6
<1> QED
  BY <1>5, <1>7

Tables     == {"key", "call", "record", "rollup", "bill", "manifest", "watermark"}
Statements == {"key", "call", "rollup", "manifest", "insert", "close", "sum", "cost",
               "mark", "commit"}

(* Where a transaction is, and which events come to which of its statements.    *)
Placed(w) ==
  /\ batch[w] \in 1..(Len(batches[w]) + 1)
  /\ ~Active(w) => mine[w] = <<>> /\ at[w] = "key"
  /\ Active(w) => /\ at[w] \notin {"mark", "commit"} => item[w] \in DOMAIN Batch(w)
                  /\ at[w] = "mark" => item[w] \in DOMAIN Marks(w)
                  /\ at[w] = "rollup" => Event(w).kind = "usage"
                  /\ at[w] = "close" => Event(w).kind # "usage"

(* The shape of some rows.                                                      *)
RowsOK(rows) ==
  /\ rows = [r \in DOMAIN rows |-> rows[r]]
  /\ IsFiniteSet({r \in DOMAIN rows : r[1] = "record"})
  /\ \A r \in DOMAIN rows :
       /\ r[1] \in Tables /\ r = <<r[1], r[2]>>
       /\ r[1] = "record" => rows[r].cost \in Nat
       /\ r[1] = "bill" => rows[r] = [cost |-> rows[r].cost, status |-> rows[r].status]
       /\ r[1] = "watermark" => rows[r] \in Nat

Has(rows, e) == <<"key", e.key>> \in DOMAIN rows

(* An event is in the rows only with those before it in its topic.              *)
InOrder(rows) ==
  \A e, f \in Events :
    Has(rows, e) /\ f.topic = e.topic /\ f.offset <= e.offset => Has(rows, f)

(* A call failed only by an event.                                              *)
HasFailed(rows, c) == \E e \in Events : e.kind = "failed" /\ e.call = c /\ Has(rows, e)

(* Each event once: the key of an event in a transaction is its own, a record   *)
(* comes with the key, and only after it.                                       *)
Keyed(w) ==
  /\ \A r \in DOMAIN mine[w] :
       /\ r[1] = "key" => r \notin DOMAIN db
       /\ r[1] = "record" => <<"key", r[2]>> \in DOMAIN mine[w]
  /\ Active(w) /\ at[w] \notin {"key", "mark", "commit"} =>
       <<"key", Event(w).key>> \in DOMAIN mine[w]
  /\ Active(w) /\ at[w] \in {"call", "rollup"} =>
       <<"record", Event(w).key>> \notin DOMAIN mine[w]

(* What a worker has behind it is projected.                                    *)
Projected(w) ==
  /\ \A b \in 1..(batch[w] - 1) : \A i \in DOMAIN batches[w][b] : Has(db, batches[w][b][i])
  /\ Active(w) => \A i \in DOMAIN Batch(w) :
       at[w] \in {"mark", "commit"} \/ i < item[w] => Has(Visible(w), Batch(w)[i])

(* A watermark tells the truth, here of what the transaction sees.              *)
Marked(w) ==
  \A t : <<"watermark", t>> \in DOMAIN mine[w] =>
    /\ <<"watermark", t>> \in DOMAIN db => db[<<"watermark", t>>] <= mine[w][<<"watermark", t>>]
    /\ \A e \in Events : e.topic = t /\ e.offset <= mine[w][<<"watermark", t>>] =>
         Has(Visible(w), e)

(* Who adds a record has the rollup, which is the sum.                          *)
Counted(w) ==
  /\ \A r \in DOMAIN mine[w] :
       r[1] = "record" => <<"rollup", mine[w][r].call>> \in DOMAIN mine[w]
  /\ \A c : <<"rollup", c>> \in DOMAIN mine[w] =>
       mine[w][<<"rollup", c>>] = SumOf(Visible(w), c)

(* A call whose bill the transaction is at.                                     *)
Pricing(w, c) ==
  Active(w) /\ at[w] \in {"insert", "close", "sum", "cost"} /\ Event(w).call = c

(* Who adds a record writes the bill after it; a sum that was read before a     *)
(* wait is still the sum, because of the rollup, or of the bill.                *)
Priced(w) ==
  /\ \A r \in DOMAIN mine[w] :
       r[1] = "record" /\ ~Pricing(w, mine[w][r].call) =>
         <<"bill", mine[w][r].call>> \in DOMAIN mine[w]
  /\ \A c : <<"bill", c>> \in DOMAIN mine[w] /\ ~Pricing(w, c) =>
       mine[w][<<"bill", c>>].cost = SumOf(Visible(w), c)
  /\ Active(w) =>
       /\ at[w] \in {"close", "sum", "cost"} => Row(w, "bill") \in DOMAIN Visible(w)
       /\ at[w] \in {"insert", "sum", "cost"} /\ Event(w).kind = "usage" =>
            Row(w, "rollup") \in DOMAIN mine[w]
       /\ at[w] \in {"sum", "cost"} /\ Event(w).kind # "usage" =>
            Row(w, "bill") \in DOMAIN mine[w]
       /\ at[w] = "cost" => seen[w] = SumOf(Visible(w), Event(w).call)

(* A transaction takes no failure back.                                         *)
Judged(w) ==
  \A c : <<"call", c>> \in DOMAIN mine[w] =>
    /\ <<"call", c>> \in DOMAIN db /\ db[<<"call", c>>] = "CALL_FAILED" =>
         mine[w][<<"call", c>>] = "CALL_FAILED"
    /\ mine[w][<<"call", c>>] = "CALL_FAILED" => HasFailed(Visible(w), c)

(* What a transaction has done so far.                                          *)
Sound(w) ==
  /\ Placed(w) /\ RowsOK(mine[w]) /\ Keyed(w) /\ Projected(w) /\ InOrder(Visible(w))
  /\ Marked(w) /\ Counted(w) /\ Priced(w) /\ Judged(w)

(* What is committed.                                                           *)
Stored ==
  /\ RowsOK(db) /\ InOrder(db)
  /\ \A r \in DOMAIN db : r[1] = "record" =>
       /\ <<"key", r[2]>> \in DOMAIN db
       /\ <<"rollup", db[r].call>> \in DOMAIN db
  /\ \A t : <<"watermark", t>> \in DOMAIN db =>
       \A e \in Events : e.topic = t /\ e.offset <= db[<<"watermark", t>>] => Has(db, e)
  /\ \A c : <<"rollup", c>> \in DOMAIN db => db[<<"rollup", c>>] = SumOf(db, c)
  /\ \A c : <<"bill", c>> \in DOMAIN db => db[<<"bill", c>>].cost = SumOf(db, c)
  /\ \A c : <<"call", c>> \in DOMAIN db /\ db[<<"call", c>>] = "CALL_FAILED" =>
       HasFailed(db, c)

(* The variables, and the locks.                                                *)
Shape ==
  /\ batches \in Plans
  /\ mine = [w \in Workers |-> mine[w]]
  /\ batch = [w \in Workers |-> batch[w]] /\ item = [w \in Workers |-> item[w]]
  /\ at \in [Workers -> Statements] /\ seen \in [Workers -> Nat]
  /\ queue \in Seq(Workers) /\ IsInjective(queue)
  /\ faults \in 0..MaxFaults
  /\ \A w, v \in Workers : w # v => DOMAIN mine[w] \cap DOMAIN mine[v] = {}

TxInv == Shape /\ Stored /\ \A w \in Workers : Sound(w)
--------------------------------------------------------------------------------
(* Sums of costs.                                                               *)

PickOf(s) == CHOOSE x \in s : TRUE

SumStep(rows, g, s) ==
  IF s = {} THEN 0 ELSE rows[PickOf(s)].cost + g[s \ {PickOf(s)}]

(* The sum as MapThenSumSet makes it, of every subset.                          *)
SumLoop(rows, set) == CHOOSE g : g = [s \in SUBSET set |-> SumStep(rows, g, s)]

Records(rows, c) == {r \in DOMAIN rows : r[1] = "record" /\ rows[r].call = c}

(* What is left of a finite set has one element less.                           *)
LEMMA OneLess ==
  ASSUME NEW s, IsFiniteSet(s), NEW x \in s
  PROVE  /\ IsFiniteSet(s \ {x}) /\ Cardinality(s) \in Nat /\ Cardinality(s \ {x}) \in Nat
         /\ Cardinality(s) = Cardinality(s \ {x}) + 1
<1>1. IsFiniteSet(s \ {x}) /\ Cardinality(s \ {x}) = Cardinality(s) - 1
  BY FS_RemoveElement
<1>2. Cardinality(s) \in Nat /\ Cardinality(s \ {x}) \in Nat
  BY <1>1, FS_CardinalityType
<1> QED  BY <1>1, <1>2

(* The subsets of a finite set are finite, and no larger.                       *)
LEMMA Subsets ==
  ASSUME NEW set, IsFiniteSet(set), NEW s \in SUBSET set
  PROVE  /\ IsFiniteSet(s) /\ Cardinality(s) \in Nat /\ Cardinality(set) \in Nat
         /\ Cardinality(s) <= Cardinality(set)
         /\ s = {} <=> Cardinality(s) = 0
<1> QED  BY FS_Subset, FS_CardinalityType, FS_EmptySet

(* The sum exists.                                                              *)
LEMMA SumLoopDef ==
  ASSUME NEW rows, NEW set, IsFiniteSet(set)
  PROVE  \A s \in SUBSET set : SumLoop(rows, set)[s] = SumStep(rows, SumLoop(rows, set), s)
<1> DEFINE Good(h, n) == \A s \in SUBSET set : Cardinality(s) <= n => h[s] = SumStep(rows, h, s)
           N == {n \in Nat : \E h : Good(h, n)}
<1>1. 0 \in N
  <2> DEFINE h == [s \in SUBSET set |-> 0]
  <2>1. ASSUME NEW s \in SUBSET set, Cardinality(s) <= 0 PROVE h[s] = SumStep(rows, h, s)
    <3>1. s = {}
      BY <2>1, Subsets
    <3> QED  BY <3>1 DEF SumStep
  <2>2. Good(h, 0)
    BY <2>1
  <2> HIDE DEF h, Good
  <2> QED  BY <2>2
<1>2. ASSUME NEW n \in Nat, n \in N PROVE n + 1 \in N
  <2>1. PICK h : Good(h, n)
    BY <1>2
  <2> DEFINE k == [s \in SUBSET set |-> SumStep(rows, h, s)]
  <2>2. ASSUME NEW s \in SUBSET set, Cardinality(s) <= n PROVE k[s] = h[s]
    BY <2>1, <2>2
  <2>3. ASSUME NEW s \in SUBSET set, Cardinality(s) <= n + 1 PROVE k[s] = SumStep(rows, k, s)
    <3>1. k[s] = SumStep(rows, h, s)
      OBVIOUS
    <3>2. CASE s = {}
      BY <3>1, <3>2 DEF SumStep
    <3>3. CASE s # {}
      <4>1. PickOf(s) \in s
        BY <3>3 DEF PickOf
      <4>2. s \ {PickOf(s)} \in SUBSET set /\ Cardinality(s \ {PickOf(s)}) <= n
        BY <2>3, <4>1, OneLess, Subsets
      <4>3. k[s \ {PickOf(s)}] = h[s \ {PickOf(s)}]
        BY <2>2, <4>2
      <4> QED  BY <3>1, <4>3 DEF SumStep
    <3> QED  BY <3>2, <3>3
  <2>4. Good(k, n + 1)
    BY <2>3
  <2> HIDE DEF k, Good
  <2> QED  BY <2>4
<1>3. Cardinality(set) \in N
  <2> HIDE DEF N
  <2>1. \A n \in Nat : n \in N
    BY <1>1, <1>2, NatSetInduction
  <2> QED  BY <2>1, FS_CardinalityType
<1>4. PICK h : Good(h, Cardinality(set))
  BY <1>3
<1> DEFINE g == [s \in SUBSET set |-> h[s]]
<1>5. \A s \in SUBSET set : h[s] = SumStep(rows, h, s)
  BY <1>4, Subsets
<1>6. ASSUME NEW s \in SUBSET set PROVE g[s] = SumStep(rows, g, s)
  <2>1. s = {} \/ s \ {PickOf(s)} \in SUBSET set
    OBVIOUS
  <2>2. s = {} \/ g[s \ {PickOf(s)}] = h[s \ {PickOf(s)}]
    BY <2>1
  <2>3. SumStep(rows, g, s) = SumStep(rows, h, s)
    BY <2>2 DEF SumStep
  <2> QED  BY <1>5, <2>3
<1>7. g = [s \in SUBSET set |-> SumStep(rows, g, s)]
  <2>1. g = [s \in SUBSET set |-> g[s]]
    OBVIOUS
  <2> HIDE DEF g
  <2> QED  BY <1>6, <2>1
<1> DEFINE f == SumLoop(rows, set)
<1>8. f = [s \in SUBSET set |-> SumStep(rows, f, s)]
  <2> HIDE DEF g
  <2> QED  BY <1>7 DEF SumLoop
<1> DEFINE e == [s \in SUBSET set |-> SumStep(rows, f, s)]
<1>9. \A s \in SUBSET set : e[s] = SumStep(rows, f, s)
  OBVIOUS
<1>10. f = e
  BY <1>8
<1> HIDE DEF f, e
<1>11. \A s \in SUBSET set : f[s] = SumStep(rows, f, s)
  BY <1>9, <1>10
<1> QED  BY <1>11 DEF f

(* Which element is added first does not matter.                                *)
LEMMA SumWithout ==
  ASSUME NEW rows, NEW set, IsFiniteSet(set), \A r \in set : rows[r].cost \in Nat
  PROVE  /\ SumLoop(rows, set)[{}] = 0
         /\ \A s \in SUBSET set :
              /\ SumLoop(rows, set)[s] \in Nat
              /\ \A x \in s : SumLoop(rows, set)[s]
                                = rows[x].cost + SumLoop(rows, set)[s \ {x}]
<1> DEFINE g == SumLoop(rows, set)
           Cost(x) == rows[x].cost
           Fine(s) == g[s] \in Nat /\ \A x \in s : g[s] = Cost(x) + g[s \ {x}]
           N == {n \in Nat : \A s \in SUBSET set : Cardinality(s) <= n => Fine(s)}
<1>1. \A s \in SUBSET set : g[s] = SumStep(rows, g, s)
  BY SumLoopDef
<1>2. \A x \in set : Cost(x) \in Nat
  OBVIOUS
<1>3. \A s \in SUBSET set : s # {} =>
        /\ PickOf(s) \in s
        /\ g[s] = Cost(PickOf(s)) + g[s \ {PickOf(s)}]
  BY <1>1 DEF SumStep, PickOf
<1>4. g[{}] = 0
  <2>1. {} \in SUBSET set
    OBVIOUS
  <2> QED  BY <1>1, <2>1 DEF SumStep
<1> HIDE DEF g, Cost
<1>5. 0 \in N
  <2>1. ASSUME NEW s \in SUBSET set, Cardinality(s) <= 0 PROVE Fine(s)
    <3>1. s = {}
      BY <2>1, Subsets
    <3> QED  BY <1>4, <3>1
  <2> QED  BY <2>1
<1>6. ASSUME NEW n \in Nat, n \in N PROVE n + 1 \in N
  <2>1. ASSUME NEW s \in SUBSET set, Cardinality(s) <= n + 1 PROVE Fine(s)
    <3> DEFINE p == PickOf(s)
    <3>1. CASE s = {}
      BY <1>4, <3>1
    <3>2. CASE s # {}
      <4>1. p \in s /\ g[s] = Cost(p) + g[s \ {p}]
        BY <1>3, <3>2
      <4>2. \A x \in s : s \ {x} \in SUBSET set /\ Cardinality(s \ {x}) <= n
        <5>1. IsFiniteSet(s)
          BY Subsets
        <5> QED  BY <2>1, <5>1, OneLess
      <4> HIDE DEF p
      <4>3. \A x \in s : Fine(s \ {x})
        BY <1>6, <4>2
      <4>4. \A x \in s : Cost(x) \in Nat /\ g[s \ {x}] \in Nat
        BY <1>2, <4>3
      <4>5. ASSUME NEW x \in s, x # p PROVE g[s] = Cost(x) + g[s \ {x}]
        <5>1. g[s \ {p}] = Cost(x) + g[(s \ {p}) \ {x}]
          BY <4>1, <4>3, <4>5
        <5>2. g[s \ {x}] = Cost(p) + g[(s \ {x}) \ {p}]
          BY <4>1, <4>3, <4>5
        <5>3. (s \ {p}) \ {x} = (s \ {x}) \ {p}
          OBVIOUS
        <5>4. g[(s \ {x}) \ {p}] \in Nat
          <6>1. s \ {x} \in SUBSET set /\ p \in s \ {x}
            BY <4>1, <4>5
          <6>2. IsFiniteSet(s \ {x})
            BY <6>1, Subsets
          <6>3. (s \ {x}) \ {p} \in SUBSET set /\ Cardinality((s \ {x}) \ {p}) <= n
            <7> DEFINE a == s \ {x}
                       b == a \ {p}
            <7>1. /\ Cardinality(s) \in Nat /\ Cardinality(a) \in Nat
                  /\ Cardinality(s) = Cardinality(a) + 1 /\ IsFiniteSet(a)
              BY <4>5, <6>2, OneLess, Subsets
            <7>2. /\ Cardinality(b) \in Nat /\ Cardinality(a) = Cardinality(b) + 1
              BY <6>1, <6>2, OneLess
            <7>3. b \in SUBSET set
              OBVIOUS
            <7>4. Cardinality(a) <= n
              BY <4>2, <4>5
            <7> HIDE DEF a, b
            <7>5. Cardinality(b) <= n
              BY <7>1, <7>2, <7>4
            <7> QED  BY <7>3, <7>5 DEF a, b
          <6>4. Fine((s \ {x}) \ {p})
            BY <1>6, <6>3
          <6> QED  BY <6>4
        <5> DEFINE y == g[(s \ {x}) \ {p}]
                   u == g[s \ {p}]
                   v == g[s \ {x}]
        <5>5. u = Cost(x) + y /\ v = Cost(p) + y /\ g[s] = Cost(p) + u
          BY <4>1, <5>1, <5>2, <5>3
        <5>6. y \in Nat /\ Cost(x) \in Nat /\ Cost(p) \in Nat
          BY <4>1, <4>4, <5>4
        <5> HIDE DEF y, u, v
        <5>7. g[s] = Cost(x) + v
          BY <5>5, <5>6
        <5> QED  BY <5>7 DEF v
      <4>6. g[s] \in Nat
        BY <4>1, <4>4
      <4>7. \A x \in s : g[s] = Cost(x) + g[s \ {x}]
        BY <4>1, <4>5
      <4> QED  BY <4>6, <4>7
    <3> QED  BY <3>1, <3>2
  <2> QED  BY <2>1
<1>7. \A n \in Nat : n \in N
  <2> HIDE DEF N
  <2> QED  BY <1>5, <1>6, NatSetInduction
<1>8. \A s \in SUBSET set : Fine(s)
  <2>1. ASSUME NEW s \in SUBSET set PROVE Fine(s)
    <3>1. Cardinality(s) \in N /\ Cardinality(s) <= Cardinality(s)
      BY <1>7, Subsets
    <3> QED  BY <3>1
  <2> QED  BY <2>1
<1> QED  BY <1>4, <1>8 DEF g, Cost

(* The records of a call, of some rows that have the right shape.               *)
LEMMA RecordsFinite ==
  ASSUME NEW rows, RowsOK(rows), NEW c
  PROVE  IsFiniteSet(Records(rows, c)) /\ \A r \in Records(rows, c) : rows[r].cost \in Nat
<1>1. Records(rows, c) \in SUBSET {r \in DOMAIN rows : r[1] = "record"}
  BY DEF Records
<1>2. IsFiniteSet(Records(rows, c))
  BY <1>1, FS_Subset DEF RowsOK
<1> QED  BY <1>2 DEF RowsOK, Records

(* The sum that a statement reads is the loop over the records of the call.     *)
LEMMA SumIsLoop ==
  ASSUME NEW rows, NEW c
  PROVE  SumOf(rows, c) = SumLoop(rows, Records(rows, c))[Records(rows, c)]
<1> QED  BY DEF SumOf, MapThenSumSet, MapThenFoldSet, SumLoop, SumStep, PickOf, Records

(* The loop over fewer rows gives the same for what both have.                  *)
LEMMA LoopsAgree ==
  ASSUME NEW rows, NEW set, IsFiniteSet(set), \A r \in set : rows[r].cost \in Nat,
         NEW more, NEW large, IsFiniteSet(large), \A r \in large : more[r].cost \in Nat,
         set \subseteq large, \A r \in set : more[r].cost = rows[r].cost
  PROVE  \A s \in SUBSET set : SumLoop(rows, set)[s] = SumLoop(more, large)[s]
<1> DEFINE f == SumLoop(rows, set)
           g == SumLoop(more, large)
           N == {n \in Nat : \A s \in SUBSET set : Cardinality(s) = n => f[s] = g[s]}
<1>1. f[{}] = 0 /\ \A s \in SUBSET set : \A x \in s : f[s] = rows[x].cost + f[s \ {x}]
  BY SumWithout
<1>2. g[{}] = 0 /\ \A s \in SUBSET large : \A x \in s : g[s] = more[x].cost + g[s \ {x}]
  BY SumWithout
<1> HIDE DEF f, g
<1>3. 0 \in N
  BY <1>1, <1>2, Subsets
<1>4. ASSUME NEW n \in Nat, n \in N PROVE n + 1 \in N
  <2>1. ASSUME NEW s \in SUBSET set, Cardinality(s) = n + 1 PROVE f[s] = g[s]
    <3>1. PICK x \in s : TRUE
      BY <2>1, Subsets
    <3>2. s \ {x} \in SUBSET set /\ Cardinality(s \ {x}) = n
      <4>1. IsFiniteSet(s)
        BY Subsets
      <4>2. Cardinality(s) = Cardinality(s \ {x}) + 1 /\ Cardinality(s \ {x}) \in Nat
        BY <4>1, OneLess
      <4> QED  BY <2>1, <4>2
    <3>3. f[s \ {x}] = g[s \ {x}]
      BY <1>4, <3>2
    <3>4. s \in SUBSET large /\ more[x].cost = rows[x].cost
      OBVIOUS
    <3> QED  BY <1>1, <1>2, <3>3, <3>4
  <2> QED  BY <2>1
<1>5. \A n \in Nat : n \in N
  <2> HIDE DEF N
  <2> QED  BY <1>3, <1>4, NatSetInduction
<1>6. \A s \in SUBSET set : f[s] = g[s]
  BY <1>5, Subsets
<1> QED  BY <1>6 DEF f, g

(* The sum is a number.                                                         *)
LEMMA SumNat == ASSUME NEW rows, RowsOK(rows), NEW c PROVE SumOf(rows, c) \in Nat
<1> QED  BY RecordsFinite, SumIsLoop, SumWithout

(* Without records it is nothing.                                               *)
LEMMA SumNone ==
  ASSUME NEW rows, RowsOK(rows), NEW c, Records(rows, c) = {}
  PROVE  SumOf(rows, c) = 0
<1> QED  BY RecordsFinite, SumIsLoop, SumWithout

(* Who has the same records of a call has the same sum.                         *)
LEMMA SumSame ==
  ASSUME NEW rows, RowsOK(rows), NEW more, RowsOK(more), NEW c,
         Records(more, c) = Records(rows, c), \A r \in Records(rows, c) : more[r] = rows[r]
  PROVE  SumOf(more, c) = SumOf(rows, c)
<1> DEFINE set == Records(rows, c)
<1>1. /\ IsFiniteSet(set) /\ \A r \in set : rows[r].cost \in Nat
      /\ \A r \in set : more[r].cost \in Nat
  BY RecordsFinite
<1>2. SumOf(rows, c) = SumLoop(rows, set)[set] /\ SumOf(more, c) = SumLoop(more, set)[set]
  BY SumIsLoop
<1>3. \A r \in set : more[r].cost = rows[r].cost
  OBVIOUS
<1> HIDE DEF set
<1> QED  BY <1>1, <1>2, <1>3, LoopsAgree

(* A sum is that of an element and that of the others.                          *)
LEMMA SumTakes ==
  ASSUME NEW rows, NEW set, IsFiniteSet(set), \A r \in set : rows[r].cost \in Nat,
         NEW x \in set, NEW rest, rest = set \ {x}
  PROVE  SumLoop(rows, set)[set] = rows[x].cost + SumLoop(rows, set)[rest]
<1>1. \A s \in SUBSET set : \A y \in s :
        SumLoop(rows, set)[s] = rows[y].cost + SumLoop(rows, set)[s \ {y}]
  <2>1. \A s \in SUBSET set :
          /\ SumLoop(rows, set)[s] \in Nat
          /\ \A y \in s : SumLoop(rows, set)[s] = rows[y].cost + SumLoop(rows, set)[s \ {y}]
    BY SumWithout
  <2> QED  BY <2>1
<1>2. set \in SUBSET set
  OBVIOUS
<1> QED  BY <1>1, <1>2

(* One record more adds its cost.                                               *)
LEMMA SumMore ==
  ASSUME NEW rows, RowsOK(rows), NEW more, RowsOK(more), NEW c, NEW r,
         r \notin Records(rows, c), Records(more, c) = Records(rows, c) \cup {r},
         \A s \in Records(rows, c) : more[s] = rows[s]
  PROVE  SumOf(more, c) = SumOf(rows, c) + more[r].cost
<1> DEFINE set == Records(rows, c)
           large == Records(more, c)
<1>1. /\ IsFiniteSet(set) /\ \A s \in set : rows[s].cost \in Nat
      /\ IsFiniteSet(large) /\ \A s \in large : more[s].cost \in Nat
  BY RecordsFinite
<1>2. SumOf(rows, c) = SumLoop(rows, set)[set] /\ SumOf(more, c) = SumLoop(more, large)[large]
  BY SumIsLoop
<1>3. /\ \A s \in set : more[s].cost = rows[s].cost
      /\ set \subseteq large /\ r \in large /\ large \ {r} = set
  OBVIOUS
<1> HIDE DEF set, large
<1>4. SumLoop(rows, set)[set] = SumLoop(more, large)[set]
  BY <1>1, <1>3, LoopsAgree
<1>5. SumLoop(more, large)[large] = more[r].cost + SumLoop(more, large)[set]
  BY <1>1, <1>3, SumTakes
<1>6. SumLoop(more, large)[set] \in Nat /\ more[r].cost \in Nat
  BY <1>1, <1>3, SumWithout
<1> QED  BY <1>2, <1>4, <1>5, <1>6

--------------------------------------------------------------------------------
(* Rows over rows.                                                              *)

(* What they are.                                                               *)
LEMMA OverIs ==
  ASSUME NEW new, NEW old
  PROVE  /\ DOMAIN Over(new, old) = DOMAIN new \cup DOMAIN old
         /\ \A r \in DOMAIN new : Over(new, old)[r] = new[r]
         /\ \A r \in DOMAIN old \ DOMAIN new : Over(new, old)[r] = old[r]
         /\ Over(new, old) = [r \in DOMAIN Over(new, old) |-> Over(new, old)[r]]
<1> QED  BY DEF Over

(* Rows of the right shape make rows of the right shape.                        *)
LEMMA OverOK ==
  ASSUME NEW new, NEW old, RowsOK(new), RowsOK(old)
  PROVE  RowsOK(Over(new, old))
<1> DEFINE o == Over(new, old)
           Recs(x) == {r \in DOMAIN x : r[1] = "record"}
<1>1. /\ DOMAIN o = DOMAIN new \cup DOMAIN old
      /\ \A r \in DOMAIN new : o[r] = new[r]
      /\ \A r \in DOMAIN old \ DOMAIN new : o[r] = old[r]
      /\ o = [r \in DOMAIN o |-> o[r]]
  BY OverIs
<1> HIDE DEF o
<1>2. Recs(o) = Recs(new) \cup Recs(old)
  BY <1>1
<1>3. IsFiniteSet(Recs(o))
  <2>1. IsFiniteSet(Recs(new)) /\ IsFiniteSet(Recs(old))
    BY DEF RowsOK
  <2> HIDE DEF Recs
  <2>2. IsFiniteSet(Recs(new) \cup Recs(old))
    BY <2>1, FS_Union
  <2> QED  BY <1>2, <2>2
<1>4. \A r \in DOMAIN o :
        (o[r] = new[r] /\ r \in DOMAIN new) \/ (o[r] = old[r] /\ r \in DOMAIN old)
  BY <1>1
<1>5. ASSUME NEW r \in DOMAIN o
      PROVE  /\ r[1] \in Tables /\ r = <<r[1], r[2]>>
             /\ r[1] = "record" => o[r].cost \in Nat
             /\ r[1] = "bill" => o[r] = [cost |-> o[r].cost, status |-> o[r].status]
             /\ r[1] = "watermark" => o[r] \in Nat
  <2>1. CASE o[r] = new[r] /\ r \in DOMAIN new
    BY <2>1 DEF RowsOK
  <2>2. CASE o[r] = old[r] /\ r \in DOMAIN old
    BY <2>2 DEF RowsOK
  <2> QED  BY <1>4, <2>1, <2>2
<1>6. RowsOK(o)
  BY <1>1, <1>3, <1>5 DEF RowsOK
<1> QED  BY <1>6 DEF o

(* The records of a call come from both.                                        *)
LEMMA RecordsOver ==
  ASSUME NEW new, NEW old, NEW c, Records(new, c) = {},
         \A r \in DOMAIN new \cap DOMAIN old : r[1] # "record"
  PROVE  /\ Records(Over(new, old), c) = Records(old, c)
         /\ \A r \in Records(old, c) : Over(new, old)[r] = old[r]
<1> DEFINE o == Over(new, old)
<1>1. /\ DOMAIN o = DOMAIN new \cup DOMAIN old
      /\ \A r \in DOMAIN new : o[r] = new[r]
      /\ \A r \in DOMAIN old \ DOMAIN new : o[r] = old[r]
      /\ o = [r \in DOMAIN o |-> o[r]]
  BY OverIs
<1> HIDE DEF o
<1>2. \A r \in DOMAIN new : ~(r[1] = "record" /\ new[r].call = c)
  BY DEF Records
<1>3. \A r \in Records(old, c) : r \in DOMAIN old \ DOMAIN new
  BY DEF Records
<1>4. \A r \in Records(old, c) : r \in Records(o, c) /\ o[r] = old[r]
  BY <1>1, <1>3 DEF Records
<1>5. ASSUME NEW r \in Records(o, c) PROVE r \in Records(old, c)
  <2>1. r \in DOMAIN o /\ r[1] = "record" /\ o[r].call = c
    BY DEF Records
  <2>2. r \notin DOMAIN new
    BY <1>1, <1>2, <2>1
  <2> QED  BY <1>1, <2>1, <2>2 DEF Records
<1>6. Records(o, c) = Records(old, c)
  BY <1>4, <1>5
<1> QED  BY <1>4, <1>6 DEF o

(* Rows of others add nothing to the sum.                                       *)
LEMMA SumOver ==
  ASSUME NEW new, NEW old, RowsOK(new), RowsOK(old), NEW c, Records(new, c) = {},
         \A r \in DOMAIN new \cap DOMAIN old : r[1] # "record"
  PROVE  SumOf(Over(new, old), c) = SumOf(old, c)
<1> QED  BY OverOK, RecordsOver, SumSame

--------------------------------------------------------------------------------
(* The plan.                                                                    *)

(* The batches of a plan are sequences of events.                               *)
LEMMA PlanFacts ==
  ASSUME batches \in Plans, NEW w \in Workers
  PROVE  /\ Len(batches[w]) \in Nat /\ DOMAIN batches[w] = 1..Len(batches[w])
         /\ \A b \in DOMAIN batches[w] :
              /\ Len(batches[w][b]) \in Nat /\ DOMAIN batches[w][b] = 1..Len(batches[w][b])
              /\ Len(batches[w][b]) > 0
              /\ \A i \in DOMAIN batches[w][b] : batches[w][b][i] \in Events
<1>1. /\ IsSequence(batches[w])
      /\ \A b \in DOMAIN batches[w] : IsSequence(batches[w][b]) /\ Len(batches[w][b]) > 0
  BY TransactionsAssumption
<1>2. ASSUME NEW b \in DOMAIN batches[w], NEW i \in DOMAIN batches[w][b]
      PROVE  batches[w][b][i] \in Events
  <2>1. batches[w][b] \in UNION {ToSet(batches[v]) : v \in Workers}
    BY DEF ToSet
  <2>2. batches[w][b][i] \in ToSet(batches[w][b])
    BY DEF ToSet
  <2> QED  BY <2>1, <2>2 DEF Events, EventsOf
<1> QED  BY <1>1, <1>2 DEF IsSequence

(* The events of a plan.                                                        *)
LEMMA EventFacts ==
  ASSUME batches \in Plans
  PROVE  /\ \A e \in Events : e.offset \in Nat /\ e.cost \in Nat
         /\ \A e, f \in Events : e.key = f.key => e = f
         /\ \A e, f \in Events : e.kind = "started" /\ f.kind = "failed" /\ e.call = f.call =>
              e.topic = f.topic /\ e.offset < f.offset
<1> QED  BY TransactionsAssumption, LogAssumption DEF Events

(* A worker fetches a topic from its beginning.                                 *)
LEMMA FetchedBefore ==
  ASSUME batches \in Plans, NEW w \in Workers, NEW b \in DOMAIN batches[w],
         NEW i \in DOMAIN batches[w][b], NEW e \in Events,
         e.topic = batches[w][b][i].topic, e.offset <= batches[w][b][i].offset
  PROVE  \E c \in 1..b : \E j \in DOMAIN batches[w][c] :
           /\ batches[w][c][j] = e
           /\ c < b \/ j <= i
<1> QED  BY LogAssumption DEF Events

(* The loop that collects the topics of a batch, as FoldLeft makes it.          *)
MarkOf(ts, e) == IF Contains(ts, e.topic) THEN ts ELSE Append(ts, e.topic)

MarkStep(events, f, s) ==
  IF s = {} THEN <<>> ELSE MarkOf(f[s \ {Max(s)}], events[Max(s)])

MarkLoop(events) ==
  CHOOSE f : f = [s \in SUBSET DOMAIN events |-> MarkStep(events, f, s)]

(* The greatest of the numbers up to k + 1 is k + 1, if it is among them.       *)
LEMMA MaxIs ==
  ASSUME NEW k \in Nat, NEW s \in SUBSET (1..(k + 1)), k + 1 \in s
  PROVE  Max(s) = k + 1 /\ s \ {Max(s)} \in SUBSET (1..k)
<1>1. \A y \in s : k + 1 >= y
  OBVIOUS
<1>2. \A x \in s : (\A y \in s : x >= y) => x = k + 1
  OBVIOUS
<1>3. Max(s) = k + 1
  BY <1>1, <1>2 DEF Max
<1> QED  BY <1>3

(* The loop over the topics is met by a function.                         *)
LEMMA MarkLoopDef ==
  ASSUME NEW events, NEW n \in Nat, DOMAIN events = 1..n
  PROVE  MarkLoop(events)
           = [s \in SUBSET (1..n) |-> MarkStep(events, MarkLoop(events), s)]
<1> DEFINE LoopTo(k) == \E f : f = [s \in SUBSET (1..k) |-> MarkStep(events, f, s)]
           S == {k \in Nat : LoopTo(k)}
<1>1. 0 \in S
  <2> DEFINE f0 == [s \in SUBSET (1..0) |-> <<>>]
  <2>1. \A s \in SUBSET (1..0) : s = {}
    OBVIOUS
  <2>2. f0 = [s \in SUBSET (1..0) |-> MarkStep(events, f0, s)]
    BY <2>1 DEF MarkStep
  <2> QED  BY <2>2
<1>2. ASSUME NEW k \in Nat, k \in S PROVE k + 1 \in S
  <2>1. PICK f : f = [s \in SUBSET (1..k) |-> MarkStep(events, f, s)]
    BY <1>2
  <2> DEFINE g == [s \in SUBSET (1..(k + 1)) |->
                     IF k + 1 \in s THEN MarkStep(events, f, s) ELSE f[s]]
  <2>2. \A s \in SUBSET (1..k) : s \in SUBSET (1..(k + 1)) /\ k + 1 \notin s
    OBVIOUS
  <2>3. \A s \in SUBSET (1..k) : g[s] = f[s]
    BY <2>2
  <2>4. ASSUME NEW s \in SUBSET (1..(k + 1))
        PROVE  g[s] = MarkStep(events, g, s)
    <3>1. s = {} \/ s \ {Max(s)} \in SUBSET (1..k)
      <4>1. CASE k + 1 \in s
        BY <4>1, MaxIs
      <4>2. CASE k + 1 \notin s
        <5>1. s \in SUBSET (1..k)
          BY <4>2
        <5> QED  BY <5>1
      <4> QED  BY <4>1, <4>2
    <3>2. s = {} \/ g[s \ {Max(s)}] = f[s \ {Max(s)}]
      BY <2>3, <3>1
    <3>3. g[s] = IF k + 1 \in s THEN MarkStep(events, f, s) ELSE f[s]
      OBVIOUS
    <3> HIDE DEF g
    <3>4. MarkStep(events, g, s) = MarkStep(events, f, s)
      BY <3>2 DEF MarkStep
    <3>5. CASE k + 1 \in s
      BY <3>3, <3>4, <3>5
    <3>6. CASE k + 1 \notin s
      <4>1. s \in SUBSET (1..k)
        BY <3>6
      <4>2. f[s] = MarkStep(events, f, s)
        <5> DEFINE h == [t \in SUBSET (1..k) |-> MarkStep(events, f, t)]
        <5>1. h[s] = MarkStep(events, f, s)
          BY <4>1
        <5> QED  BY <5>1, <2>1
      <4> QED  BY <3>3, <3>4, <3>6, <4>2
    <3> QED  BY <3>5, <3>6
  <2>5. g = [s \in SUBSET (1..(k + 1)) |-> MarkStep(events, g, s)]
    <3>1. g = [s \in SUBSET (1..(k + 1)) |-> g[s]]
      OBVIOUS
    <3> HIDE DEF g
    <3> QED  BY <2>4, <3>1
  <2> HIDE DEF g
  <2> QED  BY <2>5
<1>3. LoopTo(n)
  <2> HIDE DEF LoopTo
  <2>1. \A k \in Nat : k \in S
    BY <1>1, <1>2, NatSetInduction
  <2> QED  BY <2>1
<1> QED  BY <1>3 DEF MarkLoop

(* The loop, one event at a time.                                         *)
LEMMA MarkUnfold ==
  ASSUME NEW events, NEW n \in Nat, DOMAIN events = 1..n
  PROVE  /\ MarkLoop(events)[1..0] = <<>>
         /\ \A k \in 0..(n - 1) :
              MarkLoop(events)[1..(k + 1)]
                = MarkOf(MarkLoop(events)[1..k], events[k + 1])
<1> DEFINE f == MarkLoop(events)
           h == [s \in SUBSET (1..n) |-> MarkStep(events, f, s)]
<1>1. f = h
  BY MarkLoopDef
<1>2. \A s \in SUBSET (1..n) : h[s] = MarkStep(events, f, s)
  OBVIOUS
<1> HIDE DEF f, h
<1>3. f[1..0] = <<>>
  <2>1. 1..0 = {} /\ 1..0 \in SUBSET (1..n)
    OBVIOUS
  <2> QED  BY <1>1, <1>2, <2>1 DEF MarkStep
<1>4. ASSUME NEW k \in 0..(n - 1)
      PROVE  f[1..(k + 1)] = MarkOf(f[1..k], events[k + 1])
  <2>0. k \in Nat /\ k + 1 \in Nat /\ k + 1 <= n /\ k + 1 \in 1..(k + 1)
    OBVIOUS
  <2>1. 1..(k + 1) \in SUBSET (1..n) /\ 1..(k + 1) # {}
    <3>1. \A x \in 1..(k + 1) : x \in 1..n
      BY <2>0
    <3> QED  BY <2>0, <3>1
  <2>2. Max(1..(k + 1)) = k + 1
    BY <2>0, MaxIs
  <2>3. (1..(k + 1)) \ {k + 1} = 1..k
    BY <2>0
  <2>4. f[1..(k + 1)] = MarkStep(events, f, 1..(k + 1))
    BY <1>1, <1>2, <2>1
  <2> QED  BY <2>1, <2>2, <2>3, <2>4 DEF MarkStep
<1> QED  BY <1>3, <1>4 DEF f

(* Marks is the loop.                                                           *)
LEMMA MarksIsLoop ==
  ASSUME NEW w PROVE Marks(w) = MarkLoop(Batch(w))[DOMAIN Batch(w)]
<1> QED  BY DEF Marks, FoldLeft, MapThenFoldSet, MarkLoop, MarkStep, MarkOf

(* The topics of a batch: at least one, and none that no event has.             *)
LEMMA MarksAre ==
  ASSUME batches \in Plans, NEW w \in Workers, Active(w)
  PROVE  /\ Len(Marks(w)) \in Nat /\ DOMAIN Marks(w) = 1..Len(Marks(w)) /\ Len(Marks(w)) > 0
         /\ \A k \in DOMAIN Marks(w) : \E i \in DOMAIN Batch(w) : Marks(w)[k] = Batch(w)[i].topic
<1> DEFINE events == Batch(w)
           n == Len(events)
           f == MarkLoop(events)
           T == {events[i].topic : i \in DOMAIN events}
           S == {k \in Nat : k <= n => f[1..k] \in Seq(T) /\ (k > 0 => f[1..k] # <<>>)}
<1>1. n \in Nat /\ n > 0 /\ DOMAIN events = 1..n
  BY PlanFacts DEF Batch, Active
<1> HIDE DEF events, n
<1>2. /\ f[1..0] = <<>>
      /\ \A k \in 0..(n - 1) : f[1..(k + 1)] = MarkOf(f[1..k], events[k + 1])
  BY <1>1, MarkUnfold
<1> HIDE DEF f
<1>3. 0 \in S
  <2> HIDE DEF T
  <2>1. f[1..0] \in Seq(T)
    BY <1>2
  <2> QED  BY <2>1
<1>4. ASSUME NEW k \in Nat, k \in S PROVE k + 1 \in S
  <2>1. SUFFICES ASSUME k + 1 <= n
                 PROVE  f[1..(k + 1)] \in Seq(T) /\ f[1..(k + 1)] # <<>>
    OBVIOUS
  <2>2. f[1..k] \in Seq(T)
    BY <1>1, <1>4, <2>1
  <2>3. k + 1 \in DOMAIN events /\ k \in 0..(n - 1)
    BY <1>1, <2>1
  <2>4. events[k + 1].topic \in T
    BY <2>3
  <2>5. f[1..(k + 1)] = MarkOf(f[1..k], events[k + 1])
    BY <1>2, <2>3
  <2> HIDE DEF T
  <2>6. CASE Contains(f[1..k], events[k + 1].topic)
    <3>1. f[1..(k + 1)] = f[1..k]
      BY <2>5, <2>6 DEF MarkOf
    <3>2. \E i \in 1..Len(f[1..k]) : TRUE
      BY <2>6 DEF Contains
    <3>3. f[1..k] # <<>>
      BY <2>2, <3>2
    <3> QED  BY <2>2, <3>1, <3>3
  <2>7. CASE ~Contains(f[1..k], events[k + 1].topic)
    <3>1. f[1..(k + 1)] = Append(f[1..k], events[k + 1].topic)
      BY <2>5, <2>7 DEF MarkOf
    <3> QED  BY <2>2, <2>4, <3>1
  <2> QED  BY <2>6, <2>7
<1>5. f[1..n] \in Seq(T) /\ f[1..n] # <<>>
  <2> HIDE DEF S
  <2>1. n \in S
    BY <1>1, <1>3, <1>4, NatSetInduction
  <2> QED  BY <1>1, <2>1 DEF S
<1>6. Marks(w) = f[1..n]
  BY <1>1, MarksIsLoop DEF f, events
<1> DEFINE m == Marks(w)
<1>7. m \in Seq(T) /\ m # <<>>
  BY <1>5, <1>6
<1> HIDE DEF m, T
<1>8. Len(m) \in Nat /\ DOMAIN m = 1..Len(m) /\ Len(m) > 0 /\ \A k \in DOMAIN m : m[k] \in T
  BY <1>7
<1> QED  BY <1>8 DEF m, T, events

(* The last offset of a topic is that of an event of the batch.                 *)
LEMMA LastOffsetIs ==
  ASSUME batches \in Plans, NEW w \in Workers, Active(w), NEW t,
         \E i \in DOMAIN Batch(w) : Batch(w)[i].topic = t
  PROVE  \E i \in DOMAIN Batch(w) : Batch(w)[i].topic = t /\ Batch(w)[i].offset = LastOffset(w, t)
<1> DEFINE events == Batch(w)
           n == Len(events)
           Of(i) == events[i].topic = t
           S == {k \in Nat : k <= n => \/ \A i \in 1..k : ~Of(i)
                                       \/ \E i \in 1..k : /\ Of(i)
                                                          /\ \A j \in 1..k : Of(j) =>
                                                               events[j].offset <= events[i].offset}
<1>1. /\ n \in Nat /\ n > 0 /\ DOMAIN events = 1..n
      /\ \A i \in 1..n : events[i].offset \in Nat
  BY PlanFacts, EventFacts DEF Batch, Active
<1>2. \E i \in 1..n : Of(i)
  BY <1>1
<1> DEFINE offs == {e.offset : e \in {e \in ToSet(events) : e.topic = t}}
<1>3. LastOffset(w, t) = Max(offs)
  BY DEF LastOffset
<1>4. \A x : x \in offs <=> \E i \in 1..n : Of(i) /\ x = events[i].offset
  BY <1>1 DEF ToSet
<1> HIDE DEF events, n, offs
<1>5. 0 \in S
  OBVIOUS
<1>6. ASSUME NEW k \in Nat, k \in S PROVE k + 1 \in S
  <2>1. SUFFICES ASSUME k + 1 <= n
                 PROVE  \/ \A i \in 1..(k + 1) : ~Of(i)
                        \/ \E i \in 1..(k + 1) : /\ Of(i)
                                                 /\ \A j \in 1..(k + 1) : Of(j) =>
                                                      events[j].offset <= events[i].offset
    OBVIOUS
  <2>2. \A i \in 1..(k + 1) : events[i].offset \in Nat /\ (i = k + 1 \/ i \in 1..k)
    BY <1>1, <2>1
  <2>3. k <= n /\ k + 1 \in 1..(k + 1) /\ 1..k \subseteq 1..(k + 1)
    BY <1>1, <2>1
  <2> HIDE DEF Of
  <2>4. CASE \A i \in 1..k : ~Of(i)
    BY <2>2, <2>3, <2>4
  <2>5. CASE \E i \in 1..k : Of(i) /\ \A j \in 1..k : Of(j) => events[j].offset <= events[i].offset
    <3>1. PICK i \in 1..k : Of(i) /\ \A j \in 1..k : Of(j) => events[j].offset <= events[i].offset
      BY <2>5
    <3>2. CASE Of(k + 1) /\ events[k + 1].offset > events[i].offset
      <4>1. \A j \in 1..(k + 1) : Of(j) => events[j].offset <= events[k + 1].offset
        BY <2>2, <2>3, <3>1, <3>2
      <4> QED  BY <2>3, <3>2, <4>1
    <3>3. CASE ~(Of(k + 1) /\ events[k + 1].offset > events[i].offset)
      <4>1. \A j \in 1..(k + 1) : Of(j) => events[j].offset <= events[i].offset
        BY <2>2, <2>3, <3>1, <3>3
      <4> QED  BY <2>3, <3>1, <4>1
    <3> QED  BY <3>2, <3>3
  <2> QED  BY <1>6, <2>3, <2>4, <2>5
<1>7. n \in S
  <2> HIDE DEF S
  <2> QED  BY <1>1, <1>5, <1>6, NatSetInduction
<1>8. PICK i \in 1..n : Of(i) /\ \A j \in 1..n : Of(j) => events[j].offset <= events[i].offset
  BY <1>1, <1>2, <1>7
<1>9. events[i].offset \in offs /\ \A y \in offs : events[i].offset >= y
  BY <1>1, <1>4, <1>8
<1>10. Max(offs) \in offs
  BY <1>9 DEF Max
<1>11. \E j \in 1..n : Of(j) /\ Max(offs) = events[j].offset
  BY <1>4, <1>10
<1>12. \E j \in DOMAIN events : events[j].topic = t /\ events[j].offset = Max(offs)
  BY <1>1, <1>11
<1> QED  BY <1>3, <1>12 DEF events

--------------------------------------------------------------------------------
(* A step of one worker.                                                        *)

(* Nothing of the others changes.                                               *)
Alone(w) ==
  /\ batches' = batches /\ batch' = [batch EXCEPT ![w] = batch'[w]]
  /\ mine' = [mine EXCEPT ![w] = mine'[w]]
  /\ at' = [at EXCEPT ![w] = at'[w]] /\ item' = [item EXCEPT ![w] = item'[w]]
  /\ seen' = [seen EXCEPT ![w] = seen'[w]]

(* The part of the rows that a worker sees, and the state it is in, is what     *)
(* its invariant speaks of.                                                     *)
LEMMA SoundStays ==
  ASSUME NEW v, Sound(v), db' = db,
         batches' = batches, batch'[v] = batch[v], mine'[v] = mine[v],
         at'[v] = at[v], item'[v] = item[v], seen'[v] = seen[v]
  PROVE  Sound(v)'
<1>1. /\ batches' = batches /\ batch'[v] = batch[v] /\ mine'[v] = mine[v]
      /\ at'[v] = at[v] /\ item'[v] = item[v] /\ seen'[v] = seen[v]
  OBVIOUS
<1>2. /\ Visible(v)' = Visible(v) /\ Events' = Events
      /\ Active(v)' = Active(v) /\ Batch(v)' = Batch(v) /\ Event(v)' = Event(v)
      /\ Marks(v)' = Marks(v)
  <2>1. /\ Visible(v)' = Visible(v) /\ Events' = Events
        /\ Active(v)' = Active(v) /\ Batch(v)' = Batch(v)
    BY <1>1 DEF Visible, Events, Active, Batch
  <2>2. Event(v)' = Event(v)
    BY <1>1, <2>1 DEF Event
  <2>3. Marks(v)' = MarkLoop(Batch(v)')[DOMAIN (Batch(v)')]
    BY DEF Marks, FoldLeft, MapThenFoldSet, MarkLoop, MarkStep, MarkOf
  <2>4. Marks(v)' = Marks(v)
    BY <2>1, <2>3, MarksIsLoop
  <2> QED  BY <2>1, <2>2, <2>4
<1>3. Sound(v)
  OBVIOUS
<1>4. Placed(v)' /\ RowsOK(mine[v])' /\ Keyed(v)' /\ Projected(v)' /\ InOrder(Visible(v))'
  BY <1>1, <1>2, <1>3 DEF Sound, Placed, RowsOK, Keyed, Projected, InOrder, Has
<1>5. Marked(v)' /\ Counted(v)' /\ Judged(v)'
  <2>1. Marked(v)'
    BY <1>1, <1>2, <1>3 DEF Sound, Marked, Has
  <2>2. Counted(v)'
    BY <1>1, <1>2, <1>3 DEF Sound, Counted
  <2>3. Judged(v)'
    <3>1. \A c : HasFailed(Visible(v), c)' = HasFailed(Visible(v), c)
      BY <1>2 DEF HasFailed, Has
    <3> QED  BY <1>1, <1>3, <3>1 DEF Sound, Judged
  <2> QED  BY <2>1, <2>2, <2>3
<1>6. \A c : Pricing(v, c)' = Pricing(v, c)
  BY <1>1, <1>2 DEF Pricing
<1>7. Priced(v)'
  BY <1>1, <1>2, <1>3, <1>6 DEF Sound, Priced, Row
<1> QED  BY <1>4, <1>5, <1>7 DEF Sound

(* Nothing changes for the others.                                              *)
LEMMA SoundOfOthers ==
  ASSUME TxInv, NEW w \in Workers, Alone(w), db' = db, NEW v \in Workers, v # w
  PROVE  Sound(v)'
<1>1. /\ batches' = batches /\ batch'[v] = batch[v] /\ mine'[v] = mine[v]
      /\ at'[v] = at[v] /\ item'[v] = item[v] /\ seen'[v] = seen[v]
  BY DEF Alone, TxInv, Shape
<1>2. Sound(v)
  BY DEF TxInv
<1> QED  BY <1>1, <1>2, SoundStays

(* A commit by another worker leaves the sum of a call alone whose rollup or    *)
(* bill this one has.                                                           *)
LEMMA SumAtCommit ==
  ASSUME TxInv, NEW v \in Workers, at[v] = "commit", Active(v), NEW c,
         <<"rollup", c>> \notin DOMAIN mine[v] \/ <<"bill", c>> \notin DOMAIN mine[v]
  PROVE  Records(mine[v], c) = {}
<1>1. \A r \in DOMAIN mine[v] : r[1] = "record" =>
        /\ <<"rollup", mine[v][r].call>> \in DOMAIN mine[v]
        /\ <<"bill", mine[v][r].call>> \in DOMAIN mine[v]
  BY DEF TxInv, Sound, Counted, Priced, Pricing
<1> QED  BY <1>1 DEF Records

(* Records that are not committed yet are new.                                  *)
LEMMA NewRecords ==
  ASSUME TxInv, NEW v \in Workers
  PROVE  \A r \in DOMAIN mine[v] \cap DOMAIN db : r[1] # "record"
<1>1. ASSUME NEW r \in DOMAIN mine[v] \cap DOMAIN db, r[1] = "record" PROVE FALSE
  <2>1. <<"key", r[2]>> \in DOMAIN mine[v] /\ <<"key", r[2]>> \in DOMAIN db
    BY <1>1 DEF TxInv, Sound, Keyed, Stored
  <2>2. <<"key", r[2]>>[1] = "key"
    OBVIOUS
  <2> QED  BY <2>1, <2>2 DEF TxInv, Sound, Keyed
<1> QED  BY <1>1

(* What each sees has the right shape.                                          *)
LEMMA VisibleOK ==
  ASSUME TxInv, NEW w \in Workers
  PROVE  /\ RowsOK(mine[w]) /\ RowsOK(db) /\ RowsOK(Visible(w))
         /\ DOMAIN Visible(w) = DOMAIN mine[w] \cup DOMAIN db
         /\ \A r \in DOMAIN mine[w] : Visible(w)[r] = mine[w][r]
         /\ \A r \in DOMAIN db \ DOMAIN mine[w] : Visible(w)[r] = db[r]
<1>1. RowsOK(mine[w]) /\ RowsOK(db)
  BY DEF TxInv, Sound, Stored
<1>2. RowsOK(Visible(w))
  BY <1>1, OverOK DEF Visible
<1>3. /\ DOMAIN Visible(w) = DOMAIN mine[w] \cup DOMAIN db
      /\ \A r \in DOMAIN mine[w] : Visible(w)[r] = mine[w][r]
      /\ \A r \in DOMAIN db \ DOMAIN mine[w] : Visible(w)[r] = db[r]
      /\ Visible(w) = [r \in DOMAIN Visible(w) |-> Visible(w)[r]]
  BY OverIs DEF Visible
<1> QED  BY <1>1, <1>2, <1>3

--------------------------------------------------------------------------------
(* A commit.                                                                    *)

Commits(w) ==
  /\ w \in Workers /\ Active(w) /\ at[w] = "commit"
  /\ db' = Visible(w) /\ mine'[w] = <<>> /\ Alone(w)

(* What a commit does to the rows that another transaction sees.                *)
LEMMA SeenAfterCommit ==
  ASSUME TxInv, NEW w \in Workers, Commits(w), NEW v \in Workers, v # w
  PROVE  /\ batches' = batches /\ batch'[v] = batch[v] /\ mine'[v] = mine[v]
         /\ at'[v] = at[v] /\ item'[v] = item[v] /\ seen'[v] = seen[v]
         /\ Events' = Events /\ Active(v)' = Active(v) /\ Batch(v)' = Batch(v)
         /\ Event(v)' = Event(v) /\ Marks(v)' = Marks(v)
         /\ DOMAIN mine[v] \cap DOMAIN mine[w] = {}
         /\ RowsOK(db') /\ RowsOK(Visible(v)')
         /\ DOMAIN db' = DOMAIN mine[w] \cup DOMAIN db
         /\ \A r \in DOMAIN mine[w] : db'[r] = mine[w][r]
         /\ \A r \in DOMAIN db \ DOMAIN mine[w] : db'[r] = db[r]
         /\ DOMAIN Visible(v)' = DOMAIN mine[v] \cup DOMAIN db'
         /\ \A r \in DOMAIN mine[v] : Visible(v)'[r] = mine[v][r]
         /\ \A r \in DOMAIN db' \ DOMAIN mine[v] : Visible(v)'[r] = db'[r]
         /\ \A e : Has(Visible(w), e) => Has(Visible(v)', e)
         /\ \A e : Has(Visible(v), e) => Has(Visible(v)', e)
         /\ \A e : Has(db, e) => Has(db', e)
<1>1. /\ batches' = batches /\ batch'[v] = batch[v] /\ mine'[v] = mine[v]
      /\ at'[v] = at[v] /\ item'[v] = item[v] /\ seen'[v] = seen[v]
  BY DEF Commits, Alone, TxInv, Shape
<1>2. /\ Events' = Events /\ Active(v)' = Active(v) /\ Batch(v)' = Batch(v)
  BY <1>1 DEF Events, Active, Batch
<1>3. Event(v)' = Event(v)
  BY <1>1, <1>2 DEF Event
<1>4. Marks(v)' = Marks(v)
  <2>1. Marks(v)' = MarkLoop(Batch(v)')[DOMAIN (Batch(v)')]
    BY DEF Marks, FoldLeft, MapThenFoldSet, MarkLoop, MarkStep, MarkOf
  <2> QED  BY <1>2, <2>1, MarksIsLoop
<1>5. DOMAIN mine[v] \cap DOMAIN mine[w] = {}
  BY DEF TxInv, Shape
<1>6. /\ RowsOK(db') /\ RowsOK(mine[v])
      /\ DOMAIN db' = DOMAIN mine[w] \cup DOMAIN db
      /\ \A r \in DOMAIN mine[w] : db'[r] = mine[w][r]
      /\ \A r \in DOMAIN db \ DOMAIN mine[w] : db'[r] = db[r]
  BY VisibleOK DEF Commits
<1>7. Visible(v)' = Over(mine[v], db')
  BY <1>1 DEF Visible
<1>8. /\ DOMAIN Visible(v)' = DOMAIN mine[v] \cup DOMAIN db'
      /\ \A r \in DOMAIN mine[v] : Visible(v)'[r] = mine[v][r]
      /\ \A r \in DOMAIN db' \ DOMAIN mine[v] : Visible(v)'[r] = db'[r]
  <2> DEFINE o == Over(mine[v], db')
  <2>1. /\ DOMAIN o = DOMAIN mine[v] \cup DOMAIN db'
        /\ \A r \in DOMAIN mine[v] : o[r] = mine[v][r]
        /\ \A r \in DOMAIN db' \ DOMAIN mine[v] : o[r] = db'[r]
        /\ o = [r \in DOMAIN o |-> o[r]]
    BY OverIs
  <2> HIDE DEF o
  <2> QED  BY <1>7, <2>1 DEF o
<1>9. RowsOK(Visible(v)')
  BY <1>6, <1>7, OverOK
<1>10. /\ DOMAIN Visible(w) \subseteq DOMAIN Visible(v)'
       /\ DOMAIN Visible(v) \subseteq DOMAIN Visible(v)'
       /\ DOMAIN db \subseteq DOMAIN db'
  BY <1>6, <1>8, VisibleOK DEF Commits
<1>11. /\ \A e : Has(Visible(w), e) => Has(Visible(v)', e)
       /\ \A e : Has(Visible(v), e) => Has(Visible(v)', e)
       /\ \A e : Has(db, e) => Has(db', e)
  BY <1>10 DEF Has
<1> QED  BY <1>1, <1>2, <1>3, <1>4, <1>5, <1>6, <1>8, <1>9, <1>11

(* Of that, the rows.                                                           *)
LEMMA RowsAfterCommit ==
  ASSUME TxInv, NEW w \in Workers, Commits(w), NEW v \in Workers, v # w
  PROVE  /\ DOMAIN mine[v] \cap DOMAIN mine[w] = {}
         /\ DOMAIN db' = DOMAIN mine[w] \cup DOMAIN db
         /\ \A r \in DOMAIN mine[w] : db'[r] = mine[w][r]
         /\ \A r \in DOMAIN db \ DOMAIN mine[w] : db'[r] = db[r]
         /\ DOMAIN Visible(v)' = DOMAIN mine[v] \cup DOMAIN db'
         /\ \A r \in DOMAIN mine[v] : Visible(v)'[r] = mine[v][r]
         /\ \A r \in DOMAIN db' \ DOMAIN mine[v] : Visible(v)'[r] = db'[r]
<1> QED  BY SeenAfterCommit

(* A sum that another transaction relies on is not changed by a commit.         *)
LEMMA SumSurvivesCommit ==
  ASSUME TxInv, NEW w \in Workers, Commits(w), NEW v \in Workers, v # w, NEW c,
         <<"rollup", c>> \in DOMAIN mine[v] \/ <<"bill", c>> \in DOMAIN mine[v]
  PROVE  SumOf(Visible(v)', c) = SumOf(Visible(v), c)
<1>0. /\ DOMAIN mine[v] \cap DOMAIN mine[w] = {}
      /\ DOMAIN db' = DOMAIN mine[w] \cup DOMAIN db
      /\ \A r \in DOMAIN mine[w] : db'[r] = mine[w][r]
      /\ \A r \in DOMAIN db \ DOMAIN mine[w] : db'[r] = db[r]
      /\ DOMAIN Visible(v)' = DOMAIN mine[v] \cup DOMAIN db'
      /\ \A r \in DOMAIN mine[v] : Visible(v)'[r] = mine[v][r]
      /\ \A r \in DOMAIN db' \ DOMAIN mine[v] : Visible(v)'[r] = db'[r]
  BY RowsAfterCommit
<1> DEFINE new == Visible(v)'
           old == Visible(v)
<1>1. Records(mine[w], c) = {}
  BY SumAtCommit, SeenAfterCommit DEF Commits
<1>2. /\ DOMAIN mine[v] \cap DOMAIN mine[w] = {}
      /\ DOMAIN new = DOMAIN mine[v] \cup DOMAIN mine[w] \cup DOMAIN db
      /\ \A r \in DOMAIN mine[v] : new[r] = mine[v][r]
      /\ \A r \in DOMAIN mine[w] : new[r] = mine[w][r]
      /\ \A r \in DOMAIN db \ (DOMAIN mine[w] \cup DOMAIN mine[v]) : new[r] = db[r]
      /\ RowsOK(new)
  <2>2. RowsOK(Visible(v)')
    BY SeenAfterCommit
  <2>3. /\ DOMAIN new = DOMAIN mine[v] \cup DOMAIN db'
        /\ \A r \in DOMAIN mine[v] : new[r] = mine[v][r]
        /\ \A r \in DOMAIN db' \ DOMAIN mine[v] : new[r] = db'[r]
        /\ RowsOK(new)
    BY <1>0, <2>2
  <2> HIDE DEF new
  <2> QED  BY <1>0, <2>3
<1>3. /\ DOMAIN old = DOMAIN mine[v] \cup DOMAIN db
      /\ \A r \in DOMAIN mine[v] : old[r] = mine[v][r]
      /\ \A r \in DOMAIN db \ DOMAIN mine[v] : old[r] = db[r]
      /\ RowsOK(old)
  BY VisibleOK
<1>4. \A r \in DOMAIN mine[w] \cap DOMAIN db : r[1] # "record"
  BY NewRecords
<1> HIDE DEF new, old
<1>5. ASSUME NEW r \in Records(old, c) PROVE r \in Records(new, c) /\ new[r] = old[r]
  <2>1. r \in DOMAIN old /\ r[1] = "record" /\ old[r].call = c
    BY DEF Records
  <2>2. r \in DOMAIN new /\ new[r] = old[r]
    BY <1>2, <1>3, <1>4, <2>1
  <2> QED  BY <2>1, <2>2 DEF Records
<1>6. ASSUME NEW r \in Records(new, c) PROVE r \in Records(old, c)
  <2>1. r \in DOMAIN new /\ r[1] = "record" /\ new[r].call = c
    BY DEF Records
  <2>2. r \notin DOMAIN mine[w]
    BY <1>1, <1>2, <2>1 DEF Records
  <2>3. r \in DOMAIN old /\ new[r] = old[r]
    BY <1>2, <1>3, <2>1, <2>2
  <2> QED  BY <2>1, <2>3 DEF Records
<1>7. Records(new, c) = Records(old, c)
  BY <1>5, <1>6
<1>8. SumOf(new, c) = SumOf(old, c)
  BY <1>2, <1>3, <1>5, <1>7, SumSame
<1> QED  BY <1>8 DEF new, old

(* A commit disturbs no other transaction.                                      *)
LEMMA SoundAfterCommit ==
  ASSUME TxInv, NEW w \in Workers, Commits(w), NEW v \in Workers, v # w
  PROVE  Sound(v)'
<1>1. /\ batches' = batches /\ batch'[v] = batch[v] /\ mine'[v] = mine[v]
      /\ at'[v] = at[v] /\ item'[v] = item[v] /\ seen'[v] = seen[v]
      /\ Events' = Events /\ Active(v)' = Active(v) /\ Batch(v)' = Batch(v)
      /\ Event(v)' = Event(v) /\ Marks(v)' = Marks(v)
  BY SeenAfterCommit
<1>2. /\ DOMAIN mine[v] \cap DOMAIN mine[w] = {}
      /\ DOMAIN db' = DOMAIN mine[w] \cup DOMAIN db
      /\ \A r \in DOMAIN mine[w] : db'[r] = mine[w][r]
      /\ \A r \in DOMAIN db \ DOMAIN mine[w] : db'[r] = db[r]
      /\ DOMAIN Visible(v)' = DOMAIN mine[v] \cup DOMAIN db'
      /\ \A r \in DOMAIN mine[v] : Visible(v)'[r] = mine[v][r]
      /\ \A r \in DOMAIN db' \ DOMAIN mine[v] : Visible(v)'[r] = db'[r]
  BY SeenAfterCommit
<1>3. /\ \A e : Has(Visible(w), e) => Has(Visible(v)', e)
      /\ \A e : Has(Visible(v), e) => Has(Visible(v)', e)
      /\ \A e : Has(db, e) => Has(db', e)
  BY SeenAfterCommit
<1>4. Sound(v) /\ Sound(w)
  BY DEF TxInv
<1>5. Placed(v)' /\ RowsOK(mine[v])'
  BY <1>1, <1>4 DEF Sound, Placed, RowsOK
<1>6. Keyed(v)'
  BY <1>1, <1>2, <1>4 DEF Sound, Keyed
<1>7. Projected(v)'
  <2>1. \A b \in 1..(batch[v] - 1) : \A i \in DOMAIN batches[v][b] : Has(db', batches[v][b][i])
    BY <1>3, <1>4 DEF Sound, Projected
  <2>2. Active(v) => \A i \in DOMAIN Batch(v) :
          at[v] \in {"mark", "commit"} \/ i < item[v] => Has(Visible(v)', Batch(v)[i])
    BY <1>3, <1>4 DEF Sound, Projected
  <2> QED  BY <1>1, <2>1, <2>2 DEF Projected, Has
<1>8. InOrder(Visible(v))'
  <2>1. \A e : Has(Visible(v)', e) <=> Has(Visible(v), e) \/ Has(Visible(w), e)
    BY <1>2, VisibleOK DEF Has
  <2>2. InOrder(Visible(v)) /\ InOrder(Visible(w))
    BY <1>4 DEF Sound
  <2>3. \A e, f \in Events :
          Has(Visible(v)', e) /\ f.topic = e.topic /\ f.offset <= e.offset => Has(Visible(v)', f)
    BY <2>1, <2>2 DEF InOrder
  <2> QED  BY <1>1, <2>3 DEF InOrder, Has
<1>9. Marked(v)'
  <2>1. ASSUME NEW t, <<"watermark", t>> \in DOMAIN mine[v]
        PROVE  /\ <<"watermark", t>> \in DOMAIN db' =>
                    db'[<<"watermark", t>>] <= mine[v][<<"watermark", t>>]
               /\ \A e \in Events : e.topic = t /\ e.offset <= mine[v][<<"watermark", t>>] =>
                    Has(Visible(v)', e)
    BY <1>2, <1>3, <1>4, <2>1 DEF Sound, Marked
  <2> QED  BY <1>1, <2>1 DEF Marked, Has
<1>10. Counted(v)'
  <2>1. \A c : <<"rollup", c>> \in DOMAIN mine[v] =>
          SumOf(Visible(v)', c) = SumOf(Visible(v), c)
    BY SumSurvivesCommit
  <2>2. \A c : <<"rollup", c>> \in DOMAIN mine[v] =>
          mine[v][<<"rollup", c>>] = SumOf(Visible(v)', c)
    BY <1>4, <2>1 DEF Sound, Counted
  <2> QED  BY <1>1, <1>4, <2>2 DEF Sound, Counted
<1>11. Priced(v)'
  <2>1. \A c : <<"bill", c>> \in DOMAIN mine[v] \/ <<"rollup", c>> \in DOMAIN mine[v] =>
          SumOf(Visible(v)', c) = SumOf(Visible(v), c)
    BY SumSurvivesCommit
  <2>2. \A c : Pricing(v, c)' = Pricing(v, c)
    BY <1>1 DEF Pricing
  <2>3. \A c : <<"bill", c>> \in DOMAIN mine[v] /\ ~Pricing(v, c) =>
          mine[v][<<"bill", c>>].cost = SumOf(Visible(v)', c)
    BY <1>4, <2>1 DEF Sound, Priced
  <2>4. ASSUME Active(v)
        PROVE  /\ at[v] \in {"close", "sum", "cost"} =>
                    <<"bill", Event(v).call>> \in DOMAIN Visible(v)'
               /\ at[v] = "cost" => seen[v] = SumOf(Visible(v)', Event(v).call)
    <3>1. DOMAIN Visible(v) \subseteq DOMAIN Visible(v)'
      BY <1>2, VisibleOK
    <3>2. at[v] = "cost" => \/ <<"rollup", Event(v).call>> \in DOMAIN mine[v]
                            \/ <<"bill", Event(v).call>> \in DOMAIN mine[v]
      BY <1>4, <2>4 DEF Sound, Priced, Row
    <3> QED  BY <1>4, <2>1, <2>4, <3>1, <3>2 DEF Sound, Priced, Row
  <2>5. /\ \A r \in DOMAIN mine[v] :
             r[1] = "record" /\ ~Pricing(v, mine[v][r].call) =>
               <<"bill", mine[v][r].call>> \in DOMAIN mine[v]
        /\ Active(v) =>
             /\ at[v] \in {"insert", "sum", "cost"} /\ Event(v).kind = "usage" =>
                  <<"rollup", Event(v).call>> \in DOMAIN mine[v]
             /\ at[v] \in {"sum", "cost"} /\ Event(v).kind # "usage" =>
                  <<"bill", Event(v).call>> \in DOMAIN mine[v]
    BY <1>4 DEF Sound, Priced, Row
  <2> QED  BY <1>1, <2>2, <2>3, <2>4, <2>5 DEF Priced, Row
<1>12. Judged(v)'
  <2>1. \A c : HasFailed(Visible(v), c) => HasFailed(Visible(v), c)'
    BY <1>1, <1>3 DEF HasFailed, Has
  <2>2. \A c : <<"call", c>> \in DOMAIN mine[v] =>
          (<<"call", c>> \in DOMAIN db' => <<"call", c>> \in DOMAIN db
                                           /\ db'[<<"call", c>>] = db[<<"call", c>>])
    BY <1>2
  <2> QED  BY <1>1, <1>4, <2>1, <2>2 DEF Sound, Judged
<1> QED  BY <1>5, <1>6, <1>7, <1>8, <1>9, <1>10, <1>11, <1>12 DEF Sound

(* What is committed is in order again.                                         *)
LEMMA StoredAfterCommit ==
  ASSUME TxInv, NEW w \in Workers, Commits(w)
  PROVE  Stored'
<1> DEFINE new == Visible(w)
<1>1. db' = new /\ batches' = batches /\ Events' = Events
  BY DEF Commits, Alone, Events
<1>2. /\ RowsOK(new)
      /\ DOMAIN new = DOMAIN mine[w] \cup DOMAIN db
      /\ \A r \in DOMAIN mine[w] : new[r] = mine[w][r]
      /\ \A r \in DOMAIN db \ DOMAIN mine[w] : new[r] = db[r]
      /\ RowsOK(db) /\ RowsOK(mine[w])
  BY VisibleOK
<1>3. Stored /\ InOrder(new) /\ Keyed(w) /\ Marked(w) /\ Counted(w) /\ Priced(w) /\ Judged(w)
  BY DEF TxInv, Sound
<1>4. \A c : ~Pricing(w, c)
  BY DEF Commits, Pricing
<1>5. \A e : Has(db, e) => Has(new, e)
  BY <1>2 DEF Has
<1>6. ASSUME NEW c, <<"rollup", c>> \notin DOMAIN mine[w] \/ <<"bill", c>> \notin DOMAIN mine[w]
      PROVE  SumOf(new, c) = SumOf(db, c)
  <2>1. Records(mine[w], c) = {}
    BY <1>6, SumAtCommit DEF Commits
  <2> QED  BY <1>2, <2>1, NewRecords, SumOver DEF Visible
<1> HIDE DEF new
<1>7. ASSUME NEW r \in DOMAIN new, r[1] = "record"
      PROVE  <<"key", r[2]>> \in DOMAIN new /\ <<"rollup", new[r].call>> \in DOMAIN new
  <2>1. CASE r \in DOMAIN mine[w]
    BY <1>2, <1>3, <1>7, <2>1 DEF Keyed, Counted
  <2>2. CASE r \in DOMAIN db \ DOMAIN mine[w]
    BY <1>2, <1>3, <1>7, <2>2 DEF Stored
  <2> QED  BY <1>2, <2>1, <2>2
<1>8. ASSUME NEW t, <<"watermark", t>> \in DOMAIN new,
             NEW e \in Events, e.topic = t, e.offset <= new[<<"watermark", t>>]
      PROVE  Has(new, e)
  <2>1. CASE <<"watermark", t>> \in DOMAIN mine[w]
    BY <1>2, <1>3, <1>8, <2>1 DEF Marked, new
  <2>2. CASE <<"watermark", t>> \in DOMAIN db \ DOMAIN mine[w]
    <3>1. new[<<"watermark", t>>] = db[<<"watermark", t>>]
      BY <1>2, <2>2
    <3>2. Has(db, e)
      BY <1>3, <1>8, <2>2, <3>1 DEF Stored
    <3> QED  BY <1>5, <3>2
  <2> QED  BY <1>2, <1>8, <2>1, <2>2
<1>9. ASSUME NEW c, <<"rollup", c>> \in DOMAIN new
      PROVE  new[<<"rollup", c>>] = SumOf(new, c)
  <2>1. CASE <<"rollup", c>> \in DOMAIN mine[w]
    BY <1>2, <1>3, <2>1 DEF Counted, new
  <2>2. CASE <<"rollup", c>> \in DOMAIN db \ DOMAIN mine[w]
    <3>1. new[<<"rollup", c>>] = db[<<"rollup", c>>] /\ SumOf(new, c) = SumOf(db, c)
      BY <1>2, <1>6, <2>2
    <3> QED  BY <1>3, <2>2, <3>1 DEF Stored
  <2> QED  BY <1>2, <1>9, <2>1, <2>2
<1>10. ASSUME NEW c, <<"bill", c>> \in DOMAIN new
       PROVE  new[<<"bill", c>>].cost = SumOf(new, c)
  <2>1. CASE <<"bill", c>> \in DOMAIN mine[w]
    BY <1>2, <1>3, <1>4, <2>1 DEF Priced, new
  <2>2. CASE <<"bill", c>> \in DOMAIN db \ DOMAIN mine[w]
    <3>1. new[<<"bill", c>>] = db[<<"bill", c>>] /\ SumOf(new, c) = SumOf(db, c)
      BY <1>2, <1>6, <2>2
    <3> QED  BY <1>3, <2>2, <3>1 DEF Stored
  <2> QED  BY <1>2, <1>10, <2>1, <2>2
<1>11. ASSUME NEW c, <<"call", c>> \in DOMAIN new, new[<<"call", c>>] = "CALL_FAILED"
       PROVE  HasFailed(new, c)
  <2>1. CASE <<"call", c>> \in DOMAIN mine[w]
    BY <1>2, <1>3, <1>11, <2>1 DEF Judged, new
  <2>2. CASE <<"call", c>> \in DOMAIN db \ DOMAIN mine[w]
    <3>1. new[<<"call", c>>] = db[<<"call", c>>]
      BY <1>2, <2>2
    <3>2. HasFailed(db, c)
      BY <1>3, <1>11, <2>2, <3>1 DEF Stored
    <3> QED  BY <1>5, <3>2 DEF HasFailed
  <2> QED  BY <1>2, <1>11, <2>1, <2>2
<1>12. InOrder(db)' /\ RowsOK(db)'
  BY <1>1, <1>2, <1>3 DEF InOrder, Has, RowsOK
<1>13. \A c : HasFailed(db, c)' = HasFailed(new, c)
  BY <1>1 DEF HasFailed, Has
<1> QED  BY <1>1, <1>7, <1>8, <1>9, <1>10, <1>11, <1>12, <1>13 DEF Stored, Has

(* A transaction that begins has done nothing.                                  *)
First(w) ==
  /\ Stored /\ batches \in Plans
  /\ mine[w] = <<>> /\ at[w] = "key" /\ item[w] = 1
  /\ batch[w] \in 1..(Len(batches[w]) + 1)
  /\ \A b \in 1..(batch[w] - 1) : \A i \in DOMAIN batches[w][b] : Has(db, batches[w][b][i])

BeginsSound == \A w \in Workers : First(w) => Sound(w)

(* So its part of the invariant holds.                                          *)
LEMMA FirstIsSound == BeginsSound
<1>1. ASSUME NEW w \in Workers, First(w) PROVE Sound(w)
  <2> /\ Stored /\ batches \in Plans
      /\ mine[w] = <<>> /\ at[w] = "key" /\ item[w] = 1
      /\ batch[w] \in 1..(Len(batches[w]) + 1)
      /\ \A b \in 1..(batch[w] - 1) : \A i \in DOMAIN batches[w][b] :
           Has(db, batches[w][b][i])
    BY <1>1 DEF First
  <2>1. DOMAIN mine[w] = {}
    OBVIOUS
  <2>2. Visible(w) = db
    <3>1. db = [r \in DOMAIN db |-> db[r]]
      BY DEF Stored, RowsOK
    <3>2. DOMAIN mine[w] \cup DOMAIN db = DOMAIN db
      BY <2>1
    <3>3. Visible(w) = [r \in DOMAIN db |-> db[r]]
      BY <2>1, <3>2 DEF Visible, Over
    <3> QED  BY <3>1, <3>3
  <2>3. Placed(w)
    <3>1. SUFFICES ASSUME Active(w) PROVE item[w] \in DOMAIN Batch(w)
      BY DEF Placed
    <3>2. IsSequence(batches[w][batch[w]]) /\ Len(batches[w][batch[w]]) > 0
      BY <3>1, TransactionsAssumption DEF Active
    <3> QED  BY <3>2 DEF IsSequence, Batch
  <2>4. RowsOK(mine[w])
    <3>1. {r \in DOMAIN mine[w] : r[1] = "record"} = {}
      BY <2>1
    <3>2. IsFiniteSet({})
      BY FS_EmptySet
    <3>3. mine[w] = [r \in DOMAIN mine[w] |-> mine[w][r]]
      BY <2>1
    <3> QED  BY <2>1, <3>1, <3>2, <3>3 DEF RowsOK
  <2>5. Keyed(w) /\ Marked(w) /\ Counted(w) /\ Judged(w)
    BY <2>1 DEF Keyed, Marked, Counted, Judged
  <2>6. Priced(w)
    BY <2>1 DEF Priced
  <2>7. Projected(w)
    <3>1. ASSUME Active(w) PROVE DOMAIN Batch(w) = 1..Len(Batch(w))
      <4>1. IsSequence(batches[w][batch[w]])
        BY <3>1, TransactionsAssumption DEF Active
      <4> QED  BY <4>1 DEF IsSequence, Batch
    <3>2. Active(w) => \A i \in DOMAIN Batch(w) : ~(i < 1)
      BY <3>1
    <3> QED  BY <3>2 DEF Projected, Has
  <2>8. InOrder(Visible(w))
    BY <2>2 DEF Stored, InOrder, Has
  <2> QED  BY <2>3, <2>4, <2>5, <2>6, <2>7, <2>8 DEF Sound
<1> QED  BY <1>1 DEF BeginsSound

(* The same of the next state.                                                  *)
LEMMA SoundAtFirst ==
  ASSUME Stored', batches' \in Plans, NEW w \in Workers,
         mine'[w] = <<>>, at'[w] = "key", item'[w] = 1,
         batch'[w] \in 1..(Len(batches'[w]) + 1),
         \A b \in 1..(batch'[w] - 1) : \A i \in DOMAIN batches'[w][b] : Has(db', batches'[w][b][i])
  PROVE  Sound(w)'
<1>1. BeginsSound'
  BY FirstIsSound, PTL
<1>2. First(w)'
  BY DEF First, Has
<1> QED  BY <1>1, <1>2 DEF BeginsSound


--------------------------------------------------------------------------------
(* A statement that writes the rows `new`, or none.                             *)

Executes(w, new) ==
  /\ w \in Workers /\ Active(w) /\ db' = db /\ batch'[w] = batch[w] /\ Alone(w)
  /\ RowsOK(new) /\ mine'[w] = Over(new, mine[w])

(* No rows.                                                                     *)
LEMMA NoRows ==
  /\ RowsOK(<<>>)
  /\ \A rows : RowsOK(rows) => Over(<<>>, rows) = rows
<1>1. DOMAIN <<>> = {} /\ <<>> = [r \in DOMAIN <<>> |-> <<>>[r]]
  OBVIOUS
<1>2. {r \in DOMAIN <<>> : r[1] = "record"} = {}
  BY <1>1
<1>3. RowsOK(<<>>)
  BY <1>1, <1>2, FS_EmptySet DEF RowsOK
<1>4. ASSUME NEW rows, RowsOK(rows) PROVE Over(<<>>, rows) = rows
  <2>1. rows = [r \in DOMAIN rows |-> rows[r]]
    BY <1>4 DEF RowsOK
  <2>2. DOMAIN <<>> \cup DOMAIN rows = DOMAIN rows
    BY <1>1
  <2>3. Over(<<>>, rows) = [r \in DOMAIN rows |-> rows[r]]
    BY <1>1, <2>2 DEF Over
  <2> QED  BY <2>1, <2>3
<1> QED  BY <1>3, <1>4

(* One row.                                                                     *)
LEMMA OneRow ==
  ASSUME NEW tag \in Tables, NEW id, NEW x,
         tag = "record" => x.cost \in Nat,
         tag = "bill" => x = [cost |-> x.cost, status |-> x.status],
         tag = "watermark" => x \in Nat
  PROVE  RowsOK([r \in {<<tag, id>>} |-> x])
<1> DEFINE row == <<tag, id>>
           rows == [r \in {row} |-> x]
<1>1. row[1] = tag /\ row = <<row[1], row[2]>>
  OBVIOUS
<1> HIDE DEF row
<1>2. DOMAIN rows = {row} /\ rows[row] = x /\ rows = [r \in DOMAIN rows |-> rows[r]]
  OBVIOUS
<1>3. IsFiniteSet({r \in DOMAIN rows : r[1] = "record"})
  <2>1. {r \in DOMAIN rows : r[1] = "record"} \subseteq {row}
    BY <1>2
  <2>2. IsFiniteSet({row})
    BY FS_Singleton
  <2> QED  BY <2>1, <2>2, FS_Subset
<1> HIDE DEF rows
<1>4. RowsOK(rows)
  BY <1>1, <1>2, <1>3 DEF RowsOK
<1> QED  BY <1>4 DEF rows, row

(* What a statement does to the rows, those of the transaction and those it     *)
(* sees.                                                                        *)
LEMMA ExecutesFacts ==
  ASSUME TxInv, NEW w, NEW new, Executes(w, new)
  PROVE  /\ batches' = batches /\ batch'[w] = batch[w]
         /\ Events' = Events /\ Active(w)' = Active(w) /\ Batch(w)' = Batch(w)
         /\ Marks(w)' = Marks(w)
         /\ item'[w] = item[w] => Event(w)' = Event(w)
         /\ DOMAIN mine'[w] = DOMAIN new \cup DOMAIN mine[w]
         /\ \A r \in DOMAIN new : mine'[w][r] = new[r]
         /\ \A r \in DOMAIN mine[w] \ DOMAIN new : mine'[w][r] = mine[w][r]
         /\ RowsOK(mine'[w]) /\ RowsOK(Visible(w)')
         /\ Visible(w)' = Over(new, Visible(w))
         /\ DOMAIN Visible(w)' = DOMAIN new \cup DOMAIN Visible(w)
         /\ \A r \in DOMAIN new : Visible(w)'[r] = new[r]
         /\ \A r \in DOMAIN Visible(w) \ DOMAIN new : Visible(w)'[r] = Visible(w)[r]
         /\ \A e : Has(Visible(w), e) => Has(Visible(w)', e)
<1>1. /\ batches' = batches /\ batch'[w] = batch[w] /\ db' = db
      /\ mine'[w] = Over(new, mine[w]) /\ RowsOK(new) /\ w \in Workers
  BY DEF Executes, Alone
<1>2. Events' = Events /\ Active(w)' = Active(w) /\ Batch(w)' = Batch(w)
  BY <1>1 DEF Events, Active, Batch
<1>3. item'[w] = item[w] => Event(w)' = Event(w)
  BY <1>2 DEF Event
<1>4. Marks(w)' = Marks(w)
  <2>1. Marks(w)' = MarkLoop(Batch(w)')[DOMAIN (Batch(w)')]
    BY DEF Marks, FoldLeft, MapThenFoldSet, MarkLoop, MarkStep, MarkOf
  <2> QED  BY <1>2, <2>1, MarksIsLoop
<1> DEFINE m == mine[w]
           o == Over(new, m)
<1>5. /\ DOMAIN o = DOMAIN new \cup DOMAIN m
      /\ \A r \in DOMAIN new : o[r] = new[r]
      /\ \A r \in DOMAIN m \ DOMAIN new : o[r] = m[r]
      /\ o = [r \in DOMAIN o |-> o[r]]
  BY OverIs
<1>6. RowsOK(o)
  BY <1>1, OverOK, VisibleOK
<1>7. Visible(w)' = Over(o, db)
  BY <1>1 DEF Visible
<1> DEFINE see == Visible(w)
           u == Over(o, db)
           v == Over(new, see)
<1>8. /\ DOMAIN u = DOMAIN o \cup DOMAIN db
      /\ \A r \in DOMAIN o : u[r] = o[r]
      /\ \A r \in DOMAIN db \ DOMAIN o : u[r] = db[r]
      /\ u = [r \in DOMAIN u |-> u[r]]
  BY OverIs
<1>9. /\ DOMAIN v = DOMAIN new \cup DOMAIN see
      /\ \A r \in DOMAIN new : v[r] = new[r]
      /\ \A r \in DOMAIN see \ DOMAIN new : v[r] = see[r]
      /\ v = [r \in DOMAIN v |-> v[r]]
  BY OverIs
<1>10. /\ DOMAIN see = DOMAIN m \cup DOMAIN db
       /\ \A r \in DOMAIN m : see[r] = m[r]
       /\ \A r \in DOMAIN db \ DOMAIN m : see[r] = db[r]
       /\ RowsOK(see)
  BY <1>1, VisibleOK
<1> HIDE DEF m, o, see, u, v
<1>11. DOMAIN u = DOMAIN v
  BY <1>5, <1>8, <1>9, <1>10
<1>12. \A r \in DOMAIN v : u[r] = v[r]
  BY <1>5, <1>8, <1>9, <1>10
<1>13. u = v
  <2>1. [r \in DOMAIN u |-> u[r]] = [r \in DOMAIN v |-> v[r]]
    BY <1>11, <1>12
  <2> QED  BY <1>8, <1>9, <2>1
<1>14. RowsOK(v)
  BY <1>1, <1>10, OverOK DEF v
<1>15. \A e : Has(see, e) => Has(v, e)
  BY <1>9 DEF Has
<1>16. Visible(w)' = v
  BY <1>7, <1>13 DEF u
<1>17. mine'[w] = o
  BY <1>1 DEF o, m
<1>18. /\ RowsOK(Visible(w)') /\ Visible(w)' = Over(new, Visible(w))
       /\ DOMAIN Visible(w)' = DOMAIN new \cup DOMAIN Visible(w)
       /\ \A r \in DOMAIN new : Visible(w)'[r] = new[r]
       /\ \A r \in DOMAIN Visible(w) \ DOMAIN new : Visible(w)'[r] = Visible(w)[r]
       /\ \A e : Has(Visible(w), e) => Has(Visible(w)', e)
  BY <1>9, <1>14, <1>15, <1>16 DEF v, see
<1>19. /\ DOMAIN mine'[w] = DOMAIN new \cup DOMAIN mine[w]
       /\ \A r \in DOMAIN new : mine'[w][r] = new[r]
       /\ \A r \in DOMAIN mine[w] \ DOMAIN new : mine'[w][r] = mine[w][r]
       /\ RowsOK(mine'[w])
  BY <1>5, <1>6, <1>17 DEF m
<1> QED  BY <1>1, <1>2, <1>3, <1>4, <1>18, <1>19

Untagged(new, tags) == \A r \in DOMAIN new : r[1] \notin tags

(* Keys and records: a statement that writes neither, for the same event.       *)
LEMMA KeyedKept ==
  ASSUME TxInv, NEW w, NEW new, Executes(w, new), Untagged(new, {"key", "record"}),
         at'[w] \notin {"key", "mark", "commit"} =>
           item'[w] = item[w] /\ at[w] \notin {"key", "mark", "commit"},
         at'[w] \in {"call", "rollup"} => at[w] \in {"call", "rollup"}
  PROVE  Keyed(w)'
<1>1. /\ Active(w)' = Active(w) /\ item'[w] = item[w] => Event(w)' = Event(w)
      /\ DOMAIN mine'[w] = DOMAIN new \cup DOMAIN mine[w] /\ db' = db
  BY ExecutesFacts DEF Executes
<1>2. Keyed(w)
  BY DEF TxInv, Sound, Executes
<1>3. \A k : <<"record", k>> \notin DOMAIN new
  BY DEF Untagged
<1>4. \A r \in DOMAIN mine'[w] :
        /\ r[1] = "key" => r \notin DOMAIN db
        /\ r[1] = "record" => <<"key", r[2]>> \in DOMAIN mine'[w]
  BY <1>1, <1>2 DEF Keyed, Untagged
<1>5. Active(w)' /\ at'[w] \notin {"key", "mark", "commit"} =>
        <<"key", Event(w)'.key>> \in DOMAIN mine'[w]
  BY <1>1, <1>2 DEF Keyed, Executes
<1>6. Active(w)' /\ at'[w] \in {"call", "rollup"} =>
        <<"record", Event(w)'.key>> \notin DOMAIN mine'[w]
  BY <1>1, <1>2, <1>3 DEF Keyed, Executes
<1> QED  BY <1>1, <1>4, <1>5, <1>6 DEF Keyed

(* What is behind the worker stays behind it.                                   *)
LEMMA ProjectedKept ==
  ASSUME TxInv, NEW w, NEW new, Executes(w, new),
         \A i \in DOMAIN Batch(w) :
           at'[w] \in {"mark", "commit"} \/ i < item'[w] =>
             at[w] \in {"mark", "commit"} \/ i < item[w] \/ Has(Visible(w)', Batch(w)[i])
  PROVE  Projected(w)'
<1>1. /\ batches' = batches /\ batch'[w] = batch[w] /\ db' = db
      /\ Active(w)' = Active(w) /\ Batch(w)' = Batch(w)
      /\ \A e : Has(Visible(w), e) => Has(Visible(w)', e)
  BY ExecutesFacts DEF Executes
<1>2. Projected(w)
  BY DEF TxInv, Sound, Executes
<1>3. \A b \in 1..(batch[w] - 1) : \A i \in DOMAIN batches[w][b] : Has(db, batches[w][b][i])
  BY <1>2 DEF Projected
<1>4. Active(w) => \A i \in DOMAIN Batch(w) :
        at'[w] \in {"mark", "commit"} \/ i < item'[w] => Has(Visible(w)', Batch(w)[i])
  BY <1>1, <1>2 DEF Projected
<1> QED  BY <1>1, <1>3, <1>4 DEF Projected, Has

(* The order of the events, for a statement that writes no key.                 *)
LEMMA InOrderKept ==
  ASSUME TxInv, NEW w, NEW new, Executes(w, new), Untagged(new, {"key"})
  PROVE  InOrder(Visible(w))'
<1>1. Events' = Events /\ DOMAIN Visible(w)' = DOMAIN new \cup DOMAIN Visible(w)
  BY ExecutesFacts
<1>2. InOrder(Visible(w))
  BY DEF TxInv, Sound, Executes
<1>3. \A e : <<"key", e.key>> \in DOMAIN Visible(w)' <=> <<"key", e.key>> \in DOMAIN Visible(w)
  BY <1>1 DEF Untagged
<1> QED  BY <1>1, <1>2, <1>3 DEF InOrder, Has

(* The watermarks, for a statement that writes none.                            *)
LEMMA MarkedKept ==
  ASSUME TxInv, NEW w, NEW new, Executes(w, new), Untagged(new, {"watermark"})
  PROVE  Marked(w)'
<1>1. /\ Events' = Events /\ db' = db
      /\ DOMAIN mine'[w] = DOMAIN new \cup DOMAIN mine[w]
      /\ \A r \in DOMAIN mine[w] \ DOMAIN new : mine'[w][r] = mine[w][r]
      /\ \A e : Has(Visible(w), e) => Has(Visible(w)', e)
  <2>1. db' = db
    BY DEF Executes
  <2>2. /\ Events' = Events
        /\ DOMAIN mine'[w] = DOMAIN new \cup DOMAIN mine[w]
        /\ \A r \in DOMAIN mine[w] \ DOMAIN new : mine'[w][r] = mine[w][r]
        /\ \A e : Has(Visible(w), e) => Has(Visible(w)', e)
    BY ExecutesFacts
  <2> QED  BY <2>1, <2>2
<1>2. Marked(w)
  BY DEF TxInv, Sound, Executes
<1>3. \A t : <<"watermark", t>> \in DOMAIN mine'[w] =>
        /\ <<"watermark", t>> \in DOMAIN mine[w]
        /\ mine'[w][<<"watermark", t>>] = mine[w][<<"watermark", t>>]
  BY <1>1 DEF Untagged
<1>4. ASSUME NEW t, <<"watermark", t>> \in DOMAIN mine'[w]
      PROVE  /\ <<"watermark", t>> \in DOMAIN db =>
                  db[<<"watermark", t>>] <= mine'[w][<<"watermark", t>>]
             /\ \A e \in Events : e.topic = t /\ e.offset <= mine'[w][<<"watermark", t>>] =>
                  Has(Visible(w)', e)
  BY <1>1, <1>2, <1>3, <1>4 DEF Marked
<1> QED  BY <1>1, <1>4 DEF Marked, Has

(* The sums, for a statement that writes no record.                             *)
LEMMA SumsKept ==
  ASSUME TxInv, NEW w, NEW new, Executes(w, new), Untagged(new, {"record"}), NEW c
  PROVE  SumOf(Visible(w)', c) = SumOf(Visible(w), c)
<1>1. Visible(w)' = Over(new, Visible(w)) /\ RowsOK(new) /\ RowsOK(Visible(w))
  BY ExecutesFacts, VisibleOK DEF Executes
<1>2. Records(new, c) = {} /\ \A r \in DOMAIN new \cap DOMAIN Visible(w) : r[1] # "record"
  BY DEF Records, Untagged
<1> QED  BY <1>1, <1>2, SumOver

(* The rollups, for a statement that writes neither records nor rollups.        *)
LEMMA CountedKept ==
  ASSUME TxInv, NEW w, NEW new, Executes(w, new), Untagged(new, {"record", "rollup"})
  PROVE  Counted(w)'
<1>1. /\ DOMAIN mine'[w] = DOMAIN new \cup DOMAIN mine[w]
      /\ \A r \in DOMAIN mine[w] \ DOMAIN new : mine'[w][r] = mine[w][r]
  BY ExecutesFacts
<1>2. Counted(w)
  BY DEF TxInv, Sound, Executes
<1>3. \A r \in DOMAIN mine'[w] : r[1] \in {"record", "rollup"} =>
        r \in DOMAIN mine[w] /\ mine'[w][r] = mine[w][r]
  BY <1>1 DEF Untagged
<1>4. \A c : SumOf(Visible(w)', c) = SumOf(Visible(w), c)
  <2>1. Untagged(new, {"record"})
    BY DEF Untagged
  <2> QED  BY <2>1, SumsKept
<1>5. \A r \in DOMAIN mine'[w] :
        r[1] = "record" => <<"rollup", mine'[w][r].call>> \in DOMAIN mine'[w]
  BY <1>1, <1>2, <1>3 DEF Counted
<1>6. ASSUME NEW c, <<"rollup", c>> \in DOMAIN mine'[w]
      PROVE  mine'[w][<<"rollup", c>>] = SumOf(Visible(w)', c)
  <2>1. <<"rollup", c>>[1] = "rollup"
    OBVIOUS
  <2>2. /\ <<"rollup", c>> \in DOMAIN mine[w]
        /\ mine'[w][<<"rollup", c>>] = mine[w][<<"rollup", c>>]
    BY <1>3, <1>6, <2>1
  <2> QED  BY <1>2, <1>4, <2>2 DEF Counted
<1> QED  BY <1>5, <1>6 DEF Counted

(* The status of the calls, for a statement that writes none.                   *)
LEMMA JudgedKept ==
  ASSUME TxInv, NEW w, NEW new, Executes(w, new), Untagged(new, {"call"})
  PROVE  Judged(w)'
<1>1. /\ Events' = Events /\ db' = db
      /\ DOMAIN mine'[w] = DOMAIN new \cup DOMAIN mine[w]
      /\ \A r \in DOMAIN mine[w] \ DOMAIN new : mine'[w][r] = mine[w][r]
      /\ \A e : Has(Visible(w), e) => Has(Visible(w)', e)
  <2>1. db' = db
    BY DEF Executes
  <2>2. /\ Events' = Events
        /\ DOMAIN mine'[w] = DOMAIN new \cup DOMAIN mine[w]
        /\ \A r \in DOMAIN mine[w] \ DOMAIN new : mine'[w][r] = mine[w][r]
        /\ \A e : Has(Visible(w), e) => Has(Visible(w)', e)
    BY ExecutesFacts
  <2> QED  BY <2>1, <2>2
<1>2. Judged(w)
  BY DEF TxInv, Sound, Executes
<1>3. \A c : <<"call", c>> \in DOMAIN mine'[w] =>
        /\ <<"call", c>> \in DOMAIN mine[w]
        /\ mine'[w][<<"call", c>>] = mine[w][<<"call", c>>]
  BY <1>1 DEF Untagged
<1>4. \A c : HasFailed(Visible(w), c) => HasFailed(Visible(w), c)'
  BY <1>1 DEF HasFailed, Has
<1> QED  BY <1>1, <1>2, <1>3, <1>4 DEF Judged

(* The bills, for a statement that touches none and comes before any.           *)
LEMMA PricedKept ==
  ASSUME TxInv, NEW w, NEW new, Executes(w, new), Untagged(new, {"record", "bill"}),
         at[w] \notin {"insert", "close", "sum", "cost"},
         at'[w] \notin {"close", "sum", "cost"},
         at'[w] = "insert" => Event(w)'.kind # "usage"
  PROVE  Priced(w)'
<1>1. /\ DOMAIN mine'[w] = DOMAIN new \cup DOMAIN mine[w]
      /\ \A r \in DOMAIN mine[w] \ DOMAIN new : mine'[w][r] = mine[w][r]
  BY ExecutesFacts
<1>2. Priced(w) /\ \A c : ~Pricing(w, c)
  BY DEF TxInv, Sound, Executes, Pricing
<1>3. \A r \in DOMAIN mine'[w] : r[1] \in {"record", "bill"} =>
        r \in DOMAIN mine[w] /\ mine'[w][r] = mine[w][r]
  BY <1>1 DEF Untagged
<1>4. \A c : SumOf(Visible(w)', c) = SumOf(Visible(w), c)
  <2>1. Untagged(new, {"record"})
    BY DEF Untagged
  <2> QED  BY <2>1, SumsKept
<1>5. \A r \in DOMAIN mine'[w] :
        r[1] = "record" => <<"bill", mine'[w][r].call>> \in DOMAIN mine'[w]
  BY <1>1, <1>2, <1>3 DEF Priced
<1>6. ASSUME NEW c, <<"bill", c>> \in DOMAIN mine'[w]
      PROVE  mine'[w][<<"bill", c>>].cost = SumOf(Visible(w)', c)
  <2>1. <<"bill", c>>[1] = "bill"
    OBVIOUS
  <2>2. <<"bill", c>> \in DOMAIN mine[w] /\ mine'[w][<<"bill", c>>] = mine[w][<<"bill", c>>]
    BY <1>3, <1>6, <2>1
  <2> QED  BY <1>2, <1>4, <2>2 DEF Priced
<1> QED  BY <1>5, <1>6 DEF Priced

--------------------------------------------------------------------------------
(* The locks and the queue.                                                     *)

(* A worker that leaves the queue leaves it as it was otherwise.                *)
LEMMA QueueLeft ==
  ASSUME NEW q \in Seq(Workers), IsInjective(q), NEW w
  PROVE  RemoveFirst(q, w) \in Seq(Workers) /\ IsInjective(RemoveFirst(q, w))
<1>1. CASE ~\E i \in 1..Len(q) : q[i] = w
  BY <1>1 DEF RemoveFirst
<1>2. CASE \E i \in 1..Len(q) : q[i] = w
  <2>1. PICK i \in 1..Len(q) : q[i] = w
    BY <1>2
  <2> DEFINE I == {k \in 1..Len(q) : q[k] = w}
             k == SelectInSeq(q, LAMBDA v : v = w)
             p == SubSeq(q, 1, k - 1) \o SubSeq(q, k + 1, Len(q))
  <2>2. \A j \in I : j = i
    BY <2>1 DEF IsInjective
  <2>3. I = {i}
    BY <2>1, <2>2
  <2>4. Min({i}) = i
    BY <2>1 DEF Min
  <2>5. k = i
    BY <2>3, <2>4 DEF SelectInSeq
  <2>6. RemoveFirst(q, w) = p
    BY <1>2 DEF RemoveFirst, RemoveAt
  <2> HIDE DEF k
  <2>7. /\ p \in Seq(Workers) /\ Len(p) = Len(q) - 1
        /\ \A j \in 1..(Len(q) - 1) : p[j] = IF j < k THEN q[j] ELSE q[j + 1]
    <3>1. k \in 1..Len(q)
      BY <2>5
    <3> DEFINE a == SubSeq(q, 1, k - 1)
               b == SubSeq(q, k + 1, Len(q))
    <3>2. /\ a \in Seq(Workers) /\ Len(a) = k - 1
          /\ \A j \in 1..(k - 1) : a[j] = q[j]
      BY <3>1
    <3>3. /\ b \in Seq(Workers) /\ Len(b) = Len(q) - k
          /\ \A j \in 1..(Len(q) - k) : b[j] = q[k + j]
      BY <3>1
    <3>6. p = a \o b
      OBVIOUS
    <3> HIDE DEF a, b, p
    <3>7. /\ a \o b \in Seq(Workers) /\ Len(a \o b) = Len(a) + Len(b)
          /\ \A j \in 1..(Len(a) + Len(b)) :
               (a \o b)[j] = IF j <= Len(a) THEN a[j] ELSE b[j - Len(a)]
      BY <3>2, <3>3, ConcatProperties
    <3>4. p \in Seq(Workers) /\ Len(p) = Len(q) - 1
      BY <3>1, <3>2, <3>3, <3>6, <3>7
    <3>5. ASSUME NEW j \in 1..(Len(q) - 1) PROVE p[j] = IF j < k THEN q[j] ELSE q[j + 1]
      <4>0. j \in 1..(Len(a) + Len(b)) /\ p[j] = IF j <= Len(a) THEN a[j] ELSE b[j - Len(a)]
        BY <3>1, <3>2, <3>3, <3>6, <3>7
      <4>1. CASE j < k
        BY <3>1, <3>2, <4>0, <4>1
      <4>2. CASE ~(j < k)
        <5>1. j - (k - 1) \in 1..(Len(q) - k) /\ k + (j - (k - 1)) = j + 1
          BY <3>1, <4>2
        <5>2. p[j] = b[j - (k - 1)]
          BY <3>1, <3>2, <4>0, <4>2
        <5> QED  BY <3>3, <4>2, <5>1, <5>2
      <4> QED  BY <4>1, <4>2
    <3> QED  BY <3>4, <3>5
  <2> HIDE DEF p
  <2>8. IsInjective(p)
    <3>1. DOMAIN p = 1..(Len(q) - 1) /\ DOMAIN q = 1..Len(q) /\ Len(q) \in Nat /\ k \in 1..Len(q)
      BY <2>5, <2>7
    <3>2. ASSUME NEW a \in DOMAIN p, NEW b \in DOMAIN p, p[a] = p[b] PROVE a = b
      <4>1. p[a] = q[IF a < k THEN a ELSE a + 1] /\ p[b] = q[IF b < k THEN b ELSE b + 1]
        BY <2>7, <3>1
      <4>2. /\ (IF a < k THEN a ELSE a + 1) \in DOMAIN q
            /\ (IF b < k THEN b ELSE b + 1) \in DOMAIN q
        BY <3>1
      <4>3. (IF a < k THEN a ELSE a + 1) = (IF b < k THEN b ELSE b + 1)
        BY <3>2, <4>1, <4>2 DEF IsInjective
      <4> QED  BY <3>1, <4>3
    <3> QED  BY <3>2 DEF IsInjective
  <2> QED  BY <2>6, <2>7, <2>8
<1> QED  BY <1>1, <1>2

(* A worker that joins the queue is in it once.                                 *)
LEMMA QueueJoined ==
  ASSUME NEW q \in Seq(Workers), IsInjective(q), NEW w \in Workers, ~Contains(q, w)
  PROVE  Append(q, w) \in Seq(Workers) /\ IsInjective(Append(q, w))
<1>1. /\ Append(q, w) \in Seq(Workers) /\ DOMAIN Append(q, w) = 1..(Len(q) + 1)
      /\ \A i \in 1..Len(q) : Append(q, w)[i] = q[i]
      /\ Append(q, w)[Len(q) + 1] = w
      /\ Len(q) \in Nat
  OBVIOUS
<1>2. \A i \in 1..Len(q) : q[i] # w
  BY DEF Contains
<1>3. \A i, j \in 1..Len(q) : q[i] = q[j] => i = j
  BY DEF IsInjective
<1> QED  BY <1>1, <1>2, <1>3 DEF IsInjective

(* A statement that runs takes no row that another transaction has.             *)
LEMMA NeedsAreFree ==
  ASSUME NEW w, Active(w), Unblocked(w), NEW v \in Workers, v # w
  PROVE  Needs(w) \cap DOMAIN mine[v] = {}
<1> QED  BY DEF Unblocked, WaitsFor

(* What is committed stays right.                                               *)
LEMMA StoredStays ==
  ASSUME Stored, db' = db, batches' = batches
  PROVE  Stored'
<1>1. Events' = Events
  BY DEF Events
<1>2. InOrder(db)' /\ RowsOK(db)'
  BY <1>1 DEF Stored, InOrder, Has, RowsOK
<1>3. \A c : HasFailed(db, c)' = HasFailed(db, c)
  BY <1>1 DEF HasFailed, Has
<1>4. \A t : <<"watermark", t>> \in DOMAIN db' =>
        \A e \in Events' : e.topic = t /\ e.offset <= db'[<<"watermark", t>>] => Has(db, e)'
  BY <1>1 DEF Stored, Has
<1> QED  BY <1>1, <1>2, <1>3, <1>4 DEF Stored

(* The shape of the state and what is committed, after a statement: the rows it *)
(* writes are those it needed, and a record goes with its key.                  *)
LEMMA ShapeKept ==
  ASSUME TxInv, NEW w, NEW new, Executes(w, new), NEW s, At(w, s),
         \A r \in DOMAIN new :
           r \in Needs(w) \/ (r[1] = "record" /\ <<"key", r[2]>> \in DOMAIN mine[w]),
         at'[w] \in Statements, seen'[w] \in Nat, faults' = faults
  PROVE  Shape' /\ Stored' /\ \A v \in Workers \ {w} : Sound(v)'
<1>1. /\ batches' = batches /\ db' = db /\ Alone(w) /\ w \in Workers
      /\ mine'[w] = Over(new, mine[w]) /\ Active(w) /\ Unblocked(w)
  BY DEF Executes, Alone, At
<1>2. \A v \in Workers \ {w} : Sound(v)'
  BY <1>1, SoundOfOthers
<1>3. Shape
  BY DEF TxInv
<1>4. Stored'
  BY <1>1, StoredStays DEF TxInv
<1>5. ASSUME NEW v \in Workers, v # w PROVE DOMAIN mine'[w] \cap DOMAIN mine[v] = {}
  <2>1. DOMAIN mine[w] \cap DOMAIN mine[v] = {}
    BY <1>1, <1>3, <1>5 DEF Shape
  <2>2. \A r \in DOMAIN new : r \notin DOMAIN mine[v]
    <3>1. ASSUME NEW r \in DOMAIN new, r \in DOMAIN mine[v] PROVE FALSE
      <4>1. r \notin Needs(w)
        BY <1>1, <1>5, <3>1, NeedsAreFree
      <4>2. r[1] = "record" /\ <<"key", r[2]>> \in DOMAIN mine[w]
        BY <4>1
      <4>3. <<"key", r[2]>> \in DOMAIN mine[v]
        BY <1>5, <3>1, <4>2 DEF TxInv, Sound, Keyed
      <4> QED  BY <2>1, <4>2, <4>3
    <3> QED  BY <3>1
  <2>3. DOMAIN mine'[w] = DOMAIN new \cup DOMAIN mine[w]
    BY ExecutesFacts
  <2> QED  BY <2>1, <2>2, <2>3
<1>6. \A v \in Workers \ {w} : mine'[v] = mine[v]
  BY <1>1, <1>3 DEF Alone, Shape
<1>7. \A u, v \in Workers : u # v => DOMAIN mine'[u] \cap DOMAIN mine'[v] = {}
  <2>1. ASSUME NEW u \in Workers, NEW v \in Workers, u # v
        PROVE  DOMAIN mine'[u] \cap DOMAIN mine'[v] = {}
    <3>1. CASE u = w
      BY <1>5, <1>6, <2>1, <3>1
    <3>2. CASE v = w
      BY <1>5, <1>6, <2>1, <3>2
    <3>3. CASE u # w /\ v # w
      BY <1>3, <1>6, <2>1, <3>3 DEF Shape
    <3> QED  BY <3>1, <3>2, <3>3
  <2> QED  BY <2>1
<1>8. queue' \in Seq(Workers) /\ IsInjective(queue')
  BY <1>3, QueueLeft DEF At, Shape
<1>9. /\ mine' = [v \in Workers |-> mine'[v]] /\ batch' = [v \in Workers |-> batch'[v]]
      /\ item' = [v \in Workers |-> item'[v]]
      /\ at' \in [Workers -> Statements] /\ seen' \in [Workers -> Nat]
  BY <1>1, <1>3 DEF Alone, Shape
<1> QED  BY <1>1, <1>2, <1>3, <1>4, <1>7, <1>8, <1>9 DEF Shape

(* The next event begins, or the watermarks of the batch.                       *)
LEMMA NextPlaced ==
  ASSUME TxInv, NEW w, NEW new, Executes(w, new),
         at[w] \notin {"mark", "commit"}, NextEvent(w)
  PROVE  /\ Placed(w)' /\ at'[w] \in {"key", "mark"}
         /\ \A i \in DOMAIN Batch(w) :
              at'[w] \in {"mark", "commit"} \/ i < item'[w] => i < item[w] \/ i = item[w]
<1>1. /\ at'[w] = IF item[w] < Len(Batch(w)) THEN "key" ELSE "mark"
      /\ item'[w] = IF item[w] < Len(Batch(w)) THEN item[w] + 1 ELSE 1
  BY DEF NextEvent, Goto, Executes, TxInv, Shape
<1>2. /\ batches' = batches /\ batch'[w] = batch[w] /\ Active(w)' = Active(w)
      /\ Batch(w)' = Batch(w) /\ Marks(w)' = Marks(w)
  BY ExecutesFacts
<1>3. /\ batch[w] \in 1..(Len(batches[w]) + 1) /\ item[w] \in DOMAIN Batch(w) /\ Active(w)
  BY DEF TxInv, Sound, Placed, Executes
<1>4. DOMAIN Batch(w) = 1..Len(Batch(w)) /\ Len(Batch(w)) \in Nat
  BY PlanFacts DEF TxInv, Shape, Executes, Active, Batch
<1>5. 1 \in DOMAIN Marks(w)
  BY MarksAre DEF TxInv, Shape, Executes
<1>6. Placed(w)'
  BY <1>1, <1>2, <1>3, <1>4, <1>5 DEF Placed
<1> QED  BY <1>1, <1>3, <1>4, <1>6

(* A statement of the same event is next.                                       *)
LEMMA SamePlaced ==
  ASSUME TxInv, NEW w, NEW new, Executes(w, new), item'[w] = item[w],
         at[w] \notin {"mark", "commit"}, at'[w] \notin {"mark", "commit"},
         at'[w] = "rollup" => Event(w).kind = "usage",
         at'[w] = "close" => Event(w).kind # "usage"
  PROVE  Placed(w)'
<1>1. /\ batches' = batches /\ batch'[w] = batch[w] /\ Active(w)' = Active(w)
      /\ Batch(w)' = Batch(w) /\ Event(w)' = Event(w)
  BY ExecutesFacts
<1>2. /\ batch[w] \in 1..(Len(batches[w]) + 1) /\ item[w] \in DOMAIN Batch(w) /\ Active(w)
  BY DEF TxInv, Sound, Placed, Executes
<1> QED  BY <1>1, <1>2 DEF Placed

--------------------------------------------------------------------------------
(* The statements, one after the other.                                         *)

(* A statement writes rows, and changes nothing of others.                      *)
LEMMA Writes ==
  ASSUME TxInv, NEW w \in Workers, NEW s, At(w, s), Keep, NEW new, RowsOK(new),
         mine' = [mine EXCEPT ![w] = Over(new, @)],
         \E t, i : Goto(w, t, i), \E x : seen' = [seen EXCEPT ![w] = x]
  PROVE  Executes(w, new)
<1>1. /\ batches' = batches /\ batch' = batch /\ db' = db /\ Active(w)
  BY DEF At, Keep
<1>2. /\ mine = [v \in Workers |-> mine[v]] /\ batch = [v \in Workers |-> batch[v]]
      /\ item = [v \in Workers |-> item[v]]
      /\ at \in [Workers -> Statements] /\ seen \in [Workers -> Nat]
  BY DEF TxInv, Shape
<1>3. mine'[w] = Over(new, mine[w]) /\ mine' = [mine EXCEPT ![w] = mine'[w]]
  BY <1>2
<1>4. at' = [at EXCEPT ![w] = at'[w]] /\ item' = [item EXCEPT ![w] = item'[w]]
  <2>1. PICK t, i : Goto(w, t, i)
    OBVIOUS
  <2> QED  BY <1>2, <2>1 DEF Goto
<1>5. seen' = [seen EXCEPT ![w] = seen'[w]]
  BY <1>2
<1>6. batch' = [batch EXCEPT ![w] = batch'[w]]
  BY <1>1, <1>2
<1> QED  BY <1>1, <1>3, <1>4, <1>5, <1>6 DEF Executes, Alone

(* One that writes nothing.                                                     *)
LEMMA WritesNothing ==
  ASSUME TxInv, NEW w \in Workers, NEW s, At(w, s), Keep, mine' = mine,
         \E t, i : Goto(w, t, i), \E x : seen' = [seen EXCEPT ![w] = x]
  PROVE  Executes(w, <<>>)
<1>1. RowsOK(mine[w]) /\ mine = [v \in Workers |-> mine[v]]
  BY DEF TxInv, Sound, Shape
<1>2. Over(<<>>, mine[w]) = mine[w] /\ RowsOK(<<>>)
  BY <1>1, NoRows
<1>3. mine' = [mine EXCEPT ![w] = Over(<<>>, @)]
  BY <1>1, <1>2
<1> QED  BY <1>2, <1>3, Writes

(* The next event is a place to go.                                             *)
LEMMA NextEventGoes ==
  ASSUME NEW w, NextEvent(w) PROVE \E t, i : Goto(w, t, i)
<1> QED  BY DEF NextEvent

(* A place to go is where the worker is then.                                   *)
LEMMA WhereItGoes ==
  ASSUME TxInv, NEW w \in Workers, NEW t, NEW i, Goto(w, t, i)
  PROVE  at'[w] = t /\ item'[w] = i
<1> QED  BY DEF Goto, TxInv, Shape

(* Nothing has no tag, and one row has one.                                     *)
LEMMA TagOf ==
  /\ \A tags : Untagged(<<>>, tags)
  /\ \A tag, id, x, tags : tag \notin tags => Untagged([r \in {<<tag, id>>} |-> x], tags)
<1>1. DOMAIN <<>> = {}
  OBVIOUS
<1>2. ASSUME NEW tag, NEW id, NEW x, NEW tags, tag \notin tags
      PROVE  Untagged([r \in {<<tag, id>>} |-> x], tags)
  <2>1. <<tag, id>>[1] = tag
    OBVIOUS
  <2> QED  BY <1>2, <2>1 DEF Untagged
<1> QED  BY <1>1, <1>2 DEF Untagged

(* The parts of the invariant, after the step of one worker.                    *)
LEMMA AllParts ==
  ASSUME NEW w \in Workers, Shape' /\ Stored' /\ \A v \in Workers \ {w} : Sound(v)',
         Placed(w)', RowsOK(mine[w])', Keyed(w)', Projected(w)', InOrder(Visible(w))',
         Marked(w)', Counted(w)', Priced(w)', Judged(w)'
  PROVE  TxInv'
<1>1. Sound(w)'
  BY DEF Sound
<1> QED  BY <1>1 DEF TxInv

(* The event a worker is at.                                                    *)
LEMMA EventIs ==
  ASSUME TxInv, NEW w \in Workers, Active(w), at[w] \notin {"mark", "commit"}
  PROVE  /\ Event(w) \in Events /\ item[w] \in DOMAIN Batch(w)
         /\ batch[w] \in DOMAIN batches[w] /\ Event(w) = Batch(w)[item[w]]
         /\ Batch(w) = batches[w][batch[w]] /\ Event(w).cost \in Nat
<1>1. item[w] \in DOMAIN Batch(w) /\ batches \in Plans
  BY DEF TxInv, Sound, Placed, Shape
<1>2. Event(w) \in Events
  BY <1>1, PlanFacts DEF Active, Batch, Event
<1> QED  BY <1>1, <1>2, EventFacts DEF Active, Batch, Event

(* Of what a statement does, the rows of the transaction.                       *)
LEMMA MineAfter ==
  ASSUME TxInv, NEW w, NEW new, Executes(w, new)
  PROVE  /\ DOMAIN mine'[w] = DOMAIN new \cup DOMAIN mine[w]
         /\ \A r \in DOMAIN new : mine'[w][r] = new[r]
         /\ \A r \in DOMAIN mine[w] \ DOMAIN new : mine'[w][r] = mine[w][r]
<1> DEFINE m == mine[w]
           o == Over(new, m)
<1>1. /\ DOMAIN o = DOMAIN new \cup DOMAIN m
      /\ \A r \in DOMAIN new : o[r] = new[r]
      /\ \A r \in DOMAIN m \ DOMAIN new : o[r] = m[r]
      /\ o = [r \in DOMAIN o |-> o[r]]
  BY OverIs
<1>2. mine'[w] = o
  BY DEF Executes
<1> HIDE DEF o
<1> QED  BY <1>1, <1>2

(* A key that is there: the event is skipped.                                   *)
LEMMA KeyThere ==
  ASSUME TxInv, NEW w \in Workers, InsertKey(w), Has(Visible(w), Event(w))
  PROVE  TxInv'
<1>1. /\ At(w, "key") /\ at[w] = "key" /\ Active(w) /\ Keep /\ mine' = mine /\ NextEvent(w)
      /\ seen' = seen /\ faults' = faults
  BY DEF InsertKey, At, Keep, Has
<1>2. seen \in [Workers -> Nat]
  BY DEF TxInv, Shape
<1>3. seen' = [seen EXCEPT ![w] = seen[w]] /\ seen'[w] \in Nat
  BY <1>1, <1>2
<1>4. Executes(w, <<>>)
  BY <1>1, <1>3, NextEventGoes, WritesNothing
<1>5. /\ Placed(w)' /\ at'[w] \in {"key", "mark"}
      /\ \A i \in DOMAIN Batch(w) :
           at'[w] \in {"mark", "commit"} \/ i < item'[w] => i < item[w] \/ i = item[w]
  BY <1>1, <1>4, NextPlaced
<1>6. \A tags : Untagged(<<>>, tags)
  BY TagOf
<1>7. Shape' /\ Stored' /\ \A v \in Workers \ {w} : Sound(v)'
  <2>1. at'[w] \in Statements /\ \A r \in DOMAIN <<>> : FALSE
    BY <1>5 DEF Statements
  <2> QED  BY <1>1, <1>3, <1>4, <2>1, ShapeKept
<1>8. RowsOK(mine[w])'
  BY <1>4, ExecutesFacts
<1>9. Keyed(w)'
  BY <1>4, <1>5, <1>6, KeyedKept
<1>10. Projected(w)'
  <2>1. Event(w) = Batch(w)[item[w]]
    BY DEF Event
  <2>2. Has(Visible(w)', Batch(w)[item[w]])
    BY <1>4, <2>1, ExecutesFacts
  <2> QED  BY <1>4, <1>5, <2>2, ProjectedKept
<1>11. InOrder(Visible(w))' /\ Marked(w)' /\ Counted(w)' /\ Judged(w)'
  BY <1>4, <1>6, InOrderKept, MarkedKept, CountedKept, JudgedKept
<1>12. Priced(w)'
  BY <1>1, <1>4, <1>5, <1>6, PricedKept
<1> QED  BY <1>5, <1>7, <1>8, <1>9, <1>10, <1>11, <1>12, AllParts

(* What a worker has behind it are all earlier events of the topics.            *)
LEMMA EarlierAreThere ==
  ASSUME TxInv, NEW w \in Workers, Active(w), at[w] \notin {"mark", "commit"},
         NEW f \in Events, f.topic = Event(w).topic, f.offset <= Event(w).offset
  PROVE  f = Event(w) \/ Has(Visible(w), f)
<1>1. /\ batch[w] \in DOMAIN batches[w] /\ item[w] \in DOMAIN Batch(w)
      /\ Batch(w) = batches[w][batch[w]] /\ Event(w) = batches[w][batch[w]][item[w]]
  BY EventIs
<1>2. batches \in Plans
  BY DEF TxInv, Shape
<1>3. PICK c \in 1..batch[w] : \E j \in DOMAIN batches[w][c] :
        batches[w][c][j] = f /\ (c < batch[w] \/ j <= item[w])
  BY <1>1, <1>2, FetchedBefore
<1>4. PICK j \in DOMAIN batches[w][c] : batches[w][c][j] = f /\ (c < batch[w] \/ j <= item[w])
  BY <1>3
<1>5. DOMAIN batches[w] = 1..Len(batches[w]) /\ Len(batches[w]) \in Nat
  BY <1>2, PlanFacts
<1>6. DOMAIN batches[w][batch[w]] = 1..Len(batches[w][batch[w]])
      /\ Len(batches[w][batch[w]]) \in Nat
  BY <1>1, <1>2, PlanFacts
<1>7. Projected(w)
  BY DEF TxInv, Sound
<1>8. CASE c < batch[w]
  <2>1. c \in 1..(batch[w] - 1)
    BY <1>1, <1>3, <1>5, <1>8
  <2>2. Has(db, f)
    BY <1>4, <1>7, <2>1 DEF Projected
  <2> QED  BY <2>2, VisibleOK DEF Has
<1>9. CASE c = batch[w]
  <2>1. j \in DOMAIN Batch(w) /\ Batch(w)[j] = f /\ j <= item[w]
    BY <1>1, <1>4, <1>5, <1>9
  <2>2. CASE j = item[w]
    BY <1>1, <2>1, <2>2
  <2>3. CASE j < item[w]
    BY <1>7, <2>1, <2>3 DEF Projected
  <2> QED  BY <1>1, <1>6, <2>1, <2>2, <2>3
<1> QED  BY <1>1, <1>3, <1>5, <1>8, <1>9

(* A key that is new.                                                           *)
LEMMA KeyNew ==
  ASSUME TxInv, NEW w \in Workers, InsertKey(w), ~Has(Visible(w), Event(w))
  PROVE  TxInv'
<1> DEFINE e == Event(w)
           key == <<"key", e.key>>
           new == [r \in {key} |-> e.call]
<1>1. /\ At(w, "key") /\ at[w] = "key" /\ Active(w) /\ Keep
      /\ Write(w, key, e.call) /\ Goto(w, "call", item[w])
      /\ seen' = seen /\ faults' = faults
  BY DEF InsertKey, At, Keep, Has
<1>2. seen \in [Workers -> Nat]
  BY DEF TxInv, Shape
<1>3. seen' = [seen EXCEPT ![w] = seen[w]] /\ seen'[w] \in Nat
  BY <1>1, <1>2
<1>4. RowsOK(new)
  BY OneRow DEF Tables
<1>5. Executes(w, new)
  <2>1. mine' = [mine EXCEPT ![w] = Over(new, @)]
    BY <1>1 DEF Write
  <2>2. \E t, i : Goto(w, t, i)
    BY <1>1
  <2> HIDE DEF new
  <2> QED  BY <1>1, <1>3, <1>4, <2>1, <2>2, Writes
<1>6. at'[w] = "call" /\ item'[w] = item[w]
  BY <1>1, WhereItGoes
<1>7. \A tags : "key" \notin tags => Untagged(new, tags)
  <2>1. ASSUME NEW tags, "key" \notin tags PROVE Untagged(new, tags)
    <3>1. \A r \in DOMAIN new : r[1] = "key"
      OBVIOUS
    <3> QED  BY <2>1, <3>1 DEF Untagged
  <2> QED  BY <2>1
<1>8. Needs(w) = {key}
  BY <1>1 DEF Needs
<1>9. DOMAIN new = {key}
  OBVIOUS
<1>10. key[1] = "key" /\ key[2] = e.key
  OBVIOUS
<1> HIDE DEF new
<1>11. Shape' /\ Stored' /\ \A v \in Workers \ {w} : Sound(v)'
  <2>1. at'[w] \in Statements
    BY <1>6 DEF Statements
  <2> QED  BY <1>1, <1>3, <1>5, <1>8, <1>9, <2>1, ShapeKept
<1>12. Placed(w)'
  BY <1>1, <1>5, <1>6, SamePlaced
<1>13. /\ batches' = batches /\ Events' = Events /\ Event(w)' = e /\ Active(w)' = Active(w)
       /\ DOMAIN mine'[w] = DOMAIN new \cup DOMAIN mine[w]
       /\ DOMAIN Visible(w)' = DOMAIN new \cup DOMAIN Visible(w)
       /\ RowsOK(mine'[w])
  BY <1>5, <1>6, ExecutesFacts
<1>14. key \notin DOMAIN mine[w] /\ key \notin DOMAIN db /\ db' = db
  BY <1>5, VisibleOK DEF Has, Executes
<1>15. Keyed(w)'
  <2>1. Keyed(w)
    BY DEF TxInv, Sound
  <2>2. \A r \in DOMAIN mine'[w] :
          /\ r[1] = "key" => r \notin DOMAIN db
          /\ r[1] = "record" => <<"key", r[2]>> \in DOMAIN mine'[w]
    BY <1>9, <1>10, <1>13, <1>14, <2>1 DEF Keyed
  <2>3. key \in DOMAIN mine'[w]
    BY <1>9, <1>13
  <2>4. <<"record", e.key>> \notin DOMAIN mine'[w]
    <3>1. <<"record", e.key>> # key /\ <<"record", e.key>>[1] = "record" /\ <<"record", e.key>>[2] = e.key
      OBVIOUS
    <3>2. <<"record", e.key>> \notin DOMAIN mine[w]
      BY <1>14, <2>1, <3>1 DEF Keyed
    <3> QED  BY <1>9, <1>13, <3>1, <3>2
  <2> QED  BY <1>13, <1>14, <2>2, <2>3, <2>4 DEF Keyed
<1>16. Projected(w)'
  BY <1>1, <1>5, <1>6, ProjectedKept
<1>17. InOrder(Visible(w))'
  <2>1. ASSUME NEW g \in Events, NEW f \in Events, Has(Visible(w)', g),
               f.topic = g.topic, f.offset <= g.offset
        PROVE  Has(Visible(w)', f)
    <3>1. CASE Has(Visible(w), g)
      <4>1. Has(Visible(w), f)
        BY <2>1, <3>1 DEF TxInv, Sound, InOrder
      <4> QED  BY <1>13, <4>1 DEF Has
    <3>2. CASE ~Has(Visible(w), g)
      <4>1. <<"key", g.key>> = key
        BY <1>9, <1>13, <2>1, <3>2 DEF Has
      <4>2. g.key = e.key
        BY <4>1
      <4>3. e \in Events /\ batches \in Plans
        BY <1>1, EventIs DEF TxInv, Shape
      <4>4. g = e
        BY <4>2, <4>3, EventFacts
      <4>5. f = e \/ Has(Visible(w), f)
        BY <1>1, <2>1, <4>4, EarlierAreThere
      <4> QED  BY <1>9, <1>13, <4>5 DEF Has
    <3> QED  BY <3>1, <3>2
  <2> QED  BY <1>13, <2>1 DEF InOrder, Has
<1>18. Marked(w)' /\ Counted(w)' /\ Judged(w)'
  BY <1>5, <1>7, MarkedKept, CountedKept, JudgedKept
<1>19. Priced(w)'
  BY <1>1, <1>5, <1>6, <1>7, PricedKept
<1>20. RowsOK(mine[w])'
  BY <1>13
<1> QED  BY <1>11, <1>12, <1>15, <1>16, <1>17, <1>18, <1>19, <1>20, AllParts

(* The manifest.                                                                *)
LEMMA UpsertManifestStep ==
  ASSUME TxInv, NEW w \in Workers, UpsertManifest(w) PROVE TxInv'
<1> DEFINE row == Row(w, "manifest")
           new == [r \in {row} |-> Event(w).key]
<1>1. /\ At(w, "manifest") /\ at[w] = "manifest" /\ Active(w) /\ Keep
      /\ Write(w, row, Event(w).key) /\ NextEvent(w)
      /\ seen' = seen /\ faults' = faults
  BY DEF UpsertManifest, At, Keep
<1>2. seen \in [Workers -> Nat]
  BY DEF TxInv, Shape
<1>3. seen' = [seen EXCEPT ![w] = seen[w]] /\ seen'[w] \in Nat
  BY <1>1, <1>2
<1>4. RowsOK(new)
  BY OneRow DEF Tables, Row
<1>5. Executes(w, new)
  <2>1. mine' = [mine EXCEPT ![w] = Over(new, @)]
    BY <1>1 DEF Write
  <2> HIDE DEF new
  <2> QED  BY <1>1, <1>3, <1>4, <2>1, NextEventGoes, Writes
<1>6. /\ Placed(w)' /\ at'[w] \in {"key", "mark"}
      /\ \A i \in DOMAIN Batch(w) :
           at'[w] \in {"mark", "commit"} \/ i < item'[w] => i < item[w] \/ i = item[w]
  BY <1>1, <1>5, NextPlaced
<1>7. \A tags : "manifest" \notin tags => Untagged(new, tags)
  BY TagOf DEF Row
<1>8. Needs(w) = {row} /\ DOMAIN new = {row}
  BY <1>1 DEF Needs, Needed
<1> HIDE DEF new
<1>9. Shape' /\ Stored' /\ \A v \in Workers \ {w} : Sound(v)'
  <2>1. at'[w] \in Statements
    BY <1>6 DEF Statements
  <2> QED  BY <1>1, <1>3, <1>5, <1>8, <2>1, ShapeKept
<1>10. RowsOK(mine[w])'
  BY <1>5, ExecutesFacts
<1>11. Keyed(w)'
  BY <1>5, <1>6, <1>7, KeyedKept
<1>12. Projected(w)'
  <2>1. Has(Visible(w), Event(w))
    BY <1>1, VisibleOK DEF TxInv, Sound, Keyed, Has
  <2>2. Event(w) = Batch(w)[item[w]]
    BY DEF Event
  <2>3. Has(Visible(w)', Batch(w)[item[w]])
    BY <1>5, <2>1, <2>2, ExecutesFacts
  <2> QED  BY <1>5, <1>6, <2>3, ProjectedKept
<1>13. InOrder(Visible(w))' /\ Marked(w)' /\ Counted(w)' /\ Judged(w)'
  BY <1>5, <1>7, InOrderKept, MarkedKept, CountedKept, JudgedKept
<1>14. Priced(w)'
  BY <1>1, <1>5, <1>6, <1>7, PricedKept
<1> QED  BY <1>6, <1>9, <1>10, <1>11, <1>12, <1>13, <1>14, AllParts

(* A transaction that sees a failed call does not start or end it: the start of *)
(* a call is before its failure in the topic, and an end looks at the status.   *)
LEMMA StatusStands ==
  ASSUME TxInv, NEW w \in Workers, Active(w), at[w] = "call",
         Event(w).kind = "started" \/ Matches(w),
         Row(w, "call") \in DOMAIN db, db[Row(w, "call")] = "CALL_FAILED"
  PROVE  NewStatus(w) = "CALL_FAILED"
<1> DEFINE e == Event(w)
           row == Row(w, "call")
<1>1. e \in Events /\ batches \in Plans
  BY EventIs DEF TxInv, Shape
<1>2. row = <<"call", e.call>>
  BY DEF Row
<1>3. PICK g \in Events : g.kind = "failed" /\ g.call = e.call /\ Has(db, g)
  <2>1. HasFailed(db, e.call)
    BY <1>2 DEF TxInv, Stored
  <2> QED  BY <2>1 DEF HasFailed
<1>4. e.kind # "started"
  <2>1. ASSUME e.kind = "started" PROVE FALSE
    <3>1. e.topic = g.topic /\ e.offset < g.offset
      BY <1>1, <1>3, <2>1, EventFacts
    <3>2. e.offset \in Nat /\ g.offset \in Nat
      BY <1>1, EventFacts
    <3>3. Has(db, e)
      BY <1>1, <1>3, <3>1, <3>2 DEF TxInv, Stored, InOrder
    <3>4. <<"key", e.key>> \in DOMAIN mine[w]
      BY DEF TxInv, Sound, Keyed
    <3>5. <<"key", e.key>>[1] = "key"
      OBVIOUS
    <3> QED  BY <3>3, <3>4, <3>5 DEF TxInv, Sound, Keyed, Has
  <2> QED  BY <2>1
<1>5. Visible(w)[row] = "CALL_FAILED"
  <2>1. CASE row \in DOMAIN mine[w]
    <3>1. mine[w][row] = "CALL_FAILED"
      BY <1>2, <2>1 DEF TxInv, Sound, Judged
    <3> QED  BY <2>1, <3>1, VisibleOK
  <2>2. CASE row \notin DOMAIN mine[w]
    BY <2>2, VisibleOK
  <2> QED  BY <2>1, <2>2
<1>6. e.kind # "ended"
  BY <1>4, <1>5 DEF Matches
<1> QED  BY <1>4, <1>5, <1>6 DEF NewStatus

(* A transaction that finds a call failed has seen the event.                   *)
LEMMA StatusIsKnown ==
  ASSUME TxInv, NEW w \in Workers, Active(w), at[w] = "call",
         Event(w).kind = "started" \/ Matches(w), NewStatus(w) = "CALL_FAILED"
  PROVE  HasFailed(Visible(w), Event(w).call)
<1> DEFINE e == Event(w)
           row == Row(w, "call")
<1>1. e \in Events /\ Has(Visible(w), e)
  <2>1. e \in Events
    BY EventIs
  <2>2. <<"key", e.key>> \in DOMAIN mine[w]
    BY DEF TxInv, Sound, Keyed
  <2> QED  BY <2>1, <2>2, VisibleOK DEF Has
<1>2. row = <<"call", e.call>>
  BY DEF Row
<1>3. CASE e.kind = "failed"
  BY <1>1, <1>3 DEF HasFailed
<1>4. CASE e.kind # "failed"
  <2>1. e.kind # "started" /\ e.kind # "ended" /\ Visible(w)[row] = "CALL_FAILED"
    BY <1>4 DEF NewStatus
  <2>2. row \in DOMAIN Visible(w)
    BY <2>1 DEF Matches
  <2>3. CASE row \in DOMAIN mine[w]
    <3>1. mine[w][row] = "CALL_FAILED"
      BY <2>1, <2>3, VisibleOK
    <3> QED  BY <1>2, <2>3, <3>1 DEF TxInv, Sound, Judged
  <2>4. CASE row \notin DOMAIN mine[w]
    <3>1. row \in DOMAIN db /\ db[row] = "CALL_FAILED"
      BY <2>1, <2>2, <2>4, VisibleOK
    <3>2. HasFailed(db, e.call)
      BY <1>2, <3>1 DEF TxInv, Stored
    <3> QED  BY <3>2, VisibleOK DEF HasFailed, Has
  <2> QED  BY <2>3, <2>4
<1> QED  BY <1>3, <1>4

(* The rows of the UPDATE of calls: one, or none.                               *)
StatusRows(w) ==
  IF Event(w).kind = "started" \/ Matches(w)
  THEN [r \in {Row(w, "call")} |-> NewStatus(w)] ELSE <<>>

(* What they are.                                                               *)
LEMMA StatusRowsAre ==
  ASSUME NEW w, at[w] = "call"
  PROVE  /\ RowsOK(StatusRows(w)) /\ \A r \in DOMAIN StatusRows(w) : r \in Needs(w)
         /\ \A tags : "call" \notin tags => Untagged(StatusRows(w), tags)
         /\ \A r \in DOMAIN StatusRows(w) :
              /\ r = <<"call", Event(w).call>> /\ StatusRows(w)[r] = NewStatus(w)
              /\ Event(w).kind = "started" \/ Matches(w)
<1>1. CASE Event(w).kind = "started" \/ Matches(w)
  <2> DEFINE row == Row(w, "call")
             new == [r \in {row} |-> NewStatus(w)]
  <2>1. StatusRows(w) = new
    BY <1>1 DEF StatusRows
  <2>2. RowsOK(new)
    BY OneRow DEF Tables, Row
  <2>3. Needs(w) = {row}
    BY <1>1 DEF Needs, Needed
  <2>4. DOMAIN new = {row} /\ new[row] = NewStatus(w)
    OBVIOUS
  <2>5. row = <<"call", Event(w).call>> /\ row[1] = "call"
    BY DEF Row
  <2> HIDE DEF new, row
  <2> QED  BY <1>1, <2>1, <2>2, <2>3, <2>4, <2>5 DEF Untagged
<1>2. CASE ~(Event(w).kind = "started" \/ Matches(w))
  <2>1. StatusRows(w) = <<>> /\ DOMAIN <<>> = {}
    BY <1>2 DEF StatusRows
  <2> QED  BY <2>1, NoRows, TagOf
<1> QED  BY <1>1, <1>2

(* The status of the call.                                                      *)
LEMMA UpdateCallStep ==
  ASSUME TxInv, NEW w \in Workers, UpdateCall(w) PROVE TxInv'
<1> DEFINE e == Event(w)
           new == StatusRows(w)
<1>1. /\ At(w, "call") /\ at[w] = "call" /\ Active(w) /\ Keep
      /\ seen' = seen /\ faults' = faults
  BY DEF UpdateCall, At, Keep
<1>2. seen \in [Workers -> Nat]
  BY DEF TxInv, Shape
<1>3. seen' = [seen EXCEPT ![w] = seen[w]] /\ seen'[w] \in Nat
  BY <1>1, <1>2
<1>4. RowsOK(new) /\ \A r \in DOMAIN new : r \in Needs(w)
  BY <1>1, StatusRowsAre
<1>5. \/ /\ e.kind = "usage" /\ Goto(w, "rollup", item[w])
      \/ /\ e.kind = "barrier" /\ Goto(w, "manifest", item[w])
      \/ /\ e.kind \in {"failed", "ended"} /\ Goto(w, "insert", item[w])
      \/ NextEvent(w)
  BY DEF UpdateCall
<1>6. \E t, i : Goto(w, t, i)
  BY <1>5, NextEventGoes
<1>7. Executes(w, new)
  <2>1. CASE e.kind = "started" \/ Matches(w)
    <3>1. mine' = [mine EXCEPT ![w] = Over(new, @)]
      BY <2>1 DEF UpdateCall, Write, StatusRows
    <3> QED  BY <1>1, <1>3, <1>4, <1>6, <3>1, Writes
  <2>2. CASE ~(e.kind = "started" \/ Matches(w))
    <3>1. mine' = mine /\ new = <<>>
      BY <2>2 DEF UpdateCall, StatusRows
    <3> QED  BY <1>1, <1>3, <1>6, <3>1, WritesNothing
  <2> QED  BY <2>1, <2>2
<1>8. \A tags : "call" \notin tags => Untagged(new, tags)
  BY <1>1, StatusRowsAre
<1>9. \A r \in DOMAIN new : /\ r = <<"call", e.call>> /\ new[r] = NewStatus(w)
                            /\ e.kind = "started" \/ Matches(w)
  BY <1>1, StatusRowsAre
<1> HIDE DEF new
<1>10. \/ /\ item'[w] = item[w] /\ Event(w)' = e
          /\ \/ at'[w] = "rollup" /\ e.kind = "usage"
             \/ at'[w] = "manifest"
             \/ at'[w] = "insert" /\ e.kind # "usage"
       \/ NextEvent(w)
  <2>1. item'[w] = item[w] => Event(w)' = e
    BY <1>7, ExecutesFacts
  <2> QED  BY <1>5, <2>1, WhereItGoes
<1>11. NextEvent(w) => /\ at'[w] \in {"key", "mark"}
                       /\ \A i \in DOMAIN Batch(w) :
                            at'[w] \in {"mark", "commit"} \/ i < item'[w] =>
                              i < item[w] \/ i = item[w]
  BY <1>1, <1>7, NextPlaced
<1>12. Placed(w)'
  <2>1. CASE NextEvent(w)
    BY <1>1, <1>7, <2>1, NextPlaced
  <2>2. CASE ~NextEvent(w)
    BY <1>1, <1>7, <1>10, <2>2, SamePlaced
  <2> QED  BY <2>1, <2>2
<1>13. Shape' /\ Stored' /\ \A v \in Workers \ {w} : Sound(v)'
  <2>1. at'[w] \in Statements
    BY <1>10, <1>11 DEF Statements
  <2> QED  BY <1>1, <1>3, <1>4, <1>7, <2>1, ShapeKept
<1>14. RowsOK(mine[w])'
  BY <1>7, ExecutesFacts
<1>15. Keyed(w)'
  BY <1>1, <1>7, <1>8, <1>10, <1>11, KeyedKept
<1>16. Projected(w)'
  <2>1. Has(Visible(w), e)
    BY <1>1, VisibleOK DEF TxInv, Sound, Keyed, Has
  <2>2. e = Batch(w)[item[w]]
    BY DEF Event
  <2>3. Has(Visible(w)', Batch(w)[item[w]])
    BY <1>7, <2>1, <2>2, ExecutesFacts
  <2> QED  BY <1>1, <1>7, <1>10, <1>11, <2>3, ProjectedKept
<1>17. InOrder(Visible(w))' /\ Marked(w)' /\ Counted(w)'
  BY <1>7, <1>8, InOrderKept, MarkedKept, CountedKept
<1>18. Priced(w)'
  BY <1>1, <1>7, <1>8, <1>10, <1>11, PricedKept
<1>19. Judged(w)'
  <2>0. /\ DOMAIN mine'[w] = DOMAIN new \cup DOMAIN mine[w]
        /\ \A r \in DOMAIN new : mine'[w][r] = new[r]
        /\ \A r \in DOMAIN mine[w] \ DOMAIN new : mine'[w][r] = mine[w][r]
    BY <1>7, MineAfter
  <2>1. Events' = Events /\ \A f : Has(Visible(w), f) => Has(Visible(w)', f)
    BY <1>7, ExecutesFacts
  <2>2. \A c : HasFailed(Visible(w), c) => HasFailed(Visible(w), c)'
    BY <2>1 DEF HasFailed, Has
  <2>3. db' = db
    BY <1>7 DEF Executes
  <2>4. ASSUME NEW c, <<"call", c>> \in DOMAIN mine'[w]
        PROVE  /\ <<"call", c>> \in DOMAIN db /\ db[<<"call", c>>] = "CALL_FAILED" =>
                    mine'[w][<<"call", c>>] = "CALL_FAILED"
               /\ mine'[w][<<"call", c>>] = "CALL_FAILED" => HasFailed(Visible(w), c)
    <3>1. CASE <<"call", c>> \in DOMAIN new
      <4>1. c = e.call /\ mine'[w][<<"call", c>>] = NewStatus(w)
            /\ (e.kind = "started" \/ Matches(w))
        BY <1>9, <2>0, <3>1
      <4>2. <<"call", c>> = Row(w, "call")
        BY <4>1 DEF Row
      <4> QED  BY <1>1, <4>1, <4>2, StatusStands, StatusIsKnown
    <3>2. CASE <<"call", c>> \notin DOMAIN new
      <4>1. <<"call", c>> \in DOMAIN mine[w]
            /\ mine'[w][<<"call", c>>] = mine[w][<<"call", c>>]
        BY <2>0, <2>4, <3>2
      <4> QED  BY <4>1 DEF TxInv, Sound, Judged
    <3> QED  BY <3>1, <3>2
  <2> QED  BY <2>2, <2>3, <2>4 DEF Judged
<1> QED  BY <1>12, <1>13, <1>14, <1>15, <1>16, <1>17, <1>18, <1>19, AllParts

(* And the rows that it sees.                                                   *)
LEMMA SeenAfter ==
  ASSUME TxInv, NEW w, NEW new, Executes(w, new)
  PROVE  /\ DOMAIN Visible(w)' = DOMAIN new \cup DOMAIN Visible(w)
         /\ \A r \in DOMAIN new : Visible(w)'[r] = new[r]
         /\ \A r \in DOMAIN Visible(w) \ DOMAIN new : Visible(w)'[r] = Visible(w)[r]
<1> DEFINE m == Visible(w)
           o == Over(new, m)
<1>1. /\ DOMAIN o = DOMAIN new \cup DOMAIN m
      /\ \A r \in DOMAIN new : o[r] = new[r]
      /\ \A r \in DOMAIN m \ DOMAIN new : o[r] = m[r]
      /\ o = [r \in DOMAIN o |-> o[r]]
  BY OverIs
<1>2. Visible(w)' = o
  BY ExecutesFacts
<1> HIDE DEF o
<1> QED  BY <1>1, <1>2

(* The rollup that a transaction sees is the sum of the records it sees.        *)
LEMMA RollupIsSum ==
  ASSUME TxInv, NEW w \in Workers, NEW c
  PROVE  SumOf(Visible(w), c)
           = IF <<"rollup", c>> \in DOMAIN Visible(w) THEN Visible(w)[<<"rollup", c>>] ELSE 0
<1> DEFINE row == <<"rollup", c>>
<1>1. /\ RowsOK(mine[w]) /\ RowsOK(db) /\ RowsOK(Visible(w))
      /\ DOMAIN Visible(w) = DOMAIN mine[w] \cup DOMAIN db
      /\ \A r \in DOMAIN mine[w] : Visible(w)[r] = mine[w][r]
      /\ \A r \in DOMAIN db \ DOMAIN mine[w] : Visible(w)[r] = db[r]
  BY VisibleOK
<1>2. CASE row \in DOMAIN mine[w]
  BY <1>1, <1>2 DEF TxInv, Sound, Counted
<1>3. CASE row \notin DOMAIN mine[w]
  <2>1. Records(mine[w], c) = {}
    BY <1>3 DEF TxInv, Sound, Counted, Records
  <2>2. SumOf(Visible(w), c) = SumOf(db, c)
    BY <1>1, <2>1, NewRecords, SumOver DEF Visible
  <2>3. CASE row \in DOMAIN db
    BY <1>1, <1>3, <2>2, <2>3 DEF TxInv, Stored
  <2>4. CASE row \notin DOMAIN db
    <3>1. Records(db, c) = {}
      BY <2>4 DEF TxInv, Stored, Records
    <3>2. SumOf(db, c) = 0
      BY <1>1, <3>1, SumNone
    <3> QED  BY <1>1, <1>3, <2>2, <2>4, <3>2
  <2> QED  BY <2>3, <2>4
<1> QED  BY <1>2, <1>3

(* A usage record is new, and what it adds to the sums of the calls.            *)
LEMMA RecordIsNew ==
  ASSUME TxInv, NEW w \in Workers, Active(w), at[w] = "rollup"
  PROVE  <<"record", Event(w).key>> \notin DOMAIN Visible(w)
<1> DEFINE k == Event(w).key
<1>1. <<"record", k>> \notin DOMAIN mine[w] /\ <<"key", k>> \in DOMAIN mine[w]
  BY DEF TxInv, Sound, Keyed
<1>2. <<"key", k>>[1] = "key" /\ <<"record", k>>[1] = "record" /\ <<"record", k>>[2] = k
  OBVIOUS
<1>3. <<"key", k>> \notin DOMAIN db
  BY <1>1, <1>2 DEF TxInv, Sound, Keyed
<1>4. <<"record", k>> \notin DOMAIN db
  BY <1>2, <1>3 DEF TxInv, Stored
<1> QED  BY <1>1, <1>4, VisibleOK

(* The rows of the usage: the rollup and the record.                            *)
UsageRows(w) ==
  LET row  == Row(w, "rollup")
      old  == IF row \in DOMAIN Visible(w) THEN Visible(w)[row] ELSE 0
      more == <<"record", Event(w).key>>
  IN  [r \in {row, more} |-> IF r = row THEN old + Event(w).cost
                             ELSE [call |-> Event(w).call, cost |-> Event(w).cost]]

(* What they are.                                                               *)
LEMMA UsageRowsAre ==
  ASSUME TxInv, NEW w \in Workers, Active(w), at[w] = "rollup"
  PROVE  /\ DOMAIN UsageRows(w) = {<<"rollup", Event(w).call>>, <<"record", Event(w).key>>}
         /\ UsageRows(w)[<<"rollup", Event(w).call>>]
              = SumOf(Visible(w), Event(w).call) + Event(w).cost
         /\ UsageRows(w)[<<"record", Event(w).key>>]
              = [call |-> Event(w).call, cost |-> Event(w).cost]
         /\ RowsOK(UsageRows(w))
<1> DEFINE e == Event(w)
           row == <<"rollup", e.call>>
           more == <<"record", e.key>>
           new == UsageRows(w)
<1>1. row # more /\ row[1] = "rollup" /\ more[1] = "record"
      /\ row = <<row[1], row[2]>> /\ more = <<more[1], more[2]>>
  OBVIOUS
<1>2. SumOf(Visible(w), e.call)
        = IF row \in DOMAIN Visible(w) THEN Visible(w)[row] ELSE 0
  BY RollupIsSum
<1>3. new = [r \in {row, more} |-> IF r = row THEN SumOf(Visible(w), e.call) + e.cost
                                   ELSE [call |-> e.call, cost |-> e.cost]]
  BY <1>2 DEF UsageRows, Row
<1>4. e.cost \in Nat
  BY EventIs
<1> HIDE DEF e, row, more, new
<1>5. /\ DOMAIN new = {row, more} /\ new = [r \in DOMAIN new |-> new[r]]
      /\ new[row] = SumOf(Visible(w), e.call) + e.cost
      /\ new[more] = [call |-> e.call, cost |-> e.cost]
  BY <1>1, <1>3
<1>6. IsFiniteSet({r \in DOMAIN new : r[1] = "record"})
  <2>1. {r \in DOMAIN new : r[1] = "record"} = {more}
    BY <1>1, <1>5
  <2> QED  BY <2>1, FS_Singleton
<1>7. RowsOK(new)
  BY <1>1, <1>4, <1>5, <1>6 DEF RowsOK, Tables
<1> QED  BY <1>5, <1>7 DEF e, row, more, new

(* What they make of the sums.                                                  *)
LEMMA UsageSums ==
  ASSUME TxInv, NEW w \in Workers, at[w] = "rollup", Executes(w, UsageRows(w)), NEW c
  PROVE  SumOf(Visible(w)', c)
           = SumOf(Visible(w), c) + (IF c = Event(w).call THEN Event(w).cost ELSE 0)
<1> DEFINE e == Event(w)
           more == <<"record", e.key>>
           row == <<"rollup", e.call>>
           new == UsageRows(w)
           old == Visible(w)
           then == Visible(w)'
<1>0. Active(w)
  BY DEF Executes
<1>1. /\ DOMAIN new = {row, more} /\ new[more] = [call |-> e.call, cost |-> e.cost]
      /\ more \notin DOMAIN old /\ e.cost \in Nat
  BY <1>0, UsageRowsAre, RecordIsNew, EventIs
<1>2. RowsOK(old)
  BY VisibleOK
<1>3. RowsOK(then)
  BY ExecutesFacts
<1>4. /\ DOMAIN then = DOMAIN new \cup DOMAIN old
      /\ \A r \in DOMAIN new : then[r] = new[r]
      /\ \A r \in DOMAIN old \ DOMAIN new : then[r] = old[r]
  BY SeenAfter
<1>5. row[1] = "rollup" /\ more[1] = "record" /\ row # more
  OBVIOUS
<1> HIDE DEF e, more, row, new, old, then
<1>6. \A r \in Records(old, c) : r \in DOMAIN old /\ r # row /\ r # more /\ then[r] = old[r]
  BY <1>1, <1>4, <1>5 DEF Records
<1>7. then[more].call = e.call /\ then[more].cost = e.cost /\ more \in DOMAIN then
  BY <1>1, <1>4
<1>8. ASSUME NEW r \in Records(then, c), r # more PROVE r \in Records(old, c)
  <2>1. r \in DOMAIN then /\ r[1] = "record" /\ then[r].call = c
    BY DEF Records
  <2>2. r \in DOMAIN old /\ then[r] = old[r]
    BY <1>1, <1>4, <1>5, <1>8, <2>1
  <2> QED  BY <2>1, <2>2 DEF Records
<1>9. \A r \in Records(old, c) : r \in Records(then, c)
  BY <1>4, <1>6 DEF Records
<1>10. CASE c = e.call
  <2>1. more \in Records(then, c) /\ more \notin Records(old, c)
    BY <1>1, <1>5, <1>7, <1>10 DEF Records
  <2>2. Records(then, c) = Records(old, c) \cup {more}
    BY <1>8, <1>9, <2>1
  <2>3. SumOf(then, c) = SumOf(old, c) + then[more].cost
    BY <1>2, <1>3, <1>6, <2>1, <2>2, SumMore
  <2> QED  BY <1>7, <1>10, <2>3 DEF e, then, old
<1>11. CASE c # e.call
  <2>1. more \notin Records(then, c)
    BY <1>7, <1>11 DEF Records
  <2>2. Records(then, c) = Records(old, c)
    BY <1>8, <1>9, <2>1
  <2>3. SumOf(then, c) = SumOf(old, c) /\ SumOf(old, c) \in Nat
    BY <1>2, <1>3, <1>6, <2>2, SumSame, SumNat
  <2> QED  BY <1>11, <2>3 DEF e, then, old
<1> QED  BY <1>10, <1>11

(* The usage.                                                                   *)
LEMMA AddUsageStep ==
  ASSUME TxInv, NEW w \in Workers, AddUsage(w) PROVE TxInv'
<1> DEFINE e == Event(w)
           row == <<"rollup", e.call>>
           more == <<"record", e.key>>
           new == UsageRows(w)
<1>1. /\ At(w, "rollup") /\ at[w] = "rollup" /\ Active(w) /\ Keep
      /\ Goto(w, "insert", item[w]) /\ seen' = seen /\ faults' = faults
      /\ mine' = [mine EXCEPT ![w] = Over(new, @)]
  BY DEF AddUsage, At, Keep, UsageRows
<1>2. seen \in [Workers -> Nat]
  BY DEF TxInv, Shape
<1>3. seen' = [seen EXCEPT ![w] = seen[w]] /\ seen'[w] \in Nat
  BY <1>1, <1>2
<1>4. /\ DOMAIN new = {row, more}
      /\ new[row] = SumOf(Visible(w), e.call) + e.cost
      /\ new[more] = [call |-> e.call, cost |-> e.cost]
      /\ RowsOK(new)
  BY <1>1, UsageRowsAre
<1>5. Executes(w, new)
  <2>1. \E t, i : Goto(w, t, i)
    BY <1>1
  <2> QED  BY <1>1, <1>3, <1>4, <2>1, Writes
<1>6. at'[w] = "insert" /\ item'[w] = item[w]
  BY <1>1, WhereItGoes
<1>7. row[1] = "rollup" /\ more[1] = "record" /\ more[2] = e.key /\ row # more
  OBVIOUS
<1>8. Needs(w) = {row}
  BY <1>1 DEF Needs, Needed, Row
<1>9. Keyed(w) /\ Counted(w) /\ Priced(w) /\ Placed(w) /\ e.kind = "usage"
  BY <1>1 DEF TxInv, Sound, Placed
<1>10. <<"key", e.key>> \in DOMAIN mine[w]
  BY <1>1, <1>9 DEF Keyed
<1>11. \A c : SumOf(Visible(w)', c) = SumOf(Visible(w), c) + (IF c = e.call THEN e.cost ELSE 0)
  BY <1>1, <1>5, UsageSums
<1>12. \A c : SumOf(Visible(w), c) \in Nat
  BY VisibleOK, SumNat
<1>13. /\ DOMAIN mine'[w] = DOMAIN new \cup DOMAIN mine[w]
       /\ \A r \in DOMAIN new : mine'[w][r] = new[r]
       /\ \A r \in DOMAIN mine[w] \ DOMAIN new : mine'[w][r] = mine[w][r]
  BY <1>5, MineAfter
<1>14. Event(w)' = e /\ Active(w)' = Active(w)
  BY <1>5, <1>6, ExecutesFacts
<1>15. db' = db
  BY <1>5 DEF Executes
<1> HIDE DEF new
<1>16. Shape' /\ Stored' /\ \A v \in Workers \ {w} : Sound(v)'
  <2>1. at'[w] \in Statements
    BY <1>6 DEF Statements
  <2>2. \A r \in DOMAIN new : r \in Needs(w) \/ (r[1] = "record" /\ <<"key", r[2]>> \in DOMAIN mine[w])
    BY <1>4, <1>7, <1>8, <1>10
  <2> QED  BY <1>1, <1>3, <1>5, <2>1, <2>2, ShapeKept
<1>17. Placed(w)'
  BY <1>1, <1>5, <1>6, SamePlaced
<1>18. RowsOK(mine[w])'
  BY <1>5, ExecutesFacts
<1> HIDE DEF e, row, more
<1>19. Keyed(w)'
  <2>1. \A r \in DOMAIN mine'[w] :
          /\ r[1] = "key" => r \notin DOMAIN db
          /\ r[1] = "record" => <<"key", r[2]>> \in DOMAIN mine'[w]
    BY <1>4, <1>7, <1>9, <1>10, <1>13 DEF Keyed
  <2>2. <<"key", Event(w)'.key>> \in DOMAIN mine'[w]
    BY <1>10, <1>13, <1>14
  <2> QED  BY <1>6, <1>15, <2>1, <2>2 DEF Keyed
<1>20. \A tags : "rollup" \notin tags /\ "record" \notin tags => Untagged(new, tags)
  BY <1>4, <1>7 DEF Untagged
<1>21. Projected(w)'
  BY <1>1, <1>5, <1>6, ProjectedKept
<1>22. InOrder(Visible(w))' /\ Marked(w)' /\ Judged(w)'
  BY <1>5, <1>20, InOrderKept, MarkedKept, JudgedKept
<1>23. Counted(w)'
  <2>1. ASSUME NEW r \in DOMAIN mine'[w], r[1] = "record"
        PROVE  <<"rollup", mine'[w][r].call>> \in DOMAIN mine'[w]
    <3>1. CASE r = more
      BY <1>4, <1>13, <3>1 DEF row
    <3>2. CASE r # more
      <4>1. r \in DOMAIN mine[w] /\ mine'[w][r] = mine[w][r]
        BY <1>4, <1>7, <1>13, <2>1, <3>2
      <4> QED  BY <1>9, <1>13, <2>1, <4>1 DEF Counted
    <3> QED  BY <3>1, <3>2
  <2>2. ASSUME NEW c, <<"rollup", c>> \in DOMAIN mine'[w]
        PROVE  mine'[w][<<"rollup", c>>] = SumOf(Visible(w)', c)
    <3>1. CASE c = e.call
      BY <1>4, <1>11, <1>13, <3>1 DEF row
    <3>2. CASE c # e.call
      <4>1. <<"rollup", c>> # row /\ <<"rollup", c>> # more
        BY <3>2 DEF row, more
      <4>2. <<"rollup", c>> \in DOMAIN mine[w]
            /\ mine'[w][<<"rollup", c>>] = mine[w][<<"rollup", c>>]
        BY <1>4, <1>13, <2>2, <4>1
      <4>3. SumOf(Visible(w)', c) = SumOf(Visible(w), c)
        BY <1>11, <1>12, <3>2
      <4> QED  BY <1>9, <4>2, <4>3 DEF Counted
    <3> QED  BY <3>1, <3>2
  <2> QED  BY <2>1, <2>2 DEF Counted
<1>24. Priced(w)'
  <2>0. \A c : ~Pricing(w, c)
    BY <1>1 DEF Pricing
  <2>1. \A c : c = e.call => Pricing(w, c)'
    BY <1>1, <1>6, <1>14 DEF Pricing, e
  <2>2. ASSUME NEW r \in DOMAIN mine'[w], r[1] = "record", mine'[w][r].call # e.call
        PROVE  <<"bill", mine'[w][r].call>> \in DOMAIN mine'[w]
    <3>1. r # more
      BY <1>4, <1>13, <2>2
    <3>2. r \in DOMAIN mine[w] /\ mine'[w][r] = mine[w][r]
      BY <1>4, <1>7, <1>13, <2>2, <3>1
    <3> QED  BY <1>9, <1>13, <2>0, <2>2, <3>2 DEF Priced
  <2>3. ASSUME NEW c, <<"bill", c>> \in DOMAIN mine'[w], c # e.call
        PROVE  mine'[w][<<"bill", c>>].cost = SumOf(Visible(w)', c)
    <3>1. <<"bill", c>>[1] = "bill"
      OBVIOUS
    <3>2. <<"bill", c>> \in DOMAIN mine[w] /\ mine'[w][<<"bill", c>>] = mine[w][<<"bill", c>>]
      BY <1>4, <1>7, <1>13, <2>3, <3>1
    <3>3. SumOf(Visible(w)', c) = SumOf(Visible(w), c)
      BY <1>11, <1>12, <2>3
    <3> QED  BY <1>9, <2>0, <3>2, <3>3 DEF Priced
  <2>4. Row(w, "rollup")' \in DOMAIN mine'[w]
    BY <1>4, <1>13, <1>14 DEF Row, row, e
  <2> QED  BY <1>6, <2>1, <2>2, <2>3, <2>4 DEF Priced
<1> QED  BY <1>16, <1>17, <1>18, <1>19, <1>21, <1>22, <1>23, <1>24, AllParts

(* A statement on the bill of the event's call.                                 *)
LEMMA BillStep ==
  ASSUME TxInv, NEW w \in Workers, NEW new, Executes(w, new), NEW s, At(w, s),
         at[w] \in {"insert", "close", "sum", "cost"},
         \A r \in DOMAIN new : r \in Needs(w) /\ r = <<"bill", Event(w).call>>,
         \/ NextEvent(w)
         \/ /\ at'[w] \in {"close", "sum", "cost"} /\ item'[w] = item[w]
            /\ at'[w] = "close" => Event(w).kind # "usage",
         seen'[w] \in Nat, faults' = faults, Priced(w)'
  PROVE  TxInv'
<1>1. \A tags : "bill" \notin tags => Untagged(new, tags)
  <2>1. \A r \in DOMAIN new : r[1] = "bill"
    OBVIOUS
  <2> QED  BY <2>1 DEF Untagged
<1>2. NextEvent(w) => /\ at'[w] \in {"key", "mark"} /\ Placed(w)'
                      /\ \A i \in DOMAIN Batch(w) :
                           at'[w] \in {"mark", "commit"} \/ i < item'[w] =>
                             i < item[w] \/ i = item[w]
  BY NextPlaced
<1>3. Active(w)
  BY DEF Executes
<1>4. Placed(w)'
  <2>1. CASE NextEvent(w)
    BY <1>2, <2>1
  <2>2. CASE ~NextEvent(w)
    BY <2>2, SamePlaced
  <2> QED  BY <2>1, <2>2
<1>5. Shape' /\ Stored' /\ \A v \in Workers \ {w} : Sound(v)'
  <2>1. at'[w] \in Statements
    BY <1>2 DEF Statements
  <2> QED  BY <2>1, ShapeKept
<1>6. RowsOK(mine[w])'
  BY ExecutesFacts
<1>7. Keyed(w)'
  BY <1>1, <1>2, KeyedKept
<1>8. Projected(w)'
  <2>1. Has(Visible(w), Event(w))
    <3>1. <<"key", Event(w).key>> \in DOMAIN mine[w]
      BY <1>3 DEF TxInv, Sound, Keyed
    <3> QED  BY <3>1, VisibleOK DEF Has
  <2>2. Event(w) = Batch(w)[item[w]]
    BY DEF Event
  <2>3. Has(Visible(w)', Batch(w)[item[w]])
    BY <2>1, <2>2, ExecutesFacts
  <2> QED  BY <1>2, <2>3, ProjectedKept
<1>9. InOrder(Visible(w))' /\ Marked(w)' /\ Counted(w)' /\ Judged(w)'
  BY <1>1, InOrderKept, MarkedKept, CountedKept, JudgedKept
<1> QED  BY <1>4, <1>5, <1>6, <1>7, <1>8, <1>9, AllParts

(* The records and the bills of other calls stay as they are meanwhile.         *)
LEMMA OtherBills ==
  ASSUME TxInv, NEW w \in Workers, NEW new, Executes(w, new),
         at[w] \in {"insert", "close", "sum", "cost"},
         \A r \in DOMAIN new : r = <<"bill", Event(w).call>>
  PROVE  /\ \A r \in DOMAIN mine'[w] : r[1] = "record" /\ mine'[w][r].call # Event(w).call =>
              <<"bill", mine'[w][r].call>> \in DOMAIN mine'[w]
         /\ \A c : <<"bill", c>> \in DOMAIN mine'[w] /\ c # Event(w).call =>
              mine'[w][<<"bill", c>>].cost = SumOf(Visible(w)', c)
         /\ \A c : SumOf(Visible(w)', c) = SumOf(Visible(w), c)
<1>1. /\ DOMAIN mine'[w] = DOMAIN new \cup DOMAIN mine[w]
      /\ \A r \in DOMAIN new : mine'[w][r] = new[r]
      /\ \A r \in DOMAIN mine[w] \ DOMAIN new : mine'[w][r] = mine[w][r]
  BY MineAfter
<1>2. \A r \in DOMAIN new : r[1] = "bill"
  OBVIOUS
<1>3. \A c : SumOf(Visible(w)', c) = SumOf(Visible(w), c)
  <2>1. Untagged(new, {"record"})
    BY <1>2 DEF Untagged
  <2> QED  BY <2>1, SumsKept
<1>4. Priced(w) /\ \A c : Pricing(w, c) => c = Event(w).call
  BY DEF TxInv, Sound, Pricing
<1>5. ASSUME NEW r \in DOMAIN mine'[w], r[1] = "record", mine'[w][r].call # Event(w).call
      PROVE  <<"bill", mine'[w][r].call>> \in DOMAIN mine'[w]
  <2>1. r \in DOMAIN mine[w] /\ mine'[w][r] = mine[w][r]
    BY <1>1, <1>2, <1>5
  <2> QED  BY <1>1, <1>4, <1>5, <2>1 DEF Priced
<1>6. ASSUME NEW c, <<"bill", c>> \in DOMAIN mine'[w], c # Event(w).call
      PROVE  mine'[w][<<"bill", c>>].cost = SumOf(Visible(w)', c)
  <2>1. <<"bill", c>> \notin DOMAIN new
    BY <1>6
  <2>2. <<"bill", c>> \in DOMAIN mine[w] /\ mine'[w][<<"bill", c>>] = mine[w][<<"bill", c>>]
    BY <1>1, <1>6, <2>1
  <2> QED  BY <1>3, <1>4, <1>6, <2>2 DEF Priced
<1> QED  BY <1>3, <1>5, <1>6

(* The bill is there.                                                           *)
LEMMA InsertBillStep ==
  ASSUME TxInv, NEW w \in Workers, InsertBill(w) PROVE TxInv'
<1> DEFINE e == Event(w)
           row == Row(w, "bill")
           one == [r \in {row} |-> [cost |-> 0, status |-> "OPEN"]]
           new == IF row \in DOMAIN Visible(w) THEN <<>> ELSE one
<1>1. /\ At(w, "insert") /\ at[w] = "insert" /\ Active(w) /\ Keep
      /\ Goto(w, IF e.kind = "usage" THEN "sum" ELSE "close", item[w])
      /\ seen' = seen /\ faults' = faults
  BY DEF InsertBill, At, Keep
<1>2. seen \in [Workers -> Nat]
  BY DEF TxInv, Shape
<1>3. seen' = [seen EXCEPT ![w] = seen[w]] /\ seen'[w] \in Nat
  BY <1>1, <1>2
<1>4. \E t, i : Goto(w, t, i)
  BY <1>1
<1>5. RowsOK(one)
  BY OneRow DEF Tables, Row
<1>6. DOMAIN one = {row}
  OBVIOUS
<1>7. ASSUME row \in DOMAIN Visible(w) PROVE Executes(w, new)
  <2>1. mine' = mine
    BY <1>7 DEF InsertBill
  <2>2. Executes(w, <<>>)
    BY <1>1, <1>3, <1>4, <2>1, WritesNothing
  <2> QED  BY <1>7, <2>2
<1>8. ASSUME row \notin DOMAIN Visible(w) PROVE Executes(w, new)
  <2>1. mine' = [mine EXCEPT ![w] = Over(one, @)]
    BY <1>8 DEF InsertBill, Write
  <2> HIDE DEF one
  <2>2. Executes(w, one)
    BY <1>1, <1>3, <1>4, <1>5, <2>1, Writes
  <2> QED  BY <1>8, <2>2
<1>9. Executes(w, new)
  BY <1>7, <1>8
<1>10. \A r \in DOMAIN new : r = row /\ row \notin DOMAIN Visible(w)
  <2>1. DOMAIN <<>> = {}
    OBVIOUS
  <2> HIDE DEF one
  <2> QED  BY <1>6, <2>1
<1>11. row \in DOMAIN new \cup DOMAIN Visible(w)
  <2> HIDE DEF one
  <2> QED  BY <1>6
<1> HIDE DEF new, one
<1>12. row = <<"bill", e.call>>
  BY DEF Row
<1>13. at'[w] = (IF e.kind = "usage" THEN "sum" ELSE "close") /\ item'[w] = item[w]
  BY <1>1, WhereItGoes
<1>14. \A r \in DOMAIN new : r \in Needs(w)
  <2>1. row \notin DOMAIN Visible(w) => Needs(w) = {row}
    BY <1>1, VisibleOK DEF Needs, Needed
  <2> QED  BY <1>10, <2>1
<1>15. /\ DOMAIN mine'[w] = DOMAIN new \cup DOMAIN mine[w]
       /\ DOMAIN Visible(w)' = DOMAIN new \cup DOMAIN Visible(w)
  BY <1>9, MineAfter, SeenAfter
<1>16. Event(w)' = e /\ Active(w)' = Active(w)
  BY <1>9, <1>13, ExecutesFacts
<1>17. /\ \A r \in DOMAIN mine'[w] : r[1] = "record" /\ mine'[w][r].call # e.call =>
            <<"bill", mine'[w][r].call>> \in DOMAIN mine'[w]
       /\ \A c : <<"bill", c>> \in DOMAIN mine'[w] /\ c # e.call =>
            mine'[w][<<"bill", c>>].cost = SumOf(Visible(w)', c)
  BY <1>1, <1>9, <1>10, <1>12, OtherBills
<1>18. Priced(w)'
  <2>1. Pricing(w, e.call)'
    BY <1>1, <1>13, <1>16 DEF Pricing
  <2>2. e.kind = "usage" => Row(w, "rollup") \in DOMAIN mine[w]
    BY <1>1 DEF TxInv, Sound, Priced
  <2>3. Row(w, "bill")' = row /\ Row(w, "rollup")' = Row(w, "rollup")
    BY <1>16 DEF Row
  <2>4. /\ at'[w] \in {"close", "sum", "cost"} => Row(w, "bill")' \in DOMAIN Visible(w)'
        /\ at'[w] \in {"insert", "sum", "cost"} /\ e.kind = "usage" =>
             Row(w, "rollup")' \in DOMAIN mine'[w]
        /\ at'[w] \in {"sum", "cost"} /\ e.kind # "usage" => FALSE
        /\ at'[w] # "cost"
    BY <1>11, <1>13, <1>15, <2>2, <2>3
  <2> QED  BY <1>16, <1>17, <2>1, <2>4 DEF Priced
<1> QED  BY <1>1, <1>3, <1>9, <1>10, <1>12, <1>13, <1>14, <1>18, BillStep

(* A change of the bill that the transaction sees is a bill.                    *)
LEMMA BillIs ==
  ASSUME TxInv, NEW w \in Workers, Active(w), at[w] \in {"close", "sum", "cost"},
         NEW x, x = [cost |-> x.cost, status |-> x.status]
  PROVE  /\ Row(w, "bill") \in DOMAIN Visible(w)
         /\ Visible(w)[Row(w, "bill")]
              = [cost |-> Visible(w)[Row(w, "bill")].cost,
                 status |-> Visible(w)[Row(w, "bill")].status]
         /\ RowsOK([r \in {Row(w, "bill")} |-> x])
<1>1. Row(w, "bill") \in DOMAIN Visible(w)
  BY DEF TxInv, Sound, Priced
<1>2. RowsOK(Visible(w))
  BY VisibleOK
<1>3. Row(w, "bill")[1] = "bill"
  BY DEF Row
<1>4. RowsOK([r \in {Row(w, "bill")} |-> x])
  BY OneRow DEF Tables, Row
<1> QED  BY <1>1, <1>2, <1>3, <1>4 DEF RowsOK

(* The bill is closed.                                                          *)
LEMMA CloseBillStep ==
  ASSUME TxInv, NEW w \in Workers, CloseBill(w) PROVE TxInv'
<1> DEFINE e == Event(w)
           row == Row(w, "bill")
           x == [Visible(w)[row] EXCEPT !.status = "FINALIZED"]
           new == [r \in {row} |-> x]
<1>1. /\ At(w, "close") /\ at[w] = "close" /\ Active(w) /\ Keep
      /\ Goto(w, "sum", item[w]) /\ Write(w, row, x) /\ seen' = seen /\ faults' = faults
  BY DEF CloseBill, At, Keep
<1>2. seen \in [Workers -> Nat]
  BY DEF TxInv, Shape
<1>3. seen' = [seen EXCEPT ![w] = seen[w]] /\ seen'[w] \in Nat
  BY <1>1, <1>2
<1>4. RowsOK(new)
  <2>1. row \in DOMAIN Visible(w) /\ RowsOK(Visible(w)) /\ row[1] = "bill"
    BY <1>1, VisibleOK DEF TxInv, Sound, Priced, Row
  <2>2. Visible(w)[row] = [cost |-> Visible(w)[row].cost, status |-> Visible(w)[row].status]
    BY <2>1 DEF RowsOK
  <2>3. x = [cost |-> Visible(w)[row].cost, status |-> "FINALIZED"]
    BY <2>2
  <2>4. x = [cost |-> x.cost, status |-> x.status]
    BY <2>3
  <2> HIDE DEF x
  <2> QED  BY <1>1, <2>4, BillIs
<1>5. Executes(w, new)
  <2>1. mine' = [mine EXCEPT ![w] = Over(new, @)]
    BY <1>1 DEF Write
  <2>2. \E t, i : Goto(w, t, i)
    BY <1>1
  <2> HIDE DEF new
  <2> QED  BY <1>1, <1>3, <1>4, <2>1, <2>2, Writes
<1>6. at'[w] = "sum" /\ item'[w] = item[w]
  BY <1>1, WhereItGoes
<1>7. DOMAIN new = {row}
  OBVIOUS
<1> HIDE DEF new
<1>8. Needs(w) = {row} /\ row = <<"bill", e.call>>
  BY <1>1 DEF Needs, Needed, Row
<1>9. /\ DOMAIN mine'[w] = DOMAIN new \cup DOMAIN mine[w]
      /\ DOMAIN Visible(w)' = DOMAIN new \cup DOMAIN Visible(w)
  BY <1>5, MineAfter, SeenAfter
<1>10. Event(w)' = e /\ Active(w)' = Active(w)
  BY <1>5, <1>6, ExecutesFacts
<1>11. /\ \A r \in DOMAIN mine'[w] : r[1] = "record" /\ mine'[w][r].call # e.call =>
            <<"bill", mine'[w][r].call>> \in DOMAIN mine'[w]
       /\ \A c : <<"bill", c>> \in DOMAIN mine'[w] /\ c # e.call =>
            mine'[w][<<"bill", c>>].cost = SumOf(Visible(w)', c)
  BY <1>1, <1>5, <1>7, <1>8, OtherBills
<1>12. Priced(w)'
  <2>1. Pricing(w, e.call)'
    BY <1>1, <1>6, <1>10 DEF Pricing
  <2>2. e.kind # "usage"
    BY <1>1 DEF TxInv, Sound, Placed
  <2>3. Row(w, "bill")' = row
    BY <1>10 DEF Row
  <2>4. row \in DOMAIN mine'[w] /\ row \in DOMAIN Visible(w)'
    BY <1>7, <1>9
  <2> QED  BY <1>6, <1>10, <1>11, <2>1, <2>2, <2>3, <2>4 DEF Priced
<1> QED  BY <1>1, <1>3, <1>5, <1>6, <1>7, <1>8, <1>12, BillStep

(* The sum is read.                                                             *)
LEMMA SumRecordsStep ==
  ASSUME TxInv, NEW w \in Workers, SumRecords(w) PROVE TxInv'
<1> DEFINE e == Event(w)
           row == Row(w, "bill")
           sum == SumOf(Visible(w), e.call)
<1>1. /\ At(w, "sum") /\ at[w] = "sum" /\ Active(w) /\ Keep
      /\ Goto(w, "cost", item[w]) /\ seen' = [seen EXCEPT ![w] = sum]
      /\ mine' = mine /\ faults' = faults
  BY DEF SumRecords, At, Keep
<1>2. seen \in [Workers -> Nat]
  BY DEF TxInv, Shape
<1>3. seen'[w] = sum /\ sum \in Nat
  BY <1>1, <1>2, VisibleOK, SumNat
<1>4. Executes(w, <<>>)
  <2>1. (\E t, i : Goto(w, t, i)) /\ \E x : seen' = [seen EXCEPT ![w] = x]
    BY <1>1
  <2> QED  BY <1>1, <2>1, WritesNothing
<1>5. at'[w] = "cost" /\ item'[w] = item[w]
  BY <1>1, WhereItGoes
<1>6. DOMAIN <<>> = {}
  OBVIOUS
<1>7. /\ DOMAIN mine'[w] = DOMAIN mine[w] /\ DOMAIN Visible(w)' = DOMAIN Visible(w)
  <2>1. /\ DOMAIN mine'[w] = DOMAIN <<>> \cup DOMAIN mine[w]
        /\ DOMAIN Visible(w)' = DOMAIN <<>> \cup DOMAIN Visible(w)
    BY <1>4, MineAfter, SeenAfter
  <2> QED  BY <1>6, <2>1
<1>8. Event(w)' = e /\ Active(w)' = Active(w)
  BY <1>4, <1>5, ExecutesFacts
<1>9. /\ \A r \in DOMAIN mine'[w] : r[1] = "record" /\ mine'[w][r].call # e.call =>
            <<"bill", mine'[w][r].call>> \in DOMAIN mine'[w]
      /\ \A c : <<"bill", c>> \in DOMAIN mine'[w] /\ c # e.call =>
            mine'[w][<<"bill", c>>].cost = SumOf(Visible(w)', c)
      /\ \A c : SumOf(Visible(w)', c) = SumOf(Visible(w), c)
  BY <1>1, <1>4, <1>6, OtherBills
<1>10. Priced(w)'
  <2>1. Pricing(w, e.call)'
    BY <1>1, <1>5, <1>8 DEF Pricing
  <2>2. /\ row \in DOMAIN Visible(w)
        /\ e.kind = "usage" => Row(w, "rollup") \in DOMAIN mine[w]
        /\ e.kind # "usage" => row \in DOMAIN mine[w]
    BY <1>1 DEF TxInv, Sound, Priced
  <2>3. Row(w, "bill")' = row /\ Row(w, "rollup")' = Row(w, "rollup")
    BY <1>8 DEF Row
  <2>4. seen'[w] = SumOf(Visible(w)', e.call)
    BY <1>3, <1>9
  <2> QED  BY <1>5, <1>7, <1>8, <1>9, <2>1, <2>2, <2>3, <2>4 DEF Priced
<1> QED  BY <1>1, <1>3, <1>4, <1>5, <1>6, <1>10, BillStep

(* The sum is written.                                                          *)
LEMMA WriteCostStep ==
  ASSUME TxInv, NEW w \in Workers, WriteCost(w) PROVE TxInv'
<1> DEFINE e == Event(w)
           row == Row(w, "bill")
           x == [Visible(w)[row] EXCEPT !.cost = seen[w]]
           new == [r \in {row} |-> x]
<1>1. /\ At(w, "cost") /\ at[w] = "cost" /\ Active(w) /\ Keep
      /\ NextEvent(w) /\ Write(w, row, x) /\ seen' = [seen EXCEPT ![w] = 0]
      /\ faults' = faults
  BY DEF WriteCost, At, Keep
<1>2. seen \in [Workers -> Nat]
  BY DEF TxInv, Shape
<1>3. seen'[w] = 0 /\ seen'[w] \in Nat
  BY <1>1, <1>2
<1>4. RowsOK(new) /\ x.cost = seen[w]
  <2>1. row \in DOMAIN Visible(w) /\ RowsOK(Visible(w)) /\ row[1] = "bill"
    BY <1>1, VisibleOK DEF TxInv, Sound, Priced, Row
  <2>2. Visible(w)[row] = [cost |-> Visible(w)[row].cost, status |-> Visible(w)[row].status]
    BY <2>1 DEF RowsOK
  <2>3. x = [cost |-> seen[w], status |-> Visible(w)[row].status]
    BY <2>2
  <2>4. x = [cost |-> x.cost, status |-> x.status] /\ x.cost = seen[w]
    BY <2>3
  <2> HIDE DEF x
  <2> QED  BY <1>1, <2>4, BillIs
<1>5. Executes(w, new)
  <2>1. mine' = [mine EXCEPT ![w] = Over(new, @)]
    BY <1>1 DEF Write
  <2>2. (\E t, i : Goto(w, t, i)) /\ \E y : seen' = [seen EXCEPT ![w] = y]
    BY <1>1, NextEventGoes
  <2> HIDE DEF new
  <2> QED  BY <1>1, <1>4, <2>1, <2>2, Writes
<1>6. at'[w] \in {"key", "mark"}
  BY <1>1, <1>5, NextPlaced
<1>7. DOMAIN new = {row} /\ new[row].cost = seen[w]
  BY <1>4
<1> HIDE DEF new
<1>8. Needs(w) = {row} /\ row = <<"bill", e.call>>
  BY <1>1 DEF Needs, Needed, Row
<1>9. /\ DOMAIN mine'[w] = DOMAIN new \cup DOMAIN mine[w]
      /\ \A r \in DOMAIN new : mine'[w][r] = new[r]
  BY <1>5, MineAfter
<1>10. /\ \A r \in DOMAIN mine'[w] : r[1] = "record" /\ mine'[w][r].call # e.call =>
            <<"bill", mine'[w][r].call>> \in DOMAIN mine'[w]
       /\ \A c : <<"bill", c>> \in DOMAIN mine'[w] /\ c # e.call =>
            mine'[w][<<"bill", c>>].cost = SumOf(Visible(w)', c)
       /\ \A c : SumOf(Visible(w)', c) = SumOf(Visible(w), c)
  BY <1>1, <1>5, <1>7, <1>8, OtherBills
<1>11. Priced(w)'
  <2>1. seen[w] = SumOf(Visible(w), e.call)
    BY <1>1 DEF TxInv, Sound, Priced
  <2>2. row \in DOMAIN mine'[w] /\ mine'[w][row].cost = SumOf(Visible(w)', e.call)
    BY <1>7, <1>9, <1>10, <2>1
  <2>3. \A r \in DOMAIN mine'[w] : r[1] = "record" =>
          <<"bill", mine'[w][r].call>> \in DOMAIN mine'[w]
    BY <1>8, <1>10, <2>2
  <2>4. \A c : <<"bill", c>> \in DOMAIN mine'[w] =>
          mine'[w][<<"bill", c>>].cost = SumOf(Visible(w)', c)
    BY <1>8, <1>10, <2>2
  <2> QED  BY <1>6, <2>3, <2>4 DEF Priced
<1> QED  BY <1>1, <1>3, <1>5, <1>7, <1>8, <1>11, BillStep

(* The offset that a watermark is set to is that of an event of the batch, and  *)
(* what is before it in the topic is projected.                                 *)
LEMMA MarkedUpTo ==
  ASSUME TxInv, NEW w \in Workers, Active(w), at[w] = "mark",
         NEW t, t = Marks(w)[item[w]]
  PROVE  /\ LastOffset(w, t) \in Nat
         /\ \A f \in Events : f.topic = t /\ f.offset <= LastOffset(w, t) =>
              Has(Visible(w), f)
<1>1. batches \in Plans /\ item[w] \in DOMAIN Marks(w)
  BY DEF TxInv, Sound, Placed, Shape
<1>2. \E i \in DOMAIN Batch(w) : Batch(w)[i].topic = t
  BY <1>1, MarksAre
<1>3. PICK i \in DOMAIN Batch(w) : Batch(w)[i].topic = t /\ Batch(w)[i].offset = LastOffset(w, t)
  BY <1>1, <1>2, LastOffsetIs
<1>4. Batch(w)[i] \in Events
  BY <1>1, PlanFacts DEF Active, Batch
<1>5. Has(Visible(w), Batch(w)[i])
  BY DEF TxInv, Sound, Projected
<1>6. InOrder(Visible(w))
  BY DEF TxInv, Sound
<1>7. LastOffset(w, t) \in Nat
  BY <1>1, <1>3, <1>4, EventFacts
<1> QED  BY <1>3, <1>4, <1>5, <1>6, <1>7 DEF InOrder

(* The watermark of a topic.                                                    *)
LEMMA MarkTopicStep ==
  ASSUME TxInv, NEW w \in Workers, MarkTopic(w) PROVE TxInv'
<1> DEFINE topic == Marks(w)[item[w]]
           row == <<"watermark", topic>>
           old == IF row \in DOMAIN Visible(w) THEN Visible(w)[row] ELSE 0
           x == LaterOf(old, LastOffset(w, topic))
           new == [r \in {row} |-> x]
<1>1. /\ At(w, "mark") /\ at[w] = "mark" /\ Active(w) /\ Keep
      /\ Write(w, row, x) /\ seen' = seen /\ faults' = faults
      /\ \/ item[w] < Len(Marks(w)) /\ Goto(w, "mark", item[w] + 1)
         \/ Goto(w, "commit", 1)
  BY DEF MarkTopic, At, Keep
<1>2. seen \in [Workers -> Nat] /\ batches \in Plans
  BY DEF TxInv, Shape
<1>3. seen' = [seen EXCEPT ![w] = seen[w]] /\ seen'[w] \in Nat
  BY <1>1, <1>2
<1>4. /\ LastOffset(w, topic) \in Nat
      /\ \A f \in Events : f.topic = topic /\ f.offset <= LastOffset(w, topic) =>
           Has(Visible(w), f)
  BY <1>1, MarkedUpTo
<1>5. row[1] = "watermark" /\ row[2] = topic
  OBVIOUS
<1> HIDE DEF row
<1>6. old \in Nat
  BY <1>5, VisibleOK DEF RowsOK
<1>7. x \in Nat /\ old <= x /\ (x = old \/ x = LastOffset(w, topic)) /\ LastOffset(w, topic) <= x
  BY <1>4, <1>6 DEF LaterOf
<1> HIDE DEF x
<1>8. RowsOK(new)
  BY <1>7, OneRow DEF Tables, row
<1>9. Executes(w, new)
  <2>1. mine' = [mine EXCEPT ![w] = Over(new, @)]
    BY <1>1 DEF Write
  <2>2. \E t, i : Goto(w, t, i)
    BY <1>1
  <2> HIDE DEF new
  <2> QED  BY <1>1, <1>3, <1>8, <2>1, <2>2, Writes
<1>10. \/ at'[w] = "mark" /\ item'[w] = item[w] + 1 /\ item[w] < Len(Marks(w))
       \/ at'[w] = "commit"
  BY <1>1, WhereItGoes
<1>11. DOMAIN new = {row} /\ new[row] = x
  OBVIOUS
<1> HIDE DEF new
<1>12. Needs(w) = {row}
  BY <1>1 DEF Needs, Needed, row
<1>13. \A tags : "watermark" \notin tags => Untagged(new, tags)
  BY <1>5, <1>11 DEF Untagged
<1>14. Shape' /\ Stored' /\ \A v \in Workers \ {w} : Sound(v)'
  <2>1. at'[w] \in Statements
    BY <1>10 DEF Statements
  <2> QED  BY <1>1, <1>3, <1>9, <1>11, <1>12, <2>1, ShapeKept
<1>15. /\ batches' = batches /\ batch'[w] = batch[w] /\ Active(w)' = Active(w)
       /\ Batch(w)' = Batch(w) /\ Marks(w)' = Marks(w) /\ Events' = Events
  BY <1>9, ExecutesFacts
<1>16. \A e : Has(Visible(w), e) => Has(Visible(w)', e)
  BY <1>9, ExecutesFacts
<1>17. Placed(w)'
  <2>1. item[w] \in DOMAIN Marks(w) /\ batch[w] \in 1..(Len(batches[w]) + 1)
    BY <1>1 DEF TxInv, Sound, Placed
  <2>2. DOMAIN Marks(w) = 1..Len(Marks(w)) /\ Len(Marks(w)) \in Nat
    BY <1>1, <1>2, MarksAre
  <2>3. at'[w] = "mark" => item'[w] \in DOMAIN Marks(w)
    BY <1>10, <2>1, <2>2
  <2> QED  BY <1>1, <1>10, <1>15, <2>1, <2>3 DEF Placed
<1>18. RowsOK(mine[w])'
  BY <1>9, ExecutesFacts
<1>19. Keyed(w)'
  BY <1>9, <1>10, <1>13, KeyedKept
<1>20. Projected(w)'
  BY <1>1, <1>9, ProjectedKept
<1>21. InOrder(Visible(w))' /\ Counted(w)' /\ Judged(w)'
  BY <1>9, <1>13, InOrderKept, CountedKept, JudgedKept
<1>22. Priced(w)'
  BY <1>1, <1>9, <1>10, <1>13, PricedKept
<1>23. Marked(w)'
  <2>1. /\ DOMAIN mine'[w] = DOMAIN new \cup DOMAIN mine[w]
        /\ \A r \in DOMAIN new : mine'[w][r] = new[r]
        /\ \A r \in DOMAIN mine[w] \ DOMAIN new : mine'[w][r] = mine[w][r]
    BY <1>9, MineAfter
  <2>2. Marked(w)
    BY DEF TxInv, Sound
  <2>3. db' = db
    BY <1>9 DEF Executes
  <2>4. ASSUME row \in DOMAIN db PROVE db[row] <= x
    <3>1. CASE row \in DOMAIN mine[w]
      <4>1. db[row] <= mine[w][row]
        BY <2>2, <2>4, <3>1 DEF Marked, row
      <4>2. old = mine[w][row]
        BY <3>1, VisibleOK
      <4>3. db[row] \in Nat
        BY <1>5, <2>4, VisibleOK DEF RowsOK
      <4> QED  BY <1>6, <1>7, <4>1, <4>2, <4>3
    <3>2. CASE row \notin DOMAIN mine[w]
      <4>1. old = db[row]
        BY <2>4, <3>2, VisibleOK
      <4> QED  BY <1>7, <4>1
    <3> QED  BY <3>1, <3>2
  <2>5. ASSUME NEW f \in Events, f.topic = topic, f.offset <= x PROVE Has(Visible(w), f)
    <3>1. CASE x = LastOffset(w, topic)
      BY <1>4, <2>5, <3>1
    <3>2. CASE x = old /\ x # LastOffset(w, topic)
      <4>0. x # 0
        BY <1>4, <1>7, <3>2
      <4>1. row \in DOMAIN Visible(w) /\ old = Visible(w)[row]
        BY <3>2, <4>0
      <4>2. CASE row \in DOMAIN mine[w]
        <5>1. old = mine[w][row]
          BY <4>1, <4>2, VisibleOK
        <5> QED  BY <2>2, <2>5, <3>2, <4>2, <5>1 DEF Marked, row
      <4>3. CASE row \notin DOMAIN mine[w]
        <5>1. row \in DOMAIN db /\ old = db[row]
          BY <4>1, <4>3, VisibleOK
        <5>2. Has(db, f)
          BY <2>5, <3>2, <5>1 DEF TxInv, Stored, row
        <5> QED  BY <5>2, VisibleOK DEF Has
      <4> QED  BY <4>2, <4>3
    <3> QED  BY <1>7, <3>1, <3>2
  <2>6. ASSUME NEW t, <<"watermark", t>> \in DOMAIN mine'[w]
        PROVE  /\ <<"watermark", t>> \in DOMAIN db =>
                    db[<<"watermark", t>>] <= mine'[w][<<"watermark", t>>]
               /\ \A e \in Events : e.topic = t /\ e.offset <= mine'[w][<<"watermark", t>>] =>
                    Has(Visible(w)', e)
    <3>1. CASE t = topic
      <4>1. <<"watermark", t>> = row /\ mine'[w][row] = x
        BY <1>11, <2>1, <3>1 DEF row
      <4> QED  BY <1>16, <2>4, <2>5, <3>1, <4>1
    <3>2. CASE t # topic
      <4>1. <<"watermark", t>> # row
        BY <3>2 DEF row
      <4>2. <<"watermark", t>> \in DOMAIN mine[w]
            /\ mine'[w][<<"watermark", t>>] = mine[w][<<"watermark", t>>]
        BY <1>11, <2>1, <2>6, <4>1
      <4> QED  BY <1>16, <2>2, <4>2 DEF Marked
    <3> QED  BY <3>1, <3>2
  <2> QED  BY <1>15, <2>3, <2>6 DEF Marked, Has
<1> QED  BY <1>14, <1>17, <1>18, <1>19, <1>20, <1>21, <1>22, <1>23, AllParts

--------------------------------------------------------------------------------
(* The end of a transaction.                                                    *)

(* A commit, answered or not: what is behind the worker is committed.           *)
LEMMA CommitParts ==
  ASSUME TxInv, NEW w \in Workers, At(w, "commit"), Committed(w), Goto(w, "key", 1),
         NEW b \in {batch[w], batch[w] + 1}, batch' = [batch EXCEPT ![w] = b],
         NEW x \in Nat, seen' = [seen EXCEPT ![w] = x], faults' \in 0..MaxFaults
  PROVE  TxInv' /\ Commits(w)
<1>1. Active(w) /\ at[w] = "commit" /\ batches' = batches /\ db' = Visible(w)
  BY DEF At, Committed
<1>2. Shape
  BY DEF TxInv
<1>3. /\ mine'[w] = <<>> /\ at'[w] = "key" /\ item'[w] = 1 /\ batch'[w] = b /\ seen'[w] = x
  BY <1>2 DEF Shape, Committed, Goto
<1>4. Alone(w)
  BY <1>1, <1>2, <1>3 DEF Alone, Shape, Committed, Goto
<1>5. Commits(w)
  BY <1>1, <1>3, <1>4 DEF Commits
<1>6. Stored'
  BY <1>5, StoredAfterCommit
<1>7. \A v \in Workers \ {w} : Sound(v)'
  BY <1>5, SoundAfterCommit
<1>8. /\ Len(batches[w]) \in Nat /\ DOMAIN batches[w] = 1..Len(batches[w])
      /\ batch[w] \in DOMAIN batches[w]
  BY <1>1, <1>2, PlanFacts DEF Shape, Active
<1>9. Sound(w)'
  <2>1. Projected(w)
    BY DEF TxInv, Sound
  <2>2. ASSUME NEW c \in 1..(b - 1), NEW i \in DOMAIN batches[w][c]
        PROVE  Has(Visible(w), batches[w][c][i])
    <3>1. CASE c < batch[w]
      <4>1. c \in 1..(batch[w] - 1)
        BY <1>8, <3>1
      <4>2. Has(db, batches[w][c][i])
        BY <2>1, <4>1 DEF Projected
      <4> QED  BY <4>2, VisibleOK DEF Has
    <3>2. CASE c = batch[w]
      <4>1. i \in DOMAIN Batch(w) /\ Batch(w)[i] = batches[w][c][i]
        BY <3>2 DEF Batch
      <4>2. Has(Visible(w), Batch(w)[i])
        BY <1>1, <2>1, <4>1 DEF Projected
      <4> QED  BY <4>1, <4>2
    <3> QED  BY <1>8, <3>1, <3>2
  <2>3. \A c \in 1..(batch'[w] - 1) : \A i \in DOMAIN batches'[w][c] :
          Has(db', batches'[w][c][i])
    BY <1>1, <1>3, <2>2
  <2>4. batches' \in Plans /\ batch'[w] \in 1..(Len(batches'[w]) + 1)
    BY <1>1, <1>2, <1>3, <1>8 DEF Shape
  <2> QED  BY <1>3, <1>6, <2>3, <2>4, SoundAtFirst
<1>10. queue' \in Seq(Workers) /\ IsInjective(queue')
  BY <1>2, QueueLeft DEF At, Shape
<1>11. \A u, v \in Workers : u # v => DOMAIN mine'[u] \cap DOMAIN mine'[v] = {}
  <2>1. DOMAIN mine'[w] = {}
    BY <1>3
  <2>2. \A v \in Workers \ {w} : mine'[v] = mine[v]
    BY <1>2, <1>4 DEF Alone, Shape
  <2> QED  BY <1>2, <2>1, <2>2 DEF Shape
<1>12. Shape'
  <2>1. /\ mine' = [v \in Workers |-> mine'[v]] /\ batch' = [v \in Workers |-> batch'[v]]
        /\ item' = [v \in Workers |-> item'[v]]
        /\ at' \in [Workers -> Statements] /\ seen' \in [Workers -> Nat]
    BY <1>2 DEF Shape, Committed, Goto, Statements
  <2> QED  BY <1>1, <1>2, <1>10, <1>11, <2>1 DEF Shape
<1> QED  BY <1>5, <1>6, <1>7, <1>9, <1>12 DEF TxInv

(* An answered commit.                                                          *)
LEMMA CommitStep ==
  ASSUME TxInv, NEW w \in Workers, Commit(w) PROVE TxInv' /\ Commits(w)
<1>1. /\ At(w, "commit") /\ Committed(w) /\ Goto(w, "key", 1)
      /\ batch' = [batch EXCEPT ![w] = batch[w] + 1] /\ seen' = seen /\ faults' = faults
  BY DEF Commit, TxInv, Shape
<1>2. seen' = [seen EXCEPT ![w] = seen[w]] /\ seen[w] \in Nat /\ faults' \in 0..MaxFaults
  BY <1>1 DEF TxInv, Shape
<1> QED  BY <1>1, <1>2, CommitParts

(* One whose answer is lost: the worker projects the batch again, which is      *)
(* there.                                                                       *)
LEMMA CommitUnansweredStep ==
  ASSUME TxInv, NEW w \in Workers, CommitUnanswered(w) PROVE TxInv' /\ Commits(w)
<1>1. /\ At(w, "commit") /\ Committed(w) /\ Goto(w, "key", 1)
      /\ batch' = batch /\ seen' = [seen EXCEPT ![w] = 0]
      /\ faults < MaxFaults /\ faults' = faults + 1
  BY DEF CommitUnanswered, BeginAgain
<1>2. batch' = [batch EXCEPT ![w] = batch[w]]
  BY <1>1 DEF TxInv, Shape
<1>3. faults' \in 0..MaxFaults
  BY <1>1, TransactionsAssumption DEF TxInv, Shape
<1> QED  BY <1>1, <1>2, <1>3, CommitParts

(* A transaction that is rolled back leaves nothing.                            *)
LEMMA RolledBack ==
  ASSUME TxInv, NEW w \in Workers, mine' = [mine EXCEPT ![w] = <<>>],
         queue' = RemoveFirst(queue, w), BeginAgain(w), db' = db, faults' \in 0..MaxFaults
  PROVE  TxInv'
<1>1. Shape
  BY DEF TxInv
<1>2. /\ batches' = batches /\ batch' = batch
      /\ mine'[w] = <<>> /\ at'[w] = "key" /\ item'[w] = 1
  BY <1>1 DEF Shape, BeginAgain, Goto
<1>3. Alone(w)
  BY <1>1 DEF Alone, Shape, BeginAgain, Goto
<1>4. Stored'
  BY <1>2, StoredStays DEF TxInv
<1>5. \A v \in Workers \ {w} : Sound(v)'
  BY <1>3, SoundOfOthers
<1>6. Sound(w)'
  <2>1. /\ batch[w] \in 1..(Len(batches[w]) + 1)
        /\ \A b \in 1..(batch[w] - 1) : \A i \in DOMAIN batches[w][b] :
             Has(db, batches[w][b][i])
    BY DEF TxInv, Sound, Placed, Projected
  <2>2. batches' \in Plans
    BY <1>1, <1>2 DEF Shape
  <2> QED  BY <1>2, <1>4, <2>1, <2>2, SoundAtFirst
<1>7. queue' \in Seq(Workers) /\ IsInjective(queue')
  BY <1>1, QueueLeft DEF Shape
<1>8. \A u, v \in Workers : u # v => DOMAIN mine'[u] \cap DOMAIN mine'[v] = {}
  <2>1. DOMAIN mine'[w] = {}
    BY <1>2
  <2>2. \A v \in Workers \ {w} : mine'[v] = mine[v]
    BY <1>1, <1>3 DEF Alone, Shape
  <2> QED  BY <1>1, <2>1, <2>2 DEF Shape
<1>9. Shape'
  <2>1. /\ mine' = [v \in Workers |-> mine'[v]] /\ batch' = [v \in Workers |-> batch'[v]]
        /\ item' = [v \in Workers |-> item'[v]]
        /\ at' \in [Workers -> Statements] /\ seen' \in [Workers -> Nat]
    BY <1>1, <1>2 DEF Shape, BeginAgain, Goto, Statements
  <2> QED  BY <1>1, <1>2, <1>7, <1>8, <2>1 DEF Shape
<1> QED  BY <1>4, <1>5, <1>6, <1>9 DEF TxInv

(* A statement that waits has not run.                                          *)
LEMMA WaitStep ==
  ASSUME TxInv, NEW w \in Workers, Wait(w) PROVE TxInv'
<1>1. /\ ~Contains(queue, w) /\ queue' = Append(queue, w)
      /\ UNCHANGED <<batches, db, mine, batch, item, at, seen, faults>>
  BY DEF Wait, Waiting
<1>2. queue' \in Seq(Workers) /\ IsInjective(queue')
  BY <1>1, QueueJoined DEF TxInv, Shape
<1>3. Shape'
  BY <1>1, <1>2 DEF TxInv, Shape
<1>4. Stored'
  BY <1>1, StoredStays DEF TxInv
<1>5. \A v \in Workers : Sound(v)'
  BY <1>1, SoundStays DEF TxInv
<1> QED  BY <1>3, <1>4, <1>5 DEF TxInv

(* Nothing happens.                                                             *)
LEMMA TxStutter == ASSUME TxInv, UNCHANGED vars PROVE TxInv'
<1>1. Shape'
  BY DEF TxInv, Shape, vars
<1>2. Stored'
  BY StoredStays DEF TxInv, vars
<1>3. \A v \in Workers : Sound(v)'
  BY SoundStays DEF TxInv, vars
<1> QED  BY <1>1, <1>2, <1>3 DEF TxInv

--------------------------------------------------------------------------------
(* The whole system.                                                            *)

(* The invariant holds at first: there are rows of calls only.                  *)
LEMMA TxInvInit == ASSUME Init PROVE TxInv
<1>1. /\ batches \in Plans /\ db = [r \in {"call"} \X Known |-> "CALL_STARTED"]
      /\ mine  = [w \in Workers |-> <<>>] /\ batch = [w \in Workers |-> 1]
      /\ item  = [w \in Workers |-> 1] /\ at = [w \in Workers |-> "key"]
      /\ seen  = [w \in Workers |-> 0] /\ queue = <<>> /\ faults = 0
  BY DEF Init
<1>2. ASSUME NEW r \in DOMAIN db
      PROVE  r[1] = "call" /\ r = <<r[1], r[2]>> /\ db[r] = "CALL_STARTED"
  BY <1>1
<1>3. \A tag, id : <<tag, id>>[1] = tag
  OBVIOUS
<1>4. RowsOK(db)
  <2>1. {r \in DOMAIN db : r[1] = "record"} = {}
    BY <1>2
  <2>2. db = [r \in DOMAIN db |-> db[r]]
    BY <1>1
  <2> QED  BY <1>2, <2>1, <2>2, FS_EmptySet DEF RowsOK, Tables
<1>5. Stored
  <2>1. \A tag, id : <<tag, id>> \in DOMAIN db => tag = "call"
    BY <1>2, <1>3
  <2>2. \A c : <<"call", c>> \in DOMAIN db => db[<<"call", c>>] # "CALL_FAILED"
    BY <1>2
  <2>3. InOrder(db)
    BY <2>1 DEF InOrder, Has
  <2> QED  BY <1>2, <1>4, <2>1, <2>2, <2>3 DEF Stored
<1>6. ASSUME NEW w \in Workers PROVE Sound(w)
  <2>1. /\ Len(batches[w]) \in Nat /\ mine[w] = <<>> /\ at[w] = "key" /\ item[w] = 1
        /\ batch[w] = 1
    BY <1>1, PlanFacts
  <2>2. First(w)
    BY <1>1, <1>5, <2>1 DEF First
  <2> QED  BY <2>2, FirstIsSound DEF BeginsSound
<1>7. Shape
  <2>1. queue \in Seq(Workers) /\ IsInjective(queue)
    BY <1>1 DEF IsInjective
  <2>2. faults \in 0..MaxFaults
    BY <1>1, TransactionsAssumption
  <2>3. \A w \in Workers : DOMAIN mine[w] = {}
    BY <1>1
  <2> QED  BY <1>1, <2>1, <2>2, <2>3 DEF Shape, Statements
<1> QED  BY <1>5, <1>6, <1>7 DEF TxInv

(* Every step keeps it, and only a commit changes the rows.                     *)
LEMMA TxInvStep ==
  ASSUME TxInv, [Next]_vars
  PROVE  TxInv' /\ (db' = db \/ \E w \in Workers : Commits(w))
<1>1. CASE UNCHANGED vars
  BY <1>1, TxStutter DEF vars
<1>2. CASE Next
  <2>1. ASSUME NEW w \in Workers, Statement(w)
        PROVE  TxInv' /\ (db' = db \/ Commits(w))
    <3>1. CASE InsertKey(w)
      BY <3>1, KeyThere, KeyNew DEF InsertKey, Keep
    <3>2. CASE UpdateCall(w)
      BY <3>2, UpdateCallStep DEF UpdateCall, Keep
    <3>3. CASE AddUsage(w)
      BY <3>3, AddUsageStep DEF AddUsage, Keep
    <3>4. CASE UpsertManifest(w)
      BY <3>4, UpsertManifestStep DEF UpsertManifest, Keep
    <3>5. CASE InsertBill(w)
      BY <3>5, InsertBillStep DEF InsertBill, Keep
    <3>6. CASE CloseBill(w)
      BY <3>6, CloseBillStep DEF CloseBill, Keep
    <3>7. CASE SumRecords(w)
      BY <3>7, SumRecordsStep DEF SumRecords, Keep
    <3>8. CASE WriteCost(w)
      BY <3>8, WriteCostStep DEF WriteCost, Keep
    <3>9. CASE MarkTopic(w)
      BY <3>9, MarkTopicStep DEF MarkTopic, Keep
    <3>10. CASE Commit(w)
      BY <3>10, CommitStep
    <3> QED  BY <2>1, <3>1, <3>2, <3>3, <3>4, <3>5, <3>6, <3>7, <3>8, <3>9, <3>10 DEF Statement
  <2>2. ASSUME NEW w \in Workers, Wait(w) PROVE TxInv' /\ db' = db
    BY <2>2, WaitStep DEF Wait
  <2>3. ASSUME NEW w \in Workers, DeadlockDetected(w) PROVE TxInv' /\ db' = db
    <3>1. /\ mine' = [mine EXCEPT ![w] = <<>>] /\ queue' = RemoveFirst(queue, w)
          /\ BeginAgain(w) /\ db' = db /\ faults' \in 0..MaxFaults
      BY <2>3 DEF DeadlockDetected, TxInv, Shape
    <3> QED  BY <3>1, RolledBack
  <2>4. ASSUME NEW w \in Workers, StatementFails(w) PROVE TxInv' /\ db' = db
    <3>1. /\ mine' = [mine EXCEPT ![w] = <<>>] /\ queue' = RemoveFirst(queue, w)
          /\ BeginAgain(w) /\ db' = db /\ faults < MaxFaults /\ faults' = faults + 1
      BY <2>4 DEF StatementFails
    <3>2. faults' \in 0..MaxFaults
      BY <3>1, TransactionsAssumption DEF TxInv, Shape
    <3> QED  BY <3>1, <3>2, RolledBack
  <2>5. ASSUME NEW w \in Workers, CommitUnanswered(w) PROVE TxInv' /\ Commits(w)
    BY <2>5, CommitUnansweredStep
  <2>6. CASE Idle
    BY <2>6, TxStutter DEF Idle, vars
  <2> QED  BY <1>2, <2>1, <2>2, <2>3, <2>4, <2>5, <2>6 DEF Next
<1> QED  BY <1>1, <1>2

(* Of several workers that project batches in transactions of READ COMMITTED    *)
(* isolation (Projector.project_batch), each holds what TxInv says of it, and   *)
(* so do the committed rows.                                                    *)
THEOREM TransactionsInvariant == Spec => []TxInv
<1>1. Init => TxInv
  BY TxInvInit
<1>2. TxInv /\ [Next]_vars => TxInv'
  BY TxInvStep
<1> QED  BY <1>1, <1>2, PTL DEF Spec

(* No row has two writers (the row locks), and a watermark says that every      *)
(* event up to it is projected, whoever has projected it.                       *)
THEOREM TransactionsAreSound == Spec => []Inv
<1>1. TxInv => Inv
  <2> SUFFICES ASSUME TxInv PROVE Inv
    OBVIOUS
  <2>2. TypeOK
    <3>1. \A r \in DOMAIN db : r[1] \in Tables
      BY DEF TxInv, Stored, RowsOK
    <3>2. ASSUME NEW w \in Workers
          PROVE  /\ batch[w] \in 1..(Len(batches[w]) + 1) /\ at[w] \in Statements
                 /\ seen[w] \in Nat
                 /\ ~Active(w) => mine[w] = <<>>
      BY DEF TxInv, Sound, Placed, Shape
    <3>3. IsInjective(queue) /\ ToSet(queue) \subseteq Workers
      BY DEF TxInv, Shape, ToSet
    <3>4. /\ faults \in 0..MaxFaults
          /\ \A w, v \in Workers : w # v => DOMAIN mine[w] \cap DOMAIN mine[v] = {}
      BY DEF TxInv, Shape
    <3>5. \A r \in DOMAIN db : r[1] \in {"key", "call", "record", "rollup", "bill", "manifest",
                                        "watermark"}
      BY <3>1 DEF Tables
    <3>6. \A w \in Workers :
            /\ batch[w] \in 1..(Len(batches[w]) + 1)
            /\ at[w] \in {"key", "call", "rollup", "manifest", "insert", "close", "sum", "cost",
                          "mark", "commit"}
            /\ seen[w] \in Nat
            /\ ~Active(w) => mine[w] = <<>>
      BY <3>2 DEF Statements
    <3> QED  BY <3>3, <3>4, <3>5, <3>6 DEF TypeOK
  <2>3. WatermarkMeansProjected
    <3>1. ASSUME NEW e \in Events, <<"watermark", e.topic>> \in DOMAIN db,
                 db[<<"watermark", e.topic>>] >= e.offset
          PROVE  <<"key", e.key>> \in DOMAIN db
      <4>1. <<"watermark", e.topic>>[1] = "watermark"
        OBVIOUS
      <4>2. db[<<"watermark", e.topic>>] \in Nat
        BY <3>1, <4>1 DEF TxInv, Stored, RowsOK
      <4>3. e.offset \in Nat
        BY EventFacts DEF TxInv, Shape
      <4>4. e.offset <= db[<<"watermark", e.topic>>]
        BY <3>1, <4>2, <4>3
      <4> QED  BY <3>1, <4>4 DEF TxInv, Stored, Has
    <3> QED  BY <3>1 DEF WatermarkMeansProjected
  <2> QED  BY <2>2, <2>3 DEF Inv
<1> QED  BY <1>1, TransactionsInvariant, PTL

(* No increment of a rollup is lost or made twice, and the cost of a bill,      *)
(* recomputed by a statement that read before it waited, is the sum of the same *)
(* records: of every call, however many workers project it.                     *)
THEOREM TransactionsSum == Spec => []SumsAreRight
<1>1. TxInv => SumsAreRight
  <2> SUFFICES ASSUME TxInv PROVE SumsAreRight
    OBVIOUS
  <2>2. ASSUME NEW c
        PROVE  SumOf(db, c) = IF <<"rollup", c>> \in DOMAIN db THEN db[<<"rollup", c>>] ELSE 0
    <3>1. CASE <<"rollup", c>> \in DOMAIN db
      BY <3>1 DEF TxInv, Stored
    <3>2. CASE <<"rollup", c>> \notin DOMAIN db
      <4>1. Records(db, c) = {} /\ RowsOK(db)
        BY <3>2 DEF TxInv, Stored, Records
      <4> QED  BY <3>2, <4>1, SumNone
    <3> QED  BY <3>1, <3>2
  <2>3. CountedOnce
    BY <2>2 DEF CountedOnce
  <2>4. CostIsSum
    BY DEF TxInv, Stored, CostIsSum
  <2> QED  BY <2>3, <2>4 DEF SumsAreRight
<1> QED  BY <1>1, TransactionsInvariant, PTL

(* What a commit leaves of a verdict and of a watermark.                        *)
LEMMA CommitNeverGoesBack ==
  ASSUME TxInv, NEW w \in Workers, Commits(w)
  PROVE  /\ \A c : <<"call", c>> \in DOMAIN db /\ db[<<"call", c>>] = "CALL_FAILED" =>
              db'[<<"call", c>>] = "CALL_FAILED"
         /\ \A t : <<"watermark", t>> \in DOMAIN db =>
              db'[<<"watermark", t>>] >= db[<<"watermark", t>>]
<1>1. /\ DOMAIN Visible(w) = DOMAIN mine[w] \cup DOMAIN db
      /\ \A r \in DOMAIN mine[w] : Visible(w)[r] = mine[w][r]
      /\ \A r \in DOMAIN db \ DOMAIN mine[w] : Visible(w)[r] = db[r]
      /\ RowsOK(mine[w]) /\ RowsOK(db)
  BY VisibleOK
<1>2. db' = Visible(w)
  BY DEF Commits
<1>3. Judged(w) /\ Marked(w)
  BY DEF TxInv, Sound
<1>4. ASSUME NEW c, <<"call", c>> \in DOMAIN db, db[<<"call", c>>] = "CALL_FAILED"
      PROVE  db'[<<"call", c>>] = "CALL_FAILED"
  <2>1. CASE <<"call", c>> \in DOMAIN mine[w]
    BY <1>1, <1>2, <1>3, <1>4, <2>1 DEF Judged
  <2>2. CASE <<"call", c>> \notin DOMAIN mine[w]
    BY <1>1, <1>2, <1>4, <2>2
  <2> QED  BY <2>1, <2>2
<1>5. ASSUME NEW t, <<"watermark", t>> \in DOMAIN db
      PROVE  db'[<<"watermark", t>>] >= db[<<"watermark", t>>]
  <2>0. <<"watermark", t>>[1] = "watermark"
    OBVIOUS
  <2>1. db[<<"watermark", t>>] \in Nat
    BY <1>1, <1>5, <2>0 DEF RowsOK
  <2>2. CASE <<"watermark", t>> \in DOMAIN mine[w]
    <3>1. mine[w][<<"watermark", t>>] \in Nat
      BY <1>1, <2>0, <2>2 DEF RowsOK
    <3>2. db[<<"watermark", t>>] <= mine[w][<<"watermark", t>>]
      BY <1>3, <1>5, <2>2 DEF Marked
    <3>3. db'[<<"watermark", t>>] = mine[w][<<"watermark", t>>]
      BY <1>1, <1>2, <2>2
    <3> QED  BY <2>1, <3>1, <3>2, <3>3
  <2>3. CASE <<"watermark", t>> \notin DOMAIN mine[w]
    <3>1. db'[<<"watermark", t>>] = db[<<"watermark", t>>]
      BY <1>1, <1>2, <1>5, <2>3
    <3> QED  BY <2>1, <3>1
  <2> QED  BY <2>2, <2>3
<1> QED  BY <1>4, <1>5

(* A transaction that commits late takes back neither the verdict that a call   *)
(* failed nor a watermark.                                                      *)
THEOREM TransactionsNeverGoBack == Spec => NeverGoesBack
<1> DEFINE Final == \A c \in CallIds :
                      LET row == <<"call", c>>
                      IN  row \in DOMAIN db /\ db[row] = "CALL_FAILED" =>
                            db'[row] = "CALL_FAILED"
           Advances == \A t \in TopicIds :
                         LET row == <<"watermark", t>>
                         IN  row \in DOMAIN db => db'[row] >= db[row]
<1>1. TxInv /\ [Next]_vars => [Final]_vars /\ [Advances]_vars
  <2> SUFFICES ASSUME TxInv, [Next]_vars PROVE Final /\ Advances
    OBVIOUS
  <2>2. CASE db' = db
    <3>1. \A t : <<"watermark", t>> \in DOMAIN db => db[<<"watermark", t>>] \in Nat
      <4>1. \A t : <<"watermark", t>>[1] = "watermark"
        OBVIOUS
      <4> QED  BY <4>1 DEF TxInv, Stored, RowsOK
    <3> QED  BY <2>2, <3>1
  <2>3. CASE \E w \in Workers : Commits(w)
    BY <2>3, CommitNeverGoesBack
  <2> QED  BY <2>2, <2>3, TxInvStep
<1>2. Spec => [][Final]_vars /\ [][Advances]_vars
  <2> HIDE DEF Final, Advances
  <2> QED  BY <1>1, TransactionsInvariant, PTL DEF Spec
<1> QED  BY <1>2 DEF NeverGoesBack, FailedIsFinal, WatermarkAdvances
================================================================================
