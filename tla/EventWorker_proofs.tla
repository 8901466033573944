--------------------------- MODULE EventWorker_proofs ---------------------------
(* Proofs about the event worker, for any topics, any scripts and any number of  *)
(* failures: offsets are committed only past events that are in Postgres, what   *)
(* follows from an event is started before its record is committed, a usage      *)
(* manifest in Postgres has all its usage there, and the rollup and the cost are *)
(* the ledger of the events that are stored.                                     *)
(*                                                                               *)
(* The first parts are about the loops: what a poll puts together from the       *)
(* topics, and what a transaction makes of the rows and of its result. The last  *)
(* ones are about sums, and that the worker implements UsageLedger.              *)
EXTENDS EventWorker, FiniteSetTheorems, SequenceTheorems, WellFoundedInduction, TLAPS

(* A set of numbers that has 0 and with each number the next has them all.       *)
LEMMA NatSetInduction ==
  ASSUME NEW S, 0 \in S, \A n \in Nat : n \in S => n + 1 \in S
  PROVE  \A n \in Nat : n \in S
<1>1. SUFFICES ASSUME Nat \ S # {} PROVE FALSE
  OBVIOUS
<1>2. IsWellFoundedOn(OpToRel(<, Nat), Nat)
  BY NatLessThanWellFounded
<1>3. \E m \in Nat \ S : \A k \in Nat \ S : ~ (<<k, m>> \in OpToRel(<, Nat))
  BY <1>1, <1>2, WFMin
<1>4. \E m \in Nat : m \notin S /\ \A k \in Nat : k < m => k \in S
  BY <1>3 DEF OpToRel
<1>5. PICK m \in Nat : m \notin S /\ \A k \in Nat : k < m => k \in S
  BY <1>4
<1>6. m # 0
  BY <1>5
<1>7. m - 1 \in Nat /\ m - 1 < m /\ (m - 1) + 1 = m
  BY <1>5, <1>6
<1> QED  BY <1>5, <1>7

(* The greatest of the numbers up to k + 1 is k + 1, if it is among them.       *)
LEMMA MaxIs ==
  ASSUME NEW k \in Nat, NEW s \in SUBSET (1..(k + 1)), k + 1 \in s
  PROVE  Max(s) = k + 1 /\ s \ {Max(s)} \in SUBSET (1..k)
<1>1. \A y \in s : k + 1 >= y
  OBVIOUS
<1>2. \A x \in s : (\A y \in s : x >= y) => x = k + 1
  OBVIOUS
<1>3. Max(s) = k + 1
  BY <1>1, <1>2 DEF Max
<1> QED  BY <1>3

(* A set of positive numbers with a bound has its greatest one.                  *)
LEMMA MaxAmong ==
  ASSUME NEW n \in Nat, NEW s \in SUBSET (1..n), s # {}
  PROVE  Max(s) \in s /\ \A y \in s : Max(s) >= y
<1> DEFINE Has(k) == \A t \in SUBSET (1..k) : t # {} => \E x \in t : \A y \in t : x >= y
           S == {k \in Nat : Has(k)}
<1>1. 0 \in S
  <2>1. 1..0 = {}
    OBVIOUS
  <2> QED  BY <2>1
<1>2. ASSUME NEW k \in Nat, k \in S PROVE k + 1 \in S
  <2>1. SUFFICES ASSUME NEW t \in SUBSET (1..(k + 1)), t # {}
                 PROVE  \E x \in t : \A y \in t : x >= y
    OBVIOUS
  <2>2. CASE k + 1 \in t
    BY <2>2
  <2>3. CASE k + 1 \notin t
    <3>1. t \in SUBSET (1..k)
      BY <2>3
    <3> QED  BY <1>2, <2>1, <3>1
  <2> QED  BY <2>2, <2>3
<1>3. Has(n)
  <2> HIDE DEF Has
  <2>1. \A k \in Nat : k \in S
    BY <1>1, <1>2, NatSetInduction
  <2> QED  BY <2>1
<1>4. \E x \in s : \A y \in s : x >= y
  BY <1>3
<1> QED  BY <1>4 DEF Max

--------------------------------------------------------------------------------
(* The loop of FlattenSeq.                                                       *)
FlattenStep(seqs, g, i) == IF i = 1 THEN seqs[i] ELSE g[i - 1] \o seqs[i]

FlattenLoop(seqs) == CHOOSE g : g = [i \in 1..Len(seqs) |-> FlattenStep(seqs, g, i)]

(* It is met by a function.                                                      *)
LEMMA FlattenLoopDef ==
  ASSUME NEW seqs, Len(seqs) \in Nat
  PROVE  \A i \in 1..Len(seqs) :
           FlattenLoop(seqs)[i] = FlattenStep(seqs, FlattenLoop(seqs), i)
<1> DEFINE Has(k) == \E g : g = [i \in 1..k |-> FlattenStep(seqs, g, i)]
           S == {k \in Nat : Has(k)}
<1>1. 0 \in S
  <2> DEFINE g0 == [i \in 1..0 |-> <<>>]
  <2>1. g0 = [i \in 1..0 |-> FlattenStep(seqs, g0, i)]
    OBVIOUS
  <2> QED  BY <2>1
<1>2. ASSUME NEW k \in Nat, k \in S PROVE k + 1 \in S
  <2>1. PICK g : g = [i \in 1..k |-> FlattenStep(seqs, g, i)]
    BY <1>2
  <2> DEFINE h == [i \in 1..(k + 1) |-> IF i \in 1..k THEN g[i] ELSE FlattenStep(seqs, g, i)]
             hh == [i \in 1..(k + 1) |-> FlattenStep(seqs, h, i)]
  <2>2. \A i \in 1..(k + 1) : i = 1 \/ (i - 1 \in 1..k /\ i - 1 \in 1..(k + 1))
    OBVIOUS
  <2>3. \A i \in 1..(k + 1) : i = 1 \/ h[i - 1] = g[i - 1]
    BY <2>2
  <2>4. \A i \in 1..k : g[i] = FlattenStep(seqs, g, i)
    <3> DEFINE gg == [i \in 1..k |-> FlattenStep(seqs, g, i)]
    <3>1. \A i \in 1..k : gg[i] = FlattenStep(seqs, g, i)
      OBVIOUS
    <3> QED  BY <2>1, <3>1
  <2>5. \A i \in 1..(k + 1) : h[i] = FlattenStep(seqs, g, i)
    BY <2>4
  <2>6. h = [i \in 1..(k + 1) |-> h[i]]
    OBVIOUS
  <2> HIDE DEF h
  <2>7. \A i \in 1..(k + 1) : h[i] = FlattenStep(seqs, h, i)
    BY <2>3, <2>5 DEF FlattenStep
  <2>8. h = [i \in 1..(k + 1) |-> FlattenStep(seqs, h, i)]
    BY <2>6, <2>7
  <2> QED  BY <2>8
<1>3. Has(Len(seqs))
  <2> HIDE DEF Has
  <2>1. \A k \in Nat : k \in S
    BY <1>1, <1>2, NatSetInduction
  <2> QED  BY <2>1
<1> DEFINE f == FlattenLoop(seqs)
           ff == [i \in 1..Len(seqs) |-> FlattenStep(seqs, f, i)]
<1>4. f = ff
  BY <1>3 DEF FlattenLoop
<1>5. \A i \in 1..Len(seqs) : ff[i] = FlattenStep(seqs, f, i)
  OBVIOUS
<1> QED  BY <1>4, <1>5

(* A flat sequence has the elements of the first k sequences, each of them with *)
(* what precedes it in its own.                                                 *)
Flat(seqs, k, f) ==
  /\ \A i \in 1..Len(f) : \E n \in 1..k : \E m \in 1..Len(seqs[n]) :
       /\ f[i] = seqs[n][m]
       /\ \A q \in 1..(m - 1) : \E j \in 1..(i - 1) : f[j] = seqs[n][q]
  /\ \A n \in 1..k : \A m \in 1..Len(seqs[n]) : \E i \in 1..Len(f) : f[i] = seqs[n][m]

(* One sequence more.                                                           *)
LEMMA FlatMore ==
  ASSUME NEW S, NEW seqs, NEW k \in Nat, NEW f \in Seq(S), Flat(seqs, k, f),
         seqs[k + 1] \in Seq(S)
  PROVE  f \o seqs[k + 1] \in Seq(S) /\ Flat(seqs, k + 1, f \o seqs[k + 1])
<1> DEFINE s == seqs[k + 1]
           g == f \o s
<1>1. /\ g \in Seq(S) /\ Len(g) = Len(f) + Len(s)
      /\ \A i \in 1..(Len(f) + Len(s)) : g[i] = IF i <= Len(f) THEN f[i] ELSE s[i - Len(f)]
  BY ConcatProperties
<1>2. Len(f) \in Nat /\ Len(s) \in Nat
  OBVIOUS
<1> HIDE DEF g
<1>3. \A i \in 1..Len(f) : g[i] = f[i]
  BY <1>1, <1>2
<1>4. \A m \in 1..Len(s) : Len(f) + m \in 1..Len(g) /\ g[Len(f) + m] = s[m]
  BY <1>1, <1>2
<1>5. ASSUME NEW i \in 1..Len(g)
      PROVE  \E n \in 1..(k + 1) : \E m \in 1..Len(seqs[n]) :
               /\ g[i] = seqs[n][m]
               /\ \A q \in 1..(m - 1) : \E j \in 1..(i - 1) : g[j] = seqs[n][q]
  <2>1. CASE i <= Len(f)
    <3>1. i \in 1..Len(f)
      BY <1>2, <2>1
    <3>0. PICK n \in 1..k : \E m \in 1..Len(seqs[n]) :
            /\ f[i] = seqs[n][m]
            /\ \A q \in 1..(m - 1) : \E j \in 1..(i - 1) : f[j] = seqs[n][q]
      BY <3>1 DEF Flat
    <3>2. PICK m \in 1..Len(seqs[n]) :
            /\ f[i] = seqs[n][m]
            /\ \A q \in 1..(m - 1) : \E j \in 1..(i - 1) : f[j] = seqs[n][q]
      BY <3>0
    <3>3. \A j \in 1..(i - 1) : g[j] = f[j]
      BY <1>2, <1>3, <3>1
    <3>4. n \in 1..(k + 1) /\ g[i] = seqs[n][m]
      BY <1>3, <3>1, <3>2
    <3> QED  BY <3>2, <3>3, <3>4
  <2>2. CASE ~(i <= Len(f))
    <3>1. i - Len(f) \in 1..Len(s) /\ k + 1 \in 1..(k + 1)
      BY <1>1, <1>2, <2>2
    <3>2. g[i] = s[i - Len(f)]
      BY <1>1, <2>2
    <3>3. \A q \in 1..((i - Len(f)) - 1) :
            Len(f) + q \in 1..(i - 1) /\ q \in 1..Len(s) /\ g[Len(f) + q] = s[q]
      BY <1>2, <1>4, <3>1
    <3> QED  BY <3>1, <3>2, <3>3
  <2> QED  BY <2>1, <2>2
<1>6. ASSUME NEW n \in 1..(k + 1), NEW m \in 1..Len(seqs[n])
      PROVE  \E i \in 1..Len(g) : g[i] = seqs[n][m]
  <2>1. CASE n = k + 1
    BY <1>4, <2>1
  <2>2. CASE n # k + 1
    <3>1. n \in 1..k
      BY <2>2
    <3>2. PICK i \in 1..Len(f) : f[i] = seqs[n][m]
      BY <3>1 DEF Flat
    <3>3. i \in 1..Len(g) /\ g[i] = f[i]
      BY <1>1, <1>2, <1>3
    <3> QED  BY <3>2, <3>3
  <2> QED  BY <2>1, <2>2
<1> QED  BY <1>1, <1>5, <1>6 DEF Flat, g

(* What FlattenSeq returns.                                                     *)
LEMMA FlattenIs ==
  ASSUME NEW S, NEW seqs, Len(seqs) \in Nat,
         \A n \in 1..Len(seqs) : seqs[n] \in Seq(S),
         Len(seqs) = 0 => seqs = <<>>
  PROVE  FlattenSeq(seqs) \in Seq(S) /\ Flat(seqs, Len(seqs), FlattenSeq(seqs))
<1> DEFINE f == FlattenLoop(seqs)
           Good(k) == f[k] \in Seq(S) /\ Flat(seqs, k, f[k])
           T == {k \in Nat : k \in 1..Len(seqs) => Good(k)}
<1>1. \A i \in 1..Len(seqs) : f[i] = FlattenStep(seqs, f, i)
  BY FlattenLoopDef
<1> HIDE DEF f
<1>2. 0 \in T
  OBVIOUS
<1>3. ASSUME NEW k \in Nat, k \in T PROVE k + 1 \in T
  <2>1. SUFFICES ASSUME k + 1 \in 1..Len(seqs) PROVE Good(k + 1)
    OBVIOUS
  <2>2. seqs[k + 1] \in Seq(S)
    BY <2>1
  <2>3. CASE k = 0
    <3>1. f[k + 1] = seqs[k + 1]
      BY <1>1, <2>1, <2>3 DEF FlattenStep
    <3>2. Flat(seqs, 1, seqs[1])
      <4>1. \A n \in 1..1 : n = 1
        OBVIOUS
      <4>2. Len(seqs[1]) \in Nat
        BY <2>2, <2>3
      <4> QED  BY <4>1, <4>2 DEF Flat
    <3> QED  BY <2>2, <2>3, <3>1, <3>2
  <2>4. CASE k # 0
    <3>1. k \in 1..Len(seqs) /\ k + 1 # 1 /\ (k + 1) - 1 = k
      BY <2>1, <2>4
    <3>2. f[k + 1] = f[k] \o seqs[k + 1]
      BY <1>1, <2>1, <3>1 DEF FlattenStep
    <3>3. Good(k)
      BY <1>3, <3>1
    <3> QED  BY <2>2, <3>2, <3>3, FlatMore
  <2> QED  BY <2>3, <2>4
<1>4. CASE Len(seqs) = 0
  <2>1. FlattenSeq(seqs) = <<>>
    BY <1>4 DEF FlattenSeq
  <2>2. <<>> \in Seq(S) /\ Len(<<>>) = 0
    OBVIOUS
  <2> QED  BY <1>4, <2>1, <2>2 DEF Flat
<1>5. CASE Len(seqs) # 0
  <2>1. Len(seqs) \in 1..Len(seqs)
    BY <1>5
  <2>2. Good(Len(seqs))
    <3> HIDE DEF Good
    <3>1. \A k \in Nat : k \in T
      BY <1>2, <1>3, NatSetInduction
    <3> QED  BY <2>1, <3>1
  <2>3. FlattenSeq(seqs) = f[Len(seqs)]
    BY <1>5 DEF FlattenSeq, f, FlattenLoop, FlattenStep
  <2> QED  BY <2>2, <2>3
<1> QED  BY <1>4, <1>5

--------------------------------------------------------------------------------
(* The k-th record a poll returns of a topic.                                   *)
Record(t, k) ==
  [topic  |-> t,
   offset |-> consumer.position[t] + k - 1,
   event  |-> log[t][consumer.position[t] + k]]

(* The order the client picks has every topic it has records of.                *)
LEMMA OrderIsWhole ==
  ASSUME NEW T, IsFiniteSet(T), NEW order \in SetToSeqs(T)
  PROVE  /\ Len(order) \in Nat /\ order \in [1..Len(order) -> T]
         /\ (Len(order) = 0 => order = <<>>)
         /\ \A t \in T : \E n \in 1..Len(order) : order[n] = t
<1> DEFINE c == Cardinality(T)
           D == 1..c
<1>1. c \in Nat
  BY FS_CardinalityType
<1>2. order \in [D -> T] /\ \A i, j \in D : i # j => order[i] # order[j]
  BY DEF SetToSeqs
<1>3. Len(order) = c /\ order \in Seq(T)
  <2> HIDE DEF c
  <2> QED  BY <1>1, <1>2
<1>4. order \in Injection(D, T)
  <2> HIDE DEF D
  <2> QED  BY <1>2 DEF Injection, IsInjective
<1>5. Cardinality(D) = Cardinality(T)
  <2>1. IsFiniteSet(1..c) /\ Cardinality(1..c) = IF 1 > c THEN 0 ELSE c - 1 + 1
    <3> HIDE DEF c
    <3> QED  BY <1>1, FS_Interval
  <2> HIDE DEF c
  <2>2. Cardinality(D) = c
    BY <1>1, <2>1
  <2> QED  BY <2>2 DEF c
<1>6. order \in Surjection(D, T)
  <2> HIDE DEF D
  <2> QED  BY <1>4, <1>5, FS_Injection
<1>7. \A t \in T : \E n \in D : order[n] = t
  <2> HIDE DEF D
  <2> QED  BY <1>6 DEF Surjection
<1> HIDE DEF c
<1> QED  BY <1>1, <1>2, <1>3, <1>7

(* A poll returns records of the log, of each topic the next count[t], in order.*)
LEMMA FetchedIs ==
  ASSUME NEW X, log \in [Topic -> Seq(X)], consumer.position \in [Topic -> Nat],
         Len(consumer.buffer) \in Nat,
         NEW count \in Fetches, NEW order \in SetToSeqs({t \in Topic : count[t] > 0})
  PROVE  LET items == Fetched(count, order)
         IN  /\ items \in Seq([topic : Topic, offset : Nat, event : X])
             /\ \A i \in 1..Len(items) : \E t \in Topic : \E k \in 1..count[t] :
                  /\ items[i] = Record(t, k)
                  /\ \A q \in 1..(k - 1) : \E j \in 1..(i - 1) : items[j] = Record(t, q)
             /\ \A t \in Topic : \A k \in 1..count[t] : \E i \in 1..Len(items) :
                  items[i] = Record(t, k)
<1> DEFINE T == {t \in Topic : count[t] > 0}
           seqs == [i \in DOMAIN order |-> [k \in 1..count[order[i]] |-> Record(order[i], k)]]
           S == [topic : Topic, offset : Nat, event : X]
<1>1. \A t \in Topic : count[t] \in Nat /\ consumer.position[t] + count[t] <= Len(log[t])
  BY WorkerAssumption DEF Fetches
<1>2. IsFiniteSet(T)
  BY WorkerAssumption, FS_Subset
<1>3. /\ Len(order) \in Nat /\ order \in [1..Len(order) -> T]
      /\ (Len(order) = 0 => order = <<>>)
      /\ \A t \in T : \E n \in 1..Len(order) : order[n] = t
  <2>1. order \in SetToSeqs(T)
    OBVIOUS
  <2> HIDE DEF T
  <2> QED  BY <1>2, <2>1, OrderIsWhole
<1>4. \A t \in Topic : \A k \in 1..count[t] : Record(t, k) \in S
  <2> SUFFICES ASSUME NEW t \in Topic, NEW k \in 1..count[t] PROVE Record(t, k) \in S
    OBVIOUS
  <2>1. consumer.position[t] \in Nat /\ count[t] \in Nat /\ k \in Nat /\ k >= 1
    BY <1>1
  <2>2. consumer.position[t] + k - 1 \in Nat
    BY <2>1
  <2>3. consumer.position[t] + k \in 1..Len(log[t])
    BY <1>1, <2>1
  <2>4. log[t][consumer.position[t] + k] \in X
    BY <2>3
  <2> QED  BY <2>2, <2>4 DEF Record
<1>5. Len(seqs) = Len(order) /\ (Len(seqs) = 0 => seqs = <<>>) /\ DOMAIN seqs = 1..Len(order)
  <2>1. DOMAIN order = 1..Len(order)
    BY <1>3
  <2> QED  BY <1>3, <2>1
<1>6. \A n \in 1..Len(order) :
        /\ order[n] \in Topic
        /\ seqs[n] = [k \in 1..count[order[n]] |-> Record(order[n], k)]
  BY <1>3
<1>7. Fetched(count, order) = FlattenSeq(seqs)
  BY DEF Fetched, Record
<1> HIDE DEF seqs, S
<1>8. \A n \in 1..Len(order) : seqs[n] \in Seq(S) /\ Len(seqs[n]) = count[order[n]]
  <2> SUFFICES ASSUME NEW n \in 1..Len(order)
               PROVE  seqs[n] \in Seq(S) /\ Len(seqs[n]) = count[order[n]]
    OBVIOUS
  <2>1. count[order[n]] \in Nat /\ \A k \in 1..count[order[n]] : Record(order[n], k) \in S
    BY <1>1, <1>4, <1>6
  <2>2. seqs[n] \in [1..count[order[n]] -> S]
    BY <1>6, <2>1
  <2>3. \A c \in Nat : \A g \in [1..c -> S] : g \in Seq(S) /\ Len(g) = c
    OBVIOUS
  <2> QED  BY <2>1, <2>2, <2>3
<1> DEFINE items == FlattenSeq(seqs)
<1>9. items \in Seq(S) /\ Flat(seqs, Len(order), items)
  <2>1. \A n \in 1..Len(seqs) : seqs[n] \in Seq(S)
    BY <1>5, <1>8
  <2> QED  BY <1>3, <1>5, <2>1, FlattenIs
<1> HIDE DEF items
<1>10. \A n \in 1..Len(order) : \A m \in 1..count[order[n]] : seqs[n][m] = Record(order[n], m)
  BY <1>6
<1>11. ASSUME NEW i \in 1..Len(items)
       PROVE  \E t \in Topic : \E k \in 1..count[t] :
                /\ items[i] = Record(t, k)
                /\ \A q \in 1..(k - 1) : \E j \in 1..(i - 1) : items[j] = Record(t, q)
  <2>1. PICK n \in 1..Len(order) : \E m \in 1..Len(seqs[n]) :
          /\ items[i] = seqs[n][m]
          /\ \A q \in 1..(m - 1) : \E j \in 1..(i - 1) : items[j] = seqs[n][q]
    BY <1>9 DEF Flat
  <2>2. PICK m \in 1..Len(seqs[n]) :
          /\ items[i] = seqs[n][m]
          /\ \A q \in 1..(m - 1) : \E j \in 1..(i - 1) : items[j] = seqs[n][q]
    BY <2>1
  <2>3. order[n] \in Topic /\ count[order[n]] \in Nat /\ m \in 1..count[order[n]]
    BY <1>1, <1>6, <1>8
  <2>4. \A q \in 1..(m - 1) : q \in 1..count[order[n]]
    BY <2>3
  <2> QED  BY <1>10, <2>2, <2>3, <2>4
<1>12. ASSUME NEW t \in Topic, NEW k \in 1..count[t]
       PROVE  \E i \in 1..Len(items) : items[i] = Record(t, k)
  <2>1. t \in T
    BY <1>1
  <2>2. PICK n \in 1..Len(order) : order[n] = t
    BY <1>3, <2>1
  <2>3. \E i \in 1..Len(items) : items[i] = seqs[n][k]
    BY <1>8, <1>9, <2>2 DEF Flat
  <2> QED  BY <1>10, <2>2, <2>3
<1> QED  BY <1>7, <1>9, <1>11, <1>12 DEF items, S

--------------------------------------------------------------------------------
DbFields == {"keys", "timeline", "call", "metrics", "records", "usage", "rollup", "manifest",
             "expectations", "billing", "watermark", "final", "adjustments", "outbox"}

(* d is a record of the tables.                                                 *)
IsDb(d) == d = [f \in DbFields |-> d[f]]

(* The loop over the measurements of an event, as FoldLeft makes it.            *)
RecordStep(rows, e, f, s) ==
  IF s = {} THEN rows
  ELSE RecordMeasurement(f[s \ {Max(s)}], e, e.measurements[Max(s)])

RecordLoop(rows, e) ==
  CHOOSE f : f = [s \in SUBSET DOMAIN e.measurements |-> RecordStep(rows, e, f, s)]

(* One item of a batch, and the loop over a batch.                              *)
BatchOne(acc, item) ==
  [db     |-> [ProjectOne(acc.db, item.event, item.offset)
                 EXCEPT !.watermark = Advanced(@, item)],
   result |-> Classified(acc.db, acc.result, item.event)]

BatchStep(rows, items, f, s) ==
  IF s = {} THEN [db |-> rows, result |-> NoResult]
  ELSE BatchOne(f[s \ {Max(s)}], items[Max(s)])

BatchLoop(rows, items) ==
  CHOOSE f : f = [s \in SUBSET DOMAIN items |-> BatchStep(rows, items, f, s)]

(* The loop over the measurements is met by a function.                         *)
LEMMA RecordLoopDef ==
  ASSUME NEW rows, NEW e, NEW n \in Nat, DOMAIN e.measurements = 1..n
  PROVE  RecordLoop(rows, e)
           = [s \in SUBSET (1..n) |-> RecordStep(rows, e, RecordLoop(rows, e), s)]
<1> DEFINE Has(k) == \E f : f = [s \in SUBSET (1..k) |-> RecordStep(rows, e, f, s)]
           S == {k \in Nat : Has(k)}
<1>1. 0 \in S
  <2> DEFINE f0 == [s \in SUBSET (1..0) |-> rows]
  <2>1. \A s \in SUBSET (1..0) : s = {}
    OBVIOUS
  <2>2. f0 = [s \in SUBSET (1..0) |-> RecordStep(rows, e, f0, s)]
    BY <2>1 DEF RecordStep
  <2> QED  BY <2>2
<1>2. ASSUME NEW k \in Nat, k \in S PROVE k + 1 \in S
  <2>1. PICK f : f = [s \in SUBSET (1..k) |-> RecordStep(rows, e, f, s)]
    BY <1>2
  <2> DEFINE g == [s \in SUBSET (1..(k + 1)) |->
                     IF k + 1 \in s THEN RecordStep(rows, e, f, s) ELSE f[s]]
  <2>2. \A s \in SUBSET (1..k) : s \in SUBSET (1..(k + 1)) /\ k + 1 \notin s
    OBVIOUS
  <2>3. \A s \in SUBSET (1..k) : g[s] = f[s]
    BY <2>2
  <2>4. ASSUME NEW s \in SUBSET (1..(k + 1))
        PROVE  g[s] = RecordStep(rows, e, g, s)
    <3>1. s = {} \/ s \ {Max(s)} \in SUBSET (1..k)
      <4>1. CASE k + 1 \in s
        BY <4>1, MaxIs
      <4>2. CASE k + 1 \notin s
        <5>1. s \in SUBSET (1..k)
          BY <4>2
        <5> QED  BY <5>1
      <4> QED  BY <4>1, <4>2
    <3>2. s = {} \/ g[s \ {Max(s)}] = f[s \ {Max(s)}]
      BY <2>3, <3>1
    <3>3. g[s] = IF k + 1 \in s THEN RecordStep(rows, e, f, s) ELSE f[s]
      OBVIOUS
    <3> HIDE DEF g
    <3>4. RecordStep(rows, e, g, s) = RecordStep(rows, e, f, s)
      BY <3>2 DEF RecordStep
    <3>5. CASE k + 1 \in s
      BY <3>3, <3>4, <3>5
    <3>6. CASE k + 1 \notin s
      <4>1. s \in SUBSET (1..k)
        BY <3>6
      <4>2. f[s] = RecordStep(rows, e, f, s)
        <5> DEFINE h == [t \in SUBSET (1..k) |-> RecordStep(rows, e, f, t)]
        <5>1. h[s] = RecordStep(rows, e, f, s)
          BY <4>1
        <5> QED  BY <5>1, <2>1
      <4> QED  BY <3>3, <3>4, <3>6, <4>2
    <3> QED  BY <3>5, <3>6
  <2>5. g = [s \in SUBSET (1..(k + 1)) |-> RecordStep(rows, e, g, s)]
    <3>1. g = [s \in SUBSET (1..(k + 1)) |-> g[s]]
      OBVIOUS
    <3> HIDE DEF g
    <3> QED  BY <2>4, <3>1
  <2> HIDE DEF g
  <2> QED  BY <2>5
<1>3. Has(n)
  <2> HIDE DEF Has
  <2>1. \A k \in Nat : k \in S
    BY <1>1, <1>2, NatSetInduction
  <2> QED  BY <2>1
<1> QED  BY <1>3 DEF RecordLoop

(* The loop, one measurement at a time.                                         *)
LEMMA RecordUnfold ==
  ASSUME NEW rows, NEW e, NEW n \in Nat, DOMAIN e.measurements = 1..n
  PROVE  /\ RecordLoop(rows, e)[1..0] = rows
         /\ \A k \in 0..(n - 1) :
              RecordLoop(rows, e)[1..(k + 1)]
                = RecordMeasurement(RecordLoop(rows, e)[1..k], e, e.measurements[k + 1])
<1> DEFINE f == RecordLoop(rows, e)
           h == [s \in SUBSET (1..n) |-> RecordStep(rows, e, f, s)]
<1>1. f = h
  BY RecordLoopDef
<1>2. \A s \in SUBSET (1..n) : h[s] = RecordStep(rows, e, f, s)
  OBVIOUS
<1> HIDE DEF f, h
<1>3. f[1..0] = rows
  <2>1. 1..0 = {} /\ 1..0 \in SUBSET (1..n)
    OBVIOUS
  <2> QED  BY <1>1, <1>2, <2>1 DEF RecordStep
<1>4. ASSUME NEW k \in 0..(n - 1)
      PROVE  f[1..(k + 1)] = RecordMeasurement(f[1..k], e, e.measurements[k + 1])
  <2>0. k \in Nat /\ k + 1 \in Nat /\ k + 1 <= n /\ k + 1 \in 1..(k + 1)
    OBVIOUS
  <2>1. 1..(k + 1) \in SUBSET (1..n) /\ 1..(k + 1) # {}
    <3>1. \A x \in 1..(k + 1) : x \in 1..n
      BY <2>0
    <3> QED  BY <2>0, <3>1
  <2>2. Max(1..(k + 1)) = k + 1
    BY <2>0, MaxIs
  <2>3. (1..(k + 1)) \ {k + 1} = 1..k
    BY <2>0
  <2>4. f[1..(k + 1)] = RecordStep(rows, e, f, 1..(k + 1))
    BY <1>1, <1>2, <2>1
  <2> QED  BY <2>1, <2>2, <2>3, <2>4 DEF RecordStep
<1> QED  BY <1>3, <1>4 DEF f

(* The fold over the measurements is the loop.                                  *)
LEMMA FoldIsRecordLoop ==
  ASSUME NEW rows, NEW e
  PROVE  FoldLeft(LAMBDA d, m : RecordMeasurement(d, e, m), rows, e.measurements)
           = RecordLoop(rows, e)[DOMAIN e.measurements]
<1> QED  BY DEF FoldLeft, MapThenFoldSet, RecordLoop, RecordStep

(* The loop over the batch is met by a function.                         *)
LEMMA BatchLoopDef ==
  ASSUME NEW rows, NEW items, NEW n \in Nat, DOMAIN items = 1..n
  PROVE  BatchLoop(rows, items)
           = [s \in SUBSET (1..n) |-> BatchStep(rows, items, BatchLoop(rows, items), s)]
<1> DEFINE Has(k) == \E f : f = [s \in SUBSET (1..k) |-> BatchStep(rows, items, f, s)]
           S == {k \in Nat : Has(k)}
<1>1. 0 \in S
  <2> DEFINE f0 == [s \in SUBSET (1..0) |-> [db |-> rows, result |-> NoResult]]
  <2>1. \A s \in SUBSET (1..0) : s = {}
    OBVIOUS
  <2>2. f0 = [s \in SUBSET (1..0) |-> BatchStep(rows, items, f0, s)]
    BY <2>1 DEF BatchStep
  <2> QED  BY <2>2
<1>2. ASSUME NEW k \in Nat, k \in S PROVE k + 1 \in S
  <2>1. PICK f : f = [s \in SUBSET (1..k) |-> BatchStep(rows, items, f, s)]
    BY <1>2
  <2> DEFINE g == [s \in SUBSET (1..(k + 1)) |->
                     IF k + 1 \in s THEN BatchStep(rows, items, f, s) ELSE f[s]]
  <2>2. \A s \in SUBSET (1..k) : s \in SUBSET (1..(k + 1)) /\ k + 1 \notin s
    OBVIOUS
  <2>3. \A s \in SUBSET (1..k) : g[s] = f[s]
    BY <2>2
  <2>4. ASSUME NEW s \in SUBSET (1..(k + 1))
        PROVE  g[s] = BatchStep(rows, items, g, s)
    <3>1. s = {} \/ s \ {Max(s)} \in SUBSET (1..k)
      <4>1. CASE k + 1 \in s
        BY <4>1, MaxIs
      <4>2. CASE k + 1 \notin s
        <5>1. s \in SUBSET (1..k)
          BY <4>2
        <5> QED  BY <5>1
      <4> QED  BY <4>1, <4>2
    <3>2. s = {} \/ g[s \ {Max(s)}] = f[s \ {Max(s)}]
      BY <2>3, <3>1
    <3>3. g[s] = IF k + 1 \in s THEN BatchStep(rows, items, f, s) ELSE f[s]
      OBVIOUS
    <3> HIDE DEF g
    <3>4. BatchStep(rows, items, g, s) = BatchStep(rows, items, f, s)
      BY <3>2 DEF BatchStep
    <3>5. CASE k + 1 \in s
      BY <3>3, <3>4, <3>5
    <3>6. CASE k + 1 \notin s
      <4>1. s \in SUBSET (1..k)
        BY <3>6
      <4>2. f[s] = BatchStep(rows, items, f, s)
        <5> DEFINE h == [t \in SUBSET (1..k) |-> BatchStep(rows, items, f, t)]
        <5>1. h[s] = BatchStep(rows, items, f, s)
          BY <4>1
        <5> QED  BY <5>1, <2>1
      <4> QED  BY <3>3, <3>4, <3>6, <4>2
    <3> QED  BY <3>5, <3>6
  <2>5. g = [s \in SUBSET (1..(k + 1)) |-> BatchStep(rows, items, g, s)]
    <3>1. g = [s \in SUBSET (1..(k + 1)) |-> g[s]]
      OBVIOUS
    <3> HIDE DEF g
    <3> QED  BY <2>4, <3>1
  <2> HIDE DEF g
  <2> QED  BY <2>5
<1>3. Has(n)
  <2> HIDE DEF Has
  <2>1. \A k \in Nat : k \in S
    BY <1>1, <1>2, NatSetInduction
  <2> QED  BY <2>1
<1> QED  BY <1>3 DEF BatchLoop

(* The loop, one item at a time.                                         *)
LEMMA BatchUnfold ==
  ASSUME NEW rows, NEW items, NEW n \in Nat, DOMAIN items = 1..n
  PROVE  /\ BatchLoop(rows, items)[1..0] = [db |-> rows, result |-> NoResult]
         /\ \A k \in 0..(n - 1) :
              BatchLoop(rows, items)[1..(k + 1)]
                = BatchOne(BatchLoop(rows, items)[1..k], items[k + 1])
<1> DEFINE f == BatchLoop(rows, items)
           h == [s \in SUBSET (1..n) |-> BatchStep(rows, items, f, s)]
<1>1. f = h
  BY BatchLoopDef
<1>2. \A s \in SUBSET (1..n) : h[s] = BatchStep(rows, items, f, s)
  OBVIOUS
<1> HIDE DEF f, h
<1>3. f[1..0] = [db |-> rows, result |-> NoResult]
  <2>1. 1..0 = {} /\ 1..0 \in SUBSET (1..n)
    OBVIOUS
  <2> QED  BY <1>1, <1>2, <2>1 DEF BatchStep
<1>4. ASSUME NEW k \in 0..(n - 1)
      PROVE  f[1..(k + 1)] = BatchOne(f[1..k], items[k + 1])
  <2>0. k \in Nat /\ k + 1 \in Nat /\ k + 1 <= n /\ k + 1 \in 1..(k + 1)
    OBVIOUS
  <2>1. 1..(k + 1) \in SUBSET (1..n) /\ 1..(k + 1) # {}
    <3>1. \A x \in 1..(k + 1) : x \in 1..n
      BY <2>0
    <3> QED  BY <2>0, <3>1
  <2>2. Max(1..(k + 1)) = k + 1
    BY <2>0, MaxIs
  <2>3. (1..(k + 1)) \ {k + 1} = 1..k
    BY <2>0
  <2>4. f[1..(k + 1)] = BatchStep(rows, items, f, 1..(k + 1))
    BY <1>1, <1>2, <2>1
  <2> QED  BY <2>1, <2>2, <2>3, <2>4 DEF BatchStep
<1> QED  BY <1>3, <1>4 DEF f

(* A transaction is the loop over its batch.                                    *)
LEMMA BatchIsLoop ==
  ASSUME NEW rows, NEW items
  PROVE  ProjectBatch(rows, items) = BatchLoop(rows, items)[DOMAIN items]
<1> QED  BY DEF ProjectBatch, FoldLeft, MapThenFoldSet, BatchLoop, BatchStep, BatchOne

--------------------------------------------------------------------------------
(* The events of the script that is played, and what the partitions hold: these *)
(* and the notices of their duplicates.                                         *)
ScriptEvents == {Script[i].event : i \in DOMAIN Script}

NoticeOf(e, n) ==
  [id |-> <<"notice", e.id, n>>, key |-> <<"duplicate", e.id>>,
   type |-> "duplicate_event.ignored", turn |-> e.turn, stage |-> "idempotency",
   measurements |-> <<>>, expected |-> {}, duration |-> 0]

Notices   == {NoticeOf(e, n) : e \in ScriptEvents, n \in Nat}
LogEvents == ScriptEvents \cup Notices

(* What the script says of its events.                                          *)
LEMMA ScriptFacts ==
  ASSUME plan \in Plans
  PROVE  /\ Len(Script) \in Nat /\ DOMAIN Script = 1..Len(Script)
         /\ \A e \in ScriptEvents :
              /\ Len(e.measurements) \in Nat /\ DOMAIN e.measurements = 1..Len(e.measurements)
              /\ IsMetered(e) => Len(e.measurements) > 0
         /\ \A e, f \in ScriptEvents :
              /\ e.key = f.key \/ e.id = f.id => e = f
              /\ e.key # <<"duplicate", f.id>>
<1> DEFINE Good(e) == /\ Len(e.measurements) \in Nat
                      /\ DOMAIN e.measurements = 1..Len(e.measurements)
                      /\ IsMetered(e) => Len(e.measurements) > 0
           Apart(e, f) == /\ e.key = f.key \/ e.id = f.id => e = f
                          /\ e.key # <<"duplicate", f.id>>
<1>1. Len(Script) \in Nat /\ DOMAIN Script = 1..Len(Script)
  BY PlansAssumption DEF Script
<1>2. \A i \in 1..Len(Script) : Good(Script[i].event)
  BY PlansAssumption DEF Script
<1>3. \A i, j \in 1..Len(Script) : Apart(Script[i].event, Script[j].event)
  BY PlansAssumption DEF Script
<1> HIDE DEF Good, Apart
<1>4. \A e \in ScriptEvents : Good(e)
  BY <1>1, <1>2 DEF ScriptEvents
<1>5. \A e, f \in ScriptEvents : Apart(e, f)
  BY <1>1, <1>3 DEF ScriptEvents
<1> QED  BY <1>1, <1>4, <1>5 DEF Good, Apart

(* A notice is told from the events of the session by its type and its key.     *)
LEMMA LogFacts ==
  ASSUME plan \in Plans, NEW e \in LogEvents
  PROVE  /\ Len(e.measurements) \in Nat /\ DOMAIN e.measurements = 1..Len(e.measurements)
         /\ ~IsNotice(e) => e \in ScriptEvents
         /\ IsUsage(e) \/ e.type = "call.ended" => e \in ScriptEvents
         /\ IsMetered(e) => Len(e.measurements) > 0
         /\ \A f \in ScriptEvents : e.key = f.key => e = f
<1>1. CASE e \in ScriptEvents
  BY <1>1, ScriptFacts
<1>2. CASE e \in Notices
  <2>1. PICK f \in ScriptEvents, n \in Nat : e = NoticeOf(f, n)
    BY <1>2 DEF Notices
  <2>2. /\ e.type = "duplicate_event.ignored" /\ e.measurements = <<>>
        /\ e.key = <<"duplicate", f.id>>
    BY <2>1 DEF NoticeOf
  <2>3. ~IsUsage(e) /\ IsNotice(e)
    BY <2>2 DEF IsUsage, IsNotice
  <2>4. Len(e.measurements) = 0 /\ DOMAIN e.measurements = 1..0
    BY <2>2
  <2>5. \A g \in ScriptEvents : e.key # g.key
    BY <2>2, ScriptFacts
  <2> QED  BY <2>2, <2>3, <2>4, <2>5 DEF IsMetered
<1> QED  BY <1>1, <1>2 DEF LogEvents

--------------------------------------------------------------------------------
(* What the rows of a call say of each other. A row of call_usage_events has    *)
(* the turn and the normalized type a manifest may expect.                      *)
Wanted(e, type)  == <<e.turn, Normalized(type, e.stage)>>
HasUsage(d, x)   == \E u \in d.usage : <<u.turn, u.norm>> = x
Recorded(d, id)  == \E r \in d.records : r.event = id

Counts(d, e) ==
  /\ Recorded(d, e.id)
  /\ \A m \in DOMAIN e.measurements : HasUsage(d, Wanted(e, e.measurements[m].type))

(* Each record has its row of the normalized usage.                             *)
RowPair(d) ==
  \A r \in d.records : \A e \in ScriptEvents :
    e.id = r.event => HasUsage(d, Wanted(e, r.type))

RecordsKeyed(d) == \A r \in d.records : \E e \in ScriptEvents : e.id = r.event /\ e.key \in d.keys

UsageCounted(d) == \A e \in ScriptEvents : IsMetered(e) /\ e.key \in d.keys => Counts(d, e)

ExpectedMet(d) == \A x \in d.expectations : HasUsage(d, x)

ManifestBehind(d) ==
  d.manifest # NoManifest =>
    /\ d.manifest.offset \in Nat /\ d.manifest.offset < Len(log["usage-events"])
    /\ \A k \in 1..d.manifest.offset : log["usage-events"][k].key \in d.keys

Sound(d) ==
  /\ IsDb(d)
  /\ RowPair(d)
  /\ RecordsKeyed(d)
  /\ UsageCounted(d)
  /\ ExpectedMet(d)
  /\ ManifestBehind(d)

(* What a statement of the projector leaves alone, and what it adds for an      *)
(* event.                                                                       *)
More(d, n, e) ==
  /\ IsDb(n)
  /\ n.keys = d.keys /\ n.final = d.final
  /\ n.manifest = d.manifest /\ n.expectations = d.expectations
  /\ d.records \subseteq n.records /\ d.usage \subseteq n.usage
  /\ \A r \in n.records : r \in d.records \/ r.event = e.id
  /\ RowPair(n)

(* Statements one after the other.                                              *)
LEMMA MoreOn ==
  ASSUME NEW a, NEW b, NEW c, NEW e, More(a, b, e), More(b, c, e)
  PROVE  More(a, c, e)
<1> QED  BY DEF More

(* Rows that are there stay there.                                              *)
LEMMA RowsStay ==
  ASSUME NEW d, NEW n, d.records \subseteq n.records, d.usage \subseteq n.usage
  PROVE  /\ \A x : HasUsage(d, x) => HasUsage(n, x)
         /\ \A id : Recorded(d, id) => Recorded(n, id)
         /\ \A e : Counts(d, e) => Counts(n, e)
<1> QED  BY DEF HasUsage, Recorded, Counts

(* A measurement leaves a record of its event, and a row of the usage.          *)
LEMMA MeasurementAdds ==
  ASSUME plan \in Plans, NEW d, IsDb(d), RowPair(d), NEW e \in ScriptEvents, NEW m
  PROVE  LET n == RecordMeasurement(d, e, m)
         IN  More(d, n, e) /\ Recorded(n, e.id) /\ HasUsage(n, Wanted(e, m.type))
<1> DEFINE n == RecordMeasurement(d, e, m)
           fresh == \A r \in d.records : <<r.event, r.type>> # <<e.id, m.type>>
           row == [event |-> e.id, type |-> m.type, stage |-> e.stage,
                   qty |-> m.qty, cost |-> m.qty * UnitPrice[m.type]]
           use == [event |-> e.id, type |-> m.type, turn |-> e.turn,
                   norm |-> Normalized(m.type, e.stage), qty |-> m.qty]
<1>1. /\ IsDb(n) /\ n.keys = d.keys /\ n.final = d.final
      /\ n.manifest = d.manifest /\ n.expectations = d.expectations
  BY DEF RecordMeasurement, IsDb, DbFields
<1>2. /\ n.records = IF fresh THEN d.records \cup {row} ELSE d.records
      /\ n.usage = IF fresh THEN d.usage \cup {use} ELSE d.usage
  BY DEF RecordMeasurement, IsDb, DbFields
<1> HIDE DEF n
<1>3. /\ row.event = e.id /\ row.type = m.type
      /\ <<use.turn, use.norm>> = Wanted(e, m.type)
  BY DEF Wanted
<1> HIDE DEF row, use
<1>4. d.records \subseteq n.records /\ d.usage \subseteq n.usage
  BY <1>2
<1>5. \A r \in n.records : r \in d.records \/ r.event = e.id
  BY <1>2, <1>3
<1>6. CASE fresh
  <2>1. HasUsage(n, Wanted(e, m.type)) /\ Recorded(n, e.id)
    BY <1>2, <1>3, <1>6 DEF HasUsage, Recorded
  <2>2. RowPair(n)
    <3>1. SUFFICES ASSUME NEW r \in n.records, NEW f \in ScriptEvents, f.id = r.event
                   PROVE  HasUsage(n, Wanted(f, r.type))
      BY DEF RowPair
    <3>2. CASE r \in d.records
      BY <1>4, <3>1, <3>2, RowsStay DEF RowPair
    <3>3. CASE r = row
      <4>1. f = e
        BY <1>3, <3>1, <3>3, ScriptFacts
      <4> QED  BY <1>3, <2>1, <3>3, <4>1
    <3> QED  BY <1>2, <3>2, <3>3
  <2> QED  BY <1>1, <1>4, <1>5, <2>1, <2>2 DEF More, n
<1>7. CASE ~fresh
  <2>1. n.records = d.records /\ n.usage = d.usage
    BY <1>2, <1>7
  <2>2. RowPair(n)
    BY <2>1 DEF RowPair, HasUsage
  <2>3. PICK r \in d.records : <<r.event, r.type>> = <<e.id, m.type>>
    BY <1>7
  <2>4. r.event = e.id /\ r.type = m.type
    BY <2>3
  <2>5. HasUsage(n, Wanted(e, m.type)) /\ Recorded(n, e.id)
    BY <2>1, <2>2, <2>4 DEF RowPair, Recorded
  <2> QED  BY <1>1, <1>4, <1>5, <2>2, <2>5 DEF More, n
<1> QED  BY <1>6, <1>7

(* The measurements of an event, all of them.                                   *)
LEMMA LoopAdds ==
  ASSUME plan \in Plans, NEW d, IsDb(d), RowPair(d), NEW e \in ScriptEvents, IsMetered(e)
  PROVE  LET n == FoldLeft(LAMBDA q, m : RecordMeasurement(q, e, m), d, e.measurements)
         IN  More(d, n, e) /\ Counts(n, e)
<1> DEFINE f == RecordLoop(d, e)
           n == Len(e.measurements)
           Good(k) == /\ More(d, f[1..k], e)
                      /\ k > 0 => Recorded(f[1..k], e.id)
                      /\ \A i \in 1..k : HasUsage(f[1..k], Wanted(e, e.measurements[i].type))
           S == {k \in Nat : k <= n => Good(k)}
<1>0. n \in Nat /\ n > 0 /\ DOMAIN e.measurements = 1..n
  BY ScriptFacts
<1>u. /\ f[1..0] = d
      /\ \A k \in 0..(n - 1) : f[1..(k + 1)] = RecordMeasurement(f[1..k], e, e.measurements[k + 1])
  <2> HIDE DEF n
  <2> QED  BY <1>0, RecordUnfold
<1> HIDE DEF f, n
<1>1. 0 \in S
  <2>1. More(d, d, e)
    BY DEF More
  <2> QED  BY <1>u, <2>1
<1>2. ASSUME NEW k \in Nat, k \in S PROVE k + 1 \in S
  <2>1. SUFFICES ASSUME k + 1 <= n PROVE Good(k + 1)
    OBVIOUS
  <2>2. k \in 0..(n - 1) /\ k <= n
    BY <1>0, <2>1
  <2>3. f[1..(k + 1)] = RecordMeasurement(f[1..k], e, e.measurements[k + 1])
    BY <1>u, <2>2
  <2>4. More(d, f[1..k], e) /\ \A i \in 1..k : HasUsage(f[1..k], Wanted(e, e.measurements[i].type))
    BY <1>2, <2>2
  <2>5. IsDb(f[1..k]) /\ RowPair(f[1..k])
    BY <2>4 DEF More
  <2>6. /\ More(f[1..k], f[1..(k + 1)], e)
        /\ Recorded(f[1..(k + 1)], e.id)
        /\ HasUsage(f[1..(k + 1)], Wanted(e, e.measurements[k + 1].type))
    BY <2>3, <2>5, MeasurementAdds
  <2>7. More(d, f[1..(k + 1)], e)
    BY <2>4, <2>6, MoreOn
  <2>8. \A i \in 1..k : HasUsage(f[1..(k + 1)], Wanted(e, e.measurements[i].type))
    BY <2>4, <2>6, RowsStay DEF More
  <2>9. \A i \in 1..(k + 1) : i \in 1..k \/ i = k + 1
    OBVIOUS
  <2> QED  BY <2>6, <2>7, <2>8, <2>9
<1>3. Good(n)
  <2> HIDE DEF Good
  <2>1. \A k \in Nat : k \in S
    BY <1>1, <1>2, NatSetInduction
  <2> QED  BY <1>0, <2>1
<1>4. FoldLeft(LAMBDA q, m : RecordMeasurement(q, e, m), d, e.measurements) = f[1..n]
  BY <1>0, FoldIsRecordLoop DEF f
<1>5. More(d, f[1..n], e) /\ Counts(f[1..n], e)
  BY <1>0, <1>3 DEF Counts
<1> HIDE DEF Good
<1> QED  BY <1>4, <1>5

--------------------------------------------------------------------------------
(* The other statements write none of these rows.                               *)
Same(d, n) ==
  /\ IsDb(n)
  /\ n.keys = d.keys /\ n.final = d.final
  /\ n.manifest = d.manifest /\ n.expectations = d.expectations
  /\ n.records = d.records /\ n.usage = d.usage

(* One after the other.                                                         *)
LEMMA SameOn ==
  ASSUME NEW a, NEW b, NEW c, Same(a, b), Same(b, c)
  PROVE  Same(a, c)
<1> QED  BY DEF Same

(* As an addition to the rows, they add nothing.                                *)
LEMMA SameAdds ==
  ASSUME NEW d, NEW n, NEW e, Same(d, n), RowPair(d)
  PROVE  More(d, n, e)
<1>1. RowPair(n)
  BY DEF Same, RowPair, HasUsage
<1> QED  BY <1>1 DEF Same, More

(* The bill of the call.                                                        *)
LEMMA BillingSame ==
  ASSUME NEW d, IsDb(d), NEW durations, NEW finalized
  PROVE  Same(d, UpdateCallBilling(d, durations, finalized))
<1> QED  BY DEF UpdateCallBilling, IsDb, DbFields, Same

(* The announcement of the new totals.                                          *)
LEMMA EnqueueSame ==
  ASSUME NEW d, IsDb(d), NEW e
  PROVE  Same(d, EnqueueBillingEvent(d, e))
<1> QED  BY DEF EnqueueBillingEvent, IsDb, DbFields, Same

(* The row of the metrics.                                                      *)
LEMMA MetricSame ==
  ASSUME NEW d, IsDb(d), NEW e
  PROVE  Same(d, ProjectMetric(d, e))
<1> QED  BY DEF ProjectMetric, IsDb, DbFields, Same

(* The row of the call, and what its end does to the bill.                      *)
LEMMA CallSame ==
  ASSUME NEW d, IsDb(d), NEW e
  PROVE  Same(d, ProjectCall(d, e))
<1>0. Same(d, d)
  BY DEF Same
<1>1. Same(d, ProjectStarted(d, e))
  BY DEF ProjectStarted, IsDb, DbFields, Same
<1>2. Same(d, ProjectEnded(d, e))
  <2> DEFINE c == [d EXCEPT !.call = [@ EXCEPT !.status = "CALL_COMPLETED", !.stage = e.stage,
                                               !.ended = TRUE]]
  <2>1. Same(d, c)
    BY DEF IsDb, DbFields, Same
  <2> HIDE DEF c
  <2>2. Same(c, UpdateCallBilling(c, {e.duration}, TRUE))
    <3>1. IsDb(c)
      BY <2>1 DEF Same
    <3> QED  BY <3>1, BillingSame
  <2>3. Same(d, UpdateCallBilling(c, {e.duration}, TRUE))
    BY <2>1, <2>2, SameOn
  <2> QED  BY <1>0, <2>3 DEF ProjectEnded, c
<1>3. Same(d, ProjectFailed(d, e))
  <2> DEFINE c == IF d.call.status = "absent" THEN d
                  ELSE [d EXCEPT !.call = [@ EXCEPT !.status = "CALL_FAILED", !.stage = e.stage,
                                                    !.ended = TRUE]]
  <2>1. Same(d, c)
    BY DEF IsDb, DbFields, Same
  <2> HIDE DEF c
  <2>2. Same(c, UpdateCallBilling(c, {}, TRUE))
    <3>1. IsDb(c)
      BY <2>1 DEF Same
    <3> QED  BY <3>1, BillingSame
  <2>3. Same(d, UpdateCallBilling(c, {}, TRUE))
    BY <2>1, <2>2, SameOn
  <2> QED  BY <2>3 DEF ProjectFailed, c
<1>4. Same(d, ProjectProgress(d, e))
  BY DEF ProjectProgress, IsDb, DbFields, Same
<1> QED  BY <1>0, <1>1, <1>2, <1>3, <1>4 DEF ProjectCall

--------------------------------------------------------------------------------
(* When the barrier is projected, all that precedes it in its partition is, and *)
(* what it expects is there.                                                    *)
Ripe(d, e, offset) ==
  IsBarrier(e) =>
    /\ \A x \in e.expected : HasUsage(d, x)
    /\ offset \in Nat /\ offset < Len(log["usage-events"])
    /\ \A k \in 1..offset : log["usage-events"][k].key \in d.keys

(* What one event changes: its key is remembered, and the rows say of each other*)
(* what they said.                                                              *)
Projects(d, e, n) ==
  /\ Sound(n)
  /\ n.keys = d.keys \cup {e.key}
  /\ n.final = d.final

(* Rows to which an event, its key with them, has been added.                   *)
LEMMA AddedSound ==
  ASSUME plan \in Plans, NEW d, Sound(d), NEW e \in LogEvents, NEW n,
         IsDb(n), n.keys = d.keys \cup {e.key}, n.final = d.final,
         d.records \subseteq n.records, d.usage \subseteq n.usage,
         \A r \in n.records : r \in d.records \/ (r.event = e.id /\ e \in ScriptEvents),
         RowPair(n), IsMetered(e) => Counts(n, e),
         ExpectedMet(n), ManifestBehind(n)
  PROVE  Projects(d, e, n)
<1>1. RecordsKeyed(n)
  <2>1. SUFFICES ASSUME NEW r \in n.records
                 PROVE  \E f \in ScriptEvents : f.id = r.event /\ f.key \in n.keys
    BY DEF RecordsKeyed
  <2>2. CASE r \in d.records
    BY <2>2 DEF Sound, RecordsKeyed
  <2>3. CASE r.event = e.id /\ e \in ScriptEvents
    BY <2>3
  <2> QED  BY <2>2, <2>3
<1>2. UsageCounted(n)
  <2>1. SUFFICES ASSUME NEW f \in ScriptEvents, IsMetered(f), f.key \in n.keys
                 PROVE  Counts(n, f)
    BY DEF UsageCounted
  <2>2. CASE f.key \in d.keys
    BY <2>1, <2>2, RowsStay DEF Sound, UsageCounted
  <2>3. CASE f.key = e.key
    <3>1. e = f
      BY <2>3, LogFacts
    <3> QED  BY <2>1, <3>1
  <2> QED  BY <2>1, <2>2, <2>3
<1> QED  BY <1>1, <1>2 DEF Projects, Sound

(* An event that is new is projected so, whatever its type.                     *)
LEMMA OneProjects ==
  ASSUME plan \in Plans, NEW d, Sound(d), NEW e \in LogEvents, NEW offset, Ripe(d, e, offset)
  PROVE  Projects(d, e, ProjectOne(d, e, offset))
<1>1. CASE IsDuplicate(d, e)
  <2>1. d.keys = d.keys \cup {e.key}
    BY <1>1 DEF IsDuplicate
  <2> QED  BY <1>1, <2>1 DEF ProjectOne, Projects
<1>2. CASE ~IsDuplicate(d, e)
  <2> DEFINE keyed == [d EXCEPT !.keys = @ \cup {e.key}, !.timeline = @ \cup {e.id}]
             c == ProjectCall(keyed, e)
             p == ProjectMetric(c, e)
             u == ProjectUsage(p, e, offset)
  <2>1. /\ IsDb(keyed) /\ keyed.keys = d.keys \cup {e.key} /\ keyed.final = d.final
        /\ keyed.records = d.records /\ keyed.usage = d.usage
        /\ keyed.manifest = d.manifest /\ keyed.expectations = d.expectations
    BY DEF Sound, IsDb, DbFields
  <2> HIDE DEF keyed
  <2>2. Same(keyed, c)
    BY <2>1, CallSame
  <2> HIDE DEF c
  <2>3. Same(c, p)
    BY <2>2, MetricSame DEF Same
  <2> HIDE DEF p
  <2>4. Same(keyed, p) /\ IsDb(p)
    BY <2>2, <2>3, SameOn DEF Same
  <2>5. /\ p.keys = d.keys \cup {e.key} /\ p.final = d.final
        /\ p.records = d.records /\ p.usage = d.usage
        /\ p.manifest = d.manifest /\ p.expectations = d.expectations
    BY <2>1, <2>4 DEF Same
  <2>6. RowPair(p) /\ ExpectedMet(p) /\ ManifestBehind(p)
    <3>1. RowPair(p)
      BY <2>5 DEF Sound, RowPair, HasUsage
    <3>2. ExpectedMet(p)
      BY <2>5 DEF Sound, ExpectedMet, HasUsage
    <3>3. ManifestBehind(p)
      BY <2>5 DEF Sound, ManifestBehind
    <3> QED  BY <3>1, <3>2, <3>3
  <2>7. Projects(d, e, u)
    <3>1. CASE ~IsUsage(e)
      <4>1. u = p
        BY <3>1 DEF ProjectUsage, IsUsage, IsBarrier
      <4>2. ~IsMetered(e)
        BY <3>1 DEF IsMetered
      <4> HIDE DEF u
      <4> QED  BY <2>4, <2>5, <2>6, <4>1, <4>2, AddedSound
    <3>2. CASE IsUsage(e) /\ IsBarrier(e)
      <4>1. u = ProjectManifest(p, e, offset)
        BY <3>2 DEF ProjectUsage
      <4>2. /\ IsDb(u) /\ u.keys = p.keys /\ u.final = p.final
            /\ u.records = p.records /\ u.usage = p.usage
            /\ u.expectations = p.expectations \cup e.expected
            /\ u.manifest = [event |-> e.id, offset |-> offset]
        BY <2>4, <4>1 DEF ProjectManifest, IsDb, DbFields
      <4> HIDE DEF u
      <4>3. u.manifest.offset = offset
        BY <4>2
      <4>4. RowPair(u)
        BY <2>6, <4>2 DEF RowPair, HasUsage
      <4>5. ExpectedMet(u)
        <5>1. SUFFICES ASSUME NEW x \in u.expectations PROVE HasUsage(u, x)
          BY DEF ExpectedMet
        <5>2. CASE x \in p.expectations
          BY <2>6, <4>2, <5>2 DEF ExpectedMet, HasUsage
        <5>3. CASE x \in e.expected
          BY <2>5, <3>2, <4>2, <5>3 DEF Ripe, HasUsage
        <5> QED  BY <4>2, <5>1, <5>2, <5>3
      <4>6. ManifestBehind(u)
        BY <2>5, <3>2, <4>2, <4>3 DEF ManifestBehind, Ripe
      <4>7. ~IsMetered(e)
        BY <3>2 DEF IsMetered
      <4> QED  BY <2>5, <4>2, <4>4, <4>5, <4>6, <4>7, AddedSound
    <3>3. CASE IsUsage(e) /\ ~IsBarrier(e)
      <4> DEFINE r == FoldLeft(LAMBDA q, m : RecordMeasurement(q, e, m), p, e.measurements)
                 b == UpdateCallBilling(r, {}, FALSE)
      <4>0. e \in ScriptEvents /\ IsMetered(e)
        BY <3>3, LogFacts DEF IsMetered
      <4>1. u = EnqueueBillingEvent(b, e)
        BY <3>3 DEF ProjectUsage, ProjectMeasurements
      <4>2. More(p, r, e) /\ Counts(r, e)
        BY <2>4, <2>6, <4>0, LoopAdds
      <4> HIDE DEF r
      <4>3. Same(r, b)
        BY <4>2, BillingSame DEF More
      <4> HIDE DEF b
      <4>4. Same(b, u)
        BY <4>1, <4>3, EnqueueSame DEF Same
      <4> HIDE DEF u
      <4>5. More(r, u, e)
        BY <4>2, <4>3, <4>4, SameOn, SameAdds DEF More
      <4>6. More(p, u, e)
        BY <4>2, <4>5, MoreOn
      <4>7. Counts(u, e)
        BY <4>2, <4>5, RowsStay DEF More
      <4>8. ExpectedMet(u)
        BY <2>6, <4>6, RowsStay DEF More, ExpectedMet
      <4>9. ManifestBehind(u)
        BY <2>6, <4>6 DEF More, ManifestBehind
      <4> QED  BY <2>5, <4>0, <4>6, <4>7, <4>8, <4>9, AddedSound DEF More
    <3> QED  BY <3>1, <3>2, <3>3
  <2> QED  BY <1>2, <2>7 DEF ProjectOne, keyed, c, p, u
<1> QED  BY <1>1, <1>2

--------------------------------------------------------------------------------
(* A partition has the events of the script in their order, each perhaps again  *)
(* later, and the notices.                                                      *)
FollowsScript(t, k) ==
  \E i \in 1..sent :
    /\ log[t][k] = Script[i].event /\ Script[i].topic = t
    /\ \A j \in 1..(i - 1) :
         Script[j].topic = t => \E q \in 1..(k - 1) : log[t][q] = Script[j].event

LogOrder ==
  \A t \in Topic : \A k \in 1..Len(log[t]) : log[t][k] \in Notices \/ FollowsScript(t, k)

Logged ==
  /\ plan \in Plans
  /\ sent \in 0..Len(Script)
  /\ log \in [Topic -> Seq(LogEvents)]
  /\ LogOrder

(* The projector normalizes a measurement to the name the session expects.      *)
LEMMA NamesAgree ==
  ASSUME NEW u, NEW x \in ExpectedOf(u)
  PROVE  \E m \in DOMAIN u.measurements :
           x = <<u.turn, Normalized(u.measurements[m].type, u.stage)>>
<1>1. PICK n \in ExpectedNames : n[1] = u.stage /\ x = <<u.turn, n[3]>>
        /\ \E m \in DOMAIN u.measurements : n[2] = u.measurements[m].type
  BY DEF ExpectedOf
<1>2. PICK m \in DOMAIN u.measurements : n[2] = u.measurements[m].type
  BY <1>1
<1>3. Normalized(n[2], n[1]) = n[3]
  BY DEF ExpectedNames, Normalized
<1> QED  BY <1>1, <1>2, <1>3

(* Once everything before a barrier is projected, the barrier may be.           *)
LEMMA BarrierIsRipe ==
  ASSUME Logged, NEW d, Sound(d), NEW t \in Topic, NEW k \in 1..Len(log[t]),
         \A q \in 1..(k - 1) : log[t][q].key \in d.keys
  PROVE  Ripe(d, log[t][k], k - 1)
<1>1. SUFFICES ASSUME IsBarrier(log[t][k])
               PROVE  /\ \A x \in log[t][k].expected : HasUsage(d, x)
                      /\ k - 1 \in Nat /\ k - 1 < Len(log["usage-events"])
                      /\ \A q \in 1..(k - 1) : log["usage-events"][q].key \in d.keys
  BY DEF Ripe
<1>2. log[t][k] \notin Notices
  BY <1>1 DEF Notices, NoticeOf, IsBarrier
<1>3. FollowsScript(t, k)
  BY <1>2 DEF Logged, LogOrder
<1>4. PICK i \in 1..sent :
        /\ log[t][k] = Script[i].event /\ Script[i].topic = t
        /\ \A j \in 1..(i - 1) :
             Script[j].topic = t => \E q \in 1..(k - 1) : log[t][q] = Script[j].event
  BY <1>3 DEF FollowsScript
<1>5. /\ plan \in Plans /\ Len(Script) \in Nat /\ DOMAIN Script = 1..Len(Script)
      /\ i \in 1..Len(Script) /\ sent \in Nat
  BY ScriptFacts DEF Logged
<1>6. /\ Script[i].topic = "usage-events"
      /\ \A x \in log[t][k].expected : \E j \in 1..(i - 1) :
           /\ Script[j].topic = "usage-events" /\ IsMetered(Script[j].event)
           /\ x \in ExpectedOf(Script[j].event)
  <2> DEFINE Expects(n) ==
        /\ Script[n].topic = "usage-events"
        /\ \A x \in Script[n].event.expected : \E j \in 1..(n - 1) :
             /\ Script[j].topic = "usage-events" /\ IsMetered(Script[j].event)
             /\ x \in ExpectedOf(Script[j].event)
  <2>1. \A n \in 1..Len(Script) : IsBarrier(Script[n].event) => Expects(n)
    BY <1>5, PlansAssumption DEF Script
  <2>2. IsBarrier(Script[i].event)
    BY <1>1, <1>4
  <2>3. Expects(i)
    <3> HIDE DEF Expects
    <3> QED  BY <1>5, <2>1, <2>2
  <2> QED  BY <1>4, <2>3
<1>7. ASSUME NEW x \in log[t][k].expected PROVE HasUsage(d, x)
  <2>1. PICK j \in 1..(i - 1) :
          /\ Script[j].topic = "usage-events" /\ IsMetered(Script[j].event)
          /\ x \in ExpectedOf(Script[j].event)
    BY <1>6
  <2>2. PICK q \in 1..(k - 1) : log[t][q] = Script[j].event
    BY <1>4, <1>6, <2>1
  <2>3. Script[j].event \in ScriptEvents
    BY <1>5 DEF ScriptEvents
  <2>4. Counts(d, Script[j].event)
    BY <2>1, <2>2, <2>3 DEF Sound, UsageCounted
  <2>5. \E m \in DOMAIN Script[j].event.measurements :
          x = <<Script[j].event.turn,
                Normalized(Script[j].event.measurements[m].type, Script[j].event.stage)>>
    BY <2>1, NamesAgree
  <2> QED  BY <2>4, <2>5 DEF Counts, Wanted
<1>8. Len(log[t]) \in Nat
  BY DEF Logged
<1> QED  BY <1>4, <1>6, <1>7, <1>8

(* The k-th record of a topic, as the consumer has it.                          *)
Entry(t, k) == [topic |-> t, offset |-> k - 1, event |-> log[t][k]]

(* The batch in its order: what precedes a record in its partition is projected *)
(* or precedes it in the batch.                                                 *)
InOrder(d, items) ==
  \A i \in 1..Len(items) : \E t \in Topic : \E k \in 1..Len(log[t]) :
    /\ items[i] = Entry(t, k)
    /\ \A q \in 1..(k - 1) :
         log[t][q].key \in d.keys \/ \E j \in 1..(i - 1) : items[j] = Entry(t, q)

ResultFields == {"inserted", "ended", "usage", "late", "duplicates"}

(* What the result of a batch says of the first j events.                       *)
Results(d, items, j, r) ==
  /\ r = [f \in ResultFields |-> r[f]]
  /\ r.inserted \in Seq(LogEvents) /\ r.ended \in Seq(LogEvents)
  /\ r.late \in Seq(LogEvents) /\ r.duplicates \in Seq(LogEvents)
  /\ r.usage \in BOOLEAN /\ (r.usage => r.inserted # <<>>)
  /\ \A i \in 1..j :
       items[i].event.type = "call.ended" /\ items[i].event.key \notin d.keys
         => \E n \in 1..Len(r.ended) : r.ended[n] = items[i].event
  /\ d.final # NoFinal =>
       \A i \in 1..j : IsMetered(items[i].event) /\ items[i].event.key \notin d.keys
         => \E n \in 1..Len(r.late) : r.late[n] = items[i].event
  /\ \A n \in 1..Len(r.late) :
       IsMetered(r.late[n]) /\ r.late[n].key \notin d.keys /\ d.final # NoFinal

(* One event more.                                                              *)
LEMMA ClassifiedIs ==
  ASSUME plan \in Plans, NEW d, NEW items, NEW j \in Nat, NEW r, Results(d, items, j, r),
         \A i \in 1..(j + 1) : items[i].event \in LogEvents,
         NEW dd, dd.keys = d.keys \cup {items[i].event.key : i \in 1..j}, dd.final = d.final
  PROVE  Results(d, items, j + 1, Classified(dd, r, items[j + 1].event))
<1> DEFINE e == items[j + 1].event
           c == Classified(dd, r, e)
<1>0. e \in LogEvents /\ \A i \in 1..(j + 1) : i \in 1..j \/ i = j + 1
  OBVIOUS
<1>1. CASE IsDuplicate(dd, e)
  <2>1. /\ c = [f \in ResultFields |-> c[f]]
        /\ c.inserted = r.inserted /\ c.ended = r.ended /\ c.late = r.late /\ c.usage = r.usage
        /\ c.duplicates = Append(r.duplicates, e)
    BY <1>1 DEF Classified, Results, ResultFields
  <2>2. (IsMetered(e) \/ e.type = "call.ended") /\ e.key \notin d.keys =>
          \E i \in 1..j : items[i].event = e
    <3>1. SUFFICES ASSUME IsMetered(e) \/ e.type = "call.ended", e.key \notin d.keys
                   PROVE  \E i \in 1..j : items[i].event = e
      OBVIOUS
    <3>2. e \in ScriptEvents
      BY <1>0, <3>1, LogFacts DEF IsMetered
    <3>3. PICK i \in 1..j : items[i].event.key = e.key
      BY <1>1, <3>1 DEF IsDuplicate
    <3>4. items[i].event \in LogEvents
      OBVIOUS
    <3>5. items[i].event = e
      <4> HIDE DEF e
      <4> QED  BY <3>2, <3>3, <3>4, LogFacts
    <3> QED  BY <3>5
  <2> HIDE DEF c
  <2>3. c.duplicates \in Seq(LogEvents)
    <3>1. r.duplicates \in Seq(LogEvents)
      BY DEF Results
    <3>2. e \in LogEvents
      BY <1>0
    <3> HIDE DEF e
    <3>3. Append(r.duplicates, e) \in Seq(LogEvents)
      BY <3>1, <3>2
    <3> QED  BY <2>1, <3>3
  <2>4. ASSUME NEW i \in 1..(j + 1),
               items[i].event.type = "call.ended", items[i].event.key \notin d.keys
        PROVE  \E n \in 1..Len(c.ended) : c.ended[n] = items[i].event
    <3>1. CASE i \in 1..j
      BY <2>1, <2>4, <3>1 DEF Results
    <3>2. CASE i = j + 1
      <4>1. PICK q \in 1..j : items[q].event = e
        BY <2>2, <2>4, <3>2
      <4>2. items[q].event = items[i].event
        BY <3>2, <4>1
      <4>3. \E n \in 1..Len(r.ended) : r.ended[n] = items[q].event
        BY <2>4, <4>2 DEF Results
      <4> QED  BY <2>1, <4>2, <4>3
    <3> QED  BY <1>0, <3>1, <3>2
  <2>5. ASSUME d.final # NoFinal, NEW i \in 1..(j + 1),
               IsMetered(items[i].event), items[i].event.key \notin d.keys
        PROVE  \E n \in 1..Len(c.late) : c.late[n] = items[i].event
    <3>1. CASE i \in 1..j
      BY <2>1, <2>5, <3>1 DEF Results
    <3>2. CASE i = j + 1
      <4>1. PICK q \in 1..j : items[q].event = e
        BY <2>2, <2>5, <3>2
      <4>2. items[q].event = items[i].event
        BY <3>2, <4>1
      <4>3. \E n \in 1..Len(r.late) : r.late[n] = items[q].event
        BY <2>5, <4>2 DEF Results
      <4> QED  BY <2>1, <4>2, <4>3
    <3> QED  BY <1>0, <3>1, <3>2
  <2> QED  BY <2>1, <2>3, <2>4, <2>5 DEF Results, c
<1>2. CASE ~IsDuplicate(dd, e)
  <2> DEFINE late == IsUsage(e) /\ ~IsBarrier(e) /\ dd.final # NoFinal
  <2>1. /\ c = [f \in ResultFields |-> c[f]]
        /\ c.inserted = Append(r.inserted, e)
        /\ c.ended = IF e.type = "call.ended" THEN Append(r.ended, e) ELSE r.ended
        /\ c.late = IF late THEN Append(r.late, e) ELSE r.late
        /\ c.usage = (r.usage \/ IsUsage(e))
        /\ c.duplicates = r.duplicates
    BY <1>2 DEF Classified, Results, ResultFields
  <2>2. e.key \notin d.keys /\ (late <=> IsMetered(e) /\ d.final # NoFinal)
    BY <1>2 DEF IsDuplicate, IsMetered
  <2> HIDE DEF c, e, late
  <2>3. /\ r.inserted \in Seq(LogEvents) /\ r.ended \in Seq(LogEvents)
        /\ r.late \in Seq(LogEvents) /\ r.duplicates \in Seq(LogEvents)
    BY DEF Results
  <2>4. \A s \in Seq(LogEvents) :
          /\ Append(s, e) \in Seq(LogEvents) /\ Append(s, e) # <<>>
          /\ Len(s) \in Nat /\ Len(Append(s, e)) = Len(s) + 1
          /\ \A n \in 1..Len(s) : Append(s, e)[n] = s[n]
          /\ Append(s, e)[Len(s) + 1] = e
    BY <1>0, AppendProperties
  <2>5. /\ c.inserted \in Seq(LogEvents) /\ c.ended \in Seq(LogEvents)
        /\ c.late \in Seq(LogEvents) /\ c.duplicates \in Seq(LogEvents)
    BY <2>1, <2>3, <2>4
  <2>6. c.usage \in BOOLEAN /\ (c.usage => c.inserted # <<>>)
    <3>1. r.usage \in BOOLEAN /\ IsUsage(e) \in BOOLEAN
      BY DEF Results, IsUsage
    <3>2. c.inserted # <<>>
      BY <2>1, <2>3, <2>4
    <3> QED  BY <2>1, <3>1, <3>2
  <2>7. ASSUME NEW i \in 1..(j + 1),
               items[i].event.type = "call.ended", items[i].event.key \notin d.keys
        PROVE  \E n \in 1..Len(c.ended) : c.ended[n] = items[i].event
    <3>1. CASE i \in 1..j
      <4>1. PICK n \in 1..Len(r.ended) : r.ended[n] = items[i].event
        BY <2>7, <3>1 DEF Results
      <4>2. n \in 1..Len(c.ended) /\ c.ended[n] = r.ended[n]
        <5>1. CASE e.type = "call.ended"
          <6>1. c.ended = Append(r.ended, e)
            BY <2>1, <5>1
          <6>2. /\ Len(r.ended) \in Nat /\ Len(c.ended) = Len(r.ended) + 1
                /\ c.ended[n] = r.ended[n]
            BY <2>3, <2>4, <6>1
          <6> QED  BY <6>2
        <5>2. CASE e.type # "call.ended"
          BY <2>1, <5>2
        <5> QED  BY <5>1, <5>2
      <4> QED  BY <4>1, <4>2
    <3>2. CASE i = j + 1
      <4>1. c.ended = Append(r.ended, e)
        BY <2>1, <2>7, <3>2 DEF e
      <4>2. /\ Len(r.ended) \in Nat /\ Len(c.ended) = Len(r.ended) + 1
            /\ c.ended[Len(r.ended) + 1] = e
        BY <2>3, <2>4, <4>1
      <4>3. Len(r.ended) + 1 \in 1..Len(c.ended)
        BY <4>2
      <4> QED  BY <3>2, <4>2, <4>3 DEF e
    <3> QED  BY <1>0, <3>1, <3>2
  <2>8. ASSUME d.final # NoFinal, NEW i \in 1..(j + 1),
               IsMetered(items[i].event), items[i].event.key \notin d.keys
        PROVE  \E n \in 1..Len(c.late) : c.late[n] = items[i].event
    <3>1. CASE i \in 1..j
      <4>1. PICK n \in 1..Len(r.late) : r.late[n] = items[i].event
        BY <2>8, <3>1 DEF Results
      <4>2. n \in 1..Len(c.late) /\ c.late[n] = r.late[n]
        <5>1. CASE late
          <6>1. c.late = Append(r.late, e)
            BY <2>1, <5>1
          <6>2. Len(r.late) \in Nat /\ Len(c.late) = Len(r.late) + 1 /\ c.late[n] = r.late[n]
            BY <2>3, <2>4, <6>1
          <6> QED  BY <6>2
        <5>2. CASE ~late
          BY <2>1, <5>2
        <5> QED  BY <5>1, <5>2
      <4> QED  BY <4>1, <4>2
    <3>2. CASE i = j + 1
      <4>1. c.late = Append(r.late, e)
        BY <2>1, <2>2, <2>8, <3>2 DEF e
      <4>2. /\ Len(r.late) \in Nat /\ Len(c.late) = Len(r.late) + 1
            /\ c.late[Len(r.late) + 1] = e
        BY <2>3, <2>4, <4>1
      <4>3. Len(r.late) + 1 \in 1..Len(c.late)
        BY <4>2
      <4> QED  BY <3>2, <4>2, <4>3 DEF e
    <3> QED  BY <1>0, <3>1, <3>2
  <2>9. ASSUME NEW n \in 1..Len(c.late)
        PROVE  IsMetered(c.late[n]) /\ c.late[n].key \notin d.keys /\ d.final # NoFinal
    <3>1. CASE c.late = r.late
      BY <3>1 DEF Results
    <3>2. CASE c.late = Append(r.late, e) /\ late
      <4>1. CASE n \in 1..Len(r.late)
        <5>1. c.late[n] = r.late[n]
          BY <2>3, <2>4, <3>2, <4>1
        <5> QED  BY <4>1, <5>1 DEF Results
      <4>2. CASE n = Len(r.late) + 1
        BY <2>2, <2>3, <2>4, <3>2, <4>2
      <4>3. n \in 1..Len(r.late) \/ n = Len(r.late) + 1
        <5>1. Len(r.late) \in Nat /\ Len(c.late) = Len(r.late) + 1
          BY <2>3, <2>4, <3>2
        <5> QED  BY <5>1
      <4> QED  BY <4>1, <4>2, <4>3
    <3> QED  BY <2>1, <3>1, <3>2
  <2> QED  BY <2>1, <2>5, <2>6, <2>7, <2>8, <2>9 DEF Results, c, e
<1> QED  BY <1>1, <1>2

(* A transaction, after each of its events: the keys of those so far are there, *)
(* and the rows say of each other what they said.                               *)
LEMMA BatchGoesOn ==
  ASSUME Logged, NEW d, Sound(d), NEW items, Len(items) \in Nat,
         DOMAIN items = 1..Len(items), InOrder(d, items)
  PROVE  \A j \in 0..Len(items) :
           LET p == BatchLoop(d, items)[1..j]
           IN  /\ Sound(p.db)
               /\ p.db.keys = d.keys \cup {items[i].event.key : i \in 1..j}
               /\ p.db.final = d.final
               /\ Results(d, items, j, p.result)
<1> DEFINE n == Len(items)
           f == BatchLoop(d, items)
           Good(k) == /\ Sound(f[1..k].db)
                      /\ f[1..k].db.keys = d.keys \cup {items[i].event.key : i \in 1..k}
                      /\ f[1..k].db.final = d.final
                      /\ Results(d, items, k, f[1..k].result)
           S == {k \in Nat : k <= n => Good(k)}
<1>0. n \in Nat
  OBVIOUS
<1>u. /\ f[1..0] = [db |-> d, result |-> NoResult]
      /\ \A k \in 0..(n - 1) : f[1..(k + 1)] = BatchOne(f[1..k], items[k + 1])
  BY BatchUnfold
<1>e. \A i \in 1..n : items[i].event \in LogEvents
  <2> SUFFICES ASSUME NEW i \in 1..n PROVE items[i].event \in LogEvents
    OBVIOUS
  <2>1. PICK t \in Topic : \E k \in 1..Len(log[t]) : items[i] = Entry(t, k)
    BY DEF InOrder
  <2>2. PICK k \in 1..Len(log[t]) : items[i] = Entry(t, k)
    BY <2>1
  <2>3. log[t] \in Seq(LogEvents)
    BY DEF Logged
  <2>4. log[t][k] \in LogEvents
    BY <2>3
  <2> QED  BY <2>2, <2>4 DEF Entry
<1> HIDE DEF f, n
<1>1. 0 \in S
  <2>1. f[1..0].db = d /\ f[1..0].result = NoResult
    BY <1>u
  <2>2. 1..0 = {}
    OBVIOUS
  <2>3. {items[i].event.key : i \in 1..0} = {}
    BY <2>2
  <2>4. Results(d, items, 0, NoResult)
    <3>1. \A T : <<>> \in Seq(T) /\ Len(<<>>) = 0
      OBVIOUS
    <3> QED  BY <2>2, <3>1 DEF Results, NoResult, ResultFields
  <2> QED  BY <2>1, <2>3, <2>4
<1>2. ASSUME NEW k \in Nat, k \in S PROVE k + 1 \in S
  <2>1. SUFFICES ASSUME k + 1 <= n PROVE Good(k + 1)
    OBVIOUS
  <2>2. k \in 0..(n - 1) /\ k <= n /\ k + 1 \in 1..n
    BY <1>0, <2>1
  <2> DEFINE acc == f[1..k]
             item == items[k + 1]
             one == ProjectOne(acc.db, item.event, item.offset)
             w == [one EXCEPT !.watermark = Advanced(@, item)]
  <2>3. Good(k)
    BY <1>2, <2>2
  <2>4. f[1..(k + 1)] = BatchOne(acc, item)
    BY <1>u, <2>2
  <2>5. f[1..(k + 1)].db = w /\ f[1..(k + 1)].result = Classified(acc.db, acc.result, item.event)
    BY <2>4 DEF BatchOne
  <2>6. PICK t \in Topic : \E q \in 1..Len(log[t]) :
          /\ item = Entry(t, q)
          /\ \A p \in 1..(q - 1) :
               log[t][p].key \in d.keys \/ \E j \in 1..((k + 1) - 1) : items[j] = Entry(t, p)
    BY <2>2 DEF InOrder, n
  <2>7. PICK q \in 1..Len(log[t]) :
          /\ item = Entry(t, q)
          /\ \A p \in 1..(q - 1) :
               log[t][p].key \in d.keys \/ \E j \in 1..((k + 1) - 1) : items[j] = Entry(t, p)
    BY <2>6
  <2>8. \A p \in 1..(q - 1) : log[t][p].key \in acc.db.keys
    <3> SUFFICES ASSUME NEW p \in 1..(q - 1) PROVE log[t][p].key \in acc.db.keys
      OBVIOUS
    <3>1. CASE log[t][p].key \in d.keys
      BY <2>3, <3>1
    <3>2. CASE \E j \in 1..((k + 1) - 1) : items[j] = Entry(t, p)
      <4>1. PICK j \in 1..k : items[j] = Entry(t, p)
        BY <3>2
      <4>2. items[j].event = log[t][p]
        BY <4>1 DEF Entry
      <4> QED  BY <2>3, <4>2
    <3> QED  BY <2>7, <3>1, <3>2
  <2>9. item.event = log[t][q] /\ item.offset = q - 1
    BY <2>7 DEF Entry
  <2> HIDE DEF item
  <2>10. Ripe(acc.db, item.event, item.offset)
    <3>1. Sound(acc.db)
      BY <2>3
    <3> HIDE DEF acc
    <3>2. Ripe(acc.db, log[t][q], q - 1)
      BY <2>8, <3>1, BarrierIsRipe
    <3> QED  BY <2>9, <3>2
  <2>11. Projects(acc.db, item.event, one)
    <3>1. item.event \in LogEvents
      BY <1>e, <2>2 DEF item
    <3> QED  BY <2>3, <2>10, <3>1, OneProjects DEF Logged
  <2> HIDE DEF one
  <2>12. /\ Sound(w) /\ w.keys = acc.db.keys \cup {item.event.key} /\ w.final = acc.db.final
    <3>1. IsDb(one)
      BY <2>11 DEF Projects, Sound
    <3>2. /\ IsDb(w) /\ w.keys = one.keys /\ w.final = one.final /\ w.records = one.records
          /\ w.usage = one.usage /\ w.manifest = one.manifest
          /\ w.expectations = one.expectations
      BY <3>1 DEF IsDb, DbFields
    <3> HIDE DEF w
    <3>3. Sound(w)
      <4>1. Sound(one)
        BY <2>11 DEF Projects
      <4>2. RowPair(w)
        BY <3>2, <4>1 DEF Sound, RowPair, HasUsage
      <4>3. RecordsKeyed(w)
        BY <3>2, <4>1 DEF Sound, RecordsKeyed
      <4>4. UsageCounted(w)
        BY <3>2, <4>1, RowsStay DEF Sound, UsageCounted
      <4>5. ExpectedMet(w)
        BY <3>2, <4>1 DEF Sound, ExpectedMet, HasUsage
      <4>6. ManifestBehind(w)
        BY <3>2, <4>1 DEF Sound, ManifestBehind
      <4> QED  BY <3>2, <4>2, <4>3, <4>4, <4>5, <4>6 DEF Sound
    <3> QED  BY <2>11, <3>2, <3>3 DEF Projects
  <2> HIDE DEF w
  <2>13. w.keys = d.keys \cup {items[i].event.key : i \in 1..(k + 1)}
    <3>1. \A i \in 1..(k + 1) : i \in 1..k \/ i = k + 1
      OBVIOUS
    <3>2. 1..k \subseteq 1..(k + 1) /\ k + 1 \in 1..(k + 1)
      OBVIOUS
    <3> QED  BY <2>3, <2>12, <3>1, <3>2 DEF item
  <2>14. Results(d, items, k + 1, Classified(acc.db, acc.result, item.event))
    <3>0. \A i \in 1..(k + 1) : i \in 1..n
      BY <1>0, <2>2
    <3>1. \A i \in 1..(k + 1) : items[i].event \in LogEvents
      BY <1>e, <3>0
    <3> QED  BY <2>3, <3>1, ClassifiedIs DEF Logged, item
  <2> QED  BY <2>3, <2>5, <2>12, <2>13, <2>14
<1>3. \A k \in 0..n : Good(k)
  <2> HIDE DEF Good
  <2>1. \A k \in Nat : k \in S
    BY <1>1, <1>2, NatSetInduction
  <2> QED  BY <1>0, <2>1
<1> QED  BY <1>3 DEF f, n

(* The whole transaction.                                                       *)
LEMMA BatchProjects ==
  ASSUME Logged, NEW d, Sound(d), NEW items, Len(items) \in Nat,
         DOMAIN items = 1..Len(items), InOrder(d, items)
  PROVE  LET p == ProjectBatch(d, items)
         IN  /\ Sound(p.db)
             /\ p.db.keys = d.keys \cup {items[i].event.key : i \in 1..Len(items)}
             /\ p.db.final = d.final
             /\ Results(d, items, Len(items), p.result)
<1>1. ProjectBatch(d, items) = BatchLoop(d, items)[1..Len(items)]
  BY BatchIsLoop
<1>2. Len(items) \in 0..Len(items)
  OBVIOUS
<1> QED  BY <1>1, <1>2, BatchGoesOn

--------------------------------------------------------------------------------
CallKinds == {"start", "ended", "hint", "adjust", "notice"}
CallSet   == [kind : CallKinds, event : LogEvents]

ItemSet   == [topic : Topic, offset : Nat, event : LogEvents]

(* The elements of a sequence.                                                  *)
Among(s) == {s[n] : n \in 1..Len(s)}

(* The types, as far as the proofs need them.                                   *)
Shapes ==
  /\ committed \in [Topic -> Nat]
  /\ consumer = [f \in {"phase", "position", "buffer", "attempt", "todo"} |-> consumer[f]]
  /\ consumer.position \in [Topic -> Nat]
  /\ consumer.buffer \in Seq(ItemSet)
  /\ consumer.todo \in Seq(CallSet)
  /\ temporal = [f \in {"billing", "ended", "hinted", "adjusting"} |-> temporal[f]]

(* All that the session published is in its partition.                          *)
Published ==
  \A j \in 1..sent : \E k \in 1..Len(log[Script[j].topic]) :
    log[Script[j].topic][k] = Script[j].event

(* What the consumer has read is in Postgres or in its batch, and what it is     *)
(* handling is in Postgres.                                                      *)
Covered ==
  \A t \in Topic : \A k \in 1..consumer.position[t] :
    log[t][k].key \in db.keys \/ Entry(t, k) \in Among(consumer.buffer)

Stored ==
  consumer.phase = "handling" =>
    \A i \in 1..Len(consumer.buffer) : consumer.buffer[i].event.key \in db.keys

(* A notice is of an event of the session.                                      *)
NoticesTell ==
  \A c \in Among(consumer.todo) : c.kind = "notice" => c.event \in ScriptEvents

(* An adjustment is started or to be started for an event that came after the   *)
(* bill was written, and so after each read of an attempt that found no bill.   *)
AdjustsLate ==
  /\ temporal.adjusting # {} => db.final # NoFinal
  /\ \A c \in Among(consumer.todo) : c.kind = "adjust" =>
       /\ db.final # NoFinal
       /\ \A i \in DOMAIN bills : bills[i].open => c.event.id \notin bills[i].read

(* The calls that are to be made, or that a failure took away.                  *)
Due == Among(consumer.todo) \cup lost

IsDue(kind, e) == [kind |-> kind, event |-> e] \in Due

(* The workflow of a call whose end is in Postgres is started or due.           *)
BillingAsked ==
  \A e \in ScriptEvents : e.type = "call.ended" /\ e.key \in db.keys =>
    /\ temporal.billing \/ IsDue("start", e)
    /\ temporal.ended \/ IsDue("ended", e)

(* Usage that is in Postgres was there before the bill, or its adjustment is    *)
(* started or due.                                                              *)
UsageAsked ==
  db.final # NoFinal => \A e \in ScriptEvents : IsMetered(e) /\ e.key \in db.keys =>
    e.id \in before \cup temporal.adjusting \/ IsDue("adjust", e)

(* Once its record is committed, what was due has been done or is lost.         *)
LateFollows ==
  db.final # NoFinal => \A k \in 1..committed["usage-events"] :
    LET e == log["usage-events"][k] IN
      e \in Measured => e.id \in before \cup temporal.adjusting \/ IsLost("adjust", e)

IsKeyed(id) == \E e \in ScriptEvents : e.id = id /\ e.key \in db.keys

ScriptIds == {e.id : e \in ScriptEvents}
BillSet   == [read : SUBSET ScriptIds, open : BOOLEAN, written : BOOLEAN]

(* The bill is that of an attempt. What an attempt read is in Postgres, and one *)
(* that found a bill has read all that preceded it.                             *)
BillsTell ==
  /\ bills \in Seq(BillSet)
  /\ \A id \in before : IsKeyed(id)
  /\ \A i \in DOMAIN bills : \A id \in bills[i].read : IsKeyed(id)
  /\ \A i \in DOMAIN bills : ~bills[i].open =>
       /\ db.final # NoFinal
       /\ \A e \in ScriptEvents : IsMetered(e) /\ e.id \in before => e.id \in bills[i].read
  /\ db.final # NoFinal =>
       \E i \in DOMAIN bills : bills[i].written /\ db.final.counted = bills[i].read

--------------------------------------------------------------------------------
(* A sequence put behind another adds its elements.                             *)
LEMMA AmongConcat ==
  ASSUME NEW S, NEW s \in Seq(S), NEW u \in Seq(S)
  PROVE  s \o u \in Seq(S) /\ Among(s \o u) = Among(s) \cup Among(u)
<1> DEFINE g == s \o u
<1>1. /\ g \in Seq(S) /\ Len(g) = Len(s) + Len(u)
      /\ \A i \in 1..(Len(s) + Len(u)) : g[i] = IF i <= Len(s) THEN s[i] ELSE u[i - Len(s)]
  BY ConcatProperties
<1>2. Len(s) \in Nat /\ Len(u) \in Nat
  OBVIOUS
<1> HIDE DEF g
<1>3. ASSUME NEW i \in 1..Len(g) PROVE g[i] \in Among(s) \cup Among(u)
  <2>1. CASE i <= Len(s)
    <3>1. i \in 1..Len(s) /\ g[i] = s[i]
      BY <1>1, <1>2, <2>1
    <3> QED  BY <3>1 DEF Among
  <2>2. CASE ~(i <= Len(s))
    <3>1. i - Len(s) \in 1..Len(u) /\ g[i] = u[i - Len(s)]
      BY <1>1, <1>2, <2>2
    <3> QED  BY <3>1 DEF Among
  <2> QED  BY <2>1, <2>2
<1>4. ASSUME NEW i \in 1..Len(s) PROVE s[i] \in Among(g)
  <2>1. i \in 1..Len(g) /\ g[i] = s[i]
    BY <1>1, <1>2
  <2> QED  BY <2>1 DEF Among
<1>5. ASSUME NEW i \in 1..Len(u) PROVE u[i] \in Among(g)
  <2>1. Len(s) + i \in 1..Len(g) /\ g[Len(s) + i] = u[i]
    BY <1>1, <1>2
  <2> QED  BY <2>1 DEF Among
<1>6. Among(g) \subseteq Among(s) \cup Among(u)
  BY <1>3 DEF Among
<1>7. Among(s) \subseteq Among(g) /\ Among(u) \subseteq Among(g)
  BY <1>4, <1>5 DEF Among
<1> QED  BY <1>1, <1>6, <1>7 DEF g

(* A sequence is its head and its tail.                                         *)
LEMMA AmongTail ==
  ASSUME NEW S, NEW s \in Seq(S), s # <<>>
  PROVE  /\ Head(s) \in S /\ Tail(s) \in Seq(S)
         /\ Among(s) = {Head(s)} \cup Among(Tail(s))
<1>1. /\ Len(s) \in Nat /\ Len(s) # 0 /\ Head(s) = s[1] /\ Head(s) \in S
      /\ Tail(s) \in Seq(S) /\ Len(Tail(s)) = Len(s) - 1
      /\ \A i \in 1..(Len(s) - 1) : Tail(s)[i] = s[i + 1]
  BY HeadTailProperties, EmptySeq
<1> DEFINE h == Head(s)
           r == Tail(s)
<1> HIDE DEF h, r
<1>2. ASSUME NEW i \in 1..Len(s) PROVE s[i] = h \/ \E j \in 1..Len(r) : s[i] = r[j]
  <2>1. CASE i = 1
    BY <1>1, <2>1 DEF h
  <2>2. CASE i # 1
    <3>1. i - 1 \in 1..Len(r) /\ (i - 1) + 1 = i
      BY <1>1, <2>2 DEF r
    <3>2. r[i - 1] = s[i]
      BY <1>1, <3>1 DEF r
    <3> QED  BY <3>1, <3>2
  <2> QED  BY <2>1, <2>2
<1>3. ASSUME NEW j \in 1..Len(r) PROVE \E i \in 1..Len(s) : s[i] = r[j]
  <2>1. j + 1 \in 1..Len(s) /\ r[j] = s[j + 1]
    BY <1>1 DEF r
  <2> QED  BY <2>1
<1>4. \E i \in 1..Len(s) : s[i] = h
  <2>1. 1 \in 1..Len(s)
    BY <1>1
  <2> QED  BY <1>1, <2>1 DEF h
<1>5. Among(s) = {h} \cup Among(r)
  BY <1>2, <1>3, <1>4 DEF Among
<1> QED  BY <1>1, <1>5 DEF h, r

(* A call for each event of a list.                                             *)
LEMMA CallsAre ==
  ASSUME NEW kind \in CallKinds, NEW s \in Seq(LogEvents)
  PROVE  /\ Calls(kind, s) \in Seq(CallSet)
         /\ Among(Calls(kind, s)) = {[kind |-> kind, event |-> s[i]] : i \in 1..Len(s)}
<1> DEFINE c == Calls(kind, s)
<1>1. Len(s) \in Nat /\ DOMAIN s = 1..Len(s) /\ \A i \in 1..Len(s) : s[i] \in LogEvents
  OBVIOUS
<1>2. c = [i \in 1..Len(s) |-> [kind |-> kind, event |-> s[i]]]
  BY <1>1 DEF Calls
<1>3. c \in [1..Len(s) -> CallSet]
  BY <1>1, <1>2 DEF CallSet
<1>4. c \in Seq(CallSet) /\ Len(c) = Len(s)
  <2>1. \A n \in Nat : \A g \in [1..n -> CallSet] : g \in Seq(CallSet) /\ Len(g) = n
    OBVIOUS
  <2> QED  BY <1>1, <1>3, <2>1
<1> HIDE DEF c
<1>5. Among(c) = {[kind |-> kind, event |-> s[i]] : i \in 1..Len(s)}
  BY <1>2, <1>4 DEF Among
<1> QED  BY <1>4, <1>5 DEF c

(* A flat sequence has the elements of all.                                     *)
LEMMA AmongFlat ==
  ASSUME NEW S, NEW seqs, Len(seqs) \in Nat,
         \A n \in 1..Len(seqs) : seqs[n] \in Seq(S),
         Len(seqs) = 0 => seqs = <<>>
  PROVE  /\ FlattenSeq(seqs) \in Seq(S)
         /\ Among(FlattenSeq(seqs)) = UNION {Among(seqs[n]) : n \in 1..Len(seqs)}
<1> DEFINE f == FlattenSeq(seqs)
<1>1. f \in Seq(S) /\ Flat(seqs, Len(seqs), f)
  BY FlattenIs
<1> HIDE DEF f
<1>2. ASSUME NEW i \in 1..Len(f) PROVE \E n \in 1..Len(seqs) : f[i] \in Among(seqs[n])
  <2>1. PICK n \in 1..Len(seqs) : \E m \in 1..Len(seqs[n]) : f[i] = seqs[n][m]
    BY <1>1 DEF Flat
  <2> QED  BY <2>1 DEF Among
<1>3. ASSUME NEW n \in 1..Len(seqs), NEW m \in 1..Len(seqs[n])
      PROVE  seqs[n][m] \in Among(f)
  <2>1. PICK i \in 1..Len(f) : f[i] = seqs[n][m]
    BY <1>1 DEF Flat
  <2> QED  BY <2>1 DEF Among
<1>4. Among(f) \subseteq UNION {Among(seqs[n]) : n \in 1..Len(seqs)}
  <2>1. SUFFICES ASSUME NEW x \in Among(f)
                 PROVE  x \in UNION {Among(seqs[n]) : n \in 1..Len(seqs)}
    OBVIOUS
  <2>2. PICK i \in 1..Len(f) : x = f[i]
    BY <2>1 DEF Among
  <2> QED  BY <1>2, <2>2
<1>5. UNION {Among(seqs[n]) : n \in 1..Len(seqs)} \subseteq Among(f)
  BY <1>3 DEF Among
<1> QED  BY <1>1, <1>4, <1>5 DEF f

(* What the worker is to do after a transaction.                                *)
LEMMA TodoIs ==
  ASSUME NEW d, NEW items, NEW j, NEW r, Results(d, items, j, r)
  PROVE  LET todo == Todo(r)
         IN  /\ todo \in Seq(CallSet)
             /\ \A n \in 1..Len(r.ended) :
                  /\ [kind |-> "start", event |-> r.ended[n]] \in Among(todo)
                  /\ [kind |-> "ended", event |-> r.ended[n]] \in Among(todo)
             /\ \A n \in 1..Len(r.late) :
                  [kind |-> "adjust", event |-> r.late[n]] \in Among(todo)
             /\ \A c \in Among(todo) : c.kind = "adjust" =>
                  \E n \in 1..Len(r.late) : c.event = r.late[n]
             /\ \A c \in Among(todo) : c.kind = "notice" => ~IsNotice(c.event)
<1> DEFINE Call(kind, e) == [kind |-> kind, event |-> e]
           starts == [i \in DOMAIN r.ended |->
                        <<[kind |-> "start", event |-> r.ended[i]],
                          [kind |-> "ended", event |-> r.ended[i]]>>]
           hint == IF r.usage THEN <<[kind |-> "hint", event |-> r.inserted[1]]>> ELSE <<>>
           late == Calls("adjust", r.late)
           told == [i \in DOMAIN r.duplicates |->
                      IF IsNotice(r.duplicates[i]) THEN <<>>
                      ELSE <<[kind |-> "notice", event |-> r.duplicates[i]]>>]
           a == FlattenSeq(starts)
           t == FlattenSeq(told)
<1>1. Todo(r) = ((a \o hint) \o late) \o t
  BY DEF Todo
<1>2. /\ Len(r.ended) \in Nat /\ DOMAIN r.ended = 1..Len(r.ended)
      /\ \A i \in 1..Len(r.ended) : r.ended[i] \in LogEvents
  BY DEF Results
<1>3. /\ Len(r.duplicates) \in Nat /\ DOMAIN r.duplicates = 1..Len(r.duplicates)
      /\ \A i \in 1..Len(r.duplicates) : r.duplicates[i] \in LogEvents
  BY DEF Results
<1>4. \A kind \in CallKinds : \A e \in LogEvents : Call(kind, e) \in CallSet
  BY DEF CallSet
<1>c. \A x, y : Among(<<x, y>>) = {x, y} /\ Among(<<x>>) = {x} /\ Among(<<>>) = {}
  <2>1. 1..2 = {1, 2} /\ 1..1 = {1} /\ 1..0 = {}
    OBVIOUS
  <2> SUFFICES ASSUME NEW x, NEW y
               PROVE  Among(<<x, y>>) = {x, y} /\ Among(<<x>>) = {x} /\ Among(<<>>) = {}
    OBVIOUS
  <2>2. /\ Len(<<x, y>>) = 2 /\ <<x, y>>[1] = x /\ <<x, y>>[2] = y
        /\ Len(<<x>>) = 1 /\ <<x>>[1] = x /\ Len(<<>>) = 0
    OBVIOUS
  <2> QED  BY <2>1, <2>2 DEF Among
<1>q. /\ \A x, y \in CallSet : <<x, y>> \in Seq(CallSet) /\ <<x>> \in Seq(CallSet)
      /\ <<>> \in Seq(CallSet)
  OBVIOUS
<1>k. \A kind, e : Call(kind, e).kind = kind /\ Call(kind, e).event = e
  OBVIOUS
<1>5. /\ a \in Seq(CallSet)
      /\ \A c \in Among(a) : c.kind \in {"start", "ended"}
      /\ \A n \in 1..Len(r.ended) :
           Call("start", r.ended[n]) \in Among(a) /\ Call("ended", r.ended[n]) \in Among(a)
  <2>1. Len(starts) = Len(r.ended) /\ (Len(starts) = 0 => starts = <<>>)
    BY <1>2
  <2>2. \A n \in 1..Len(r.ended) :
          starts[n] = <<Call("start", r.ended[n]), Call("ended", r.ended[n])>>
    BY <1>2
  <2> HIDE DEF starts
  <2>3. \A n \in 1..Len(r.ended) :
          Call("start", r.ended[n]) \in CallSet /\ Call("ended", r.ended[n]) \in CallSet
    BY <1>2, <1>4 DEF CallKinds
  <2> HIDE DEF Call
  <2>4. \A n \in 1..Len(starts) : starts[n] \in Seq(CallSet)
    BY <1>q, <2>1, <2>2, <2>3
  <2>5. a \in Seq(CallSet) /\ Among(a) = UNION {Among(starts[n]) : n \in 1..Len(starts)}
    BY <1>2, <2>1, <2>4, AmongFlat
  <2> HIDE DEF a
  <2>6. \A n \in 1..Len(starts) :
          Among(starts[n]) = {Call("start", r.ended[n]), Call("ended", r.ended[n])}
    BY <1>c, <2>1, <2>2
  <2>8. ASSUME NEW c \in Among(a) PROVE c.kind \in {"start", "ended"}
    <3>1. PICK n \in 1..Len(starts) : c \in Among(starts[n])
      BY <2>5
    <3>2. c = Call("start", r.ended[n]) \/ c = Call("ended", r.ended[n])
      BY <2>1, <2>6, <3>1
    <3> QED  BY <1>k, <3>2
  <2>9. ASSUME NEW n \in 1..Len(r.ended)
        PROVE  Call("start", r.ended[n]) \in Among(a) /\ Call("ended", r.ended[n]) \in Among(a)
    <3>1. n \in 1..Len(starts)
      BY <2>1
    <3>2. Among(starts[n]) \subseteq Among(a)
      BY <2>5, <3>1
    <3> QED  BY <2>6, <3>1, <3>2
  <2> QED  BY <2>5, <2>8, <2>9
<1>6. hint \in Seq(CallSet) /\ \A c \in Among(hint) : c.kind = "hint"
  <2>1. CASE r.usage
    <3>1. r.inserted \in Seq(LogEvents) /\ r.inserted # <<>>
      BY <2>1 DEF Results
    <3>2. r.inserted[1] \in LogEvents
      BY <3>1, EmptySeq
    <3>3. Call("hint", r.inserted[1]) \in CallSet
      BY <1>4, <3>2 DEF CallKinds
    <3>4. hint = <<Call("hint", r.inserted[1])>> /\ Call("hint", r.inserted[1]).kind = "hint"
      BY <2>1
    <3> HIDE DEF hint, Call
    <3> QED  BY <1>c, <3>3, <3>4
  <2>2. CASE ~r.usage
    <3>1. hint = <<>>
      BY <2>2
    <3> HIDE DEF hint
    <3> QED  BY <1>c, <3>1
  <2> QED  BY <2>1, <2>2
<1>7. /\ late \in Seq(CallSet)
      /\ Among(late) = {Call("adjust", r.late[i]) : i \in 1..Len(r.late)}
  <2>1. r.late \in Seq(LogEvents) /\ "adjust" \in CallKinds
    BY DEF Results, CallKinds
  <2> QED  BY <2>1, CallsAre
<1>8. /\ t \in Seq(CallSet)
      /\ \A c \in Among(t) : c.kind = "notice" /\ ~IsNotice(c.event)
  <2>1. Len(told) = Len(r.duplicates) /\ (Len(told) = 0 => told = <<>>)
    BY <1>3
  <2>2. \A n \in 1..Len(r.duplicates) :
          told[n] = IF IsNotice(r.duplicates[n]) THEN <<>>
                    ELSE <<Call("notice", r.duplicates[n])>>
    BY <1>3
  <2> HIDE DEF told
  <2>3. \A n \in 1..Len(r.duplicates) : Call("notice", r.duplicates[n]) \in CallSet
    BY <1>3, <1>4 DEF CallKinds
  <2> HIDE DEF Call
  <2>5. \A n \in 1..Len(told) : told[n] \in Seq(CallSet)
    BY <1>q, <2>1, <2>2, <2>3
  <2>6. t \in Seq(CallSet) /\ Among(t) = UNION {Among(told[n]) : n \in 1..Len(told)}
    BY <1>3, <2>1, <2>5, AmongFlat
  <2> HIDE DEF t
  <2>7. ASSUME NEW c \in Among(t) PROVE c.kind = "notice" /\ ~IsNotice(c.event)
    <3>1. PICK n \in 1..Len(told) : c \in Among(told[n])
      BY <2>6
    <3>2. CASE IsNotice(r.duplicates[n])
      BY <1>c, <2>1, <2>2, <3>1, <3>2
    <3>3. CASE ~IsNotice(r.duplicates[n])
      <4>1. told[n] = <<Call("notice", r.duplicates[n])>>
        BY <2>1, <2>2, <3>3
      <4>2. c = Call("notice", r.duplicates[n])
        BY <1>c, <3>1, <4>1
      <4> QED  BY <1>k, <3>3, <4>2
    <3> QED  BY <3>2, <3>3
  <2> QED  BY <2>6, <2>7
<1> HIDE DEF a, hint, late, t, starts, told
<1>9. /\ Todo(r) \in Seq(CallSet)
      /\ Among(Todo(r)) = ((Among(a) \cup Among(hint)) \cup Among(late)) \cup Among(t)
  <2>1. a \o hint \in Seq(CallSet) /\ Among(a \o hint) = Among(a) \cup Among(hint)
    BY <1>5, <1>6, AmongConcat
  <2> DEFINE ah == a \o hint
             ahl == ah \o late
  <2> HIDE DEF ah
  <2>2. ahl \in Seq(CallSet) /\ Among(ahl) = Among(ah) \cup Among(late)
    <3>1. ah \in Seq(CallSet) /\ late \in Seq(CallSet)
      BY <1>7, <2>1 DEF ah
    <3> QED  BY <3>1, AmongConcat
  <2> HIDE DEF ahl
  <2>3. ahl \o t \in Seq(CallSet) /\ Among(ahl \o t) = Among(ahl) \cup Among(t)
    <3>1. ahl \in Seq(CallSet) /\ t \in Seq(CallSet)
      BY <1>8, <2>2
    <3> QED  BY <3>1, AmongConcat
  <2>4. Todo(r) = ahl \o t
    BY <1>1 DEF ahl, ah
  <2>5. Among(ah) = Among(a) \cup Among(hint)
    BY <2>1 DEF ah
  <2> QED  BY <2>2, <2>3, <2>4, <2>5
<1>10. /\ \A n \in 1..Len(r.ended) :
            /\ [kind |-> "start", event |-> r.ended[n]] \in Among(Todo(r))
            /\ [kind |-> "ended", event |-> r.ended[n]] \in Among(Todo(r))
       /\ \A n \in 1..Len(r.late) : [kind |-> "adjust", event |-> r.late[n]] \in Among(Todo(r))
  BY <1>5, <1>7, <1>9
<1> HIDE DEF Call
<1>11. \A c \in Among(Todo(r)) : c.kind = "adjust" => \E n \in 1..Len(r.late) : c.event = r.late[n]
  <2> SUFFICES ASSUME NEW c \in Among(Todo(r)), c.kind = "adjust"
               PROVE  \E n \in 1..Len(r.late) : c.event = r.late[n]
    OBVIOUS
  <2>1. c \in Among(late)
    BY <1>5, <1>6, <1>8, <1>9
  <2>2. PICK n \in 1..Len(r.late) : c = Call("adjust", r.late[n])
    BY <1>7, <2>1
  <2> QED  BY <1>k, <2>2
<1>12. \A c \in Among(Todo(r)) : c.kind = "notice" => ~IsNotice(c.event)
  <2> SUFFICES ASSUME NEW c \in Among(Todo(r)), c.kind = "notice" PROVE ~IsNotice(c.event)
    OBVIOUS
  <2>1. c \notin Among(late)
    BY <1>7, <1>k
  <2> QED  BY <1>5, <1>6, <1>8, <1>9, <2>1
<1> QED  BY <1>5, <1>9, <1>10, <1>11, <1>12

--------------------------------------------------------------------------------
(* The inductive invariant: what the log holds, what the rows say, where the    *)
(* consumer stands, and what has followed or is still to follow.                *)
WInv ==
  /\ Shapes /\ TypeOK
  /\ Logged /\ Published
  /\ Sound(db)
  /\ InOrder(db, consumer.buffer) /\ Covered /\ Stored
  /\ CommittedIsProjected
  /\ NoticesTell /\ AdjustsLate /\ AdjustedIsLate
  /\ BillingAsked /\ UsageAsked
  /\ EndedIsBilled /\ LateFollows
  /\ BillsTell

(* Partitions only get longer.                                                  *)
Longer ==
  \A t \in Topic :
    /\ Len(log'[t]) \in Nat /\ Len(log[t]) <= Len(log'[t])
    /\ \A k \in 1..Len(log[t]) : log'[t][k] = log[t][k]

(* A record put at the end of a partition.                                      *)
LEMMA LogGrows ==
  ASSUME Logged, NEW t \in Topic, NEW e \in LogEvents,
         log' = [log EXCEPT ![t] = Append(@, e)]
  PROVE  /\ log' \in [Topic -> Seq(LogEvents)] /\ Longer
         /\ Len(log[t]) \in Nat /\ Len(log'[t]) = Len(log[t]) + 1
         /\ log'[t][Len(log[t]) + 1] = e
         /\ \A u \in Topic : \A k \in 1..Len(log'[u]) :
              \/ k \in 1..Len(log[u]) /\ log'[u][k] = log[u][k]
              \/ u = t /\ k = Len(log[t]) + 1
<1>1. log \in [Topic -> Seq(LogEvents)]
  BY DEF Logged
<1>2. log'[t] = Append(log[t], e) /\ \A u \in Topic : u # t => log'[u] = log[u]
  BY <1>1
<1>3. /\ log[t] \in Seq(LogEvents) /\ Len(log[t]) \in Nat
      /\ Append(log[t], e) \in Seq(LogEvents) /\ Len(Append(log[t], e)) = Len(log[t]) + 1
      /\ \A k \in 1..Len(log[t]) : Append(log[t], e)[k] = log[t][k]
      /\ Append(log[t], e)[Len(log[t]) + 1] = e
  BY <1>1, AppendProperties
<1>4. log' \in [Topic -> Seq(LogEvents)]
  BY <1>1, <1>3
<1>5. \A u \in Topic : Len(log[u]) \in Nat
  BY <1>1
<1>6. Longer
  <2>1. SUFFICES ASSUME NEW u \in Topic
                 PROVE  /\ Len(log'[u]) \in Nat /\ Len(log[u]) <= Len(log'[u])
                        /\ \A k \in 1..Len(log[u]) : log'[u][k] = log[u][k]
    BY DEF Longer
  <2>2. CASE u = t
    BY <1>2, <1>3, <2>2
  <2>3. CASE u # t
    BY <1>2, <1>5, <2>3
  <2> QED  BY <2>2, <2>3
<1>7. ASSUME NEW u \in Topic, NEW k \in 1..Len(log'[u])
      PROVE  \/ k \in 1..Len(log[u]) /\ log'[u][k] = log[u][k]
             \/ u = t /\ k = Len(log[t]) + 1
  <2>1. CASE u = t
    <3>1. k \in 1..(Len(log[t]) + 1)
      BY <1>2, <1>3, <2>1
    <3>2. k \in 1..Len(log[t]) \/ k = Len(log[t]) + 1
      BY <1>3, <3>1
    <3> QED  BY <1>2, <1>3, <2>1, <3>2
  <2>2. CASE u # t
    BY <1>2, <2>2
  <2> QED  BY <2>1, <2>2
<1> QED  BY <1>2, <1>3, <1>4, <1>6, <1>7

(* What precedes a record in its partition goes on preceding it.                *)
LEMMA FollowsOn ==
  ASSUME Logged, plan' = plan, sent' \in Nat, sent <= sent', Longer,
         NEW t \in Topic, NEW k \in 1..Len(log[t]), FollowsScript(t, k)
  PROVE  FollowsScript(t, k)'
<1>1. PICK i \in 1..sent :
        /\ log[t][k] = Script[i].event /\ Script[i].topic = t
        /\ \A j \in 1..(i - 1) :
             Script[j].topic = t => \E q \in 1..(k - 1) : log[t][q] = Script[j].event
  BY DEF FollowsScript
<1>2. Script' = Script
  BY DEF Script
<1>3. i \in 1..sent'
  BY DEF Logged
<1>4. Len(log[t]) \in Nat
  BY DEF Logged
<1>5. \A q \in 1..k : log'[t][q] = log[t][q]
  BY <1>4 DEF Longer
<1>6. k \in 1..k /\ \A q \in 1..(k - 1) : q \in 1..k
  BY <1>4
<1>7. /\ log'[t][k] = Script'[i].event /\ Script'[i].topic = t
      /\ \A j \in 1..(i - 1) :
           Script'[j].topic = t => \E q \in 1..(k - 1) : log'[t][q] = Script'[j].event
  BY <1>1, <1>2, <1>5, <1>6
<1> QED  BY <1>3, <1>7 DEF FollowsScript

(* A notice or an event that the session publishes again goes behind the rest.  *)
LEMMA LogAgain ==
  ASSUME Logged, Published, NEW t \in Topic, NEW e \in LogEvents,
         e \in Notices \/ \E i \in 1..sent : e = Script[i].event /\ Script[i].topic = t,
         plan' = plan, sent' = sent, log' = [log EXCEPT ![t] = Append(@, e)]
  PROVE  Logged' /\ Published'
<1>1. /\ log' \in [Topic -> Seq(LogEvents)] /\ Longer
      /\ Len(log[t]) \in Nat /\ Len(log'[t]) = Len(log[t]) + 1
      /\ log'[t][Len(log[t]) + 1] = e
      /\ \A u \in Topic : \A k \in 1..Len(log'[u]) :
           \/ k \in 1..Len(log[u]) /\ log'[u][k] = log[u][k]
           \/ u = t /\ k = Len(log[t]) + 1
  BY LogGrows
<1>2. /\ Script' = Script /\ LogEvents' = LogEvents /\ Notices' = Notices
      /\ plan \in Plans /\ sent \in 0..Len(Script) /\ Len(Script) \in Nat
      /\ DOMAIN Script = 1..Len(Script) /\ sent \in Nat
  BY ScriptFacts DEF Script, LogEvents, Notices, ScriptEvents, Logged
<1>3. LogOrder'
  <2>1. SUFFICES ASSUME NEW u \in Topic, NEW k \in 1..Len(log'[u])
                 PROVE  log'[u][k] \in Notices \/ FollowsScript(u, k)'
    BY <1>2 DEF LogOrder
  <2>2. CASE k \in 1..Len(log[u]) /\ log'[u][k] = log[u][k]
    BY <1>1, <1>2, <2>2, FollowsOn DEF Logged, LogOrder
  <2>3. CASE u = t /\ k = Len(log[t]) + 1 /\ e \notin Notices
    <3>1. PICK i \in 1..sent : e = Script[i].event /\ Script[i].topic = t
      BY <2>3
    <3>2. ASSUME NEW j \in 1..(i - 1), Script[j].topic = t
          PROVE  \E q \in 1..(k - 1) : log'[t][q] = Script[j].event
      <4>1. j \in 1..sent
        BY <1>2
      <4>2. PICK q \in 1..Len(log[t]) : log[t][q] = Script[j].event
        BY <3>2, <4>1 DEF Published
      <4>3. q \in 1..(k - 1) /\ log'[t][q] = log[t][q]
        BY <1>1, <2>3 DEF Longer
      <4> QED  BY <4>2, <4>3
    <3>3. log'[t][k] = e
      BY <1>1, <2>3
    <3>4. /\ log'[u][k] = Script'[i].event /\ Script'[i].topic = u
          /\ \A j \in 1..(i - 1) :
               Script'[j].topic = u => \E q \in 1..(k - 1) : log'[u][q] = Script'[j].event
      BY <1>2, <2>3, <3>1, <3>2, <3>3
    <3> QED  BY <3>4 DEF FollowsScript
  <2>4. CASE u = t /\ k = Len(log[t]) + 1 /\ e \in Notices
    BY <1>1, <2>4
  <2> QED  BY <1>1, <2>2, <2>3, <2>4
<1>4. Published'
  <2>1. SUFFICES ASSUME NEW j \in 1..sent
                 PROVE  \E k \in 1..Len(log'[Script[j].topic]) :
                          log'[Script[j].topic][k] = Script[j].event
    BY <1>2 DEF Published
  <2>2. Script[j].topic \in Topic
    <3>1. j \in DOMAIN Script
      BY <1>2
    <3> QED  BY <1>2, <3>1, WorkerAssumption DEF Script
  <2>3. PICK k \in 1..Len(log[Script[j].topic]) : log[Script[j].topic][k] = Script[j].event
    BY DEF Published
  <2>4. Len(log[Script[j].topic]) \in Nat
    BY <2>2 DEF Logged
  <2>5. k \in 1..Len(log'[Script[j].topic]) /\ log'[Script[j].topic][k] = log[Script[j].topic][k]
    BY <1>1, <2>2, <2>4 DEF Longer
  <2> QED  BY <2>3, <2>5
<1> QED  BY <1>1, <1>2, <1>3, <1>4 DEF Logged

(* The next event of the session.                                               *)
LEMMA LogNext ==
  ASSUME Logged, Published, sent < Len(Script), sent' = sent + 1, plan' = plan,
         log' = [log EXCEPT ![Script[sent + 1].topic] = Append(@, Script[sent + 1].event)]
  PROVE  Logged' /\ Published' /\ Longer
<1> DEFINE t == Script[sent + 1].topic
           e == Script[sent + 1].event
<1>1. /\ Script' = Script /\ LogEvents' = LogEvents /\ Notices' = Notices
      /\ plan \in Plans /\ sent \in 0..Len(Script) /\ Len(Script) \in Nat
      /\ DOMAIN Script = 1..Len(Script) /\ sent \in Nat
  BY ScriptFacts DEF Script, LogEvents, Notices, ScriptEvents, Logged
<1>2. \A j \in 1..Len(Script) : Script[j].topic \in Topic /\ Script[j].event \in LogEvents
  BY <1>1, WorkerAssumption DEF Script, LogEvents, ScriptEvents
<1>3. t \in Topic /\ e \in LogEvents /\ log' = [log EXCEPT ![t] = Append(@, e)]
  BY <1>1, <1>2
<1>4. /\ log' \in [Topic -> Seq(LogEvents)] /\ Longer
      /\ Len(log[t]) \in Nat /\ Len(log'[t]) = Len(log[t]) + 1
      /\ log'[t][Len(log[t]) + 1] = e
      /\ \A u \in Topic : \A k \in 1..Len(log'[u]) :
           \/ k \in 1..Len(log[u]) /\ log'[u][k] = log[u][k]
           \/ u = t /\ k = Len(log[t]) + 1
  <2> HIDE DEF t, e
  <2> QED  BY <1>3, LogGrows
<1>5. LogOrder'
  <2>1. SUFFICES ASSUME NEW u \in Topic, NEW k \in 1..Len(log'[u])
                 PROVE  log'[u][k] \in Notices \/ FollowsScript(u, k)'
    BY <1>1 DEF LogOrder
  <2>2. CASE k \in 1..Len(log[u]) /\ log'[u][k] = log[u][k]
    <3>1. sent' \in Nat /\ sent <= sent'
      BY <1>1
    <3> QED  BY <1>4, <2>2, <3>1, FollowsOn DEF Logged, LogOrder
  <2>3. CASE u = t /\ k = Len(log[t]) + 1
    <3>1. ASSUME NEW j \in 1..((sent + 1) - 1), Script[j].topic = t
          PROVE  \E q \in 1..(k - 1) : log'[t][q] = Script[j].event
      <4>1. j \in 1..sent
        BY <1>1
      <4>2. PICK q \in 1..Len(log[t]) : log[t][q] = Script[j].event
        BY <3>1, <4>1 DEF Published
      <4> HIDE DEF t, e
      <4>3. q \in 1..(k - 1) /\ log'[t][q] = log[t][q]
        BY <1>3, <1>4, <2>3 DEF Longer
      <4> QED  BY <4>2, <4>3
    <3>2. sent + 1 \in 1..sent'
      BY <1>1
    <3>3. /\ log'[u][k] = Script'[sent + 1].event /\ Script'[sent + 1].topic = u
          /\ \A j \in 1..((sent + 1) - 1) :
               Script'[j].topic = u => \E q \in 1..(k - 1) : log'[u][q] = Script'[j].event
      BY <1>1, <1>4, <2>3, <3>1
    <3> QED  BY <3>2, <3>3 DEF FollowsScript
  <2> QED  BY <1>4, <2>2, <2>3
<1>6. Published'
  <2>1. SUFFICES ASSUME NEW j \in 1..(sent + 1)
                 PROVE  \E k \in 1..Len(log'[Script[j].topic]) :
                          log'[Script[j].topic][k] = Script[j].event
    <3>1. Script' = Script /\ sent' = sent + 1
      BY <1>1
    <3> QED  BY <3>1 DEF Published
  <2>2. CASE j = sent + 1
    <3>1. Len(log[t]) + 1 \in 1..Len(log'[t])
      <4> HIDE DEF t
      <4> QED  BY <1>4
    <3> QED  BY <1>4, <2>2, <3>1
  <2>3. CASE j # sent + 1
    <3>1. j \in 1..sent /\ Script[j].topic \in Topic
      BY <1>1, <1>2, <2>3
    <3>2. PICK k \in 1..Len(log[Script[j].topic]) : log[Script[j].topic][k] = Script[j].event
      BY <3>1 DEF Published
    <3>3. Len(log[Script[j].topic]) \in Nat
      BY <3>1 DEF Logged
    <3> DEFINE u == Script[j].topic
    <3>4. /\ Len(log'[u]) \in Nat /\ Len(log[u]) <= Len(log'[u]) /\ log'[u][k] = log[u][k]
      BY <1>4, <3>1, <3>2 DEF Longer
    <3>5. k \in 1..Len(log'[u])
      <4> HIDE DEF u
      <4>1. k \in 1..Len(log[u]) /\ Len(log[u]) \in Nat
        BY <3>2, <3>3 DEF u
      <4> QED  BY <3>4, <4>1
    <3> QED  BY <3>2, <3>4, <3>5
  <2> QED  BY <2>2, <2>3
<1>7. sent' \in 0..Len(Script') /\ plan' \in Plans
  BY <1>1
<1>8. log' \in [Topic -> Seq(LogEvents')] /\ sent' \in 0..Len(Script')
  BY <1>1, <1>4, <1>7
<1> QED  BY <1>4, <1>5, <1>6, <1>7, <1>8 DEF Logged

--------------------------------------------------------------------------------
(* Rows that say what they should go on saying it while the partitions grow.    *)
LEMMA SoundStays ==
  ASSUME Logged, Longer, plan' = plan, Sound(db')
  PROVE  Sound(db)'
<1>1. ScriptEvents' = ScriptEvents
  BY DEF ScriptEvents, Script
<1>2. IsDb(db)'
  BY DEF Sound, IsDb, DbFields
<1>3. RowPair(db)'
  BY <1>1 DEF Sound, RowPair, HasUsage, Wanted
<1>4. RecordsKeyed(db)'
  BY <1>1 DEF Sound, RecordsKeyed
<1>5. UsageCounted(db)'
  BY <1>1 DEF Sound, UsageCounted, Counts, Recorded, HasUsage, Wanted
<1>6. ExpectedMet(db)'
  BY DEF Sound, ExpectedMet, HasUsage
<1>7. ManifestBehind(db)'
  <2>1. SUFFICES ASSUME db'.manifest # NoManifest
                 PROVE  /\ db'.manifest.offset \in Nat
                        /\ db'.manifest.offset < Len(log'["usage-events"])
                        /\ \A k \in 1..db'.manifest.offset : log'["usage-events"][k].key \in db'.keys
    BY DEF ManifestBehind
  <2>2. /\ db'.manifest.offset \in Nat
        /\ db'.manifest.offset < Len(log["usage-events"])
        /\ \A k \in 1..db'.manifest.offset : log["usage-events"][k].key \in db'.keys
    BY <2>1 DEF Sound, ManifestBehind
  <2>3. "usage-events" \in Topic
    BY WorkerAssumption
  <2>4. /\ Len(log["usage-events"]) \in Nat /\ Len(log'["usage-events"]) \in Nat
        /\ Len(log["usage-events"]) <= Len(log'["usage-events"])
        /\ \A k \in 1..Len(log["usage-events"]) :
             log'["usage-events"][k] = log["usage-events"][k]
    BY <2>3 DEF Logged, Longer
  <2>5. \A k \in 1..db'.manifest.offset : k \in 1..Len(log["usage-events"])
    BY <2>2, <2>4
  <2> QED  BY <2>2, <2>4, <2>5
<1> QED  BY <1>2, <1>3, <1>4, <1>5, <1>6, <1>7 DEF Sound

(* What is committed stays projected, and what the consumer holds stays in      *)
(* order.                                                                       *)
LEMMA FetchedStays ==
  ASSUME WInv, Longer, plan' = plan, db.keys \subseteq db'.keys
  PROVE  /\ committed' = committed => CommittedIsProjected'
         /\ consumer'.position = consumer.position /\ consumer'.buffer = consumer.buffer =>
              InOrder(db, consumer.buffer)' /\ Covered'
         /\ consumer' = Stopped => InOrder(db, consumer.buffer)' /\ Covered'
<1>1. \A t \in Topic :
        /\ Len(log[t]) \in Nat /\ Len(log'[t]) \in Nat /\ Len(log[t]) <= Len(log'[t])
        /\ committed[t] \in Nat /\ committed[t] <= Len(log[t])
        /\ consumer.position[t] \in Nat /\ consumer.position[t] <= Len(log[t])
        /\ \A k \in 1..Len(log[t]) : log'[t][k] = log[t][k]
  BY DEF WInv, Logged, Shapes, TypeOK, Longer
<1>2. \A t \in Topic : \A k \in 1..Len(log[t]) : Entry(t, k)' = Entry(t, k)
  BY <1>1 DEF Entry
<1>3. ASSUME committed' = committed PROVE CommittedIsProjected'
  <2>1. SUFFICES ASSUME NEW t \in Topic, NEW k \in 1..committed[t]
                 PROVE  log'[t][k].key \in db'.keys
    BY <1>3 DEF CommittedIsProjected
  <2>2. log'[t][k] = log[t][k]
    BY <1>1
  <2> QED  BY <2>2 DEF WInv, CommittedIsProjected
<1>4. ASSUME consumer'.position = consumer.position, consumer'.buffer = consumer.buffer
      PROVE  InOrder(db, consumer.buffer)' /\ Covered'
  <2>1. InOrder(db, consumer.buffer)'
    <3>1. SUFFICES ASSUME NEW i \in 1..Len(consumer.buffer)
                   PROVE  \E t \in Topic : \E k \in 1..Len(log'[t]) :
                            /\ consumer.buffer[i] = Entry(t, k)'
                            /\ \A q \in 1..(k - 1) :
                                 \/ log'[t][q].key \in db'.keys
                                 \/ \E j \in 1..(i - 1) : consumer.buffer[j] = Entry(t, q)'
      <4> DEFINE In(items, i) == \E t \in Topic : \E k \in 1..Len(log'[t]) :
                   /\ items[i] = Entry(t, k)'
                   /\ \A q \in 1..(k - 1) :
                        \/ log'[t][q].key \in db'.keys
                        \/ \E j \in 1..(i - 1) : items[j] = Entry(t, q)'
      <4>1. InOrder(db, consumer.buffer)' <=>
              \A i \in 1..Len(consumer'.buffer) : In(consumer'.buffer, i)
        BY Zenon DEF InOrder
      <4>2. ASSUME \A i \in 1..Len(consumer.buffer) : In(consumer.buffer, i)
            PROVE  InOrder(db, consumer.buffer)'
        <5> HIDE DEF In
        <5> QED  BY <1>4, <4>1, <4>2, Zenon
      <4> QED  BY <4>2, Zenon
    <3>2. InOrder(db, consumer.buffer)
      BY DEF WInv
    <3>3. PICK t \in Topic : \E k \in 1..Len(log[t]) :
            /\ consumer.buffer[i] = Entry(t, k)
            /\ \A q \in 1..(k - 1) :
                 log[t][q].key \in db.keys \/ \E j \in 1..(i - 1) : consumer.buffer[j] = Entry(t, q)
      BY <3>2 DEF InOrder
    <3>4. PICK k \in 1..Len(log[t]) :
            /\ consumer.buffer[i] = Entry(t, k)
            /\ \A q \in 1..(k - 1) :
                 log[t][q].key \in db.keys \/ \E j \in 1..(i - 1) : consumer.buffer[j] = Entry(t, q)
      BY <3>3
    <3>5. k \in 1..Len(log'[t]) /\ \A q \in 1..(k - 1) : q \in 1..Len(log[t])
      BY <1>1
    <3>6. \A q \in 1..(k - 1) : log'[t][q] = log[t][q] /\ Entry(t, q)' = Entry(t, q)
      BY <1>1, <1>2, <3>5
    <3>7. Entry(t, k)' = Entry(t, k)
      BY <1>2
    <3> QED  BY <3>4, <3>5, <3>6, <3>7
  <2>2. Covered'
    <3>1. SUFFICES ASSUME NEW t \in Topic, NEW k \in 1..consumer.position[t]
                   PROVE  log'[t][k].key \in db'.keys \/ Entry(t, k)' \in Among(consumer.buffer)
      BY <1>4 DEF Covered, Among
    <3>2. k \in 1..Len(log[t])
      BY <1>1
    <3>3. log'[t][k] = log[t][k] /\ Entry(t, k)' = Entry(t, k)
      BY <1>1, <1>2, <3>2
    <3> QED  BY <3>3 DEF WInv, Covered
  <2> QED  BY <2>1, <2>2
<1>5. ASSUME consumer' = Stopped PROVE InOrder(db, consumer.buffer)' /\ Covered'
  <2>1. consumer'.buffer = <<>> /\ consumer'.position = [t \in Topic |-> 0]
    BY <1>5 DEF Stopped
  <2>2. Len(consumer'.buffer) = 0 /\ \A t \in Topic : consumer'.position[t] = 0
    BY <2>1
  <2>3. 1..0 = {}
    OBVIOUS
  <2> QED  BY <2>2, <2>3 DEF InOrder, Covered
<1> QED  BY <1>3, <1>4, <1>5

(* What has followed from what is committed has followed.                       *)
LEMMA FollowedStays ==
  ASSUME WInv, Longer, plan' = plan, committed' = committed,
         temporal.billing => temporal'.billing, temporal.ended => temporal'.ended,
         temporal.adjusting \subseteq temporal'.adjusting,
         db'.final = db.final, before' = before, lost \subseteq lost'
  PROVE  EndedIsBilled' /\ LateFollows'
<1>1. \A t \in Topic : \A k \in 1..committed[t] : log'[t][k] = log[t][k]
  <2>1. \A t \in Topic :
          /\ Len(log[t]) \in Nat /\ committed[t] \in Nat /\ committed[t] <= Len(log[t])
          /\ \A k \in 1..Len(log[t]) : log'[t][k] = log[t][k]
    BY DEF WInv, Logged, Shapes, TypeOK, Longer
  <2>2. \A t \in Topic : \A k \in 1..committed[t] : k \in 1..Len(log[t])
    BY <2>1
  <2> QED  BY <2>1, <2>2
<1>2. "call-events" \in Topic /\ "usage-events" \in Topic
  BY WorkerAssumption
<1>3. Measured' = Measured
  BY DEF Measured, IsUsage, IsBarrier, Priced
<1>4. EndedIsBilled'
  BY <1>1, <1>2 DEF WInv, EndedIsBilled, IsLost
<1>5. LateFollows'
  BY <1>1, <1>2, <1>3 DEF WInv, LateFollows, IsLost
<1> QED  BY <1>4, <1>5

(* What is asked of Temporal stays asked, and what is due stays due.            *)
LEMMA AskedStays ==
  ASSUME WInv, plan' = plan, db' = db, temporal' = temporal, UNCHANGED billing,
         Among(consumer.todo)' \subseteq Among(consumer.todo), Due \subseteq Due'
  PROVE  NoticesTell' /\ AdjustsLate' /\ AdjustedIsLate' /\ BillingAsked' /\ UsageAsked'
<1>1. ScriptEvents' = ScriptEvents /\ bills' = bills /\ before' = before
  BY DEF ScriptEvents, Script, billing
<1>2. NoticesTell'
  BY <1>1 DEF WInv, NoticesTell
<1>3. AdjustsLate' /\ AdjustedIsLate'
  BY <1>1 DEF WInv, AdjustsLate, AdjustedIsLate
<1>4. BillingAsked'
  BY <1>1 DEF WInv, BillingAsked, IsDue
<1>5. UsageAsked'
  BY <1>1 DEF WInv, UsageAsked, IsDue
<1> QED  BY <1>2, <1>3, <1>4, <1>5

(* A batch that stays in hand leaves due what was due.                          *)
LEMMA DueStays ==
  ASSUME consumer'.todo = consumer.todo, lost' = lost
  PROVE  Among(consumer.todo)' = Among(consumer.todo) /\ Due' = Due
<1> QED  BY DEF Among, Due

(* The attempts of the bill tell what they told while the rows only grow.       *)
LEMMA BillsStay ==
  ASSUME WInv, plan' = plan, UNCHANGED billing, db'.final = db.final, db.keys \subseteq db'.keys
  PROVE  BillsTell'
<1>1. /\ ScriptEvents' = ScriptEvents /\ ScriptIds' = ScriptIds /\ BillSet' = BillSet
      /\ bills' = bills /\ before' = before
  BY DEF ScriptEvents, Script, ScriptIds, BillSet, billing
<1>2. \A id : IsKeyed(id) => IsKeyed(id)'
  BY <1>1 DEF IsKeyed
<1> QED  BY <1>1, <1>2 DEF WInv, BillsTell

(* Partitions that stay as they are.                                            *)
LEMMA LogStays ==
  ASSUME Logged, Published, plan' = plan, sent' = sent, log' = log
  PROVE  Logged' /\ Published'
<1>1. Script' = Script /\ LogEvents' = LogEvents /\ Notices' = Notices
  BY DEF Script, LogEvents, Notices, ScriptEvents
<1>2. \A t \in Topic : \A k \in 1..Len(log[t]) : FollowsScript(t, k) => FollowsScript(t, k)'
  BY <1>1 DEF FollowsScript
<1>3. LogOrder'
  BY <1>1, <1>2 DEF Logged, LogOrder
<1>4. Published'
  BY <1>1 DEF Published
<1> QED  BY <1>1, <1>3, <1>4 DEF Logged

(* The parts of the invariant, put together again.                              *)
LEMMA Together ==
  ASSUME Shapes', TypeOK', Logged', Published', Sound(db)', InOrder(db, consumer.buffer)',
         Covered', Stored', CommittedIsProjected', NoticesTell', AdjustsLate', AdjustedIsLate',
         BillingAsked', UsageAsked', EndedIsBilled', LateFollows', BillsTell'
  PROVE  WInv'
<1> QED  BY DEF WInv

(* A step that leaves the log, the rows and Temporal alone, and whose consumer  *)
(* is well.                                                                     *)
LEMMA QuietKeeps ==
  ASSUME WInv, UNCHANGED <<session, committed, db, temporal, billing, lost>>,
         consumer'.todo = consumer.todo,
         Shapes', TypeOK', InOrder(db, consumer.buffer)', Covered', Stored'
  PROVE  WInv'
<1>1. plan' = plan /\ sent' = sent /\ log' = log /\ committed' = committed /\ db' = db
      /\ temporal' = temporal /\ before' = before /\ lost' = lost /\ UNCHANGED billing
  BY DEF session, billing
<1>2. Longer
  BY <1>1 DEF WInv, Logged, Longer
<1>3. Logged' /\ Published'
  BY <1>1, LogStays DEF WInv
<1>4. Sound(db)'
  BY <1>1, <1>2, SoundStays DEF WInv
<1>5. CommittedIsProjected'
  BY <1>1, <1>2, FetchedStays
<1>6. NoticesTell' /\ AdjustsLate' /\ AdjustedIsLate' /\ BillingAsked' /\ UsageAsked'
  BY <1>1, AskedStays, DueStays
<1>7. EndedIsBilled' /\ LateFollows'
  BY <1>1, <1>2, FollowedStays
<1>8. BillsTell'
  BY <1>1, BillsStay
<1> QED  BY <1>3, <1>4, <1>5, <1>6, <1>7, <1>8, Together

(* The consumer ends, for whatever reason, with nothing left to do.             *)
LEMMA StopKeeps ==
  ASSUME WInv, UNCHANGED <<session, committed, db, temporal, billing, lost>>,
         consumer' = Stopped, consumer.todo = <<>>
  PROVE  WInv'
<1>1. plan' = plan /\ sent' = sent /\ log' = log /\ committed' = committed /\ db' = db
      /\ temporal' = temporal
  BY DEF session
<1>2. Longer
  BY <1>1 DEF WInv, Logged, Longer
<1>3. /\ consumer'.phase = "stopped" /\ consumer'.position = [t \in Topic |-> 0]
      /\ consumer'.buffer = <<>> /\ consumer'.attempt = 0 /\ consumer'.todo = <<>>
      /\ consumer' = [f \in {"phase", "position", "buffer", "attempt", "todo"} |-> consumer'[f]]
  BY DEF Stopped
<1>4. InOrder(db, consumer.buffer)' /\ Covered'
  BY <1>1, <1>2, FetchedStays
<1>5. Script' = Script /\ LogEvents' = LogEvents /\ CallSet' = CallSet /\ ItemSet' = ItemSet
  BY <1>1 DEF Script, LogEvents, Notices, ScriptEvents, CallSet, ItemSet
<1>6. Shapes'
  BY <1>1, <1>3, <1>5 DEF WInv, Shapes
<1>7. TypeOK'
  <2>1. \A t \in Topic : Len(log[t]) \in Nat
    BY DEF WInv, Logged
  <2>2. 0 \in 0..Attempts
    BY DEF Attempts
  <2> QED  BY <1>1, <1>3, <1>5, <2>1, <2>2 DEF WInv, TypeOK
<1>8. Stored'
  BY <1>3 DEF Stored
<1> QED  BY <1>3, <1>4, <1>6, <1>7, <1>8, QuietKeeps

--------------------------------------------------------------------------------
(* The partitions grow, and nothing else happens.                               *)
LEMMA LogKeeps ==
  ASSUME WInv, plan' = plan, Logged', Published', Longer,
         UNCHANGED <<committed, consumer, db, temporal, billing, lost>>
  PROVE  WInv'
<1>1. /\ Script' = Script /\ LogEvents' = LogEvents /\ CallSet' = CallSet /\ ItemSet' = ItemSet
      /\ before' = before
  BY DEF Script, LogEvents, Notices, ScriptEvents, CallSet, ItemSet, billing
<1>2. Shapes'
  BY <1>1 DEF WInv, Shapes
<1>3. TypeOK'
  <2>1. \A t \in Topic : consumer.position[t] <= Len(log'[t]) /\ committed[t] <= Len(log'[t])
    <3>1. \A t \in Topic :
            /\ consumer.position[t] \in Nat /\ committed[t] \in Nat
            /\ consumer.position[t] <= Len(log[t]) /\ committed[t] <= Len(log[t])
            /\ Len(log[t]) \in Nat /\ Len(log'[t]) \in Nat /\ Len(log[t]) <= Len(log'[t])
      BY DEF WInv, Shapes, TypeOK, Logged, Longer
    <3> QED  BY <3>1
  <2>2. sent' \in 0..Len(Script')
    BY DEF Logged
  <2> QED  BY <2>1, <2>2 DEF WInv, TypeOK
<1>4. Sound(db)'
  BY SoundStays DEF WInv
<1>5. CommittedIsProjected' /\ InOrder(db, consumer.buffer)' /\ Covered'
  BY FetchedStays
<1>6. Stored'
  BY DEF WInv, Stored
<1>7. NoticesTell' /\ AdjustsLate' /\ AdjustedIsLate' /\ BillingAsked' /\ UsageAsked'
  BY <1>1, AskedStays, DueStays
<1>8. EndedIsBilled' /\ LateFollows'
  BY <1>1, FollowedStays
<1>9. BillsTell'
  BY BillsStay
<1> QED  BY <1>2, <1>3, <1>4, <1>5, <1>6, <1>7, <1>8, <1>9, Together

(* The session publishes its next event.                                        *)
LEMMA PublishKeeps ==
  ASSUME WInv, Publish
  PROVE  WInv'
<1>1. Logged' /\ Published' /\ Longer
  BY LogNext DEF Publish, WInv
<1> QED  BY <1>1, LogKeeps DEF Publish

(* An event is published again.                                                 *)
LEMMA ReplayKeeps ==
  ASSUME WInv, Replay
  PROVE  WInv'
<1>1. PICK i \in 1..sent : log' = [log EXCEPT ![Script[i].topic] = Append(@, Script[i].event)]
  BY DEF Replay
<1>2. plan' = plan /\ sent' = sent
  BY DEF Replay
<1> DEFINE t == Script[i].topic
           e == Script[i].event
<1>3. /\ Logged /\ Published /\ plan \in Plans /\ sent \in 0..Len(Script)
      /\ Len(Script) \in Nat /\ DOMAIN Script = 1..Len(Script)
  BY ScriptFacts DEF WInv, Logged
<1>4. i \in DOMAIN Script
  BY <1>3
<1>5. t \in Topic /\ e \in LogEvents
  BY <1>3, <1>4, WorkerAssumption DEF Script, LogEvents, ScriptEvents
<1>6. e = Script[i].event /\ Script[i].topic = t /\ log' = [log EXCEPT ![t] = Append(@, e)]
  BY <1>1
<1> HIDE DEF t, e
<1>7. Logged' /\ Published'
  BY <1>2, <1>3, <1>5, <1>6, LogAgain
<1>8. Longer
  BY <1>3, <1>5, <1>6, LogGrows
<1> QED  BY <1>2, <1>7, <1>8, LogKeeps DEF Replay

--------------------------------------------------------------------------------
(* A new consumer starts where the group's offsets are.                         *)
LEMMA StartKeeps ==
  ASSUME WInv, Start
  PROVE  WInv'
<1>1. /\ UNCHANGED <<session, committed, db, temporal, billing, lost>>
      /\ plan' = plan /\ sent' = sent /\ log' = log /\ committed' = committed /\ db' = db
      /\ temporal' = temporal
  BY DEF Start, session
<1>2. /\ consumer'.phase = "polling" /\ consumer'.position = committed
      /\ consumer'.buffer = <<>> /\ consumer'.attempt = 0 /\ consumer'.todo = <<>>
      /\ consumer' = [f \in {"phase", "position", "buffer", "attempt", "todo"} |-> consumer'[f]]
  BY DEF Start, Stopped
<1>3. consumer.todo = <<>>
  BY DEF Start, WInv, TypeOK
<1>4. Script' = Script /\ LogEvents' = LogEvents /\ CallSet' = CallSet /\ ItemSet' = ItemSet
  BY <1>1 DEF Script, LogEvents, Notices, ScriptEvents, CallSet, ItemSet
<1>5. Shapes'
  BY <1>1, <1>2, <1>4 DEF WInv, Shapes
<1>6. TypeOK'
  <2>1. 0 \in 0..Attempts
    BY DEF Attempts
  <2> QED  BY <1>1, <1>2, <1>4, <2>1 DEF WInv, TypeOK
<1>7. InOrder(db, consumer.buffer)' /\ Stored'
  <2>1. Len(consumer'.buffer) = 0 /\ 1..0 = {}
    BY <1>2
  <2> QED  BY <1>2, <2>1 DEF InOrder, Stored
<1>8. Covered'
  BY <1>1, <1>2 DEF Covered, WInv, CommittedIsProjected
<1> QED  BY <1>1, <1>2, <1>3, <1>5, <1>6, <1>7, <1>8, QuietKeeps

(* A poll adds records of the log to the batch.                                 *)
LEMMA PollKeeps ==
  ASSUME WInv, Poll
  PROVE  WInv'
<1>0. /\ UNCHANGED <<session, committed, db, temporal, billing, lost>>
      /\ plan' = plan /\ sent' = sent /\ log' = log /\ committed' = committed /\ db' = db
      /\ temporal' = temporal
      /\ consumer.phase = "polling"
  BY DEF Poll, session
<1>1. PICK count \in Fetches : \E order \in SetToSeqs({t \in Topic : count[t] > 0}) :
        LET items == Fetched(count, order)
        IN  /\ consumer.buffer \o items # <<>>
            /\ \E due \in BOOLEAN : consumer' = [consumer EXCEPT
                 !.position = [t \in Topic |-> @[t] + count[t]],
                 !.buffer   = consumer.buffer \o items,
                 !.phase    = IF due THEN "projecting" ELSE "polling"]
  BY DEF Poll
<1>2. PICK order \in SetToSeqs({t \in Topic : count[t] > 0}) :
        LET items == Fetched(count, order)
        IN  /\ consumer.buffer \o items # <<>>
            /\ \E due \in BOOLEAN : consumer' = [consumer EXCEPT
                 !.position = [t \in Topic |-> @[t] + count[t]],
                 !.buffer   = consumer.buffer \o items,
                 !.phase    = IF due THEN "projecting" ELSE "polling"]
  BY <1>1
<1> DEFINE items == Fetched(count, order)
           old == consumer.buffer
           new == old \o items
<1>3. PICK due \in BOOLEAN :
        /\ new # <<>>
        /\ consumer' = [consumer EXCEPT
             !.position = [t \in Topic |-> @[t] + count[t]],
             !.buffer   = new,
             !.phase    = IF due THEN "projecting" ELSE "polling"]
  BY <1>2
<1>4. /\ log \in [Topic -> Seq(LogEvents)] /\ consumer.position \in [Topic -> Nat]
      /\ old \in Seq(ItemSet) /\ Len(old) \in Nat
  BY DEF WInv, Logged, Shapes
<1>5. /\ items \in Seq(ItemSet)
      /\ \A i \in 1..Len(items) : \E t \in Topic : \E k \in 1..count[t] :
           /\ items[i] = Record(t, k)
           /\ \A q \in 1..(k - 1) : \E j \in 1..(i - 1) : items[j] = Record(t, q)
      /\ \A t \in Topic : \A k \in 1..count[t] : \E i \in 1..Len(items) :
           items[i] = Record(t, k)
  BY <1>4, FetchedIs DEF ItemSet
<1>6. \A t \in Topic :
        /\ count[t] \in Nat /\ consumer.position[t] \in Nat /\ Len(log[t]) \in Nat
        /\ consumer.position[t] + count[t] <= Len(log[t])
  BY <1>4, WorkerAssumption DEF Fetches
<1> HIDE DEF items
<1>7. /\ new \in Seq(ItemSet) /\ Len(new) = Len(old) + Len(items) /\ Len(items) \in Nat
      /\ \A i \in 1..(Len(old) + Len(items)) :
           new[i] = IF i <= Len(old) THEN old[i] ELSE items[i - Len(old)]
  <2> HIDE DEF old
  <2> QED  BY <1>4, <1>5, ConcatProperties
<1> HIDE DEF new
<1>8. /\ consumer'.position = [t \in Topic |-> consumer.position[t] + count[t]]
      /\ consumer'.buffer = new
      /\ consumer'.phase \in {"projecting", "polling"}
      /\ consumer'.attempt = consumer.attempt /\ consumer'.todo = consumer.todo
      /\ consumer' = [f \in {"phase", "position", "buffer", "attempt", "todo"} |-> consumer'[f]]
  BY <1>3 DEF WInv, Shapes
<1>9. /\ \A i \in 1..Len(old) : i \in 1..Len(new) /\ new[i] = old[i]
      /\ \A i \in 1..Len(items) : Len(old) + i \in 1..Len(new) /\ new[Len(old) + i] = items[i]
      /\ \A i \in 1..Len(new) : i \in 1..Len(old) \/ i - Len(old) \in 1..Len(items)
  <2> DEFINE a == Len(old)
             b == Len(items)
  <2>1. a \in Nat /\ b \in Nat /\ Len(new) = a + b
    BY <1>4, <1>7
  <2>2. \A i \in 1..(a + b) : new[i] = IF i <= a THEN old[i] ELSE items[i - a]
    BY <1>7
  <2> HIDE DEF a, b
  <2>3. \A i \in 1..a : i \in 1..(a + b) /\ i <= a
    BY <2>1
  <2>4. \A i \in 1..b : a + i \in 1..(a + b) /\ ~(a + i <= a) /\ (a + i) - a = i
    BY <2>1
  <2>5. \A i \in 1..(a + b) : i \in 1..a \/ i - a \in 1..b
    BY <2>1
  <2>6. \A i \in 1..a : new[i] = old[i]
    BY <2>2, <2>3
  <2>7. \A i \in 1..b : new[a + i] = items[i]
    <3> SUFFICES ASSUME NEW i \in 1..b PROVE new[a + i] = items[i]
      OBVIOUS
    <3>1. new[a + i] = IF a + i <= a THEN old[a + i] ELSE items[(a + i) - a]
      BY <2>2, <2>4
    <3> QED  BY <2>4, <3>1
  <2> QED  BY <2>1, <2>3, <2>4, <2>5, <2>6, <2>7 DEF a, b
<1>10. \A t \in Topic : \A k \in 1..count[t] :
         Record(t, k) = Entry(t, consumer.position[t] + k)
  <2> SUFFICES ASSUME NEW t \in Topic, NEW k \in 1..count[t]
               PROVE  Record(t, k) = Entry(t, consumer.position[t] + k)
    OBVIOUS
  <2>1. consumer.position[t] + k - 1 = (consumer.position[t] + k) - 1
    BY <1>6
  <2> QED  BY <2>1 DEF Record, Entry
<1>11. InOrder(db, new)
  <2>1. SUFFICES ASSUME NEW i \in 1..Len(new)
                 PROVE  \E t \in Topic : \E k \in 1..Len(log[t]) :
                          /\ new[i] = Entry(t, k)
                          /\ \A q \in 1..(k - 1) :
                               log[t][q].key \in db.keys \/ \E j \in 1..(i - 1) : new[j] = Entry(t, q)
    BY DEF InOrder
  <2>2. CASE i \in 1..Len(old)
    <3>1. InOrder(db, old)
      BY DEF WInv
    <3>2. PICK t \in Topic : \E k \in 1..Len(log[t]) :
            /\ old[i] = Entry(t, k)
            /\ \A q \in 1..(k - 1) :
                 log[t][q].key \in db.keys \/ \E j \in 1..(i - 1) : old[j] = Entry(t, q)
      BY <2>2, <3>1 DEF InOrder
    <3>3. PICK k \in 1..Len(log[t]) :
            /\ old[i] = Entry(t, k)
            /\ \A q \in 1..(k - 1) :
                 log[t][q].key \in db.keys \/ \E j \in 1..(i - 1) : old[j] = Entry(t, q)
      BY <3>2
    <3>4. \A j \in 1..(i - 1) : j \in 1..Len(old)
      BY <1>4, <2>2
    <3> HIDE DEF old
    <3>5. new[i] = Entry(t, k) /\ \A j \in 1..(i - 1) : new[j] = old[j]
      BY <1>9, <2>2, <3>3, <3>4
    <3>6. \A q \in 1..(k - 1) :
            log[t][q].key \in db.keys \/ \E j \in 1..(i - 1) : new[j] = Entry(t, q)
      BY <3>3, <3>5
    <3> QED  BY <3>5, <3>6
  <2>3. CASE i - Len(old) \in 1..Len(items)
    <3> DEFINE m == i - Len(old)
    <3>1. PICK t \in Topic : \E k \in 1..count[t] :
            /\ items[m] = Record(t, k)
            /\ \A q \in 1..(k - 1) : \E j \in 1..(m - 1) : items[j] = Record(t, q)
      BY <1>5, <2>3
    <3>2. PICK k \in 1..count[t] :
            /\ items[m] = Record(t, k)
            /\ \A q \in 1..(k - 1) : \E j \in 1..(m - 1) : items[j] = Record(t, q)
      BY <3>1
    <3> DEFINE p == consumer.position[t]
    <3>3. /\ p \in Nat /\ k \in Nat /\ k >= 1 /\ p + k \in 1..Len(log[t])
          /\ count[t] \in Nat /\ k <= count[t]
      BY <1>6
    <3>4. i \in Nat /\ m \in 1..Len(items) /\ Len(old) + m = i /\ new[i] = items[m]
      <4>1. i \in Nat /\ m \in 1..Len(items) /\ Len(old) + m = i
        BY <1>4, <1>7, <2>3
      <4> HIDE DEF m, old
      <4> QED  BY <1>9, <4>1
    <3>5. new[i] = Entry(t, p + k)
      BY <1>10, <3>2, <3>4
    <3>6. ASSUME NEW q \in 1..((p + k) - 1)
          PROVE  log[t][q].key \in db.keys \/ \E j \in 1..(i - 1) : new[j] = Entry(t, q)
      <4>1. CASE q <= p
        <5>1. q \in 1..p
          BY <3>3, <4>1
        <5>2. CASE log[t][q].key \in db.keys
          BY <5>2
        <5>3. CASE Entry(t, q) \in Among(old)
          <6>1. PICK j \in 1..Len(old) : old[j] = Entry(t, q)
            BY <5>3 DEF Among
          <6>2. j \in 1..(i - 1)
            BY <1>4, <3>4
          <6> QED  BY <1>9, <6>1, <6>2
        <5> QED  BY <5>1, <5>2, <5>3 DEF WInv, Covered
      <4>2. CASE ~(q <= p)
        <5>1. q - p \in 1..(k - 1) /\ q - p \in 1..count[t] /\ p + (q - p) = q
          <6>1. p \in Nat /\ k \in Nat /\ count[t] \in Nat /\ k <= count[t]
            BY <3>3
          <6> DEFINE c == count[t]
          <6> HIDE DEF p, c
          <6>2. c \in Nat /\ k <= c
            BY <6>1 DEF c
          <6>3. q \in Nat /\ q <= (p + k) - 1 /\ ~(q <= p)
            BY <4>2, <6>1
          <6>4. q - p \in 1..(k - 1) /\ q - p \in 1..c /\ p + (q - p) = q
            BY <6>1, <6>2, <6>3
          <6> QED  BY <6>4 DEF c
        <5>2. PICK j \in 1..(m - 1) : items[j] = Record(t, q - p)
          BY <3>2, <5>1
        <5>3. Record(t, q - p) = Entry(t, q)
          BY <1>10, <5>1
        <5>4. j \in 1..Len(items) /\ Len(old) + j \in 1..(i - 1)
          <6> HIDE DEF m, old
          <6>1. Len(old) \in Nat
            BY <1>4 DEF old
          <6> QED  BY <1>7, <3>4, <6>1
        <5>5. new[Len(old) + j] = Entry(t, q)
          BY <1>9, <5>2, <5>3, <5>4
        <5> QED  BY <5>4, <5>5
      <4> QED  BY <4>1, <4>2
    <3> QED  BY <3>3, <3>5, <3>6
  <2> QED  BY <1>9, <2>2, <2>3
<1>12. ASSUME NEW t \in Topic, NEW k \in 1..(consumer.position[t] + count[t])
       PROVE  log[t][k].key \in db.keys \/ Entry(t, k) \in Among(new)
  <2>1. CASE k <= consumer.position[t]
    <3>1. k \in 1..consumer.position[t]
      BY <1>6, <2>1
    <3>2. log[t][k].key \in db.keys \/ Entry(t, k) \in Among(old)
      BY <3>1 DEF WInv, Covered
    <3> HIDE DEF old
    <3> QED  BY <1>9, <3>2 DEF Among
  <2>2. CASE ~(k <= consumer.position[t])
    <3>1. /\ k - consumer.position[t] \in 1..count[t]
          /\ consumer.position[t] + (k - consumer.position[t]) = k
      BY <1>6, <2>2
    <3>2. PICK i \in 1..Len(items) : items[i] = Record(t, k - consumer.position[t])
      BY <1>5, <3>1
    <3>3. items[i] = Entry(t, k)
      BY <1>10, <3>1, <3>2
    <3> QED  BY <1>9, <3>3 DEF Among
  <2> QED  BY <2>1, <2>2
<1>13. Covered'
  BY <1>0, <1>8, <1>12 DEF Covered, Among, Entry
<1>14. InOrder(db, consumer.buffer)'
  BY <1>0, <1>8, <1>11 DEF InOrder, Entry
<1>15. Script' = Script /\ LogEvents' = LogEvents /\ CallSet' = CallSet /\ ItemSet' = ItemSet
  BY <1>0 DEF Script, LogEvents, Notices, ScriptEvents, CallSet, ItemSet
<1>16. Shapes'
  <2>1. consumer'.position \in [Topic -> Nat]
    BY <1>6, <1>8
  <2> QED  BY <1>0, <1>7, <1>8, <1>15, <2>1 DEF WInv, Shapes
<1>17. TypeOK'
  <2>1. \A t \in Topic : consumer'.position[t] <= Len(log[t])
    BY <1>6, <1>8
  <2>2. consumer.todo = <<>>
    BY <1>0 DEF WInv, TypeOK
  <2> QED  BY <1>0, <1>3, <1>8, <1>15, <2>1, <2>2 DEF WInv, TypeOK
<1>18. Stored'
  BY <1>8 DEF Stored
<1> QED  BY <1>0, <1>8, <1>13, <1>14, <1>16, <1>17, <1>18, QuietKeeps

(* A record that does not decode, or has no price, ends the consumer.           *)
LEMMA PoisonKeeps ==
  ASSUME WInv, PollPoison \/ ProjectRaises
  PROVE  WInv'
<1>1. /\ UNCHANGED <<session, committed, db, temporal, billing, lost>>
      /\ consumer' = Stopped /\ consumer.phase \in {"polling", "projecting"}
  BY DEF PollPoison, ProjectRaises
<1>2. consumer.todo = <<>>
  BY <1>1 DEF WInv, TypeOK
<1> QED  BY <1>1, <1>2, StopKeeps

(* After a failure there is another attempt, or none.                           *)
LEMMA RetryIs ==
  ASSUME WInv, consumer.phase = "projecting", consumer' = AfterFailure
  PROVE  \/ consumer' = Stopped
         \/ /\ consumer'.phase = "projecting" /\ consumer'.position = consumer.position
            /\ consumer'.buffer = consumer.buffer /\ consumer'.todo = consumer.todo
            /\ consumer'.attempt \in 0..Attempts
            /\ consumer' = [f \in {"phase", "position", "buffer", "attempt", "todo"} |-> consumer'[f]]
<1>1. CASE ~(consumer.attempt + 1 < Attempts)
  BY <1>1 DEF AfterFailure
<1>2. CASE consumer.attempt + 1 < Attempts
  <2>1. consumer' = [consumer EXCEPT !.attempt = @ + 1]
    BY <1>2 DEF AfterFailure
  <2>2. consumer = [f \in {"phase", "position", "buffer", "attempt", "todo"} |-> consumer[f]]
    BY DEF WInv, Shapes
  <2>3. /\ consumer'.phase = consumer.phase /\ consumer'.position = consumer.position
        /\ consumer'.buffer = consumer.buffer /\ consumer'.todo = consumer.todo
        /\ consumer'.attempt = consumer.attempt + 1
        /\ consumer' = [f \in {"phase", "position", "buffer", "attempt", "todo"} |-> consumer'[f]]
    BY <2>1, <2>2
  <2>4. consumer.attempt \in 0..Attempts
    BY DEF WInv, TypeOK
  <2>5. consumer.attempt + 1 \in 0..Attempts
    BY <1>2, <2>4 DEF Attempts
  <2> QED  BY <2>3, <2>5
<1> QED  BY <1>1, <1>2

(* An attempt of the transaction fails.                                         *)
LEMMA FailsKeeps ==
  ASSUME WInv, ProjectFails
  PROVE  WInv'
<1>1. /\ UNCHANGED <<session, committed, db, temporal, billing, lost>>
      /\ plan' = plan /\ sent' = sent /\ log' = log /\ committed' = committed /\ db' = db
      /\ temporal' = temporal
      /\ consumer.phase = "projecting" /\ consumer' = AfterFailure
  BY DEF ProjectFails, session
<1>2. consumer.todo = <<>>
  BY <1>1 DEF WInv, TypeOK
<1>3. CASE consumer' = Stopped
  BY <1>1, <1>2, <1>3, StopKeeps
<1>4. CASE consumer' # Stopped
  <2>1. /\ consumer'.phase = "projecting" /\ consumer'.position = consumer.position
        /\ consumer'.buffer = consumer.buffer /\ consumer'.todo = consumer.todo
        /\ consumer'.attempt \in 0..Attempts
        /\ consumer' = [f \in {"phase", "position", "buffer", "attempt", "todo"} |-> consumer'[f]]
    BY <1>1, <1>4, RetryIs
  <2>2. Script' = Script /\ LogEvents' = LogEvents /\ CallSet' = CallSet /\ ItemSet' = ItemSet
    BY <1>1 DEF Script, LogEvents, Notices, ScriptEvents, CallSet, ItemSet
  <2>3. Shapes'
    BY <1>1, <2>1, <2>2 DEF WInv, Shapes
  <2>4. TypeOK'
    BY <1>1, <2>1, <2>2 DEF WInv, TypeOK
  <2>5. Longer
    BY <1>1 DEF WInv, Logged, Longer
  <2>6. InOrder(db, consumer.buffer)' /\ Covered'
    BY <1>1, <2>1, <2>5, FetchedStays
  <2>7. Stored'
    BY <2>1 DEF Stored
  <2> QED  BY <1>1, <1>2, <2>1, <2>3, <2>4, <2>6, <2>7, QuietKeeps
<1> QED  BY <1>3, <1>4

(* A transaction that commits, whether or not the worker learns of it.          *)
LEMMA TransactionIs ==
  ASSUME WInv, db' = Projected.db
  PROVE  /\ Sound(db')
         /\ db'.keys = db.keys \cup {consumer.buffer[i].event.key : i \in 1..Len(consumer.buffer)}
         /\ db'.final = db.final
         /\ Results(db, consumer.buffer, Len(consumer.buffer), Projected.result)
<1>1. Logged /\ Sound(db) /\ InOrder(db, consumer.buffer)
  BY DEF WInv
<1>2. /\ Len(consumer.buffer) \in Nat
      /\ DOMAIN consumer.buffer = 1..Len(consumer.buffer)
  <2>1. consumer.buffer \in Seq(ItemSet)
    BY DEF WInv, Shapes
  <2> QED  BY <2>1
<1> QED  BY <1>1, <1>2, BatchProjects DEF Projected

(* An event of the session that a transaction has added is one of its batch.    *)
LEMMA AddedIsOfBatch ==
  ASSUME WInv, NEW e \in ScriptEvents, e.key \notin db.keys,
         e.key \in {consumer.buffer[i].event.key : i \in 1..Len(consumer.buffer)}
  PROVE  \E i \in 1..Len(consumer.buffer) : consumer.buffer[i].event = e
<1>1. PICK i \in 1..Len(consumer.buffer) : consumer.buffer[i].event.key = e.key
  OBVIOUS
<1>2. consumer.buffer[i].event \in LogEvents
  <2>1. consumer.buffer \in Seq(ItemSet)
    BY DEF WInv, Shapes
  <2>2. consumer.buffer[i] \in ItemSet
    BY <2>1
  <2> QED  BY <2>2 DEF ItemSet
<1>3. plan \in Plans
  BY DEF WInv, Logged
<1> QED  BY <1>1, <1>2, <1>3, LogFacts

(* After a transaction, what its result asks for is due.                        *)
LEMMA TransactionDue ==
  ASSUME WInv, plan' = plan, db' = Projected.db, temporal' = temporal, UNCHANGED billing,
         consumer.todo = <<>>, lost \cup Among(Todo(Projected.result)) \subseteq Due'
  PROVE  BillingAsked' /\ UsageAsked'
<1> DEFINE r == Projected.result
           buffer == consumer.buffer
<1>1. /\ db'.keys = db.keys \cup {buffer[i].event.key : i \in 1..Len(buffer)}
      /\ db'.final = db.final
      /\ Results(db, buffer, Len(buffer), r)
  BY TransactionIs
<1>2. /\ \A n \in 1..Len(r.ended) :
           /\ [kind |-> "start", event |-> r.ended[n]] \in Among(Todo(r))
           /\ [kind |-> "ended", event |-> r.ended[n]] \in Among(Todo(r))
      /\ \A n \in 1..Len(r.late) : [kind |-> "adjust", event |-> r.late[n]] \in Among(Todo(r))
  BY <1>1, TodoIs
<1>3. lost \cup Among(Todo(r)) \subseteq Due'
  OBVIOUS
<1> HIDE DEF r
<1>4. ScriptEvents' = ScriptEvents /\ before' = before
  BY DEF ScriptEvents, Script, billing
<1>5. Due = lost
  <2>1. Len(consumer.todo) = 0 /\ 1..0 = {}
    OBVIOUS
  <2> QED  BY <2>1 DEF Due, Among
<1>6. \A kind, e : IsDue(kind, e) => IsDue(kind, e)'
  BY <1>3, <1>5 DEF IsDue
<1>7. BillingAsked'
  <2>1. SUFFICES ASSUME NEW e \in ScriptEvents, e.type = "call.ended", e.key \in db'.keys
                 PROVE  /\ temporal.billing \/ IsDue("start", e)'
                        /\ temporal.ended \/ IsDue("ended", e)'
    BY <1>4 DEF BillingAsked, IsDue
  <2>2. CASE e.key \in db.keys
    BY <1>6, <2>1, <2>2 DEF WInv, BillingAsked
  <2>3. CASE e.key \notin db.keys
    <3>1. PICK i \in 1..Len(buffer) : buffer[i].event = e
      BY <1>1, <2>1, <2>3, AddedIsOfBatch
    <3>2. PICK n \in 1..Len(r.ended) : r.ended[n] = e
      BY <1>1, <2>1, <2>3, <3>1 DEF Results
    <3> QED  BY <1>2, <1>3, <3>2 DEF IsDue
  <2> QED  BY <2>2, <2>3
<1>8. UsageAsked'
  <2>1. SUFFICES ASSUME db.final # NoFinal,
                        NEW e \in ScriptEvents, IsMetered(e), e.key \in db'.keys
                 PROVE  e.id \in before \cup temporal.adjusting \/ IsDue("adjust", e)'
    BY <1>1, <1>4 DEF UsageAsked, IsDue
  <2>2. CASE e.key \in db.keys
    BY <1>6, <2>1, <2>2 DEF WInv, UsageAsked
  <2>3. CASE e.key \notin db.keys
    <3>1. PICK i \in 1..Len(buffer) : buffer[i].event = e
      BY <1>1, <2>1, <2>3, AddedIsOfBatch
    <3>2. PICK n \in 1..Len(r.late) : r.late[n] = e
      BY <1>1, <2>1, <2>3, <3>1 DEF Results
    <3> QED  BY <1>2, <1>3, <3>2 DEF IsDue
  <2> QED  BY <2>2, <2>3
<1> QED  BY <1>7, <1>8

(* The transaction commits and its result tells what is to follow.              *)
LEMMA ProjectKeeps ==
  ASSUME WInv, Project
  PROVE  WInv'
<1> DEFINE r == Projected.result
           buffer == consumer.buffer
<1>1. /\ plan' = plan /\ sent' = sent /\ log' = log /\ committed' = committed
      /\ temporal' = temporal /\ UNCHANGED billing /\ bills' = bills /\ before' = before
      /\ lost' = lost
      /\ consumer.phase = "projecting" /\ db' = Projected.db
      /\ consumer' = [consumer EXCEPT !.phase = "handling", !.attempt = 0, !.todo = Todo(r)]
  BY DEF Project, session, billing
<1>2. /\ Sound(db')
      /\ db'.keys = db.keys \cup {buffer[i].event.key : i \in 1..Len(buffer)}
      /\ db'.final = db.final
      /\ Results(db, buffer, Len(buffer), r)
  BY <1>1, TransactionIs
<1>3. /\ consumer'.phase = "handling" /\ consumer'.position = consumer.position
      /\ consumer'.buffer = buffer /\ consumer'.todo = Todo(r) /\ consumer'.attempt = 0
      /\ consumer' = [f \in {"phase", "position", "buffer", "attempt", "todo"} |-> consumer'[f]]
  BY <1>1 DEF WInv, Shapes
<1> HIDE DEF r
<1>4. /\ Todo(r) \in Seq(CallSet)
      /\ \A c \in Among(Todo(r)) : c.kind = "adjust" =>
           \E n \in 1..Len(r.late) : c.event = r.late[n]
      /\ \A c \in Among(Todo(r)) : c.kind = "notice" => ~IsNotice(c.event)
  BY <1>2, TodoIs
<1>5. /\ Script' = Script /\ ScriptEvents' = ScriptEvents /\ LogEvents' = LogEvents
      /\ CallSet' = CallSet /\ ItemSet' = ItemSet
      /\ Among(consumer.todo)' = Among(Todo(r))
  BY <1>1, <1>3 DEF Script, LogEvents, Notices, ScriptEvents, CallSet, ItemSet, Among
<1>6. Longer
  BY <1>1 DEF WInv, Logged, Longer
<1>7. Shapes'
  BY <1>1, <1>3, <1>4, <1>5 DEF WInv, Shapes
<1>8. TypeOK'
  <2>1. 0 \in 0..Attempts
    BY DEF Attempts
  <2> QED  BY <1>1, <1>3, <1>5, <2>1 DEF WInv, TypeOK
<1>9. Logged' /\ Published'
  BY <1>1, LogStays DEF WInv
<1>10. Sound(db)'
  BY <1>1, <1>2, <1>6, SoundStays DEF WInv
<1>11. CommittedIsProjected' /\ InOrder(db, consumer.buffer)' /\ Covered'
  <2>1. db.keys \subseteq db'.keys
    BY <1>2
  <2> QED  BY <1>1, <1>3, <1>6, <2>1, FetchedStays
<1>12. Stored'
  BY <1>2, <1>3 DEF Stored
<1>13. \A c \in Among(Todo(r)) : c.event \in LogEvents
  <2>1. \A n \in 1..Len(Todo(r)) : Todo(r)[n] \in CallSet
    BY <1>4
  <2> QED  BY <2>1 DEF Among, CallSet
<1>14. plan \in Plans
  BY DEF WInv, Logged
<1>15. NoticesTell'
  BY <1>4, <1>5, <1>13, <1>14, LogFacts DEF NoticesTell
<1>16. AdjustsLate'
  <2>1. temporal'.adjusting # {} => db'.final # NoFinal
    BY <1>1, <1>2 DEF WInv, AdjustsLate
  <2>2. ASSUME NEW c \in Among(Todo(r)), c.kind = "adjust"
        PROVE  db'.final # NoFinal /\ \A i \in DOMAIN bills : c.event.id \notin bills[i].read
    <3>1. PICK n \in 1..Len(r.late) : c.event = r.late[n]
      BY <1>4, <2>2
    <3>2. IsMetered(c.event) /\ c.event.key \notin db.keys /\ db.final # NoFinal
      BY <1>2, <3>1 DEF Results
    <3>3. c.event \in ScriptEvents
      BY <1>13, <1>14, <3>2, LogFacts DEF IsMetered
    <3>4. ASSUME NEW i \in DOMAIN bills, c.event.id \in bills[i].read PROVE FALSE
      <4>1. PICK e \in ScriptEvents : e.id = c.event.id /\ e.key \in db.keys
        BY <3>4 DEF WInv, BillsTell, IsKeyed
      <4>2. e = c.event
        BY <1>14, <3>3, <4>1, ScriptFacts
      <4> QED  BY <3>2, <4>1, <4>2
    <3> QED  BY <1>2, <3>2, <3>4
  <2> QED  BY <1>1, <1>5, <2>1, <2>2 DEF AdjustsLate
<1>17. AdjustedIsLate'
  BY <1>1 DEF WInv, AdjustedIsLate
<1>18. BillingAsked' /\ UsageAsked'
  <2>1. consumer.todo = <<>>
    BY <1>1 DEF WInv, TypeOK
  <2>2. lost \cup Among(Todo(Projected.result)) \subseteq Due'
    BY <1>1, <1>5 DEF Due, r
  <2> QED  BY <1>1, <2>1, <2>2, TransactionDue
<1>19. EndedIsBilled' /\ LateFollows'
  BY <1>1, <1>2, <1>6, FollowedStays
<1>20. BillsTell'
  <2>1. db.keys \subseteq db'.keys
    BY <1>2
  <2> QED  BY <1>1, <1>2, <2>1, BillsStay
<1> QED  BY <1>7, <1>8, <1>9, <1>10, <1>11, <1>12, <1>15, <1>16, <1>17, <1>18, <1>19, <1>20,
            Together

(* The elements of a sequence, as the community modules name them.              *)
LEMMA AmongIsSet ==
  ASSUME NEW S, NEW s \in Seq(S)
  PROVE  ToSet(s) = Among(s)
<1>1. DOMAIN s = 1..Len(s)
  OBVIOUS
<1> QED  BY <1>1 DEF ToSet, Among

(* The transaction commits and the worker does not learn of it: the calls that  *)
(* its result would have asked for are lost.                                    *)
LEMMA UnansweredKeeps ==
  ASSUME WInv, CommitUnanswered
  PROVE  WInv'
<1>1. /\ plan' = plan /\ sent' = sent /\ log' = log /\ committed' = committed
      /\ temporal' = temporal /\ UNCHANGED billing /\ bills' = bills /\ before' = before
      /\ lost' = lost \cup ToSet(Todo(Projected.result))
      /\ consumer.phase = "projecting" /\ db' = Projected.db /\ consumer' = AfterFailure
  BY DEF CommitUnanswered, session, billing
<1>2. /\ Sound(db')
      /\ db'.keys = db.keys \cup {consumer.buffer[i].event.key : i \in 1..Len(consumer.buffer)}
      /\ db'.final = db.final
      /\ Results(db, consumer.buffer, Len(consumer.buffer), Projected.result)
  BY <1>1, TransactionIs
<1>3. ToSet(Todo(Projected.result)) = Among(Todo(Projected.result))
  <2>1. Todo(Projected.result) \in Seq(CallSet)
    BY <1>2, TodoIs
  <2> QED  BY <2>1, AmongIsSet
<1>4. Longer
  BY <1>1 DEF WInv, Logged, Longer
<1>5. consumer.todo = <<>>
  BY <1>1 DEF WInv, TypeOK
<1>6. /\ consumer'.todo = <<>> /\ consumer'.phase # "handling"
      /\ Shapes' /\ TypeOK' /\ InOrder(db, consumer.buffer)' /\ Covered'
  <2>1. /\ Script' = Script /\ LogEvents' = LogEvents /\ CallSet' = CallSet /\ ItemSet' = ItemSet
        /\ \A t \in Topic : Len(log[t]) \in Nat
    BY <1>1 DEF Script, LogEvents, Notices, ScriptEvents, CallSet, ItemSet, WInv, Logged
  <2>2. db.keys \subseteq db'.keys
    BY <1>2
  <2>3. CASE consumer' = Stopped
    <3>1. /\ consumer'.phase = "stopped" /\ consumer'.position = [t \in Topic |-> 0]
          /\ consumer'.buffer = <<>> /\ consumer'.attempt = 0 /\ consumer'.todo = <<>>
          /\ consumer' = [f \in {"phase", "position", "buffer", "attempt", "todo"} |-> consumer'[f]]
      BY <2>3 DEF Stopped
    <3>2. Shapes'
      BY <1>1, <2>1, <3>1 DEF WInv, Shapes
    <3>3. TypeOK'
      <4>1. 0 \in 0..Attempts
        BY DEF Attempts
      <4> QED  BY <1>1, <2>1, <3>1, <4>1 DEF WInv, TypeOK
    <3>4. InOrder(db, consumer.buffer)' /\ Covered'
      BY <1>1, <1>4, <2>2, <2>3, FetchedStays
    <3> QED  BY <3>1, <3>2, <3>3, <3>4
  <2>4. CASE consumer' # Stopped
    <3>1. /\ consumer'.phase = "projecting" /\ consumer'.position = consumer.position
          /\ consumer'.buffer = consumer.buffer /\ consumer'.todo = consumer.todo
          /\ consumer'.attempt \in 0..Attempts
          /\ consumer' = [f \in {"phase", "position", "buffer", "attempt", "todo"} |-> consumer'[f]]
      BY <1>1, <2>4, RetryIs
    <3>2. Shapes'
      BY <1>1, <2>1, <3>1 DEF WInv, Shapes
    <3>3. TypeOK'
      BY <1>1, <2>1, <3>1 DEF WInv, TypeOK
    <3>4. InOrder(db, consumer.buffer)' /\ Covered'
      BY <1>1, <1>4, <2>2, <3>1, FetchedStays
    <3> QED  BY <1>5, <3>1, <3>2, <3>3, <3>4
  <2> QED  BY <2>3, <2>4
<1>7. Among(consumer.todo)' = {}
  <2>1. Len(consumer'.todo) = 0 /\ 1..0 = {}
    BY <1>6
  <2> QED  BY <2>1 DEF Among
<1>8. Logged' /\ Published'
  BY <1>1, LogStays DEF WInv
<1>9. Sound(db)'
  BY <1>1, <1>2, <1>4, SoundStays DEF WInv
<1>10. CommittedIsProjected'
  <2>1. db.keys \subseteq db'.keys
    BY <1>2
  <2> QED  BY <1>1, <1>4, <2>1, FetchedStays
<1>11. Stored'
  BY <1>6 DEF Stored
<1>12. NoticesTell'
  BY <1>7 DEF NoticesTell
<1>13. AdjustsLate' /\ AdjustedIsLate'
  BY <1>1, <1>2, <1>7 DEF WInv, AdjustsLate, AdjustedIsLate
<1>14. BillingAsked' /\ UsageAsked'
  <2>1. lost \cup Among(Todo(Projected.result)) \subseteq Due'
    BY <1>1, <1>3 DEF Due
  <2> QED  BY <1>1, <1>5, <2>1, TransactionDue
<1>15. EndedIsBilled' /\ LateFollows'
  BY <1>1, <1>2, <1>4, FollowedStays
<1>16. BillsTell'
  <2>1. db.keys \subseteq db'.keys
    BY <1>2
  <2> QED  BY <1>1, <1>2, <2>1, BillsStay
<1> QED  BY <1>6, <1>8, <1>9, <1>10, <1>11, <1>12, <1>13, <1>14, <1>15, <1>16, Together

(* The process dies: the calls that were still to be made are lost.             *)
LEMMA CrashKeeps ==
  ASSUME WInv, Crash
  PROVE  WInv'
<1>1. /\ plan' = plan /\ sent' = sent /\ log' = log /\ committed' = committed /\ db' = db
      /\ temporal' = temporal /\ UNCHANGED billing /\ before' = before
      /\ lost' = lost \cup ToSet(consumer.todo) /\ consumer' = Stopped
  BY DEF Crash, session, billing
<1>2. ToSet(consumer.todo) = Among(consumer.todo)
  BY AmongIsSet DEF WInv, Shapes
<1>3. Longer
  BY <1>1 DEF WInv, Logged, Longer
<1>4. /\ consumer'.phase = "stopped" /\ consumer'.position = [t \in Topic |-> 0]
      /\ consumer'.buffer = <<>> /\ consumer'.attempt = 0 /\ consumer'.todo = <<>>
      /\ consumer' = [f \in {"phase", "position", "buffer", "attempt", "todo"} |-> consumer'[f]]
  BY <1>1 DEF Stopped
<1>5. /\ Script' = Script /\ LogEvents' = LogEvents /\ CallSet' = CallSet /\ ItemSet' = ItemSet
      /\ \A t \in Topic : Len(log[t]) \in Nat
  BY <1>1 DEF Script, LogEvents, Notices, ScriptEvents, CallSet, ItemSet, WInv, Logged
<1>6. Shapes'
  BY <1>1, <1>4, <1>5 DEF WInv, Shapes
<1>7. TypeOK'
  <2>1. 0 \in 0..Attempts
    BY DEF Attempts
  <2> QED  BY <1>1, <1>4, <1>5, <2>1 DEF WInv, TypeOK
<1>8. Among(consumer.todo)' = {}
  <2>1. Len(consumer'.todo) = 0 /\ 1..0 = {}
    BY <1>4
  <2> QED  BY <2>1 DEF Among
<1>9. Logged' /\ Published'
  BY <1>1, LogStays DEF WInv
<1>10. Sound(db)'
  BY <1>1, <1>3, SoundStays DEF WInv
<1>11. CommittedIsProjected' /\ InOrder(db, consumer.buffer)' /\ Covered'
  BY <1>1, <1>3, FetchedStays
<1>12. Stored'
  BY <1>4 DEF Stored
<1>13. NoticesTell' /\ AdjustsLate' /\ AdjustedIsLate' /\ BillingAsked' /\ UsageAsked'
  <2>1. Due \subseteq Due'
    BY <1>1, <1>2 DEF Due
  <2> QED  BY <1>1, <1>8, <2>1, AskedStays
<1>14. EndedIsBilled' /\ LateFollows'
  BY <1>1, <1>3, FollowedStays
<1>15. BillsTell'
  BY <1>1, BillsStay
<1> QED  BY <1>6, <1>7, <1>9, <1>10, <1>11, <1>12, <1>13, <1>14, <1>15, Together

--------------------------------------------------------------------------------
(* A call that is made is one less to make.                                     *)
LEMMA CallingIs ==
  ASSUME WInv, NEW kind, Calling(kind)
  PROVE  /\ consumer.phase = "handling" /\ consumer'.phase = "handling"
         /\ consumer'.position = consumer.position /\ consumer'.buffer = consumer.buffer
         /\ consumer'.attempt = consumer.attempt
         /\ consumer' = [f \in {"phase", "position", "buffer", "attempt", "todo"} |-> consumer'[f]]
         /\ Head(consumer.todo) \in CallSet /\ Head(consumer.todo).kind = kind
         /\ consumer'.todo \in Seq(CallSet)
         /\ Among(consumer.todo) = {Head(consumer.todo)} \cup Among(consumer'.todo)
<1>1. /\ consumer = [f \in {"phase", "position", "buffer", "attempt", "todo"} |-> consumer[f]]
      /\ consumer.todo \in Seq(CallSet) /\ consumer.todo # <<>>
      /\ Head(consumer.todo).kind = kind /\ consumer.phase = "handling"
      /\ consumer' = [consumer EXCEPT !.todo = Tail(@)]
  BY DEF WInv, Shapes, Calling
<1>2. /\ consumer'.phase = consumer.phase /\ consumer'.position = consumer.position
      /\ consumer'.buffer = consumer.buffer /\ consumer'.attempt = consumer.attempt
      /\ consumer'.todo = Tail(consumer.todo)
      /\ consumer' = [f \in {"phase", "position", "buffer", "attempt", "todo"} |-> consumer'[f]]
  BY <1>1
<1>3. /\ Head(consumer.todo) \in CallSet /\ Tail(consumer.todo) \in Seq(CallSet)
      /\ Among(consumer.todo) = {Head(consumer.todo)} \cup Among(Tail(consumer.todo))
  BY <1>1, AmongTail
<1> QED  BY <1>1, <1>2, <1>3

(* The call is made: what it asks for has been told to Temporal, or published.  *)
LEMMA CallKeeps ==
  ASSUME WInv, NEW kind, Calling(kind),
         plan' = plan, committed' = committed, db' = db, UNCHANGED billing, lost' = lost,
         Logged', Published', Longer,
         temporal' = [f \in {"billing", "ended", "hinted", "adjusting"} |-> temporal'[f]],
         temporal'.billing \in BOOLEAN, temporal'.ended \in BOOLEAN,
         temporal.billing \/ kind = "start" => temporal'.billing,
         temporal.ended \/ kind = "ended" => temporal'.ended,
         temporal'.adjusting = IF kind = "adjust"
                               THEN temporal.adjusting \cup {Head(consumer.todo).event.id}
                               ELSE temporal.adjusting
  PROVE  WInv'
<1> DEFINE h == Head(consumer.todo)
<1>1. /\ consumer.phase = "handling" /\ consumer'.phase = "handling"
      /\ consumer'.position = consumer.position /\ consumer'.buffer = consumer.buffer
      /\ consumer'.attempt = consumer.attempt
      /\ consumer' = [f \in {"phase", "position", "buffer", "attempt", "todo"} |-> consumer'[f]]
      /\ h \in CallSet /\ h.kind = kind
      /\ consumer'.todo \in Seq(CallSet)
      /\ Among(consumer.todo) = {h} \cup Among(consumer'.todo)
  BY CallingIs
<1> HIDE DEF h
<1>2. /\ Script' = Script /\ ScriptEvents' = ScriptEvents /\ LogEvents' = LogEvents
      /\ CallSet' = CallSet /\ ItemSet' = ItemSet /\ bills' = bills /\ before' = before
      /\ Among(consumer.todo)' = Among(consumer'.todo)
  BY DEF Script, LogEvents, Notices, ScriptEvents, CallSet, ItemSet, Among, billing
<1>3. Shapes'
  BY <1>1, <1>2 DEF WInv, Shapes
<1>4. TypeOK'
  <2>1. \A t \in Topic : consumer.position[t] <= Len(log'[t]) /\ committed[t] <= Len(log'[t])
    <3>1. \A t \in Topic :
            /\ consumer.position[t] \in Nat /\ committed[t] \in Nat
            /\ consumer.position[t] <= Len(log[t]) /\ committed[t] <= Len(log[t])
            /\ Len(log[t]) \in Nat /\ Len(log'[t]) \in Nat /\ Len(log[t]) <= Len(log'[t])
      BY DEF WInv, Shapes, TypeOK, Logged, Longer
    <3> QED  BY <3>1
  <2>2. sent' \in 0..Len(Script')
    BY DEF Logged
  <2> QED  BY <1>1, <2>1, <2>2 DEF WInv, TypeOK
<1>5. Sound(db)'
  BY SoundStays DEF WInv
<1>6. CommittedIsProjected' /\ InOrder(db, consumer.buffer)' /\ Covered'
  BY <1>1, FetchedStays
<1>7. Stored'
  BY <1>1 DEF WInv, Stored
<1>8. NoticesTell'
  BY <1>1, <1>2 DEF WInv, NoticesTell
<1>9. AdjustsLate'
  BY <1>1, <1>2 DEF WInv, AdjustsLate, h
<1>10. AdjustedIsLate'
  <2>1. CASE kind = "adjust"
    <3>1. h \in Among(consumer.todo) /\ h.kind = "adjust"
      BY <1>1, <2>1
    <3>2. \A i \in DOMAIN bills : bills[i].open => h.event.id \notin bills[i].read
      BY <3>1 DEF WInv, AdjustsLate
    <3>3. temporal'.adjusting = temporal.adjusting \cup {h.event.id}
      BY <2>1 DEF h
    <3> QED  BY <1>2, <3>2, <3>3 DEF WInv, AdjustedIsLate
  <2>2. CASE kind # "adjust"
    BY <1>2, <2>2 DEF WInv, AdjustedIsLate
  <2> QED  BY <2>1, <2>2
<1>11. \A other, e : IsDue(other, e) => IsDue(other, e)' \/ (other = kind /\ e = h.event)
  <2> SUFFICES ASSUME NEW other, NEW e, IsDue(other, e)
               PROVE  IsDue(other, e)' \/ (other = kind /\ e = h.event)
    OBVIOUS
  <2> DEFINE c == [kind |-> other, event |-> e]
  <2>1. c.kind = other /\ c.event = e
    OBVIOUS
  <2>2. c \in Due
    BY DEF IsDue
  <2>3. c \in Due' => IsDue(other, e)'
    BY DEF IsDue
  <2> HIDE DEF c
  <2>4. c = h \/ c \in Due'
    BY <1>1, <1>2, <2>2 DEF Due
  <2> QED  BY <1>1, <2>1, <2>3, <2>4
<1>12. BillingAsked'
  <2>1. SUFFICES ASSUME NEW e \in ScriptEvents, e.type = "call.ended", e.key \in db.keys
                 PROVE  /\ temporal'.billing \/ IsDue("start", e)'
                        /\ temporal'.ended \/ IsDue("ended", e)'
    BY <1>2 DEF BillingAsked, IsDue
  <2> QED  BY <1>11, <2>1 DEF WInv, BillingAsked
<1>13. UsageAsked'
  <2>1. SUFFICES ASSUME db.final # NoFinal,
                        NEW e \in ScriptEvents, IsMetered(e), e.key \in db.keys
                 PROVE  e.id \in before \cup temporal'.adjusting \/ IsDue("adjust", e)'
    BY <1>2 DEF UsageAsked, IsDue
  <2>2. CASE e.id \in before \cup temporal.adjusting
    BY <2>2
  <2>3. CASE IsDue("adjust", e)
    <3>1. CASE kind = "adjust" /\ e = h.event
      <4>1. e.id \in temporal'.adjusting
        BY <3>1 DEF h
      <4> QED  BY <4>1
    <3> QED  BY <1>11, <2>3, <3>1
  <2> QED  BY <2>1, <2>2, <2>3 DEF WInv, UsageAsked
<1>14. EndedIsBilled' /\ LateFollows'
  <2>1. temporal.adjusting \subseteq temporal'.adjusting
    OBVIOUS
  <2> QED  BY <1>2, <2>1, FollowedStays
<1>15. BillsTell'
  BY BillsStay
<1> QED  BY <1>3, <1>4, <1>5, <1>6, <1>7, <1>8, <1>9, <1>10, <1>12, <1>13, <1>14, <1>15,
            Together

(* start_billing_finalization, the signal of the end, the hint and the start of *)
(* an adjustment.                                                               *)
LEMMA TemporalKeeps ==
  ASSUME WInv, StartBilling \/ SignalEnded \/ HintUsage \/ StartAdjustment
  PROVE  WInv'
<1>1. /\ plan' = plan /\ sent' = sent /\ log' = log /\ committed' = committed /\ db' = db
      /\ UNCHANGED billing /\ lost' = lost
  BY DEF StartBilling, SignalEnded, HintUsage, StartAdjustment, session
<1>2. /\ Logged' /\ Published' /\ Longer
      /\ temporal = [f \in {"billing", "ended", "hinted", "adjusting"} |-> temporal[f]]
      /\ temporal.billing \in BOOLEAN /\ temporal.ended \in BOOLEAN
  <2>1. Logged' /\ Published'
    BY <1>1, LogStays DEF WInv
  <2> QED  BY <1>1, <2>1 DEF WInv, Logged, Longer, Shapes, TypeOK
<1>3. CASE StartBilling
  <2>1. /\ Calling("start") /\ temporal'.billing = TRUE /\ temporal'.ended = temporal.ended
        /\ temporal'.adjusting = temporal.adjusting
        /\ temporal' = [f \in {"billing", "ended", "hinted", "adjusting"} |-> temporal'[f]]
    BY <1>2, <1>3 DEF StartBilling
  <2> QED  BY <1>1, <1>2, <2>1, CallKeeps
<1>4. CASE SignalEnded
  <2>1. /\ Calling("ended") /\ temporal'.ended = TRUE /\ temporal'.billing = temporal.billing
        /\ temporal'.adjusting = temporal.adjusting
        /\ temporal' = [f \in {"billing", "ended", "hinted", "adjusting"} |-> temporal'[f]]
    BY <1>2, <1>4 DEF SignalEnded
  <2> QED  BY <1>1, <1>2, <2>1, CallKeeps
<1>5. CASE HintUsage
  <2>1. /\ Calling("hint") /\ temporal'.ended = temporal.ended
        /\ temporal'.billing = temporal.billing /\ temporal'.adjusting = temporal.adjusting
        /\ temporal' = [f \in {"billing", "ended", "hinted", "adjusting"} |-> temporal'[f]]
    BY <1>2, <1>5 DEF HintUsage
  <2> QED  BY <1>1, <1>2, <2>1, CallKeeps
<1>6. CASE StartAdjustment
  <2>1. /\ Calling("adjust") /\ temporal'.ended = temporal.ended
        /\ temporal'.billing = temporal.billing
        /\ temporal'.adjusting = temporal.adjusting \cup {Head(consumer.todo).event.id}
        /\ temporal' = [f \in {"billing", "ended", "hinted", "adjusting"} |-> temporal'[f]]
    BY <1>2, <1>6 DEF StartAdjustment
  <2> QED  BY <1>1, <1>2, <2>1, CallKeeps
<1> QED  BY <1>3, <1>4, <1>5, <1>6

(* The notice of a duplicate.                                                   *)
LEMMA NoticeKeeps ==
  ASSUME WInv, PublishNotice
  PROVE  WInv'
<1> DEFINE h == Head(consumer.todo)
           n == Len(log["pipeline-events"])
<1>1. /\ plan' = plan /\ sent' = sent /\ committed' = committed /\ db' = db
      /\ temporal' = temporal /\ UNCHANGED billing /\ lost' = lost
      /\ Calling("notice")
      /\ log' = [log EXCEPT !["pipeline-events"] = Append(@, Notice(h.event))]
  BY DEF PublishNotice
<1>2. "pipeline-events" \in Topic /\ n \in Nat
  BY WorkerAssumption DEF WInv, Logged
<1>3. h.event \in ScriptEvents
  <2>1. h.kind = "notice" /\ h \in Among(consumer.todo)
    BY <1>1, CallingIs
  <2> HIDE DEF h
  <2> QED  BY <2>1 DEF WInv, NoticesTell
<1>4. Notice(h.event) = NoticeOf(h.event, n)
  BY DEF Notice, NoticeOf
<1> HIDE DEF h, n
<1>5. Notice(h.event) \in Notices /\ Notice(h.event) \in LogEvents
  BY <1>2, <1>3, <1>4 DEF Notices, LogEvents
<1>6. Logged /\ Published
  BY DEF WInv
<1>7. Logged' /\ Published' /\ Longer
  BY <1>1, <1>2, <1>5, <1>6, LogAgain, LogGrows
<1>8. /\ temporal = [f \in {"billing", "ended", "hinted", "adjusting"} |-> temporal[f]]
      /\ temporal.billing \in BOOLEAN /\ temporal.ended \in BOOLEAN
  BY DEF WInv, Shapes, TypeOK
<1> QED  BY <1>1, <1>7, <1>8, CallKeeps

(* The offsets of the batch are committed.                                      *)
LEMMA CommitKeeps ==
  ASSUME WInv, Commit
  PROVE  WInv'
<1> DEFINE buffer == consumer.buffer
           Ends(t) == {buffer[i].offset + 1 : i \in {j \in DOMAIN buffer : buffer[j].topic = t}}
<1>1. /\ UNCHANGED <<session, db, temporal>>
      /\ plan' = plan /\ sent' = sent /\ log' = log /\ db' = db
      /\ temporal' = temporal /\ UNCHANGED billing /\ before' = before /\ lost' = lost
      /\ consumer.phase = "handling" /\ consumer.todo = <<>>
      /\ committed' = [t \in Topic |-> IF Ends(t) = {} THEN committed[t] ELSE Max(Ends(t))]
      /\ consumer' = [consumer EXCEPT !.phase = "polling", !.buffer = <<>>]
  BY DEF Commit, session, billing
<1>2. /\ consumer'.phase = "polling" /\ consumer'.position = consumer.position
      /\ consumer'.buffer = <<>> /\ consumer'.todo = <<>> /\ consumer'.attempt = consumer.attempt
      /\ consumer' = [f \in {"phase", "position", "buffer", "attempt", "todo"} |-> consumer'[f]]
  BY <1>1 DEF WInv, Shapes
<1>3. /\ Len(buffer) \in Nat /\ DOMAIN buffer = 1..Len(buffer)
      /\ \A i \in 1..Len(buffer) : buffer[i].event.key \in db.keys
  <2>1. buffer \in Seq(ItemSet)
    BY DEF WInv, Shapes
  <2> QED  BY <1>1, <2>1 DEF WInv, Stored
<1>4. ASSUME NEW t \in Topic, NEW x \in Ends(t)
      PROVE  x \in 1..Len(log[t]) /\ \A q \in 1..x : log[t][q].key \in db.keys
  <2>1. PICK i \in 1..Len(buffer) : buffer[i].topic = t /\ x = buffer[i].offset + 1
    BY <1>3, <1>4
  <2>2. InOrder(db, buffer)
    BY DEF WInv
  <2>3. PICK u \in Topic : \E k \in 1..Len(log[u]) :
          /\ buffer[i] = Entry(u, k)
          /\ \A q \in 1..(k - 1) :
               log[u][q].key \in db.keys \/ \E j \in 1..(i - 1) : buffer[j] = Entry(u, q)
    BY <2>2 DEF InOrder
  <2>4. PICK k \in 1..Len(log[u]) :
          /\ buffer[i] = Entry(u, k)
          /\ \A q \in 1..(k - 1) :
               log[u][q].key \in db.keys \/ \E j \in 1..(i - 1) : buffer[j] = Entry(u, q)
    BY <2>3
  <2> HIDE DEF buffer, Ends
  <2>5. buffer[i].topic = u /\ buffer[i].offset = k - 1 /\ buffer[i].event = log[u][k]
    BY <2>4 DEF Entry
  <2>6. u = t /\ x = k /\ Len(log[t]) \in Nat
    BY <2>1, <2>5 DEF WInv, Logged
  <2>7. log[t][k].key \in db.keys
    BY <1>3, <2>5, <2>6
  <2>8. ASSUME NEW q \in 1..(k - 1) PROVE log[t][q].key \in db.keys
    <3>1. CASE \E j \in 1..(i - 1) : buffer[j] = Entry(t, q)
      <4>1. PICK j \in 1..(i - 1) : buffer[j] = Entry(t, q)
        BY <3>1
      <4>2. j \in 1..Len(buffer) /\ buffer[j].event = log[t][q]
        BY <1>3, <4>1 DEF Entry
      <4> QED  BY <1>3, <4>2
    <3> QED  BY <2>4, <2>6, <3>1
  <2>9. \A q \in 1..k : q \in 1..(k - 1) \/ q = k
    BY <2>6
  <2> QED  BY <2>4, <2>6, <2>7, <2>8, <2>9
<1> HIDE DEF Ends
<1>5. ASSUME NEW t \in Topic, Ends(t) # {} PROVE Max(Ends(t)) \in Ends(t)
  <2>1. Ends(t) \in SUBSET (1..Len(log[t])) /\ Len(log[t]) \in Nat
    BY <1>4 DEF WInv, Logged
  <2> QED  BY <1>5, <2>1, MaxAmong
<1>6. ASSUME NEW t \in Topic
      PROVE  /\ committed'[t] \in Nat /\ committed'[t] <= Len(log[t])
             /\ \A q \in 1..committed'[t] : log[t][q].key \in db.keys
  <2>1. Len(log[t]) \in Nat
    BY DEF WInv, Logged
  <2>2. CASE Ends(t) = {}
    <3>1. committed'[t] = committed[t]
      BY <1>1, <2>2
    <3> QED  BY <3>1 DEF WInv, Shapes, TypeOK, CommittedIsProjected
  <2>3. CASE Ends(t) # {}
    <3> DEFINE x == Max(Ends(t))
    <3>1. committed'[t] = x /\ x \in Ends(t)
      BY <1>1, <1>5, <2>3
    <3> HIDE DEF x
    <3>2. x \in 1..Len(log[t]) /\ \A q \in 1..x : log[t][q].key \in db.keys
      BY <1>4, <3>1
    <3> QED  BY <2>1, <3>1, <3>2
  <2> QED  BY <2>2, <2>3
<1>7. /\ Script' = Script /\ ScriptEvents' = ScriptEvents /\ LogEvents' = LogEvents
      /\ CallSet' = CallSet /\ ItemSet' = ItemSet
  BY <1>1 DEF Script, LogEvents, Notices, ScriptEvents, CallSet, ItemSet
<1>8. Longer
  BY <1>1 DEF WInv, Logged, Longer
<1>9. Shapes'
  <2>1. committed' \in [Topic -> Nat]
    BY <1>1, <1>6
  <2>2. <<>> \in Seq(ItemSet) /\ <<>> \in Seq(CallSet)
    OBVIOUS
  <2> QED  BY <1>1, <1>2, <1>7, <2>1, <2>2 DEF WInv, Shapes
<1>10. TypeOK'
  BY <1>1, <1>2, <1>6, <1>7 DEF WInv, TypeOK
<1>11. Logged' /\ Published'
  BY <1>1, LogStays DEF WInv
<1>12. Sound(db)'
  BY <1>1, <1>8, SoundStays DEF WInv
<1>13. InOrder(db, consumer.buffer)' /\ Stored'
  <2>1. Len(consumer'.buffer) = 0 /\ 1..0 = {}
    BY <1>2
  <2> QED  BY <1>2, <2>1 DEF InOrder, Stored
<1>14. Covered'
  <2>1. SUFFICES ASSUME NEW t \in Topic, NEW k \in 1..consumer.position[t]
                 PROVE  log[t][k].key \in db.keys
    BY <1>1, <1>2 DEF Covered
  <2>2. CASE Entry(t, k) \in Among(buffer)
    <3>1. PICK i \in 1..Len(buffer) : buffer[i] = Entry(t, k)
      BY <2>2 DEF Among
    <3>2. buffer[i].event = log[t][k]
      BY <3>1 DEF Entry
    <3> QED  BY <1>3, <3>2
  <2> QED  BY <2>2 DEF WInv, Covered
<1>15. CommittedIsProjected'
  BY <1>1, <1>6 DEF CommittedIsProjected
<1>16. NoticesTell' /\ AdjustsLate' /\ AdjustedIsLate' /\ BillingAsked' /\ UsageAsked'
  BY <1>1, <1>2, AskedStays, DueStays
<1>17. Due = lost
  <2>1. Len(consumer.todo) = 0 /\ 1..0 = {}
    BY <1>1
  <2> QED  BY <2>1 DEF Due, Among
<1>18. \A t \in Topic : \A k \in 1..committed'[t] : log[t][k] \in LogEvents
  <2>1. \A t \in Topic : \A k \in 1..Len(log[t]) : log[t][k] \in LogEvents
    BY DEF WInv, Logged
  <2>2. \A t \in Topic : \A k \in 1..committed'[t] : k \in 1..Len(log[t])
    <3>1. \A t \in Topic : Len(log[t]) \in Nat
      BY DEF WInv, Logged
    <3> QED  BY <1>6, <3>1
  <2> QED  BY <2>1, <2>2
<1>19. plan \in Plans /\ "call-events" \in Topic /\ "usage-events" \in Topic
  BY WorkerAssumption DEF WInv, Logged
<1>20. EndedIsBilled'
  <2>1. SUFFICES ASSUME NEW k \in 1..committed'["call-events"],
                        log["call-events"][k].type = "call.ended"
                 PROVE  LET e == log["call-events"][k]
                        IN  /\ temporal.billing \/ IsLost("start", e)
                            /\ temporal.ended \/ IsLost("ended", e)
    BY <1>1, <1>7 DEF EndedIsBilled, IsLost
  <2>2. log["call-events"][k] \in ScriptEvents
    BY <1>18, <1>19, <2>1, LogFacts
  <2>3. log["call-events"][k].key \in db.keys
    BY <1>6, <1>19
  <2> QED  BY <1>17, <2>1, <2>2, <2>3 DEF WInv, BillingAsked, IsDue, IsLost
<1>21. LateFollows'
  <2>1. Measured' = Measured
    BY DEF Measured, IsUsage, IsBarrier, Priced
  <2>2. SUFFICES ASSUME db.final # NoFinal, NEW k \in 1..committed'["usage-events"],
                        log["usage-events"][k] \in Measured
                 PROVE  LET e == log["usage-events"][k]
                        IN  e.id \in before \cup temporal.adjusting \/ IsLost("adjust", e)
    BY <1>1, <1>7, <2>1 DEF LateFollows, IsLost
  <2>3. IsMetered(log["usage-events"][k])
    BY <2>2 DEF Measured, IsMetered
  <2>4. log["usage-events"][k] \in ScriptEvents
    BY <1>18, <1>19, <2>3, LogFacts DEF IsMetered
  <2>5. log["usage-events"][k].key \in db.keys
    BY <1>6, <1>19
  <2> QED  BY <1>17, <2>2, <2>3, <2>4, <2>5 DEF WInv, UsageAsked, IsDue, IsLost
<1>22. BillsTell'
  BY <1>1, BillsStay
<1> QED  BY <1>9, <1>10, <1>11, <1>12, <1>13, <1>14, <1>15, <1>16, <1>20, <1>21, <1>22, Together

(* A committed record of measured usage is of the session and in Postgres.      *)
LEMMA CommittedUsage ==
  ASSUME WInv, NEW k \in 1..committed["usage-events"], log["usage-events"][k] \in Measured
  PROVE  LET e == log["usage-events"][k]
         IN  IsMetered(e) /\ e \in ScriptEvents /\ e.key \in db.keys
<1>1. IsMetered(log["usage-events"][k])
  BY DEF Measured, IsMetered
<1>2. "usage-events" \in Topic
  BY WorkerAssumption
<1>3. /\ committed["usage-events"] \in Nat /\ Len(log["usage-events"]) \in Nat
      /\ committed["usage-events"] <= Len(log["usage-events"])
      /\ log["usage-events"] \in Seq(LogEvents)
  BY <1>2 DEF WInv, Shapes, TypeOK, Logged
<1>4. k \in 1..Len(log["usage-events"])
  BY <1>3
<1>5. log["usage-events"][k] \in LogEvents /\ plan \in Plans
  BY <1>3, <1>4 DEF WInv, Logged
<1>6. log["usage-events"][k] \in ScriptEvents
  BY <1>1, <1>5, LogFacts DEF IsMetered
<1>7. log["usage-events"][k].key \in db.keys
  BY <1>2 DEF WInv, CommittedIsProjected
<1> QED  BY <1>1, <1>6, <1>7

(* An attempt reads the records: all that is in Postgres has one.               *)
LEMMA ReadBillKeeps ==
  ASSUME WInv, ReadBill
  PROVE  WInv'
<1> DEFINE ids == {r.event : r \in db.records}
           bill == [read |-> ids, open |-> db.final = NoFinal, written |-> FALSE]
<1>1. /\ plan' = plan /\ sent' = sent /\ log' = log /\ committed' = committed
      /\ consumer' = consumer /\ temporal' = temporal /\ db' = db /\ before' = before
      /\ lost' = lost /\ bills' = Append(bills, bill)
  BY DEF ReadBill, session
<1>2. bill.read = ids /\ bill.open = (db.final = NoFinal) /\ bill.open \in BOOLEAN
  OBVIOUS
<1>3. \A id \in ids : IsKeyed(id)
  BY DEF WInv, Sound, RecordsKeyed, IsKeyed
<1>4. \A e \in ScriptEvents : IsMetered(e) /\ e.key \in db.keys => e.id \in ids
  BY DEF WInv, Sound, UsageCounted, Counts, Recorded
<1>5. bill \in BillSet
  <2>1. ids \in SUBSET ScriptIds
    BY <1>3 DEF IsKeyed, ScriptIds
  <2> HIDE DEF ids
  <2> QED  BY <2>1 DEF BillSet
<1> HIDE DEF ids, bill
<1>6. bills \in Seq(BillSet)
  BY DEF WInv, BillsTell
<1>7. /\ bills' \in Seq(BillSet) /\ DOMAIN bills = 1..Len(bills) /\ Len(bills) \in Nat
      /\ DOMAIN bills' = 1..(Len(bills) + 1)
      /\ \A i \in 1..Len(bills) : bills'[i] = bills[i]
      /\ bills'[Len(bills) + 1] = bill
  BY <1>1, <1>5, <1>6, AppendProperties
<1>8. /\ \A i \in DOMAIN bills : i \in DOMAIN bills' /\ bills'[i] = bills[i]
      /\ \A i \in DOMAIN bills' : i \in DOMAIN bills \/ bills'[i] = bill
  <2>1. \A i \in 1..Len(bills) : i \in 1..(Len(bills) + 1)
    BY <1>7
  <2>2. \A i \in 1..(Len(bills) + 1) : i \in 1..Len(bills) \/ i = Len(bills) + 1
    BY <1>7
  <2> QED  BY <1>7, <2>1, <2>2
<1>9. /\ Script' = Script /\ ScriptEvents' = ScriptEvents /\ LogEvents' = LogEvents
      /\ CallSet' = CallSet /\ ItemSet' = ItemSet /\ ScriptIds' = ScriptIds
      /\ BillSet' = BillSet /\ Among(consumer.todo)' = Among(consumer.todo) /\ Due' = Due
  BY <1>1 DEF Script, LogEvents, Notices, ScriptEvents, CallSet, ItemSet, ScriptIds, BillSet,
     Among, Due
<1>10. Longer
  BY <1>1 DEF WInv, Logged, Longer
<1>11. Shapes' /\ TypeOK' /\ Stored'
  BY <1>1, <1>9 DEF WInv, Shapes, TypeOK, Stored
<1>12. Logged' /\ Published'
  BY <1>1, LogStays DEF WInv
<1>13. Sound(db)'
  BY <1>1, <1>10, SoundStays DEF WInv
<1>14. CommittedIsProjected' /\ InOrder(db, consumer.buffer)' /\ Covered'
  BY <1>1, <1>10, FetchedStays
<1>15. NoticesTell' /\ BillingAsked' /\ UsageAsked'
  BY <1>1, <1>9 DEF WInv, NoticesTell, BillingAsked, UsageAsked, IsDue
<1>16. AdjustsLate' /\ AdjustedIsLate'
  <2>1. AdjustsLate /\ AdjustedIsLate
    BY DEF WInv
  <2>2. CASE db.final = NoFinal
    <3>1. temporal.adjusting = {} /\ \A c \in Among(consumer.todo) : c.kind # "adjust"
      BY <2>1, <2>2 DEF AdjustsLate
    <3> QED  BY <1>1, <1>9, <3>1 DEF AdjustsLate, AdjustedIsLate
  <2>3. CASE db.final # NoFinal
    <3>1. ~bill.open
      BY <1>2, <2>3
    <3> QED  BY <1>1, <1>8, <1>9, <2>1, <3>1 DEF AdjustsLate, AdjustedIsLate
  <2> QED  BY <2>2, <2>3
<1>17. EndedIsBilled' /\ LateFollows'
  BY <1>1, <1>10, FollowedStays
<1>18. BillsTell'
  <2>1. BillsTell /\ plan \in Plans
    BY DEF WInv, Logged
  <2>2. \A id : IsKeyed(id)' <=> IsKeyed(id)
    BY <1>1, <1>9 DEF IsKeyed
  <2>3. \A e \in ScriptEvents : IsMetered(e) /\ e.id \in before => e.id \in ids
    <3> SUFFICES ASSUME NEW e \in ScriptEvents, IsMetered(e), e.id \in before
                 PROVE  e.id \in ids
      OBVIOUS
    <3>1. PICK f \in ScriptEvents : f.id = e.id /\ f.key \in db.keys
      BY <2>1 DEF BillsTell, IsKeyed
    <3>2. f = e
      BY <2>1, <3>1, ScriptFacts
    <3> QED  BY <1>4, <3>1, <3>2
  <2>4. \A i \in DOMAIN bills' : \A id \in bills'[i].read : IsKeyed(id)
    BY <1>2, <1>3, <1>8, <2>1 DEF BillsTell
  <2>5. \A i \in DOMAIN bills' : ~bills'[i].open =>
          /\ db.final # NoFinal
          /\ \A e \in ScriptEvents : IsMetered(e) /\ e.id \in before => e.id \in bills'[i].read
    BY <1>2, <1>8, <2>1, <2>3 DEF BillsTell
  <2>6. db.final # NoFinal =>
          \E i \in DOMAIN bills' : bills'[i].written /\ db.final.counted = bills'[i].read
    BY <1>8, <2>1 DEF BillsTell
  <2> QED  BY <1>1, <1>7, <1>9, <2>1, <2>2, <2>4, <2>5, <2>6 DEF BillsTell
<1> QED  BY <1>11, <1>12, <1>13, <1>14, <1>15, <1>16, <1>17, <1>18, Together

(* An attempt writes the bill: the first to do so has before it all that is in  *)
(* Postgres, and the others leave what went before as it is.                    *)
LEMMA WriteBillKeeps ==
  ASSUME WInv, WriteBill
  PROVE  WInv'
<1> DEFINE ids == {r.event : r \in db.records}
<1>1. PICK i \in DOMAIN bills :
        /\ db' = [db EXCEPT !.final = [status |-> "FINALIZED", counted |-> bills[i].read]]
        /\ bills' = [bills EXCEPT ![i].written = TRUE]
  BY DEF WriteBill
<1> DEFINE bill == [status |-> "FINALIZED", counted |-> bills[i].read]
<1>2. /\ plan' = plan /\ sent' = sent /\ log' = log /\ committed' = committed
      /\ consumer' = consumer /\ temporal' = temporal /\ lost' = lost
      /\ before' = IF db.final = NoFinal THEN ids ELSE before
  BY DEF WriteBill, session
<1>3. IsDb(db) /\ Sound(db) /\ BillsTell /\ bills \in Seq(BillSet)
  BY DEF WInv, Sound, BillsTell
<1>4. bill # NoFinal /\ bill.counted = bills[i].read
  BY DEF NoFinal
<1>5. db' = [db EXCEPT !.final = bill]
  BY <1>1
<1> HIDE DEF bill
<1>6. /\ IsDb(db') /\ db'.final = bill /\ db'.keys = db.keys /\ db'.records = db.records
      /\ db'.usage = db.usage /\ db'.manifest = db.manifest
      /\ db'.expectations = db.expectations
  BY <1>3, <1>5 DEF IsDb, DbFields
<1>7. \A id \in ids : IsKeyed(id)
  BY <1>3 DEF Sound, RecordsKeyed, IsKeyed
<1>8. \A e \in ScriptEvents : IsMetered(e) /\ e.key \in db.keys => e.id \in ids
  BY <1>3 DEF Sound, UsageCounted, Counts, Recorded
<1> HIDE DEF ids
<1>9. /\ bills' \in Seq(BillSet) /\ DOMAIN bills' = DOMAIN bills
      /\ \A k \in DOMAIN bills : bills'[k].read = bills[k].read /\ bills'[k].open = bills[k].open
      /\ bills'[i].written
  <2>1. /\ Len(bills) \in Nat /\ DOMAIN bills = 1..Len(bills)
        /\ \A k \in DOMAIN bills : bills[k] \in BillSet
    BY <1>3
  <2>2. [bills[i] EXCEPT !.written = TRUE] \in BillSet
    BY <2>1 DEF BillSet
  <2>3. DOMAIN bills' = DOMAIN bills
    BY <1>1
  <2>4. \A k \in DOMAIN bills :
          bills'[k] = IF k = i THEN [bills[i] EXCEPT !.written = TRUE] ELSE bills[k]
    BY <1>1
  <2>5. bills' \in Seq(BillSet)
    BY <1>1, <1>3, <2>2
  <2>6. bills'[i].written
    BY <2>1, <2>4 DEF BillSet
  <2>7. \A k \in DOMAIN bills : bills'[k].read = bills[k].read /\ bills'[k].open = bills[k].open
    BY <2>1, <2>4 DEF BillSet
  <2> QED  BY <2>3, <2>5, <2>6, <2>7
<1>10. Sound(db')
  <2>1. RowPair(db')
    BY <1>3, <1>6 DEF Sound, RowPair, HasUsage
  <2>2. RecordsKeyed(db')
    BY <1>3, <1>6 DEF Sound, RecordsKeyed
  <2>3. UsageCounted(db')
    BY <1>3, <1>6 DEF Sound, UsageCounted, Counts, Recorded, HasUsage
  <2>4. ExpectedMet(db')
    BY <1>3, <1>6 DEF Sound, ExpectedMet, HasUsage
  <2>5. ManifestBehind(db')
    BY <1>3, <1>6 DEF Sound, ManifestBehind
  <2> QED  BY <1>6, <2>1, <2>2, <2>3, <2>4, <2>5 DEF Sound
<1>11. /\ Script' = Script /\ ScriptEvents' = ScriptEvents /\ LogEvents' = LogEvents
       /\ CallSet' = CallSet /\ ItemSet' = ItemSet /\ ScriptIds' = ScriptIds
       /\ BillSet' = BillSet /\ Among(consumer.todo)' = Among(consumer.todo) /\ Due' = Due
  BY <1>2 DEF Script, LogEvents, Notices, ScriptEvents, CallSet, ItemSet, ScriptIds, BillSet,
     Among, Due
<1>12. Longer
  BY <1>2 DEF WInv, Logged, Longer
<1>13. Shapes' /\ TypeOK' /\ Stored'
  BY <1>2, <1>6, <1>11 DEF WInv, Shapes, TypeOK, Stored
<1>14. Logged' /\ Published'
  BY <1>2, LogStays DEF WInv
<1>15. Sound(db)'
  BY <1>2, <1>10, <1>12, SoundStays DEF WInv
<1>16. CommittedIsProjected' /\ InOrder(db, consumer.buffer)' /\ Covered'
  BY <1>2, <1>6, <1>12, FetchedStays
<1>17. NoticesTell' /\ BillingAsked'
  BY <1>2, <1>6, <1>11 DEF WInv, NoticesTell, BillingAsked, IsDue
<1>18. AdjustsLate' /\ AdjustedIsLate'
  BY <1>2, <1>4, <1>6, <1>9, <1>11 DEF WInv, AdjustsLate, AdjustedIsLate
<1>19. UsageAsked'
  <2>1. CASE db.final = NoFinal
    BY <1>2, <1>6, <1>8, <1>11, <2>1 DEF UsageAsked
  <2>2. CASE db.final # NoFinal
    BY <1>2, <1>6, <1>11, <2>2 DEF WInv, UsageAsked, IsDue
  <2> QED  BY <2>1, <2>2
<1>20. EndedIsBilled'
  BY <1>2 DEF WInv, EndedIsBilled, IsLost
<1>21. LateFollows'
  <2>1. Measured' = Measured
    BY DEF Measured, IsUsage, IsBarrier, Priced
  <2>2. CASE db.final = NoFinal
    <3>1. ASSUME NEW k \in 1..committed["usage-events"], log["usage-events"][k] \in Measured
          PROVE  log["usage-events"][k].id \in ids
      BY <1>8, <3>1, CommittedUsage
    <3> QED  BY <1>2, <2>1, <2>2, <3>1 DEF LateFollows
  <2>3. CASE db.final # NoFinal
    BY <1>2, <2>1, <2>3 DEF WInv, LateFollows, IsLost
  <2> QED  BY <2>2, <2>3
<1>22. BillsTell'
  <2>1. \A id : IsKeyed(id)' <=> IsKeyed(id)
    BY <1>6, <1>11 DEF IsKeyed
  <2>2. \A id \in before' : IsKeyed(id)
    BY <1>2, <1>3, <1>7 DEF BillsTell
  <2>3. \A k \in DOMAIN bills' : \A id \in bills'[k].read : IsKeyed(id)
    BY <1>3, <1>9 DEF BillsTell
  <2>4. \A k \in DOMAIN bills' : ~bills'[k].open =>
          \A e \in ScriptEvents : IsMetered(e) /\ e.id \in before' => e.id \in bills'[k].read
    BY <1>2, <1>3, <1>9 DEF BillsTell
  <2>5. bills'[i].written /\ db'.final.counted = bills'[i].read /\ i \in DOMAIN bills'
    BY <1>4, <1>6, <1>9
  <2> QED  BY <1>4, <1>6, <1>9, <1>11, <2>1, <2>2, <2>3, <2>4, <2>5 DEF BillsTell
<1> QED  BY <1>13, <1>14, <1>15, <1>16, <1>17, <1>18, <1>19, <1>20, <1>21, <1>22, Together

--------------------------------------------------------------------------------
(* The invariant holds at first.                                                *)
LEMMA InitWInv ==
  ASSUME Init
  PROVE  WInv
<1>1. 1..0 = {} /\ \A S : <<>> \in Seq(S) /\ Len(<<>>) = 0
  OBVIOUS
<1>2. /\ plan \in Plans /\ sent = 0 /\ log = [t \in Topic |-> <<>>]
      /\ committed = [t \in Topic |-> 0] /\ consumer = Stopped /\ db = EmptyDb
      /\ temporal = [billing |-> FALSE, ended |-> FALSE, hinted |-> FALSE, adjusting |-> {}]
      /\ bills = <<>> /\ before = {} /\ lost = {}
  BY DEF Init
<1>3. Len(Script) \in Nat
  BY <1>2, ScriptFacts
<1>4. \A t \in Topic : log[t] = <<>> /\ Len(log[t]) = 0 /\ committed[t] = 0
  BY <1>2
<1>5. /\ consumer.phase = "stopped" /\ consumer.position = [t \in Topic |-> 0]
      /\ consumer.buffer = <<>> /\ consumer.attempt = 0 /\ consumer.todo = <<>>
      /\ consumer = [f \in {"phase", "position", "buffer", "attempt", "todo"} |-> consumer[f]]
  BY <1>2 DEF Stopped
<1>6. /\ db.keys = {} /\ db.records = {} /\ db.usage = {} /\ db.expectations = {}
      /\ db.manifest = NoManifest /\ db.final = NoFinal /\ IsDb(db)
  BY <1>2 DEF EmptyDb, IsDb, DbFields
<1>7. Among(consumer.todo) = {}
  BY <1>1, <1>5 DEF Among
<1>8. Shapes
  BY <1>1, <1>2, <1>5 DEF Shapes
<1>9. TypeOK
  BY <1>2, <1>3, <1>4, <1>5 DEF TypeOK, Attempts
<1>10. Logged
  BY <1>1, <1>2, <1>3, <1>4 DEF Logged, LogOrder
<1>11. Published
  BY <1>1, <1>2 DEF Published
<1>12. Sound(db)
  BY <1>6 DEF Sound, RowPair, RecordsKeyed, UsageCounted, ExpectedMet, ManifestBehind
<1>13. InOrder(db, consumer.buffer) /\ Covered /\ Stored
  BY <1>1, <1>5 DEF InOrder, Covered, Stored
<1>14. CommittedIsProjected
  BY <1>1, <1>4 DEF CommittedIsProjected
<1>15. NoticesTell /\ AdjustsLate /\ AdjustedIsLate
  BY <1>2, <1>6, <1>7 DEF NoticesTell, AdjustsLate, AdjustedIsLate
<1>16. BillingAsked /\ UsageAsked
  BY <1>6 DEF BillingAsked, UsageAsked
<1>17. EndedIsBilled /\ LateFollows
  <2>1. "call-events" \in Topic
    BY WorkerAssumption
  <2> QED  BY <1>1, <1>4, <1>6, <2>1 DEF EndedIsBilled, LateFollows
<1>18. BillsTell
  <2>1. DOMAIN bills = {}
    BY <1>2
  <2> QED  BY <1>1, <1>2, <1>6, <2>1 DEF BillsTell
<1> QED  BY <1>8, <1>9, <1>10, <1>11, <1>12, <1>13, <1>14, <1>15, <1>16, <1>17, <1>18 DEF WInv

(* Every step keeps the invariant.                                              *)
LEMMA NextWInv ==
  ASSUME WInv, [Next]_vars
  PROVE  WInv'
<1>1. CASE Publish
  BY <1>1, PublishKeeps
<1>2. CASE Replay
  BY <1>2, ReplayKeeps
<1>3. CASE Start
  BY <1>3, StartKeeps
<1>4. CASE Poll
  BY <1>4, PollKeeps
<1>5. CASE PollPoison \/ ProjectRaises
  BY <1>5, PoisonKeeps
<1>6. CASE Project
  BY <1>6, ProjectKeeps
<1>7. CASE StartBilling \/ SignalEnded \/ HintUsage \/ StartAdjustment
  BY <1>7, TemporalKeeps
<1>8. CASE PublishNotice
  BY <1>8, NoticeKeeps
<1>9. CASE Commit
  BY <1>9, CommitKeeps
<1>10. CASE ProjectFails
  BY <1>10, FailsKeeps
<1>11. CASE CommitUnanswered
  BY <1>11, UnansweredKeeps
<1>12. CASE Crash
  BY <1>12, CrashKeeps
<1>13. CASE ReadBill
  BY <1>13, ReadBillKeeps
<1>14. CASE WriteBill
  BY <1>14, WriteBillKeeps
<1>15. CASE UNCHANGED vars
  <2>1. /\ plan' = plan /\ sent' = sent /\ log' = log
        /\ UNCHANGED <<committed, consumer, db, temporal, billing, lost>>
    BY <1>15 DEF vars, session
  <2>2. Logged' /\ Published'
    BY <2>1, LogStays DEF WInv
  <2>3. Longer
    BY <2>1 DEF WInv, Logged, Longer
  <2> QED  BY <2>1, <2>2, <2>3, LogKeeps
<1> QED  BY <1>1, <1>2, <1>3, <1>4, <1>5, <1>6, <1>7, <1>8, <1>9, <1>10, <1>11, <1>12, <1>13,
            <1>14, <1>15 DEF Next, Worker

(* The worker's invariant, in every reachable state.                            *)
THEOREM WorkerInvariant == Spec => []WInv
<1>1. Init => WInv
  BY InitWInv
<1>2. WInv /\ [Next]_vars => WInv'
  BY NextWInv
<1> QED  BY <1>1, <1>2, PTL DEF Spec

(* Whatever is delivered again, fails or dies, in whatever order the topics are *)
(* polled: offsets are committed only past events that are in Postgres, and no  *)
(* event is adjusted that an attempt had counted before there was a bill.       *)
THEOREM WorkerSafe == Spec => []Inv
<1>1. WInv => Inv
  BY DEF WInv, Inv
<1> QED  BY <1>1, WorkerInvariant, PTL

(* Usage that preceded the bill is in the bill that stands, or slipped between  *)
(* the read and the write of an attempt.                                        *)
LEMMA LateIsDone ==
  ASSUME WInv
  PROVE  LateIsAdjusted
<1>1. SUFFICES ASSUME db.final # NoFinal,
                      NEW k \in 1..committed["usage-events"], log["usage-events"][k] \in Measured
               PROVE  LET e == log["usage-events"][k]
                      IN  \/ e.id \in db.final.counted \cup temporal.adjusting
                          \/ e.id \in Slipped \/ IsLost("adjust", e)
  BY DEF LateIsAdjusted
<1> DEFINE e == log["usage-events"][k]
<1>2. e.id \in before \cup temporal.adjusting \/ IsLost("adjust", e)
  BY <1>1 DEF WInv, LateFollows
<1>3. IsMetered(e) /\ e \in ScriptEvents
  BY <1>1, CommittedUsage
<1> HIDE DEF e
<1>4. PICK i \in DOMAIN bills : bills[i].written /\ db.final.counted = bills[i].read
  BY <1>1 DEF WInv, BillsTell
<1>5. ASSUME e.id \in before PROVE e.id \in db.final.counted \cup Slipped
  <2>1. CASE bills[i].open
    BY <1>4, <1>5, <2>1 DEF Slipped
  <2>2. CASE ~bills[i].open
    BY <1>3, <1>4, <1>5, <2>2 DEF WInv, BillsTell
  <2> QED  BY <2>1, <2>2
<1> QED  BY <1>2, <1>5 DEF e

(* The workflow of an ended call and the adjustment of late usage are started   *)
(* before the offset that would bring the event back is committed; what is not  *)
(* was lost with a consumer or an answer, or slipped by the bill.               *)
THEOREM FollowUpsAreStarted == Spec => []FollowUpsStart
<1>1. WInv => FollowUpsStart
  BY LateIsDone DEF WInv, FollowUpsStart
<1> QED  BY <1>1, WorkerInvariant, PTL

(* A usage manifest that is in Postgres has all its usage there: all that       *)
(* preceded the barrier, and a row for each turn and type that it expects.      *)
THEOREM CaughtUpCalls == Spec => []CaughtUpIsComplete
<1>1. WInv => CaughtUpIsComplete
  BY DEF WInv, Sound, ManifestBehind, ExpectedMet, HasUsage, CaughtUpIsComplete
<1> QED  BY <1>1, WorkerInvariant, PTL

--------------------------------------------------------------------------------
(* Sums of natural numbers over a finite set, as MapThenSumSet makes them.      *)

PickOf(s) == CHOOSE x \in s : TRUE

SumStep(amount, g, s) == IF s = {} THEN 0 ELSE amount[PickOf(s)] + g[s \ {PickOf(s)}]

SumLoop(amount, set) == CHOOSE g : g = [s \in SUBSET set |-> SumStep(amount, g, s)]

Summable(amount, set) == IsFiniteSet(set) /\ \A x \in set : amount[x] \in Nat

SumFn(amount, set) == SumLoop(amount, set)[set]

(* What is left of a finite set has one element less.                           *)
LEMMA OneLess ==
  ASSUME NEW s, IsFiniteSet(s), NEW x \in s
  PROVE  /\ IsFiniteSet(s \ {x}) /\ Cardinality(s) \in Nat /\ Cardinality(s \ {x}) \in Nat
         /\ Cardinality(s) = Cardinality(s \ {x}) + 1
<1>1. IsFiniteSet(s \ {x}) /\ Cardinality(s \ {x}) = Cardinality(s) - 1
  BY FS_RemoveElement
<1>2. Cardinality(s) \in Nat /\ Cardinality(s \ {x}) \in Nat
  BY <1>1, FS_CardinalityType
<1> QED  BY <1>1, <1>2

(* The subsets of a finite set are finite, and no larger.                       *)
LEMMA Subsets ==
  ASSUME NEW set, IsFiniteSet(set), NEW s \in SUBSET set
  PROVE  /\ IsFiniteSet(s) /\ Cardinality(s) \in Nat /\ Cardinality(set) \in Nat
         /\ Cardinality(s) <= Cardinality(set)
         /\ s = {} <=> Cardinality(s) = 0
<1> QED  BY FS_Subset, FS_CardinalityType, FS_EmptySet

(* The sum exists.                                                              *)
LEMMA SumLoopDef ==
  ASSUME NEW amount, NEW set, IsFiniteSet(set)
  PROVE  \A s \in SUBSET set : SumLoop(amount, set)[s] = SumStep(amount, SumLoop(amount, set), s)
<1> DEFINE Good(h, n) == \A s \in SUBSET set : Cardinality(s) <= n => h[s] = SumStep(amount, h, s)
           N == {n \in Nat : \E h : Good(h, n)}
<1>1. 0 \in N
  <2> DEFINE h == [s \in SUBSET set |-> 0]
  <2>1. ASSUME NEW s \in SUBSET set, Cardinality(s) <= 0 PROVE h[s] = SumStep(amount, h, s)
    <3>1. s = {}
      BY <2>1, Subsets
    <3> QED  BY <3>1 DEF SumStep
  <2>2. Good(h, 0)
    BY <2>1
  <2> HIDE DEF h, Good
  <2> QED  BY <2>2
<1>2. ASSUME NEW n \in Nat, n \in N PROVE n + 1 \in N
  <2>1. PICK h : Good(h, n)
    BY <1>2
  <2> DEFINE k == [s \in SUBSET set |-> SumStep(amount, h, s)]
  <2>2. ASSUME NEW s \in SUBSET set, Cardinality(s) <= n PROVE k[s] = h[s]
    BY <2>1, <2>2
  <2>3. ASSUME NEW s \in SUBSET set, Cardinality(s) <= n + 1 PROVE k[s] = SumStep(amount, k, s)
    <3>1. k[s] = SumStep(amount, h, s)
      OBVIOUS
    <3>2. CASE s = {}
      BY <3>1, <3>2 DEF SumStep
    <3>3. CASE s # {}
      <4>1. PickOf(s) \in s
        BY <3>3 DEF PickOf
      <4>2. s \ {PickOf(s)} \in SUBSET set /\ Cardinality(s \ {PickOf(s)}) <= n
        BY <2>3, <4>1, OneLess, Subsets
      <4>3. k[s \ {PickOf(s)}] = h[s \ {PickOf(s)}]
        BY <2>2, <4>2
      <4> QED  BY <3>1, <4>3 DEF SumStep
    <3> QED  BY <3>2, <3>3
  <2>4. Good(k, n + 1)
    BY <2>3
  <2> HIDE DEF k, Good
  <2> QED  BY <2>4
<1>3. Cardinality(set) \in N
  <2> HIDE DEF N
  <2>1. \A n \in Nat : n \in N
    BY <1>1, <1>2, NatSetInduction
  <2> QED  BY <2>1, FS_CardinalityType
<1>4. PICK h : Good(h, Cardinality(set))
  BY <1>3
<1> DEFINE g == [s \in SUBSET set |-> h[s]]
<1>5. \A s \in SUBSET set : h[s] = SumStep(amount, h, s)
  BY <1>4, Subsets
<1>6. ASSUME NEW s \in SUBSET set PROVE g[s] = SumStep(amount, g, s)
  <2>1. s = {} \/ s \ {PickOf(s)} \in SUBSET set
    OBVIOUS
  <2>2. s = {} \/ g[s \ {PickOf(s)}] = h[s \ {PickOf(s)}]
    BY <2>1
  <2>3. SumStep(amount, g, s) = SumStep(amount, h, s)
    BY <2>2 DEF SumStep
  <2> QED  BY <1>5, <2>3
<1>7. g = [s \in SUBSET set |-> SumStep(amount, g, s)]
  <2>1. g = [s \in SUBSET set |-> g[s]]
    OBVIOUS
  <2> HIDE DEF g
  <2> QED  BY <1>6, <2>1
<1> DEFINE f == SumLoop(amount, set)
<1>8. f = [s \in SUBSET set |-> SumStep(amount, f, s)]
  <2> HIDE DEF g
  <2> QED  BY <1>7 DEF SumLoop
<1> DEFINE e == [s \in SUBSET set |-> SumStep(amount, f, s)]
<1>9. \A s \in SUBSET set : e[s] = SumStep(amount, f, s)
  OBVIOUS
<1>10. f = e
  BY <1>8
<1> HIDE DEF f, e
<1>11. \A s \in SUBSET set : f[s] = SumStep(amount, f, s)
  BY <1>9, <1>10
<1> QED  BY <1>11 DEF f

(* Which element is added first does not matter.                                *)
LEMMA SumWithout ==
  ASSUME NEW amount, NEW set, Summable(amount, set)
  PROVE  /\ SumLoop(amount, set)[{}] = 0
         /\ \A s \in SUBSET set :
              /\ SumLoop(amount, set)[s] \in Nat
              /\ \A x \in s : SumLoop(amount, set)[s]
                                = amount[x] + SumLoop(amount, set)[s \ {x}]
<1>0. IsFiniteSet(set) /\ \A x \in set : amount[x] \in Nat
  BY DEF Summable
<1> USE <1>0
<1> DEFINE g == SumLoop(amount, set)
           Cost(x) == amount[x]
           Fine(s) == g[s] \in Nat /\ \A x \in s : g[s] = Cost(x) + g[s \ {x}]
           N == {n \in Nat : \A s \in SUBSET set : Cardinality(s) <= n => Fine(s)}
<1>1. \A s \in SUBSET set : g[s] = SumStep(amount, g, s)
  BY SumLoopDef
<1>2. \A x \in set : Cost(x) \in Nat
  OBVIOUS
<1>3. \A s \in SUBSET set : s # {} =>
        /\ PickOf(s) \in s
        /\ g[s] = Cost(PickOf(s)) + g[s \ {PickOf(s)}]
  BY <1>1 DEF SumStep, PickOf
<1>4. g[{}] = 0
  <2>1. {} \in SUBSET set
    OBVIOUS
  <2> QED  BY <1>1, <2>1 DEF SumStep
<1> HIDE DEF g, Cost
<1>5. 0 \in N
  <2>1. ASSUME NEW s \in SUBSET set, Cardinality(s) <= 0 PROVE Fine(s)
    <3>1. s = {}
      BY <2>1, Subsets
    <3> QED  BY <1>4, <3>1
  <2> QED  BY <2>1
<1>6. ASSUME NEW n \in Nat, n \in N PROVE n + 1 \in N
  <2>1. ASSUME NEW s \in SUBSET set, Cardinality(s) <= n + 1 PROVE Fine(s)
    <3> DEFINE p == PickOf(s)
    <3>1. CASE s = {}
      BY <1>4, <3>1
    <3>2. CASE s # {}
      <4>1. p \in s /\ g[s] = Cost(p) + g[s \ {p}]
        BY <1>3, <3>2
      <4>2. \A x \in s : s \ {x} \in SUBSET set /\ Cardinality(s \ {x}) <= n
        <5>1. IsFiniteSet(s)
          BY Subsets
        <5> QED  BY <2>1, <5>1, OneLess
      <4> HIDE DEF p
      <4>3. \A x \in s : Fine(s \ {x})
        BY <1>6, <4>2
      <4>4. \A x \in s : Cost(x) \in Nat /\ g[s \ {x}] \in Nat
        BY <1>2, <4>3
      <4>5. ASSUME NEW x \in s, x # p PROVE g[s] = Cost(x) + g[s \ {x}]
        <5>1. g[s \ {p}] = Cost(x) + g[(s \ {p}) \ {x}]
          BY <4>1, <4>3, <4>5
        <5>2. g[s \ {x}] = Cost(p) + g[(s \ {x}) \ {p}]
          BY <4>1, <4>3, <4>5
        <5>3. (s \ {p}) \ {x} = (s \ {x}) \ {p}
          OBVIOUS
        <5>4. g[(s \ {x}) \ {p}] \in Nat
          <6>1. s \ {x} \in SUBSET set /\ p \in s \ {x}
            BY <4>1, <4>5
          <6>2. IsFiniteSet(s \ {x})
            BY <6>1, Subsets
          <6>3. (s \ {x}) \ {p} \in SUBSET set /\ Cardinality((s \ {x}) \ {p}) <= n
            <7> DEFINE a == s \ {x}
                       b == a \ {p}
            <7>1. /\ Cardinality(s) \in Nat /\ Cardinality(a) \in Nat
                  /\ Cardinality(s) = Cardinality(a) + 1 /\ IsFiniteSet(a)
              BY <4>5, <6>2, OneLess, Subsets
            <7>2. /\ Cardinality(b) \in Nat /\ Cardinality(a) = Cardinality(b) + 1
              BY <6>1, <6>2, OneLess
            <7>3. b \in SUBSET set
              OBVIOUS
            <7>4. Cardinality(a) <= n
              BY <4>2, <4>5
            <7> HIDE DEF a, b
            <7>5. Cardinality(b) <= n
              BY <7>1, <7>2, <7>4
            <7> QED  BY <7>3, <7>5 DEF a, b
          <6>4. Fine((s \ {x}) \ {p})
            BY <1>6, <6>3
          <6> QED  BY <6>4
        <5> DEFINE y == g[(s \ {x}) \ {p}]
                   u == g[s \ {p}]
                   v == g[s \ {x}]
        <5>5. u = Cost(x) + y /\ v = Cost(p) + y /\ g[s] = Cost(p) + u
          BY <4>1, <5>1, <5>2, <5>3
        <5>6. y \in Nat /\ Cost(x) \in Nat /\ Cost(p) \in Nat
          BY <4>1, <4>4, <5>4
        <5> HIDE DEF y, u, v
        <5>7. g[s] = Cost(x) + v
          BY <5>5, <5>6
        <5> QED  BY <5>7 DEF v
      <4>6. g[s] \in Nat
        BY <4>1, <4>4
      <4>7. \A x \in s : g[s] = Cost(x) + g[s \ {x}]
        BY <4>1, <4>5
      <4> QED  BY <4>6, <4>7
    <3> QED  BY <3>1, <3>2
  <2> QED  BY <2>1
<1>7. \A n \in Nat : n \in N
  <2> HIDE DEF N
  <2> QED  BY <1>5, <1>6, NatSetInduction
<1>8. \A s \in SUBSET set : Fine(s)
  <2>1. ASSUME NEW s \in SUBSET set PROVE Fine(s)
    <3>1. Cardinality(s) \in N /\ Cardinality(s) <= Cardinality(s)
      BY <1>7, Subsets
    <3> QED  BY <3>1
  <2> QED  BY <2>1
<1> QED  BY <1>4, <1>8 DEF g, Cost

(* The loop over fewer elements gives the same for what both have.              *)
LEMMA LoopsAgree ==
  ASSUME NEW amount, NEW set, NEW large, Summable(amount, large), set \subseteq large
  PROVE  \A s \in SUBSET set : SumLoop(amount, set)[s] = SumLoop(amount, large)[s]
<1> DEFINE f == SumLoop(amount, set)
           g == SumLoop(amount, large)
           N == {n \in Nat : \A s \in SUBSET set : Cardinality(s) = n => f[s] = g[s]}
<1>0. IsFiniteSet(set) /\ IsFiniteSet(large) /\ Summable(amount, set)
  BY FS_Subset DEF Summable
<1>1. f[{}] = 0 /\ \A s \in SUBSET set : \A x \in s : f[s] = amount[x] + f[s \ {x}]
  BY <1>0, SumWithout
<1>2. g[{}] = 0 /\ \A s \in SUBSET large : \A x \in s : g[s] = amount[x] + g[s \ {x}]
  BY SumWithout
<1> HIDE DEF f, g
<1>3. 0 \in N
  BY <1>0, <1>1, <1>2, Subsets
<1>4. ASSUME NEW n \in Nat, n \in N PROVE n + 1 \in N
  <2>1. ASSUME NEW s \in SUBSET set, Cardinality(s) = n + 1 PROVE f[s] = g[s]
    <3>1. PICK x \in s : TRUE
      BY <1>0, <2>1, Subsets
    <3>2. s \ {x} \in SUBSET set /\ Cardinality(s \ {x}) = n
      <4>1. IsFiniteSet(s)
        BY <1>0, Subsets
      <4>2. Cardinality(s) = Cardinality(s \ {x}) + 1 /\ Cardinality(s \ {x}) \in Nat
        BY <4>1, OneLess
      <4> QED  BY <2>1, <4>2
    <3>3. f[s \ {x}] = g[s \ {x}]
      BY <1>4, <3>2
    <3>4. s \in SUBSET large
      OBVIOUS
    <3> QED  BY <1>1, <1>2, <3>3, <3>4
  <2> QED  BY <2>1
<1>5. \A n \in Nat : n \in N
  <2> HIDE DEF N
  <2> QED  BY <1>3, <1>4, NatSetInduction
<1>6. \A s \in SUBSET set : f[s] = g[s]
  BY <1>0, <1>5, Subsets
<1> QED  BY <1>6 DEF f, g

(* Nothing adds up to nothing.                                                  *)
LEMMA SumNone == ASSUME NEW amount PROVE SumFn(amount, {}) = 0
<1>1. Summable(amount, {})
  BY FS_EmptySet DEF Summable
<1> QED  BY <1>1, SumWithout DEF SumFn

(* A sum is that of an element and that of the others.                          *)
LEMMA SumTakes ==
  ASSUME NEW amount, NEW set, Summable(amount, set), NEW x \in set, NEW rest, rest = set \ {x}
  PROVE  SumLoop(amount, set)[set] = amount[x] + SumLoop(amount, set)[rest]
<1>1. \A s \in SUBSET set : \A y \in s :
        SumLoop(amount, set)[s] = amount[y] + SumLoop(amount, set)[s \ {y}]
  <2>1. \A s \in SUBSET set :
          /\ SumLoop(amount, set)[s] \in Nat
          /\ \A y \in s : SumLoop(amount, set)[s] = amount[y] + SumLoop(amount, set)[s \ {y}]
    BY SumWithout
  <2> QED  BY <2>1
<1>2. set \in SUBSET set
  OBVIOUS
<1> QED  BY <1>1, <1>2

(* One element more adds its amount.                                            *)
LEMMA SumMore ==
  ASSUME NEW amount, NEW set, Summable(amount, set), NEW x, x \notin set,
         amount[x] \in Nat
  PROVE  /\ Summable(amount, set \cup {x})
         /\ SumFn(amount, set) \in Nat /\ SumFn(amount, set \cup {x}) \in Nat
         /\ SumFn(amount, set \cup {x}) = SumFn(amount, set) + amount[x]
<1> DEFINE large == set \cup {x}
<1>1. Summable(amount, large) /\ set \subseteq large /\ x \in large /\ large \ {x} = set
  BY FS_AddElement DEF Summable
<1> HIDE DEF large
<1>2. set \in SUBSET set /\ set \in SUBSET large
  BY <1>1
<1>3. SumLoop(amount, set)[set] = SumLoop(amount, large)[set]
  BY <1>1, <1>2, LoopsAgree
<1>4. SumLoop(amount, large)[set] \in Nat
  BY <1>1, <1>2, SumWithout
<1>5. SumLoop(amount, large)[large] = amount[x] + SumLoop(amount, large)[set]
  BY <1>1, SumTakes
<1>6. /\ SumFn(amount, set) \in Nat /\ SumFn(amount, large) \in Nat
      /\ SumFn(amount, large) = SumFn(amount, set) + amount[x]
  BY <1>3, <1>4, <1>5 DEF SumFn
<1> QED  BY <1>1, <1>6 DEF large

--------------------------------------------------------------------------------
(* The sums of the ledger. What a measurement adds to a column, and what a      *)
(* measured event adds.                                                         *)
Part(e, c) ==
  [i \in DOMAIN e.measurements |->
     LET m == e.measurements[i]
     IN  IF c = "cost" THEN m.qty * UnitPrice[m.type]
         ELSE IF Normalized(m.type, e.stage) = c THEN m.qty ELSE 0]

Adds(c) == [e \in Measured |-> AddedBy(e, c)]

CountedIn(d) == {e \in Measured : e.key \in d.keys}

(* What an event adds is the sum over its measurements.                         *)
LEMMA AddedIsSum ==
  ASSUME NEW e, NEW c
  PROVE  AddedBy(e, c) = SumFn(Part(e, c), DOMAIN e.measurements)
<1> DEFINE set == DOMAIN e.measurements
           Of(i) == LET m == e.measurements[i]
                    IN  IF c = "cost" THEN m.qty * UnitPrice[m.type]
                        ELSE IF Normalized(m.type, e.stage) = c THEN m.qty ELSE 0
           A(g) == g = [s \in SUBSET set |-> IF s = {} THEN 0
                                             ELSE Of(PickOf(s)) + g[s \ {PickOf(s)}]]
           B(g) == g = [s \in SUBSET set |-> SumStep(Part(e, c), g, s)]
<1>1. AddedBy(e, c) = (CHOOSE g : A(g))[set]
  BY DEF AddedBy, MapThenSumSet, MapThenFoldSet, PickOf
<1>2. \A i \in set : Part(e, c)[i] = Of(i)
  BY DEF Part
<1> HIDE DEF set, Of
<1>3. \A g : A(g) <=> B(g)
  <2> SUFFICES ASSUME NEW g PROVE A(g) <=> B(g)
    OBVIOUS
  <2>1. ASSUME NEW s \in SUBSET set
        PROVE  (IF s = {} THEN 0 ELSE Of(PickOf(s)) + g[s \ {PickOf(s)}])
                 = SumStep(Part(e, c), g, s)
    <3>1. s # {} => PickOf(s) \in set
      BY DEF PickOf
    <3> QED  BY <1>2, <3>1 DEF SumStep
  <2> QED  BY <2>1
<1>4. (CHOOSE g : A(g)) = (CHOOSE g : B(g))
  <2> HIDE DEF A, B
  <2> QED  BY <1>3
<1> QED  BY <1>1, <1>4 DEF SumFn, SumLoop, set

(* The cost of some records is the sum over them.                               *)
LEMMA CostIsSum ==
  ASSUME NEW set, NEW cost, \A r \in set : cost[r] = r.cost
  PROVE  TotalCost(set) = SumFn(cost, set)
<1> DEFINE A(g) == g = [s \in SUBSET set |-> IF s = {} THEN 0
                                             ELSE PickOf(s).cost + g[s \ {PickOf(s)}]]
           B(g) == g = [s \in SUBSET set |-> SumStep(cost, g, s)]
<1>1. TotalCost(set) = (CHOOSE g : A(g))[set]
  BY DEF TotalCost, MapThenSumSet, MapThenFoldSet, PickOf
<1>2. \A g : A(g) <=> B(g)
  <2> SUFFICES ASSUME NEW g PROVE A(g) <=> B(g)
    OBVIOUS
  <2>1. ASSUME NEW s \in SUBSET set
        PROVE  (IF s = {} THEN 0 ELSE PickOf(s).cost + g[s \ {PickOf(s)}]) = SumStep(cost, g, s)
    <3>1. s # {} => PickOf(s) \in set
      BY DEF PickOf
    <3> QED  BY <3>1 DEF SumStep
  <2> QED  BY <2>1
<1>3. (CHOOSE g : A(g)) = (CHOOSE g : B(g))
  <2> HIDE DEF A, B
  <2> QED  BY <1>2
<1> QED  BY <1>1, <1>3 DEF SumFn, SumLoop

(* The column that the ledger has for some events is the sum over them.         *)
LEMMA LedgerIsSum ==
  ASSUME NEW events \in SUBSET Measured
  PROVE  Ledger!Sum(events) = [c \in Columns |-> SumFn(Adds(c), events)]
<1> DEFINE Amount == [e \in Measured |-> [c \in Columns |-> AddedBy(e, c)]]
<1>1. ASSUME NEW c \in Columns
      PROVE  MapThenSumSet(LAMBDA e : Amount[e][c], events) = SumFn(Adds(c), events)
  <2> DEFINE A(g) == g = [s \in SUBSET events |-> IF s = {} THEN 0
                                             ELSE Amount[PickOf(s)][c] + g[s \ {PickOf(s)}]]
             B(g) == g = [s \in SUBSET events |-> SumStep(Adds(c), g, s)]
  <2>1. MapThenSumSet(LAMBDA e : Amount[e][c], events) = (CHOOSE g : A(g))[events]
    BY DEF MapThenSumSet, MapThenFoldSet, PickOf
  <2>2. \A e \in events : Amount[e][c] = Adds(c)[e]
    BY DEF Adds
  <2> HIDE DEF Amount
  <2>3. \A g : A(g) <=> B(g)
    <3> SUFFICES ASSUME NEW g PROVE A(g) <=> B(g)
      OBVIOUS
    <3>1. ASSUME NEW s \in SUBSET events
          PROVE  (IF s = {} THEN 0 ELSE Amount[PickOf(s)][c] + g[s \ {PickOf(s)}])
                   = SumStep(Adds(c), g, s)
      <4>1. s # {} => PickOf(s) \in events
        BY DEF PickOf
      <4> QED  BY <2>2, <4>1 DEF SumStep
    <3> QED  BY <3>1
  <2>4. (CHOOSE g : A(g)) = (CHOOSE g : B(g))
    <3> HIDE DEF A, B
    <3> QED  BY <2>3
  <2> QED  BY <2>1, <2>4 DEF SumFn, SumLoop
<1>2. Ledger!Sum(events) = [c \in Columns |-> MapThenSumSet(LAMBDA e : Amount[e][c], events)]
  BY DEF Ledger!Sum, Ledger!MapThenSumSet, Ledger!MapThenFoldSet, MapThenSumSet, MapThenFoldSet
<1> QED  BY <1>1, <1>2

--------------------------------------------------------------------------------
(* What the plans say of an event that is measured, in whichever it is.         *)
LEMMA MeasuredFacts ==
  ASSUME NEW e \in Measured
  PROVE  /\ IsMetered(e) /\ Priced(e)
         /\ Len(e.measurements) \in Nat /\ DOMAIN e.measurements = 1..Len(e.measurements)
         /\ \A m, n \in DOMAIN e.measurements :
              /\ e.measurements[m].qty \in Nat
              /\ e.measurements[m].type = e.measurements[n].type => m = n
         /\ \A c : \A i \in DOMAIN e.measurements : Part(e, c)[i] \in Nat
<1>1. PICK p \in Plans : \E i \in DOMAIN p.script : e = p.script[i].event
  BY DEF Measured
<1>2. DOMAIN p.script = 1..Len(p.script)
  BY <1>1, PlansAssumption
<1>3. PICK i \in 1..Len(p.script) : e = p.script[i].event
  BY <1>1, <1>2
<1>4. IsMetered(e) /\ Priced(e)
  BY DEF Measured, IsMetered
<1>5. /\ Len(e.measurements) \in Nat /\ DOMAIN e.measurements = 1..Len(e.measurements)
      /\ \A m, n \in DOMAIN e.measurements :
           /\ e.measurements[m].qty \in Nat
           /\ e.measurements[m].type = e.measurements[n].type => m = n
  BY <1>1, <1>3, <1>4, PlansAssumption
<1>6. ASSUME NEW c, NEW k \in DOMAIN e.measurements PROVE Part(e, c)[k] \in Nat
  <2>1. e.measurements[k].qty \in Nat
    BY <1>5, <1>6
  <2>2. UnitPrice[e.measurements[k].type] \in Nat
    BY <1>4, <1>6, PriceAssumption DEF Priced
  <2> DEFINE qty == e.measurements[k].qty
             price == UnitPrice[e.measurements[k].type]
  <2>3. Part(e, c)[k] = IF c = "cost" THEN qty * price
                        ELSE IF Normalized(e.measurements[k].type, e.stage) = c THEN qty ELSE 0
    BY <1>6 DEF Part
  <2> HIDE DEF qty, price
  <2>4. qty \in Nat /\ price \in Nat
    BY <2>1, <2>2 DEF qty, price
  <2>5. qty * price \in Nat
    BY <2>4
  <2> QED  BY <2>3, <2>4, <2>5
<1> QED  BY <1>4, <1>5, <1>6

(* What an event adds is a number.                                              *)
LEMMA AddsNat ==
  ASSUME NEW e \in Measured, NEW c
  PROVE  Adds(c)[e] = AddedBy(e, c) /\ AddedBy(e, c) \in Nat
<1>1. IsFiniteSet(DOMAIN e.measurements)
  BY MeasuredFacts, FS_Interval
<1>2. Summable(Part(e, c), DOMAIN e.measurements)
  BY <1>1, MeasuredFacts DEF Summable
<1>3. DOMAIN e.measurements \in SUBSET DOMAIN e.measurements
  OBVIOUS
<1>4. SumFn(Part(e, c), DOMAIN e.measurements) \in Nat
  BY <1>2, <1>3, SumWithout DEF SumFn
<1> QED  BY <1>4, AddedIsSum DEF Adds

(* Events of the log are told apart by their keys from all that are measured.   *)
LEMMA MeasuredApart ==
  ASSUME plan \in Plans, NEW e \in LogEvents, NEW x \in Measured, x.key = e.key
  PROVE  x = e
<1>1. PICK q \in Plans : \E i \in DOMAIN q.script : x = q.script[i].event
  BY DEF Measured
<1>2. DOMAIN q.script = 1..Len(q.script)
  BY <1>1, PlansAssumption
<1>3. PICK i \in 1..Len(q.script) : x = q.script[i].event
  BY <1>1, <1>2
<1>4. ASSUME NEW f \in ScriptEvents
      PROVE  /\ x.key = f.key => x = f
             /\ x.key # <<"duplicate", f.id>>
  <2>1. PICK j \in 1..Len(plan.script) : f = plan.script[j].event
    BY <1>4, ScriptFacts DEF ScriptEvents, Script
  <2> QED  BY <1>1, <1>3, <2>1, PlansAssumption
<1>5. CASE e \in ScriptEvents
  BY <1>4, <1>5
<1>6. CASE e \in Notices
  <2>1. PICK f \in ScriptEvents, n \in Nat : e = NoticeOf(f, n)
    BY <1>6 DEF Notices
  <2>2. e.key = <<"duplicate", f.id>>
    BY <2>1 DEF NoticeOf
  <2> QED  BY <1>4, <2>2
<1> QED  BY <1>5, <1>6 DEF LogEvents

--------------------------------------------------------------------------------
(* The books of a call: what a row of usage_records costs, and the rollup.      *)
Booked(d) ==
  /\ IsFiniteSet(d.records) /\ \A r \in d.records : r.cost \in Nat
  /\ d.rollup \in [RollupColumns -> Nat]

(* One record more costs what it costs.                                         *)
LEMMA CostMore ==
  ASSUME NEW set, IsFiniteSet(set), \A r \in set : r.cost \in Nat,
         NEW x, x \notin set, x.cost \in Nat
  PROVE  /\ TotalCost(set) \in Nat /\ IsFiniteSet(set \cup {x})
         /\ TotalCost(set \cup {x}) = TotalCost(set) + x.cost
<1> DEFINE cost == [r \in set \cup {x} |-> r.cost]
<1>1. \A r \in set \cup {x} : cost[r] = r.cost
  OBVIOUS
<1> HIDE DEF cost
<1>2. TotalCost(set \cup {x}) = SumFn(cost, set \cup {x}) /\ TotalCost(set) = SumFn(cost, set)
  BY <1>1, CostIsSum
<1>3. Summable(cost, set) /\ cost[x] \in Nat
  BY <1>1 DEF Summable
<1>4. /\ Summable(cost, set \cup {x}) /\ SumFn(cost, set) \in Nat
      /\ SumFn(cost, set \cup {x}) = SumFn(cost, set) + cost[x]
  BY <1>3, SumMore
<1> QED  BY <1>1, <1>2, <1>4 DEF Summable

(* What the measurements so far have added.                                     *)
Entered(d, n, e, k) ==
  /\ IsDb(n) /\ Booked(n) /\ n.keys = d.keys
  /\ \A r \in n.records :
       r \in d.records \/ \E i \in 1..k : r.event = e.id /\ r.type = e.measurements[i].type
  /\ TotalCost(n.records) = TotalCost(d.records) + SumFn(Part(e, "cost"), 1..k)
  /\ \A c \in RollupColumns : n.rollup[c] = d.rollup[c] + SumFn(Part(e, c), 1..k)

(* One measurement more.                                                        *)
LEMMA MeasurementEnters ==
  ASSUME NEW e \in Measured, NEW d, Booked(d), \A r \in d.records : r.event # e.id,
         NEW k \in Nat, k + 1 \in DOMAIN e.measurements, NEW q, Entered(d, q, e, k)
  PROVE  Entered(d, RecordMeasurement(q, e, e.measurements[k + 1]), e, k + 1)
<1> DEFINE m == e.measurements[k + 1]
           n == RecordMeasurement(q, e, m)
           norm == Normalized(m.type, e.stage)
           row == [event |-> e.id, type |-> m.type, stage |-> e.stage,
                   qty |-> m.qty, cost |-> m.qty * UnitPrice[m.type]]
<1>0. 1..(k + 1) = (1..k) \cup {k + 1} /\ k + 1 \notin 1..k
  OBVIOUS
<1>1. 1..k \subseteq DOMAIN e.measurements
  BY MeasuredFacts
<1>2. \A r \in q.records : <<r.event, r.type>> # <<e.id, m.type>>
  <2> SUFFICES ASSUME NEW r \in q.records, r.event = e.id, r.type = m.type PROVE FALSE
    OBVIOUS
  <2>1. r \notin d.records
    OBVIOUS
  <2>2. PICK i \in 1..k : r.type = e.measurements[i].type
    BY <2>1 DEF Entered
  <2>3. i = k + 1
    BY <1>1, <2>2, MeasuredFacts
  <2> QED  BY <1>0, <2>3
<1>3. /\ IsDb(n) /\ n.keys = q.keys
      /\ n.records = q.records \cup {row}
      /\ n.rollup = [c \in RollupColumns |-> q.rollup[c] + IF c = norm THEN m.qty ELSE 0]
  BY <1>2 DEF RecordMeasurement, Entered, IsDb, DbFields
<1>4. row.event = e.id /\ row.type = m.type /\ row.cost = Part(e, "cost")[k + 1]
  BY DEF Part
<1>5. ASSUME NEW c \in RollupColumns
      PROVE  n.rollup[c] = q.rollup[c] + Part(e, c)[k + 1]
  <2>1. c # "cost"
    BY DEF RollupColumns
  <2>2. Part(e, c)[k + 1] = IF c = norm THEN m.qty ELSE 0
    BY <2>1 DEF Part
  <2> QED  BY <1>3, <2>2
<1>6. \A c : Part(e, c)[k + 1] \in Nat
  BY MeasuredFacts
<1>7. \A c : Summable(Part(e, c), 1..k)
  BY <1>1, MeasuredFacts, FS_Interval DEF Summable
<1>8. ASSUME NEW c
      PROVE  /\ SumFn(Part(e, c), 1..k) \in Nat
             /\ SumFn(Part(e, c), 1..(k + 1)) = SumFn(Part(e, c), 1..k) + Part(e, c)[k + 1]
  <2> DEFINE a == Part(e, c)
             S == 1..k
             j == k + 1
  <2>1. Summable(a, S) /\ j \notin S /\ a[j] \in Nat /\ 1..(k + 1) = S \cup {j}
    BY <1>0, <1>6, <1>7
  <2> HIDE DEF a, S, j
  <2>2. SumFn(a, S) \in Nat /\ SumFn(a, S \cup {j}) = SumFn(a, S) + a[j]
    BY <2>1, SumMore
  <2>3. SumFn(a, S) \in Nat /\ SumFn(a, 1..(k + 1)) = SumFn(a, S) + a[j]
    BY <2>1, <2>2
  <2> QED  BY <2>3 DEF a, S, j
<1> HIDE DEF n, row
<1>9. row \notin q.records
  BY <1>2, <1>4
<1>10. /\ TotalCost(q.records) \in Nat /\ IsFiniteSet(q.records \cup {row})
       /\ TotalCost(q.records \cup {row}) = TotalCost(q.records) + row.cost
  BY <1>4, <1>6, <1>9, CostMore DEF Entered, Booked
<1>11. Booked(n)
  <2>1. \A r \in n.records : r.cost \in Nat
    BY <1>3, <1>4, <1>6 DEF Entered, Booked
  <2>2. \A c \in RollupColumns : n.rollup[c] \in Nat
    BY <1>5, <1>6 DEF Entered, Booked
  <2>3. n.rollup \in [RollupColumns -> Nat]
    BY <1>3, <2>2
  <2> QED  BY <1>3, <1>10, <2>1, <2>3 DEF Booked
<1>12. \A r \in n.records :
         r \in d.records \/ \E i \in 1..(k + 1) : r.event = e.id /\ r.type = e.measurements[i].type
  BY <1>0, <1>3, <1>4 DEF Entered
<1>13. TotalCost(d.records) \in Nat
  BY <1>4, <1>6, CostMore DEF Booked
<1>14. TotalCost(n.records) = TotalCost(d.records) + SumFn(Part(e, "cost"), 1..(k + 1))
  BY <1>3, <1>4, <1>6, <1>8, <1>10, <1>13 DEF Entered
<1>15. \A c \in RollupColumns : n.rollup[c] = d.rollup[c] + SumFn(Part(e, c), 1..(k + 1))
  <2> SUFFICES ASSUME NEW c \in RollupColumns
               PROVE  n.rollup[c] = d.rollup[c] + SumFn(Part(e, c), 1..(k + 1))
    OBVIOUS
  <2>1. d.rollup[c] \in Nat /\ q.rollup[c] = d.rollup[c] + SumFn(Part(e, c), 1..k)
    BY DEF Entered, Booked
  <2>2. n.rollup[c] = q.rollup[c] + Part(e, c)[k + 1]
    BY <1>5
  <2>3. /\ SumFn(Part(e, c), 1..k) \in Nat
        /\ SumFn(Part(e, c), 1..(k + 1)) = SumFn(Part(e, c), 1..k) + Part(e, c)[k + 1]
    BY <1>8
  <2>4. Part(e, c)[k + 1] \in Nat
    BY <1>6
  <2> QED  BY <2>1, <2>2, <2>3, <2>4
<1> QED  BY <1>3, <1>11, <1>12, <1>14, <1>15 DEF Entered, n

(* All measurements of an event.                                                *)
LEMMA EventEnters ==
  ASSUME NEW e \in Measured, NEW d, IsDb(d), Booked(d), \A r \in d.records : r.event # e.id
  PROVE  LET n == FoldLeft(LAMBDA q, m : RecordMeasurement(q, e, m), d, e.measurements)
         IN  /\ IsDb(n) /\ Booked(n) /\ n.keys = d.keys
             /\ TotalCost(n.records) = TotalCost(d.records) + AddedBy(e, "cost")
             /\ \A c \in RollupColumns : n.rollup[c] = d.rollup[c] + AddedBy(e, c)
<1> DEFINE f == RecordLoop(d, e)
           n == Len(e.measurements)
           S == {k \in Nat : k <= n => Entered(d, f[1..k], e, k)}
<1>0. n \in Nat /\ DOMAIN e.measurements = 1..n
  BY MeasuredFacts
<1>u. /\ f[1..0] = d
      /\ \A k \in 0..(n - 1) : f[1..(k + 1)] = RecordMeasurement(f[1..k], e, e.measurements[k + 1])
  <2> HIDE DEF n
  <2> QED  BY <1>0, RecordUnfold
<1> HIDE DEF f, n
<1>1. 0 \in S
  <2>1. 1..0 = {}
    OBVIOUS
  <2>2. \A c : SumFn(Part(e, c), 1..0) = 0
    BY <2>1, SumNone
  <2>3. TotalCost(d.records) \in Nat
    <3> DEFINE cost == [r \in d.records |-> r.cost]
    <3>1. Summable(cost, d.records) /\ TotalCost(d.records) = SumFn(cost, d.records)
      BY CostIsSum DEF Booked, Summable
    <3>2. d.records \in SUBSET d.records
      OBVIOUS
    <3> HIDE DEF cost
    <3> QED  BY <3>1, <3>2, SumWithout DEF SumFn
  <2>4. \A c \in RollupColumns : d.rollup[c] \in Nat
    BY DEF Booked
  <2>5. Entered(d, d, e, 0)
    BY <2>2, <2>3, <2>4 DEF Entered
  <2> QED  BY <1>u, <2>5
<1>2. ASSUME NEW k \in Nat, k \in S PROVE k + 1 \in S
  <2>1. SUFFICES ASSUME k + 1 <= n PROVE Entered(d, f[1..(k + 1)], e, k + 1)
    OBVIOUS
  <2>2. k \in 0..(n - 1) /\ k <= n /\ k + 1 \in DOMAIN e.measurements
    BY <1>0, <2>1
  <2>3. f[1..(k + 1)] = RecordMeasurement(f[1..k], e, e.measurements[k + 1])
    BY <1>u, <2>2
  <2>4. Entered(d, f[1..k], e, k)
    BY <1>2, <2>2
  <2> QED  BY <2>2, <2>3, <2>4, MeasurementEnters
<1>3. Entered(d, f[1..n], e, n)
  <2>1. \A k \in Nat : k \in S
    BY <1>1, <1>2, NatSetInduction
  <2> QED  BY <1>0, <2>1
<1>4. FoldLeft(LAMBDA q, m : RecordMeasurement(q, e, m), d, e.measurements) = f[1..n]
  BY <1>0, FoldIsRecordLoop DEF f
<1>5. \A c : SumFn(Part(e, c), 1..n) = AddedBy(e, c)
  BY <1>0, AddedIsSum
<1> QED  BY <1>3, <1>4, <1>5 DEF Entered

--------------------------------------------------------------------------------
(* The books balance: every record, the cost and the columns are what the       *)
(* events whose keys are stored add up to.                                      *)
Balanced(d) ==
  /\ d.billing.cost = TotalCost(d.records)
  /\ TotalCost(d.records) = SumFn(Adds("cost"), CountedIn(d))
  /\ \A c \in RollupColumns : d.rollup[c] = SumFn(Adds(c), CountedIn(d))

Ledgered(d) == Booked(d) /\ IsFiniteSet(CountedIn(d)) /\ Balanced(d)

(* A statement that enters nothing in the books.                                *)
Kept(d, n) ==
  /\ IsDb(n)
  /\ n.keys = d.keys /\ n.records = d.records /\ n.rollup = d.rollup
  /\ n.billing.cost \in {d.billing.cost, TotalCost(d.records)}

(* One after the other.                                                         *)
LEMMA KeptOn ==
  ASSUME NEW a, NEW b, NEW c, Kept(a, b), Kept(b, c)
  PROVE  Kept(a, c)
<1> QED  BY DEF Kept

(* The bill of the call: its cost is that of the records.                       *)
LEMMA BillingKept ==
  ASSUME NEW d, IsDb(d), NEW durations, NEW finalized
  PROVE  /\ Kept(d, UpdateCallBilling(d, durations, finalized))
         /\ UpdateCallBilling(d, durations, finalized).billing.cost = TotalCost(d.records)
<1> QED  BY DEF UpdateCallBilling, IsDb, DbFields, Kept

(* The announcement of the new totals.                                          *)
LEMMA EnqueueKept ==
  ASSUME NEW d, IsDb(d), NEW e
  PROVE  /\ Kept(d, EnqueueBillingEvent(d, e))
         /\ EnqueueBillingEvent(d, e).billing = d.billing
<1> QED  BY DEF EnqueueBillingEvent, IsDb, DbFields, Kept

(* The row of the metrics.                                                      *)
LEMMA MetricKept ==
  ASSUME NEW d, IsDb(d), NEW e
  PROVE  Kept(d, ProjectMetric(d, e))
<1> QED  BY DEF ProjectMetric, IsDb, DbFields, Kept

(* The manifest of a call.                                                      *)
LEMMA ManifestKept ==
  ASSUME NEW d, IsDb(d), NEW e, NEW offset
  PROVE  Kept(d, ProjectManifest(d, e, offset))
<1> QED  BY DEF ProjectManifest, IsDb, DbFields, Kept

(* The row of the call, and what its end does to the bill.                      *)
LEMMA CallKept ==
  ASSUME NEW d, IsDb(d), NEW e
  PROVE  Kept(d, ProjectCall(d, e))
<1>0. Kept(d, d)
  BY DEF Kept
<1>1. Kept(d, ProjectStarted(d, e))
  BY DEF ProjectStarted, IsDb, DbFields, Kept
<1>2. Kept(d, ProjectEnded(d, e))
  <2> DEFINE c == [d EXCEPT !.call = [@ EXCEPT !.status = "CALL_COMPLETED", !.stage = e.stage,
                                               !.ended = TRUE]]
  <2>1. Kept(d, c)
    BY DEF IsDb, DbFields, Kept
  <2> HIDE DEF c
  <2>2. Kept(c, UpdateCallBilling(c, {e.duration}, TRUE))
    <3>1. IsDb(c)
      BY <2>1 DEF Kept
    <3> QED  BY <3>1, BillingKept
  <2>3. Kept(d, UpdateCallBilling(c, {e.duration}, TRUE))
    BY <2>1, <2>2, KeptOn
  <2> QED  BY <1>0, <2>3 DEF ProjectEnded, c
<1>3. Kept(d, ProjectFailed(d, e))
  <2> DEFINE c == IF d.call.status = "absent" THEN d
                  ELSE [d EXCEPT !.call = [@ EXCEPT !.status = "CALL_FAILED", !.stage = e.stage,
                                                    !.ended = TRUE]]
  <2>1. Kept(d, c)
    BY DEF IsDb, DbFields, Kept
  <2> HIDE DEF c
  <2>2. Kept(c, UpdateCallBilling(c, {}, TRUE))
    <3>1. IsDb(c)
      BY <2>1 DEF Kept
    <3> QED  BY <3>1, BillingKept
  <2>3. Kept(d, UpdateCallBilling(c, {}, TRUE))
    BY <2>1, <2>2, KeptOn
  <2> QED  BY <2>3 DEF ProjectFailed, c
<1>4. Kept(d, ProjectProgress(d, e))
  BY DEF ProjectProgress, IsDb, DbFields, Kept
<1> QED  BY <1>0, <1>1, <1>2, <1>3, <1>4 DEF ProjectCall

--------------------------------------------------------------------------------
(* An event that is not measured is none of those that are counted.             *)
LEMMA CountsSame ==
  ASSUME plan \in Plans, NEW d, NEW e \in LogEvents, e \notin Measured,
         NEW n, n.keys = d.keys \cup {e.key}
  PROVE  CountedIn(n) = CountedIn(d)
<1>1. \A x \in Measured : x.key # e.key
  BY MeasuredApart
<1> QED  BY <1>1 DEF CountedIn

(* One that is measured is one more.                                            *)
LEMMA CountsOneMore ==
  ASSUME plan \in Plans, NEW d, NEW e \in LogEvents, e \in Measured, e.key \notin d.keys,
         NEW n, n.keys = d.keys \cup {e.key}
  PROVE  CountedIn(n) = CountedIn(d) \cup {e} /\ e \notin CountedIn(d)
<1>1. \A x \in Measured : x.key = e.key => x = e
  BY MeasuredApart
<1> QED  BY <1>1 DEF CountedIn

(* Books in which nothing is entered stay balanced.                             *)
LEMMA KeptLedgered ==
  ASSUME NEW d, Ledgered(d), NEW n, n.records = d.records, n.rollup = d.rollup,
         n.billing.cost \in {d.billing.cost, TotalCost(d.records)}, CountedIn(n) = CountedIn(d)
  PROVE  Ledgered(n)
<1> QED  BY DEF Ledgered, Booked, Balanced

(* The sum of a column over the counted events, with one more.                  *)
LEMMA ColumnMore ==
  ASSUME NEW set \in SUBSET Measured, IsFiniteSet(set), NEW e \in Measured, e \notin set, NEW c
  PROVE  SumFn(Adds(c), set \cup {e}) = SumFn(Adds(c), set) + AddedBy(e, c)
<1>1. \A x \in Measured : Adds(c)[x] \in Nat /\ Adds(c)[x] = AddedBy(x, c)
  BY AddsNat
<1> DEFINE a == Adds(c)
<1>2. Summable(a, set) /\ a[e] \in Nat
  BY <1>1 DEF Summable
<1> HIDE DEF a
<1>3. SumFn(a, set \cup {e}) = SumFn(a, set) + a[e]
  BY <1>2, SumMore
<1> QED  BY <1>1, <1>3 DEF a

(* The books after an event: balanced, whatever the event is.                   *)
LEMMA OneLedger ==
  ASSUME plan \in Plans, NEW d, Sound(d), Ledgered(d), NEW e \in LogEvents,
         IsDuplicate(d, e) \/ Priced(e), NEW offset
  PROVE  IsDb(ProjectOne(d, e, offset)) /\ Ledgered(ProjectOne(d, e, offset))
<1>1. CASE IsDuplicate(d, e)
  BY <1>1 DEF ProjectOne, Sound
<1>2. CASE ~IsDuplicate(d, e)
  <2> DEFINE keyed == [d EXCEPT !.keys = @ \cup {e.key}, !.timeline = @ \cup {e.id}]
             c == ProjectCall(keyed, e)
             p == ProjectMetric(c, e)
             u == ProjectUsage(p, e, offset)
  <2>1. /\ IsDb(keyed) /\ keyed.keys = d.keys \cup {e.key}
        /\ keyed.records = d.records /\ keyed.rollup = d.rollup /\ keyed.billing = d.billing
    BY DEF Sound, IsDb, DbFields
  <2> HIDE DEF keyed
  <2>2. Kept(keyed, c)
    BY <2>1, CallKept
  <2> HIDE DEF c
  <2>3. Kept(c, p)
    BY <2>2, MetricKept DEF Kept
  <2> HIDE DEF p
  <2>4. Kept(keyed, p) /\ IsDb(p)
    BY <2>2, <2>3, KeptOn DEF Kept
  <2>5. /\ p.keys = d.keys \cup {e.key} /\ p.records = d.records /\ p.rollup = d.rollup
        /\ p.billing.cost \in {d.billing.cost, TotalCost(d.records)}
    BY <2>1, <2>4 DEF Kept
  <2>6. Booked(p)
    BY <2>5 DEF Ledgered, Booked
  <2>7. IsDb(u) /\ Ledgered(u)
    <3>1. CASE ~IsMetered(e)
      <4>1. Kept(p, u)
        <5>1. u = p \/ u = ProjectManifest(p, e, offset)
          BY <3>1 DEF IsMetered, ProjectUsage
        <5> HIDE DEF u
        <5>2. Kept(p, p)
          BY <2>4 DEF Kept
        <5> QED  BY <2>4, <5>1, <5>2, ManifestKept
      <4> HIDE DEF u
      <4>2. /\ IsDb(u)
            /\ u.keys = d.keys \cup {e.key} /\ u.records = d.records /\ u.rollup = d.rollup
            /\ u.billing.cost \in {d.billing.cost, TotalCost(d.records)}
        BY <2>5, <4>1 DEF Kept
      <4>3. e \notin Measured
        BY <3>1 DEF Measured, IsMetered
      <4> QED  BY <4>2, <4>3, CountsSame, KeptLedgered
    <3>2. CASE IsMetered(e)
      <4> DEFINE r == FoldLeft(LAMBDA q, m : RecordMeasurement(q, e, m), p, e.measurements)
                 b == UpdateCallBilling(r, {}, FALSE)
      <4>0. e \in ScriptEvents /\ e \in Measured
        <5>1. e \in ScriptEvents
          BY <3>2, LogFacts DEF IsMetered
        <5>2. PICK i \in DOMAIN Script : e = Script[i].event
          BY <5>1 DEF ScriptEvents
        <5>3. Priced(e)
          BY <1>2
        <5> QED  BY <3>2, <5>1, <5>2, <5>3 DEF Measured, IsMetered, Script
      <4>1. u = EnqueueBillingEvent(b, e)
        BY <3>2 DEF ProjectUsage, ProjectMeasurements, IsMetered
      <4>2. \A x \in p.records : x.event # e.id
        <5> SUFFICES ASSUME NEW x \in d.records, x.event = e.id PROVE FALSE
          BY <2>5
        <5>1. PICK f \in ScriptEvents : f.id = x.event /\ f.key \in d.keys
          BY DEF Sound, RecordsKeyed
        <5>2. f = e
          BY <4>0, <5>1, ScriptFacts
        <5> QED  BY <1>2, <5>1, <5>2 DEF IsDuplicate
      <4>3. /\ IsDb(r) /\ Booked(r) /\ r.keys = p.keys
            /\ TotalCost(r.records) = TotalCost(p.records) + AddedBy(e, "cost")
            /\ \A col \in RollupColumns : r.rollup[col] = p.rollup[col] + AddedBy(e, col)
        BY <2>4, <2>6, <4>0, <4>2, EventEnters
      <4> HIDE DEF r
      <4>4. Kept(r, b) /\ b.billing.cost = TotalCost(r.records)
        BY <4>3, BillingKept
      <4> HIDE DEF b
      <4>5. Kept(b, u) /\ u.billing = b.billing
        BY <4>1, <4>4, EnqueueKept DEF Kept
      <4> HIDE DEF u
      <4>6. /\ IsDb(u)
            /\ u.keys = d.keys \cup {e.key} /\ u.records = r.records /\ u.rollup = r.rollup
            /\ u.billing.cost = TotalCost(r.records)
        BY <2>5, <4>3, <4>4, <4>5 DEF Kept
      <4>7. CountedIn(u) = CountedIn(d) \cup {e} /\ e \notin CountedIn(d)
        BY <1>2, <4>0, <4>6, CountsOneMore DEF IsDuplicate
      <4>8. CountedIn(d) \in SUBSET Measured /\ IsFiniteSet(CountedIn(d))
        BY DEF CountedIn, Ledgered
      <4>9. \A col : SumFn(Adds(col), CountedIn(u))
                       = SumFn(Adds(col), CountedIn(d)) + AddedBy(e, col)
        BY <4>0, <4>7, <4>8, ColumnMore
      <4>10. IsFiniteSet(CountedIn(u))
        BY <4>7, <4>8, FS_AddElement
      <4>11. Booked(u)
        BY <4>3, <4>6 DEF Booked
      <4>12. TotalCost(u.records) = SumFn(Adds("cost"), CountedIn(u))
        BY <2>5, <4>3, <4>6, <4>9 DEF Ledgered, Balanced
      <4>13. \A col \in RollupColumns : u.rollup[col] = SumFn(Adds(col), CountedIn(u))
        BY <2>5, <4>3, <4>6, <4>9 DEF Ledgered, Balanced
      <4> QED  BY <4>6, <4>10, <4>11, <4>12, <4>13 DEF Ledgered, Balanced
    <3> QED  BY <3>1, <3>2
  <2> QED  BY <1>2, <2>7 DEF ProjectOne, keyed, c, p, u
<1> QED  BY <1>1, <1>2

(* A whole transaction that does not raise.                                     *)
LEMMA BatchLedger ==
  ASSUME Logged, NEW d, Sound(d), Ledgered(d), NEW items, Len(items) \in Nat,
         DOMAIN items = 1..Len(items), InOrder(d, items), ~BatchRaises(d, items)
  PROVE  Ledgered(ProjectBatch(d, items).db)
<1> DEFINE n == Len(items)
           f == BatchLoop(d, items)
           S == {k \in Nat : k <= n => Ledgered(f[1..k].db)}
<1>0. n \in Nat /\ plan \in Plans
  BY DEF Logged
<1>u. /\ f[1..0] = [db |-> d, result |-> NoResult]
      /\ \A k \in 0..(n - 1) : f[1..(k + 1)] = BatchOne(f[1..k], items[k + 1])
  BY BatchUnfold
<1>e. \A i \in 1..n : items[i].event \in LogEvents
  <2> SUFFICES ASSUME NEW i \in 1..n PROVE items[i].event \in LogEvents
    OBVIOUS
  <2>1. PICK t \in Topic : \E k \in 1..Len(log[t]) : items[i] = Entry(t, k)
    BY DEF InOrder
  <2>2. PICK k \in 1..Len(log[t]) : items[i] = Entry(t, k)
    BY <2>1
  <2>3. log[t] \in Seq(LogEvents)
    BY DEF Logged
  <2>4. log[t][k] \in LogEvents
    BY <2>3
  <2> QED  BY <2>2, <2>4 DEF Entry
<1>g. \A k \in 0..n :
        /\ Sound(f[1..k].db)
        /\ d.keys \subseteq f[1..k].db.keys
  BY BatchGoesOn
<1>p. \A i \in 1..n : items[i].event.key \in d.keys \/ Priced(items[i].event)
  BY DEF BatchRaises, IsDuplicate
<1>b. ProjectBatch(d, items).db = f[1..n].db
  BY BatchIsLoop
<1> HIDE DEF f, n
<1>1. 0 \in S
  BY <1>u
<1>2. ASSUME NEW k \in Nat, k \in S PROVE k + 1 \in S
  <2>1. SUFFICES ASSUME k + 1 <= n PROVE Ledgered(f[1..(k + 1)].db)
    OBVIOUS
  <2>2. k \in 0..(n - 1) /\ k \in 0..n /\ k <= n /\ k + 1 \in 1..n
    BY <1>0, <2>1
  <2> DEFINE a == f[1..k].db
             e == items[k + 1].event
             one == ProjectOne(a, e, items[k + 1].offset)
             w == [one EXCEPT !.watermark = Advanced(@, items[k + 1])]
  <2>3. f[1..(k + 1)].db = w
    <3>1. f[1..(k + 1)] = BatchOne(f[1..k], items[k + 1])
      BY <1>u, <2>2
    <3> QED  BY <3>1 DEF BatchOne
  <2>4. Sound(a) /\ Ledgered(a) /\ e \in LogEvents /\ (IsDuplicate(a, e) \/ Priced(e))
    BY <1>2, <1>e, <1>g, <1>p, <2>2 DEF IsDuplicate
  <2> HIDE DEF a, e
  <2>5. IsDb(one) /\ Ledgered(one)
    BY <1>0, <2>4, OneLedger
  <2> HIDE DEF one
  <2>6. /\ w.keys = one.keys /\ w.records = one.records /\ w.rollup = one.rollup
        /\ w.billing = one.billing
    BY <2>5 DEF IsDb, DbFields
  <2> HIDE DEF w
  <2>7. CountedIn(w) = CountedIn(one)
    BY <2>6 DEF CountedIn
  <2> QED  BY <2>3, <2>5, <2>6, <2>7, KeptLedgered
<1>3. \A k \in Nat : k \in S
  BY <1>1, <1>2, NatSetInduction
<1> QED  BY <1>0, <1>3, <1>b

--------------------------------------------------------------------------------
(* The books balance at first.                                                  *)
LEMMA InitLedgered ==
  ASSUME Init
  PROVE  Ledgered(db)
<1>1. /\ db.keys = {} /\ db.records = {} /\ db.billing.cost = 0
      /\ db.rollup = [c \in RollupColumns |-> 0]
  BY DEF Init, EmptyDb
<1>2. CountedIn(db) = {} /\ IsFiniteSet({})
  BY <1>1, FS_EmptySet DEF CountedIn
<1>3. \A a : SumFn(a, {}) = 0
  BY SumNone
<1>4. TotalCost({}) = 0
  <2> DEFINE cost == [r \in {} |-> 0]
  <2>1. TotalCost({}) = SumFn(cost, {})
    BY CostIsSum
  <2> QED  BY <1>3, <2>1
<1> QED  BY <1>1, <1>2, <1>3, <1>4 DEF Ledgered, Booked, Balanced

(* Transactions alone enter something, and keys are never forgotten.            *)
LEMMA NextLedgered ==
  ASSUME WInv, Ledgered(db), [Next]_vars
  PROVE  Ledgered(db') /\ db.keys \subseteq db'.keys
<1>1. CASE db' = Projected.db /\ ~BatchRaises(db, consumer.buffer)
  <2>1. /\ Logged /\ Sound(db) /\ InOrder(db, consumer.buffer)
        /\ consumer.buffer \in Seq(ItemSet)
    BY DEF WInv, Shapes
  <2>2. Len(consumer.buffer) \in Nat /\ DOMAIN consumer.buffer = 1..Len(consumer.buffer)
    BY <2>1
  <2>3. Ledgered(db')
    BY <1>1, <2>1, <2>2, BatchLedger DEF Projected
  <2> QED  BY <1>1, <2>3, TransactionIs
<1>2. CASE db' = db
  BY <1>2
<1>3. CASE WriteBill
  <2>1. IsDb(db)
    BY DEF WInv, Sound
  <2>2. PICK bill : db' = [db EXCEPT !.final = bill]
    BY <1>3 DEF WriteBill
  <2>3. /\ db'.keys = db.keys /\ db'.records = db.records /\ db'.rollup = db.rollup
        /\ db'.billing = db.billing
    BY <2>1, <2>2 DEF IsDb, DbFields
  <2>4. CountedIn(db') = CountedIn(db)
    BY <2>3 DEF CountedIn
  <2> QED  BY <2>3, <2>4, KeptLedgered
<1>4. CASE Project \/ CommitUnanswered
  BY <1>1, <1>4 DEF Project, CommitUnanswered
<1>5. CASE Publish \/ Replay \/ Start \/ Poll \/ PollPoison \/ ProjectRaises
           \/ StartBilling \/ SignalEnded \/ HintUsage \/ StartAdjustment \/ PublishNotice
           \/ Commit \/ ProjectFails \/ Crash \/ ReadBill
  BY <1>2, <1>5 DEF Publish, Replay, Start, Poll, PollPoison, ProjectRaises, StartBilling,
     SignalEnded, HintUsage, StartAdjustment, PublishNotice, Commit, ProjectFails, Crash,
     ReadBill
<1>6. CASE UNCHANGED vars
  BY <1>2, <1>6 DEF vars
<1> QED  BY <1>3, <1>4, <1>5, <1>6 DEF Next, Worker

(* The books balance in every reachable state, whatever was delivered again, in *)
(* which batches, and whichever answers were lost.                              *)
THEOREM BooksBalance == Spec => []Balanced(db)
<1>1. Init => WInv /\ Ledgered(db)
  BY InitWInv, InitLedgered
<1>2. WInv /\ Ledgered(db) /\ [Next]_vars => WInv' /\ Ledgered(db)'
  BY NextWInv, NextLedgered
<1>3. Ledgered(db) => Balanced(db)
  BY DEF Ledgered
<1> QED  BY <1>1, <1>2, <1>3, PTL DEF Spec

--------------------------------------------------------------------------------
(* What the ledger shows of balanced books.                                     *)
LEMMA LedgerShows ==
  ASSUME NEW d, Ledgered(d)
  PROVE  [c \in Columns |-> IF c = "cost" THEN d.billing.cost ELSE d.rollup[c]]
           = Ledger!Sum(CountedIn(d))
<1>1. CountedIn(d) \in SUBSET Measured
  BY DEF CountedIn
<1>2. Ledger!Sum(CountedIn(d)) = [c \in Columns |-> SumFn(Adds(c), CountedIn(d))]
  BY <1>1, LedgerIsSum
<1>3. \A c \in Columns : c = "cost" \/ c \in RollupColumns
  BY DEF Columns
<1>4. \A c \in Columns :
        (IF c = "cost" THEN d.billing.cost ELSE d.rollup[c]) = SumFn(Adds(c), CountedIn(d))
  BY <1>3 DEF Ledgered, Balanced
<1> QED  BY <1>2, <1>4

(* The first state of the worker is that of the ledger.                         *)
LEMMA LedgerInit ==
  ASSUME Init
  PROVE  Ledger!Init
<1>1. Ledgered(db) /\ CountedIn(db) = {}
  BY InitLedgered DEF Init, EmptyDb, CountedIn
<1>2. {e \in Measured : e.key \in db.keys} = CountedIn(db)
  BY DEF CountedIn
<1> QED  BY <1>1, <1>2, LedgerShows DEF Ledger!Init

(* Every step of the worker counts some events that were not counted, perhaps   *)
(* none.                                                                        *)
LEMMA LedgerNext ==
  ASSUME Ledgered(db), Ledgered(db'), db.keys \subseteq db'.keys
  PROVE  Ledger!Next
<1>1. PICK more : more = CountedIn(db') \ CountedIn(db)
  OBVIOUS
<1>2. /\ more \in SUBSET Measured /\ more \cap CountedIn(db) = {}
      /\ CountedIn(db') = CountedIn(db) \cup more
  BY <1>1 DEF CountedIn
<1>3. /\ {e \in Measured : e.key \in db.keys} = CountedIn(db)
      /\ {e \in Measured : e.key \in db'.keys} = CountedIn(db')
  BY DEF CountedIn
<1>4. [c \in Columns |-> IF c = "cost" THEN db'.billing.cost ELSE db'.rollup[c]]
        = Ledger!Sum(CountedIn(db'))
  BY LedgerShows
<1>5. Ledger!Count(more)
  BY <1>2, <1>3, <1>4 DEF Ledger!Count
<1> QED  BY <1>2, <1>5 DEF Ledger!Next

(* The event worker implements the usage ledger: replays, retried transactions, *)
(* redelivered batches and crashes count no event twice and lose none, and the  *)
(* rollup and the cost are at every moment the sums over the counted events.    *)
THEOREM WorkerIsLedger == Spec => IsLedger
<1>1. Init => WInv /\ Ledgered(db) /\ Ledger!Init
  BY InitWInv, InitLedgered, LedgerInit
<1>2. WInv /\ Ledgered(db) /\ [Next]_vars => WInv' /\ Ledgered(db)' /\ Ledger!Next
  BY NextWInv, NextLedgered, LedgerNext
<1> QED  BY <1>1, <1>2, PTL DEF Spec, IsLedger, Ledger!Spec
================================================================================
