---------------------- MODULE FlowControlledQueue_proofs ----------------------
(***************************************************************************)
(* Safety of the flow-controlled queue for every set of producers, every   *)
(* weight and every setting of the watermarks.                             *)
(*                                                                         *)
(* The inductive invariant IInv is TypeOK, the hysteresis of the flags,    *)
(* the exactness of the running depth, the capacity, what was told, the    *)
(* overshoot, and one fact no run states: an item that bypasses the cork   *)
(* weighs nothing.  Hysteresis alone is inductive; Overshoot is not        *)
(* without the exactness of the depth, since flush recomputes the depth    *)
(* from the items, nor without the weightless bypass, since the producers  *)
(* it counts are those that went past the cork.                            *)
(***************************************************************************)
EXTENDS FlowControlledQueue, SequenceTheorems, FiniteSetTheorems, WellFoundedInduction, TLAPS

(***************************************************************************)
(* First the loop of FlowControlledQueue.flush: what it returns, and how   *)
(* the weight of a sequence of entries changes when an item is appended,   *)
(* popped or flushed.  Each is an induction over the positions of the      *)
(* sequence, made with NatSetInduction, which takes the set of the numbers *)
(* that satisfy the claim.                                                 *)
(***************************************************************************)

(* A set of naturals that holds 0 and is closed under successor is Nat. *)
LEMMA NatSetInduction ==
  ASSUME NEW S, 0 \in S, \A n \in Nat : n \in S => n + 1 \in S
  PROVE  \A n \in Nat : n \in S
<1>1. SUFFICES ASSUME Nat \ S # {} PROVE FALSE
  OBVIOUS
<1>2. IsWellFoundedOn(OpToRel(<, Nat), Nat)
  BY NatLessThanWellFounded
<1>3. \E m \in Nat \ S : \A k \in Nat \ S : ~ (<<k, m>> \in OpToRel(<, Nat))
  BY <1>1, <1>2, WFMin
<1>4. \E m \in Nat : m \notin S /\ \A k \in Nat : k < m => k \in S
  BY <1>3 DEF OpToRel
<1>5. PICK m \in Nat : m \notin S /\ \A k \in Nat : k < m => k \in S
  BY <1>4
<1>6. m # 0
  BY <1>5
<1>7. m - 1 \in Nat /\ m - 1 < m /\ (m - 1) + 1 = m
  BY <1>5, <1>6
<1> QED
  BY <1>5, <1>7

(* One step of the loop of flush. *)
ScanStep(items, stale, f, i) ==
  IF i = 0 THEN [kept |-> <<>>, depth |-> 0]
  ELSE IF items[i].item \in stale THEN f[i - 1]
  ELSE [kept |-> Append(f[i - 1].kept, items[i]),
        depth |-> f[i - 1].depth + items[i].weight]

(* The recursive definition of the loop is met by a function. *)
LEMMA ScanLoopDef ==
  ASSUME NEW items, Len(items) \in Nat, NEW stale
  PROVE  ScanLoop(items, stale)
           = [i \in 0..Len(items) |->
                ScanStep(items, stale, ScanLoop(items, stale), i)]
<1> DEFINE Has(n) == \E f : f = [i \in 0..n |-> ScanStep(items, stale, f, i)]
           S == {n \in Nat : Has(n)}
<1>1. 0 \in S
  <2> DEFINE f0 == [i \in 0..0 |-> [kept |-> <<>>, depth |-> 0]]
  <2>1. f0 = [i \in 0..0 |-> ScanStep(items, stale, f0, i)]
    BY DEF ScanStep
  <2> QED  BY <2>1
<1>2. ASSUME NEW n \in Nat, n \in S PROVE n + 1 \in S
  <2>1. PICK f : f = [i \in 0..n |-> ScanStep(items, stale, f, i)]
    BY <1>2
  <2> DEFINE g == [i \in 0..(n + 1) |->
                     IF i = n + 1 THEN ScanStep(items, stale, f, i) ELSE f[i]]
  <2>2. \A i \in 0..n : g[i] = f[i]
    OBVIOUS
  <2>3. ASSUME NEW i \in 0..(n + 1)
        PROVE  g[i] = ScanStep(items, stale, g, i)
    <3>1. ScanStep(items, stale, g, i) = ScanStep(items, stale, f, i)
      <4>1. CASE i = 0  BY <4>1 DEF ScanStep
      <4>2. CASE i # 0
        <5>1. i - 1 \in 0..n  BY <4>2
        <5>2. g[i - 1] = f[i - 1]  BY <5>1, <2>2
        <5> HIDE DEF g
        <5> QED  BY <5>2 DEF ScanStep
      <4> QED  BY <4>1, <4>2
    <3>2. CASE i = n + 1
      <4>1. g[i] = ScanStep(items, stale, f, i)  BY <3>2
      <4> QED  BY <4>1, <3>1
    <3>3. CASE i # n + 1
      <4>1. i \in 0..n  BY <3>3
      <4>2. f[i] = ScanStep(items, stale, f, i)
        <5> DEFINE h == [j \in 0..n |-> ScanStep(items, stale, f, j)]
        <5>1. h[i] = ScanStep(items, stale, f, i)  BY <4>1
        <5> QED  BY <5>1, <2>1
      <4> QED  BY <4>1, <4>2, <2>2, <3>1
    <3> QED  BY <3>2, <3>3
  <2>4. g = [i \in 0..(n + 1) |-> ScanStep(items, stale, g, i)]
    <3>1. g = [i \in 0..(n + 1) |-> g[i]]  OBVIOUS
    <3> HIDE DEF g
    <3> QED  BY <2>3, <3>1
  <2> HIDE DEF g
  <2> QED  BY <2>4
<1>3. Has(Len(items))
  <2> HIDE DEF Has
  <2>1. \A n \in Nat : n \in S  BY <1>1, <1>2, NatSetInduction
  <2> QED  BY <2>1
<1> QED
  BY <1>3 DEF ScanLoop, ScanStep

(* The loop, one position at a time.                                       *)
LEMMA ScanUnfold ==
  ASSUME NEW items, Len(items) \in Nat, NEW stale, NEW i \in 0..Len(items)
  PROVE  ScanLoop(items, stale)[i] = ScanStep(items, stale, ScanLoop(items, stale), i)
<1> DEFINE f == ScanLoop(items, stale)
           h == [j \in 0..Len(items) |-> ScanStep(items, stale, f, j)]
<1>1. f = h
  BY ScanLoopDef
<1>2. h[i] = ScanStep(items, stale, f, i)
  OBVIOUS
<1> HIDE DEF f, h
<1>3. f[i] = ScanStep(items, stale, f, i)
  BY <1>1, <1>2
<1> QED  BY <1>3 DEF f

(* Where it begins.                                                        *)
LEMMA ScanFirst ==
  \A items, stale :
    Len(items) \in Nat => ScanLoop(items, stale)[0] = [kept |-> <<>>, depth |-> 0]
<1> SUFFICES ASSUME NEW items, NEW stale, Len(items) \in Nat
             PROVE  ScanLoop(items, stale)[0] = [kept |-> <<>>, depth |-> 0]
  OBVIOUS
<1>1. 0 \in 0..Len(items)
  OBVIOUS
<1>2. ScanLoop(items, stale)[0] = ScanStep(items, stale, ScanLoop(items, stale), 0)
  BY <1>1, ScanUnfold
<1> QED  BY <1>2 DEF ScanStep

(* The loop with nothing stale adds up every weight. *)
LEMMA ScanUnfoldAll ==
  ASSUME NEW items, Len(items) \in Nat
  PROVE  \A i \in 1..Len(items) :
           ScanLoop(items, {})[i].depth = ScanLoop(items, {})[i - 1].depth + items[i].weight
<1>1. ASSUME NEW none, none = {}, NEW i \in 1..Len(items)
      PROVE  ScanLoop(items, none)[i].depth = ScanLoop(items, none)[i - 1].depth + items[i].weight
  <2> DEFINE f == ScanLoop(items, none)
  <2>1. f[i] = ScanStep(items, none, f, i)
    BY ScanUnfold
  <2>2. items[i].item \notin none /\ i # 0
    BY <1>1
  <2> HIDE DEF f
  <2>3. f[i].depth = f[i - 1].depth + items[i].weight
    BY <2>1, <2>2 DEF ScanStep
  <2> QED  BY <2>3 DEF f
<1> QED
  BY <1>1

(* What the loop of flush keeps is a sequence of entries, no longer than   *)
(* what it walked over, and the weight it adds up is a natural number.     *)
LEMMA ScanLoopType ==
  ASSUME NEW E, \A e \in E : e.weight \in Nat,
         NEW items \in Seq(E), NEW stale
  PROVE  \A i \in 0..Len(items) :
           /\ ScanLoop(items, stale)[i] \in [kept : Seq(E), depth : Nat]
           /\ Len(ScanLoop(items, stale)[i].kept) <= i
<1> DEFINE f == ScanLoop(items, stale)
           Good(i) == f[i] \in [kept : Seq(E), depth : Nat] /\ Len(f[i].kept) <= i
           S == {i \in Nat : i \in 0..Len(items) => Good(i)}
<1>0. Len(items) \in Nat
  OBVIOUS
<1>1. f[0] = [kept |-> <<>>, depth |-> 0]
  BY <1>0, ScanFirst
<1>2. \A i \in 1..Len(items) : f[i] = ScanStep(items, stale, f, i)
  BY <1>0, ScanUnfold
<1> HIDE DEF f
<1>3. Good(0)
  <2>1. f[0].kept = <<>> /\ f[0].depth = 0 /\ <<>> \in Seq(E) /\ Len(<<>>) = 0
    BY <1>1, EmptySeq
  <2> QED  BY <2>1, <1>1
<1>4. ASSUME NEW n \in Nat, n + 1 \in 0..Len(items), Good(n) PROVE Good(n + 1)
  <2>1. n + 1 \in 1..Len(items) /\ (n + 1) - 1 = n
    BY <1>0, <1>4
  <2> DEFINE x == items[n + 1]
  <2>2. x \in E /\ x.weight \in Nat
    BY <2>1
  <2>3. f[n + 1] = IF x.item \in stale THEN f[n]
                   ELSE [kept |-> Append(f[n].kept, x), depth |-> f[n].depth + x.weight]
    <3>1. f[n + 1] = ScanStep(items, stale, f, n + 1)
      BY <2>1, <1>2
    <3>2. n + 1 # 0
      OBVIOUS
    <3> QED  BY <2>1, <3>1, <3>2 DEF ScanStep
  <2>4. f[n].kept \in Seq(E) /\ f[n].depth \in Nat /\ Len(f[n].kept) <= n
    BY <1>4
  <2> HIDE DEF x
  <2>5. Append(f[n].kept, x) \in Seq(E) /\ Len(Append(f[n].kept, x)) = Len(f[n].kept) + 1
    BY <2>2, <2>4, AppendProperties
  <2>6. CASE x.item \in stale
    BY <2>3, <2>4, <2>6, <1>4
  <2>7. CASE x.item \notin stale
    <3>1. f[n + 1] = [kept |-> Append(f[n].kept, x), depth |-> f[n].depth + x.weight]
      BY <2>3, <2>7
    <3>2. f[n].depth + x.weight \in Nat /\ Len(f[n].kept) \in Nat
      BY <2>2, <2>4
    <3> QED  BY <3>1, <3>2, <2>4, <2>5
  <2> QED
    BY <2>6, <2>7
<1>5. \A n \in Nat : n \in S
  <2>1. 0 \in S  BY <1>3
  <2>2. \A n \in Nat : n \in S => n + 1 \in S
    <3> SUFFICES ASSUME NEW n \in Nat, n \in S, n + 1 \in 0..Len(items) PROVE Good(n + 1)
      BY DEF S
    <3>1. n \in 0..Len(items)  BY <1>0
    <3>2. Good(n)  BY <3>1
    <3> QED  BY <1>4, <3>2
  <2> HIDE DEF S
  <2> QED  BY <2>1, <2>2, NatSetInduction
<1> QED
  BY <1>0, <1>5 DEF f

(* Flushing more leaves less weight: no more than the loop adds up when    *)
(* nothing is stale.                                                       *)
LEMMA ScanLoopLighter ==
  ASSUME NEW E, \A e \in E : e.weight \in Nat,
         NEW items \in Seq(E), NEW stale
  PROVE  \A i \in 0..Len(items) :
           ScanLoop(items, stale)[i].depth <= ScanLoop(items, {})[i].depth
<1> DEFINE f == ScanLoop(items, stale)
           g == ScanLoop(items, {})
           Good(i) == f[i].depth <= g[i].depth
           S == {i \in Nat : i \in 0..Len(items) => Good(i)}
<1>0. Len(items) \in Nat
  OBVIOUS
<1>1. f[0].depth = 0 /\ g[0].depth = 0
  BY <1>0, ScanFirst
<1>2. \A i \in 1..Len(items) :
         f[i].depth = IF items[i].item \in stale THEN f[i - 1].depth
                      ELSE f[i - 1].depth + items[i].weight
  <2> SUFFICES ASSUME NEW i \in 1..Len(items)
               PROVE  f[i].depth = IF items[i].item \in stale THEN f[i - 1].depth
                                   ELSE f[i - 1].depth + items[i].weight
    OBVIOUS
  <2>1. f[i] = ScanStep(items, stale, f, i) /\ i # 0
    BY <1>0, ScanUnfold
  <2> HIDE DEF f
  <2> QED  BY <2>1 DEF ScanStep
<1>3. \A i \in 1..Len(items) : g[i].depth = g[i - 1].depth + items[i].weight
  BY <1>0, ScanUnfoldAll
<1>4. \A i \in 0..Len(items) : f[i].depth \in Nat /\ g[i].depth \in Nat
  BY ScanLoopType
<1> HIDE DEF f, g
<1>5. ASSUME NEW n \in Nat, n + 1 \in 0..Len(items), Good(n) PROVE Good(n + 1)
  <2>1. n \in 0..Len(items) /\ n + 1 \in 1..Len(items) /\ (n + 1) - 1 = n
    BY <1>0, <1>5
  <2>2. items[n + 1].weight \in Nat
    BY <2>1
  <2>3. f[n].depth \in Nat /\ g[n].depth \in Nat
    BY <2>1, <1>4
  <2>4. g[n + 1].depth = g[n].depth + items[n + 1].weight
    BY <2>1, <1>3
  <2>5. f[n + 1].depth = f[n].depth \/ f[n + 1].depth = f[n].depth + items[n + 1].weight
    BY <2>1, <1>2 DEF ScanStep
  <2> QED
    BY <2>2, <2>3, <2>4, <2>5, <1>5
<1>6. \A n \in Nat : n \in S
  <2>1. 0 \in S  BY <1>1
  <2>2. \A n \in Nat : n \in S => n + 1 \in S
    <3> SUFFICES ASSUME NEW n \in Nat, n \in S, n + 1 \in 0..Len(items) PROVE Good(n + 1)
      BY DEF S
    <3>1. n \in 0..Len(items)  BY <1>0
    <3>2. Good(n)  BY <3>1
    <3> QED  BY <1>5, <3>2
  <2> HIDE DEF S
  <2> QED  BY <2>1, <2>2, NatSetInduction
<1> QED
  BY <1>0, <1>6 DEF f, g

(* flush returns entries of the queue and a natural depth, and increases   *)
(* neither the number of items nor the weight.                             *)
LEMMA ScanType ==
  ASSUME NEW E, \A e \in E : e.weight \in Nat,
         NEW items \in Seq(E), NEW stale
  PROVE  /\ Scan(items, stale) \in [kept : Seq(E), depth : Nat]
         /\ Len(Scan(items, stale).kept) <= Len(items)
         /\ Weight(items) \in Nat
         /\ Scan(items, stale).depth <= Weight(items)
<1>1. Len(items) \in 0..Len(items)
  OBVIOUS
<1> QED
  BY <1>1, ScanLoopType, ScanLoopLighter DEF Scan, Weight

(* The weight of a sequence, position by position. *)
Sum(items, i) == ScanLoop(items, {})[i].depth

(* The weight one position further on. *)
LEMMA SumUnfold ==
  ASSUME NEW E, \A e \in E : e.weight \in Nat, NEW items \in Seq(E)
  PROVE  /\ Sum(items, 0) = 0
         /\ \A i \in 1..Len(items) : Sum(items, i) = Sum(items, i - 1) + items[i].weight
         /\ \A i \in 0..Len(items) : Sum(items, i) \in Nat
         /\ Weight(items) = Sum(items, Len(items))
<1>0. Len(items) \in Nat
  OBVIOUS
<1> DEFINE g == ScanLoop(items, {})
<1>1. g[0].depth = 0
  BY <1>0, ScanFirst
<1>2. \A i \in 1..Len(items) : g[i].depth = g[i - 1].depth + items[i].weight
  BY <1>0, ScanUnfoldAll
<1>3. \A i \in 0..Len(items) : g[i].depth \in Nat
  BY ScanLoopType
<1> QED
  BY <1>1, <1>2, <1>3 DEF Sum, Weight, Scan

(* Two sequences that agree up to a position weigh the same up to it. *)
LEMMA SumPrefix ==
  ASSUME NEW E, \A e \in E : e.weight \in Nat,
         NEW s \in Seq(E), NEW t \in Seq(E), NEW n \in Nat,
         n <= Len(s), n <= Len(t), \A i \in 1..n : s[i] = t[i]
  PROVE  Sum(s, n) = Sum(t, n)
<1> DEFINE S == {i \in Nat : i <= n => Sum(s, i) = Sum(t, i)}
<1>1. 0 \in S
  BY SumUnfold
<1>2. ASSUME NEW i \in Nat, i \in S PROVE i + 1 \in S
  <2> SUFFICES ASSUME i + 1 <= n PROVE Sum(s, i + 1) = Sum(t, i + 1)
    OBVIOUS
  <2>1. i + 1 \in 1..Len(s) /\ i + 1 \in 1..Len(t) /\ (i + 1) - 1 = i /\ i + 1 \in 1..n
    OBVIOUS
  <2>2. Sum(s, i + 1) = Sum(s, i) + s[i + 1].weight
    BY <2>1, SumUnfold
  <2>3. Sum(t, i + 1) = Sum(t, i) + t[i + 1].weight
    BY <2>1, SumUnfold
  <2>4. Sum(s, i) = Sum(t, i) /\ s[i + 1] = t[i + 1]
    BY <1>2, <2>1 DEF ScanStep
  <2> QED
    BY <2>2, <2>3, <2>4
<1>3. \A i \in Nat : i \in S
  <2> HIDE DEF S
  <2> QED  BY <1>1, <1>2, NatSetInduction
<1> QED
  BY <1>3

(* put: the appended item adds its own weight. *)
LEMMA WeightAppend ==
  ASSUME NEW E, \A e \in E : e.weight \in Nat, NEW s \in Seq(E), NEW x \in E
  PROVE  Weight(Append(s, x)) = Weight(s) + x.weight
<1> DEFINE t == Append(s, x)
<1>1. t \in Seq(E) /\ Len(t) = Len(s) + 1 /\ Len(s) \in Nat /\ t[Len(s) + 1] = x
      /\ \A i \in 1..Len(s) : t[i] = s[i]
  BY AppendProperties
<1> HIDE DEF t
<1>2. Sum(t, Len(s)) = Sum(s, Len(s))
  BY SMTT(30), <1>1, SumPrefix
<1>3. Len(t) \in 1..Len(t) /\ Len(t) - 1 = Len(s)
  BY <1>1
<1>4. Sum(t, Len(t)) = Sum(t, Len(s)) + x.weight
  BY <1>1, <1>3, SumUnfold
<1> QED
  BY <1>1, <1>2, <1>4, SumUnfold DEF t

(* get: the popped item takes its own weight away. *)
LEMMA WeightTail ==
  ASSUME NEW E, \A e \in E : e.weight \in Nat, NEW s \in Seq(E), s # <<>>
  PROVE  /\ Weight(s) = Head(s).weight + Weight(Tail(s))
         /\ Weight(Tail(s)) \in Nat
<1> DEFINE t == Tail(s)
           S == {i \in Nat : i <= Len(t) => Sum(s, i + 1) = s[1].weight + Sum(t, i)}
<1>1. t \in Seq(E) /\ Len(t) = Len(s) - 1 /\ Len(s) \in Nat \ {0}
      /\ \A i \in 1..Len(t) : t[i] = s[i + 1]
  BY HeadTailProperties, EmptySeq
<1>a. s[1] \in E /\ s[1].weight \in Nat /\ Head(s) = s[1] /\ 1 \in 1..Len(s)
  BY <1>1
<1> HIDE DEF t
<1>2. 0 \in S
  <2>1. Sum(s, 1) = Sum(s, 1 - 1) + s[1].weight
    BY <1>a, SumUnfold
  <2>2. Sum(s, 1 - 1) = 0 /\ Sum(t, 0) = 0
    BY <1>1, SumUnfold
  <2> QED
    BY <2>1, <2>2, <1>a
<1>3. ASSUME NEW i \in Nat, i \in S PROVE i + 1 \in S
  <2> SUFFICES ASSUME i + 1 <= Len(t)
               PROVE  Sum(s, (i + 1) + 1) = s[1].weight + Sum(t, i + 1)
    OBVIOUS
  <2>1. (i + 1) + 1 \in 1..Len(s) /\ i + 1 \in 1..Len(t)
        /\ ((i + 1) + 1) - 1 = i + 1 /\ (i + 1) - 1 = i /\ i \in 0..Len(t)
    BY <1>1
  <2>2. Sum(s, (i + 1) + 1) = Sum(s, i + 1) + s[(i + 1) + 1].weight
    BY <2>1, SumUnfold
  <2>3. Sum(t, i + 1) = Sum(t, i) + t[i + 1].weight
    BY <1>1, <2>1, SumUnfold
  <2>4. Sum(s, i + 1) = s[1].weight + Sum(t, i)
    BY <1>3, <2>1, <1>1
  <2>5. t[i + 1] = s[(i + 1) + 1] /\ t[i + 1].weight \in Nat
    BY <1>1, <2>1
  <2>6. Sum(t, i) \in Nat
    BY <1>1, <2>1, SumUnfold
  <2> QED
    BY <2>2, <2>3, <2>4, <2>5, <2>6, <1>a
<1>4. \A i \in Nat : i \in S
  <2> HIDE DEF S
  <2> QED  BY <1>2, <1>3, NatSetInduction
<1>5. Len(t) \in Nat /\ Len(t) + 1 = Len(s) /\ Len(t) \in 0..Len(t)
  BY <1>1
<1>6. Sum(s, Len(s)) = s[1].weight + Sum(t, Len(t))
  BY <1>4, <1>5
<1>7. Weight(s) = Sum(s, Len(s)) /\ Weight(t) = Sum(t, Len(t)) /\ Sum(t, Len(t)) \in Nat
  BY <1>1, <1>5, SumUnfold
<1> QED
  BY <1>6, <1>7, <1>a DEF t

(* flush: the depth it adds up is the weight of what it keeps. *)
LEMMA WeightKept ==
  ASSUME NEW E, \A e \in E : e.weight \in Nat, NEW items \in Seq(E), NEW stale
  PROVE  Weight(Scan(items, stale).kept) = Scan(items, stale).depth
<1> DEFINE f == ScanLoop(items, stale)
           S == {i \in Nat : i \in 0..Len(items) => Weight(f[i].kept) = f[i].depth}
<1>0. Len(items) \in Nat
  OBVIOUS
<1>1. f[0] = [kept |-> <<>>, depth |-> 0]
  BY <1>0, ScanFirst
<1>2. \A i \in 1..Len(items) : f[i] = ScanStep(items, stale, f, i)
  BY <1>0, ScanUnfold
<1>3. \A i \in 0..Len(items) : f[i].kept \in Seq(E) /\ f[i].depth \in Nat
  BY ScanLoopType
<1> HIDE DEF f
<1>4. 0 \in S
  <2>1. <<>> \in Seq(E) /\ Len(<<>>) = 0
    BY EmptySeq
  <2>2. Weight(<<>>) = 0
    BY <2>1, SumUnfold
  <2> QED
    BY <1>1, <2>2
<1>5. ASSUME NEW n \in Nat, n \in S PROVE n + 1 \in S
  <2> SUFFICES ASSUME n + 1 \in 0..Len(items) PROVE Weight(f[n + 1].kept) = f[n + 1].depth
    OBVIOUS
  <2>1. n + 1 \in 1..Len(items) /\ (n + 1) - 1 = n /\ n \in 0..Len(items)
    BY <1>0
  <2> DEFINE x == items[n + 1]
  <2>2. x \in E
    BY <2>1
  <2>3. f[n + 1] = IF x.item \in stale THEN f[n]
                   ELSE [kept |-> Append(f[n].kept, x), depth |-> f[n].depth + x.weight]
    BY <2>1, <1>2 DEF ScanStep
  <2>4. Weight(f[n].kept) = f[n].depth /\ f[n].kept \in Seq(E)
    BY <1>3, <1>5, <2>1
  <2> HIDE DEF x
  <2>5. Weight(Append(f[n].kept, x)) = f[n].depth + x.weight
    BY <2>2, <2>4, WeightAppend
  <2>6. CASE x.item \in stale
    BY <2>3, <2>4, <2>6
  <2>7. CASE x.item \notin stale
    BY <2>3, <2>5, <2>7
  <2> QED
    BY <2>6, <2>7
<1>6. \A n \in Nat : n \in S
  <2> HIDE DEF S
  <2> QED  BY <1>4, <1>5, NatSetInduction
<1> QED
  BY <1>0, <1>6 DEF Scan, f

(* What the loop has kept after i positions is items of the first i of     *)
(* them, in their order.                                                   *)
KeptInOrder(items, s, i) ==
  \E keep \in [1..Len(s) -> 1..i] :
    /\ \A j, k \in 1..Len(s) : j < k => keep[j] < keep[k]
    /\ \A j \in 1..Len(s) : s[j] = items[keep[j]]

(* flush keeps the order of the items: one more position at a time.        *)
LEMMA ScanInOrder ==
  ASSUME NEW E, \A e \in E : e.weight \in Nat, NEW items \in Seq(E), NEW stale
  PROVE  KeptInOrder(items, Scan(items, stale).kept, Len(items))
<1> DEFINE f == ScanLoop(items, stale)
           S == {i \in Nat : i \in 0..Len(items) => KeptInOrder(items, f[i].kept, i)}
<1>0. Len(items) \in Nat
  OBVIOUS
<1>1. f[0] = [kept |-> <<>>, depth |-> 0]
  BY <1>0, ScanFirst
<1>2. \A i \in 1..Len(items) : f[i] = ScanStep(items, stale, f, i)
  BY <1>0, ScanUnfold
<1>3. \A i \in 0..Len(items) : f[i].kept \in Seq(E) /\ f[i].depth \in Nat
  BY ScanLoopType
<1> HIDE DEF f
<1>4. 0 \in S
  <2>1. f[0].kept = <<>> /\ Len(<<>>) = 0
    BY <1>1
  <2> DEFINE none == [j \in 1..0 |-> 0]
  <2>2. none \in [1..0 -> 1..0] /\ \A j \in 1..0 : FALSE
    OBVIOUS
  <2> HIDE DEF none
  <2>3. KeptInOrder(items, <<>>, 0)
    BY <2>1, <2>2 DEF KeptInOrder
  <2> QED
    BY <2>1, <2>3
<1>5. ASSUME NEW n \in Nat, n \in S PROVE n + 1 \in S
  <2> SUFFICES ASSUME n + 1 \in 0..Len(items) PROVE KeptInOrder(items, f[n + 1].kept, n + 1)
    OBVIOUS
  <2>1. n + 1 \in 1..Len(items) /\ (n + 1) - 1 = n /\ n \in 0..Len(items)
    BY <1>0
  <2> DEFINE s == f[n].kept
             x == items[n + 1]
  <2>2. f[n + 1] = IF x.item \in stale THEN f[n]
                   ELSE [kept |-> Append(s, x), depth |-> f[n].depth + x.weight]
    BY <2>1, <1>2 DEF ScanStep
  <2>3. s \in Seq(E) /\ x \in E /\ KeptInOrder(items, s, n)
    BY <1>3, <1>5, <2>1
  <2> HIDE DEF s, x
  <2>4. PICK keep \in [1..Len(s) -> 1..n] :
          /\ \A j, k \in 1..Len(s) : j < k => keep[j] < keep[k]
          /\ \A j \in 1..Len(s) : s[j] = items[keep[j]]
    BY <2>3 DEF KeptInOrder
  <2>5. Len(s) \in Nat
    BY <2>3
  <2>6. CASE x.item \in stale
    <3>1. f[n + 1].kept = s
      BY <2>2, <2>6 DEF s
    <3>2. keep \in [1..Len(s) -> 1..(n + 1)]
      BY <2>4
    <3> QED
      BY <3>1, <3>2, <2>4 DEF KeptInOrder
  <2>7. CASE x.item \notin stale
    <3> DEFINE t == Append(s, x)
               more == [j \in 1..(Len(s) + 1) |-> IF j = Len(s) + 1 THEN n + 1 ELSE keep[j]]
    <3>1. f[n + 1].kept = t
      BY <2>2, <2>7
    <3>2. Len(t) = Len(s) + 1 /\ t[Len(s) + 1] = x /\ \A j \in 1..Len(s) : t[j] = s[j]
      BY <2>3
    <3>3. more \in [1..Len(t) -> 1..(n + 1)]
      BY <2>4, <2>5, <3>2
    <3>4. ASSUME NEW j \in 1..Len(t), NEW k \in 1..Len(t), j < k PROVE more[j] < more[k]
      <4>1. j \in 1..Len(s) /\ more[j] = keep[j] /\ keep[j] \in 1..n
        BY <3>2, <3>4, <2>4, <2>5
      <4>2. CASE k = Len(s) + 1
        BY <4>1, <4>2, <3>2
      <4>3. CASE k # Len(s) + 1
        <5>1. k \in 1..Len(s) /\ more[k] = keep[k]
          BY <4>3, <3>2, <2>5
        <5> QED
          BY <4>1, <5>1, <3>4, <2>4
      <4> QED
        BY <4>2, <4>3
    <3>5. \A j \in 1..Len(t) : t[j] = items[more[j]]
      <4> TAKE j \in 1..Len(t)
      <4>1. CASE j = Len(s) + 1
        <5>1. more[j] = n + 1
          BY <4>1, <3>2
        <5> QED
          BY <5>1, <4>1, <3>2 DEF x
      <4>2. CASE j # Len(s) + 1
        <5>1. j \in 1..Len(s) /\ more[j] = keep[j]
          BY <4>2, <3>2, <2>5
        <5> QED
          BY <5>1, <3>2, <2>4
      <4> QED
        BY <4>1, <4>2
    <3> HIDE DEF t, more
    <3> QED
      BY <3>1, <3>3, <3>4, <3>5 DEF KeptInOrder
  <2> QED
    BY <2>6, <2>7
<1>6. \A n \in Nat : n \in S
  <2> HIDE DEF S
  <2> QED  BY <1>4, <1>5, NatSetInduction
<1> QED
  BY <1>0, <1>6 DEF Scan, f

(***************************************************************************)
(* Now the queue.                                                          *)
(***************************************************************************)

(* What is queued has a natural weight: put clamps weight_fn at 0. *)
LEMMA EntryWeight == \A e \in EntrySet : e.weight \in Nat
  BY WeightAssumption DEF EntrySet

(* What _observe_locked leaves alone, and the range of what it reports. *)
LEMMA ObservedType ==
  ASSUME NEW r \in QueueType
  PROVE  /\ Observed(r) \in QueueType
         /\ Observed(r).items = r.items /\ Observed(r).depth = r.depth
         /\ Observed(r).closed = r.closed /\ Observed(r).cancelled = r.cancelled
         /\ Transition(r) \in Transitions
<1> DEFINE t == Transition(r)
<1>1. t \in Transitions
  BY DEF Transition, Transitions
<1> HIDE DEF t
<1>2. Observed(r) = [r EXCEPT !.corked = t \in {"hard_limit", "corked"} \/ (@ /\ t = "none"),
                              !.hardLimited = t = "hard_limit" \/ (@ /\ t # "uncorked")]
  BY DEF Observed, t
<1> DEFINE c == t \in {"hard_limit", "corked"} \/ (r.corked /\ t = "none")
           h == t = "hard_limit" \/ (r.hardLimited /\ t # "uncorked")
<1>3. c \in BOOLEAN /\ h \in BOOLEAN
  OBVIOUS
<1>4. Observed(r) = [r EXCEPT !.corked = c, !.hardLimited = h]
  BY <1>2
<1> HIDE DEF c, h
<1> QED
  BY <1>1, <1>3, <1>4 DEF QueueType, t

(* The conditions of Hysteresis and DepthIsWeight on any queue. *)
SoundFlags(r) ==
  /\ r.corked => r.depth > Low
  /\ ~r.corked => r.depth < High
  /\ r.hardLimited => r.corked

Exact(r) == r.depth = Weight(r.items)

(* Whatever a critical section did to the depth, observing it makes the    *)
(* flags agree with the watermarks.                                        *)
LEMMA ObservedSound ==
  ASSUME NEW r \in QueueType, r.hardLimited => r.corked
  PROVE  SoundFlags(Observed(r))
<1> DEFINE t == Transition(r)
           c == t \in {"hard_limit", "corked"} \/ (r.corked /\ t = "none")
           h == t = "hard_limit" \/ (r.hardLimited /\ t # "uncorked")
<1>1. r.depth \in Nat /\ r.corked \in BOOLEAN /\ r.hardLimited \in BOOLEAN
  BY DEF QueueType
<1>2. t = IF r.depth >= Hard /\ ~r.hardLimited THEN "hard_limit"
          ELSE IF ~r.corked /\ r.depth >= High THEN "corked"
          ELSE IF r.corked /\ r.depth <= Low THEN "uncorked"
          ELSE "none"
  BY DEF Transition
<1>3. (c => r.depth > Low) /\ (~c => r.depth < High) /\ (h => c)
  <2> HIDE DEF t
  <2> QED  BY <1>1, <1>2, WatermarkAssumption
<1>4. Observed(r).corked = c /\ Observed(r).hardLimited = h
  <2>1. Observed(r) = [r EXCEPT !.corked = c, !.hardLimited = h]
    BY DEF Observed
  <2> HIDE DEF c, h
  <2> QED  BY <2>1 DEF QueueType
<1>5. Observed(r).depth = r.depth
  BY ObservedType
<1> HIDE DEF c, h
<1> QED
  BY <1>3, <1>4, <1>5 DEF SoundFlags

(* put: the depth grows by the weight of the item. *)
LEMMA AppendedSound ==
  ASSUME NEW r \in QueueType, Exact(r), NEW item \in ItemSet, NEW w \in 0..MaxWeight
  PROVE  LET s == Appended(r, item, w)
         IN  /\ s \in QueueType /\ Exact(s)
             /\ s.depth = r.depth + w /\ Len(s.items) = Len(r.items) + 1
             /\ s.corked = r.corked /\ s.hardLimited = r.hardLimited
             /\ s.closed = r.closed /\ s.cancelled = r.cancelled
<1> DEFINE e == Entry(item, w)
           items == Append(r.items, e)
           depth == r.depth + w
<1>1. e \in EntrySet /\ e.weight = w
  BY DEF Entry, EntrySet
<1>2. r.items \in Seq(EntrySet) /\ r.depth \in Nat /\ w \in Nat
  BY WeightAssumption DEF QueueType
<1>3. items \in Seq(EntrySet) /\ Len(items) = Len(r.items) + 1
  BY <1>1, <1>2
<1>4. Weight(items) = Weight(r.items) + w
  BY <1>1, <1>2, EntryWeight, WeightAppend
<1>5. depth \in Nat
  BY <1>2
<1>6. Appended(r, item, w) = [r EXCEPT !.items = items, !.depth = depth]
  BY DEF Appended
<1> HIDE DEF items, e
<1>7. depth = Weight(items)
  BY <1>4 DEF Exact
<1> HIDE DEF depth
<1>8. Appended(r, item, w) \in QueueType
      /\ Appended(r, item, w).items = items /\ Appended(r, item, w).depth = depth
      /\ Appended(r, item, w).corked = r.corked
      /\ Appended(r, item, w).hardLimited = r.hardLimited
      /\ Appended(r, item, w).closed = r.closed
      /\ Appended(r, item, w).cancelled = r.cancelled
  BY <1>3, <1>5, <1>6 DEF QueueType
<1> QED
  BY <1>3, <1>7, <1>8 DEF Exact, depth

(* get: the depth never grows, and the max with 0 is never needed. *)
LEMMA PoppedSound ==
  ASSUME NEW r \in QueueType, Exact(r), r.items # <<>>
  PROVE  LET s == Popped(r)
         IN  /\ s \in QueueType /\ Exact(s)
             /\ s.depth <= r.depth /\ Len(s.items) <= Len(r.items)
             /\ s.corked = r.corked /\ s.hardLimited = r.hardLimited
             /\ s.closed = r.closed /\ s.cancelled = r.cancelled
<1> DEFINE items == Tail(r.items)
           w == Head(r.items).weight
           rest == r.depth - w
           depth == IF rest < 0 THEN 0 ELSE rest
<1>1. r.items \in Seq(EntrySet) /\ r.depth \in Nat
  BY DEF QueueType
<1>2. items \in Seq(EntrySet) /\ Len(items) <= Len(r.items)
  BY <1>1, HeadTailProperties
<1>3. Head(r.items) \in EntrySet /\ w \in Nat
  BY <1>1, HeadTailProperties, EntryWeight
<1>4. Weight(r.items) = w + Weight(items) /\ Weight(items) \in Nat
  BY <1>1, EntryWeight, WeightTail
<1>5. Popped(r) = [r EXCEPT !.items = items, !.depth = depth]
  BY DEF Popped
<1> HIDE DEF items, w
<1>6. depth = Weight(items) /\ depth \in Nat /\ depth <= r.depth
  BY <1>1, <1>3, <1>4 DEF Exact
<1> HIDE DEF depth
<1>7. Popped(r) \in QueueType
      /\ Popped(r).items = items /\ Popped(r).depth = depth
      /\ Popped(r).corked = r.corked /\ Popped(r).hardLimited = r.hardLimited
      /\ Popped(r).closed = r.closed /\ Popped(r).cancelled = r.cancelled
  BY <1>2, <1>5, <1>6 DEF QueueType
<1> QED
  BY <1>2, <1>6, <1>7 DEF Exact

(* flush: the depth added up by the loop is exact and no larger. *)
LEMMA FlushedSound ==
  ASSUME NEW r \in QueueType, Exact(r), NEW stale
  PROVE  LET s == Flushed(r, stale)
         IN  /\ s \in QueueType /\ Exact(s)
             /\ s.depth <= r.depth /\ Len(s.items) <= Len(r.items)
             /\ s.corked = r.corked /\ s.hardLimited = r.hardLimited
             /\ s.closed = r.closed /\ s.cancelled = r.cancelled
<1> DEFINE scan == Scan(r.items, stale)
<1>1. r.items \in Seq(EntrySet)
  BY DEF QueueType
<1>2. scan \in [kept : Seq(EntrySet), depth : Nat] /\ Len(scan.kept) <= Len(r.items)
      /\ scan.depth <= Weight(r.items)
  BY <1>1, EntryWeight, ScanType
<1>3. Weight(scan.kept) = scan.depth
  BY <1>1, EntryWeight, WeightKept
<1>4. Flushed(r, stale) = [r EXCEPT !.items = scan.kept, !.depth = scan.depth]
  BY DEF Flushed
<1> HIDE DEF scan
<1>5. Flushed(r, stale) \in QueueType
      /\ Flushed(r, stale).items = scan.kept /\ Flushed(r, stale).depth = scan.depth
      /\ Flushed(r, stale).corked = r.corked
      /\ Flushed(r, stale).hardLimited = r.hardLimited
      /\ Flushed(r, stale).closed = r.closed
      /\ Flushed(r, stale).cancelled = r.cancelled
  BY <1>2, <1>4 DEF QueueType
<1> QED
  BY <1>2, <1>3, <1>5 DEF Exact

(* The three critical sections that observe, with the transition told:     *)
(* the queue they leave has sound flags and an exact depth, and            *)
(* on_state_change heard of every change of a flag.                        *)
Told(r, t) ==
  ~r.cancelled =>
    /\ r.corked <=> t \in {"corked", "hard_limit"}
    /\ r.hardLimited <=> t = "hard_limit"

(* Observing and telling keep the flags in agreement with what was told. *)
LEMMA SettleSound ==
  ASSUME NEW r \in QueueType, Exact(r), r.hardLimited => r.corked,
         NEW t \in Transitions, Told(r, t)
  PROVE  LET n == Transition(r) IN
         /\ Observed(r) \in QueueType /\ Exact(Observed(r)) /\ SoundFlags(Observed(r))
         /\ (IF n = "none" THEN t ELSE n) \in Transitions
         /\ Told(Observed(r), IF n = "none" THEN t ELSE n)
<1> DEFINE n == Transition(r)
           c == n \in {"hard_limit", "corked"} \/ (r.corked /\ n = "none")
           h == n = "hard_limit" \/ (r.hardLimited /\ n # "uncorked")
           t1 == IF n = "none" THEN t ELSE n
<1>1. Observed(r) \in QueueType /\ Exact(Observed(r)) /\ SoundFlags(Observed(r))
      /\ n \in Transitions /\ Observed(r).cancelled = r.cancelled
  BY ObservedType, ObservedSound DEF Exact
<1>2. Observed(r).corked = c /\ Observed(r).hardLimited = h
  <2>1. Observed(r) = [r EXCEPT !.corked = c, !.hardLimited = h]
    BY DEF Observed
  <2> HIDE DEF c, h
  <2> QED  BY <2>1 DEF QueueType
<1>3. r.corked \in BOOLEAN /\ r.hardLimited \in BOOLEAN
  BY DEF QueueType
<1>4. n = "corked" => ~r.hardLimited
  BY <1>3 DEF Transition
<1> HIDE DEF n
<1>5. t1 \in Transitions
  BY <1>1
<1>6. ~r.cancelled => /\ c <=> t1 \in {"corked", "hard_limit"}
                      /\ h <=> t1 = "hard_limit"
  BY <1>1, <1>3, <1>4 DEF Told, Transitions
<1> QED
  BY <1>1, <1>2, <1>5, <1>6 DEF Told, n

(* Type correctness and the three facts about the queue alone.             *)
QInv == TypeOK /\ Hysteresis /\ DepthIsWeight /\ Capacity /\ ToldMatches

(* The constructor leaves a queue that meets the invariant. *)
LEMMA QInvInit == Init => QInv
<1> SUFFICES ASSUME Init PROVE QInv
  OBVIOUS
<1>1. <<>> \in Seq(EntrySet) /\ Len(<<>>) = 0
  OBVIOUS
<1>2. Weight(<<>>) = 0
  BY <1>1, EntryWeight, SumUnfold
<1>3. q \in QueueType
  BY <1>1 DEF Init, EmptyQueue, QueueType
<1>4. TypeOK
  BY <1>3, WeightAssumption DEF Init, TypeOK, Transitions
<1>5. Hysteresis
  BY WatermarkAssumption DEF Init, EmptyQueue, Hysteresis
<1>6. DepthIsWeight
  BY <1>2 DEF Init, EmptyQueue, DepthIsWeight
<1>7. Capacity
  BY <1>1, CapacityAssumption DEF Init, EmptyQueue, Capacity
<1>8. ToldMatches
  BY DEF Init, EmptyQueue, ToldMatches
<1> QED
  BY <1>4, <1>5, <1>6, <1>7, <1>8 DEF QInv

(* An observing section that starts from a queue with an exact depth and   *)
(* the flags of before, and leaves the other variables well typed.         *)
LEMMA QInvSettle ==
  ASSUME QInv, NEW new \in QueueType, Settle(new), Exact(new),
         new.corked = q.corked, new.hardLimited = q.hardLimited,
         new.cancelled = q.cancelled, Len(new.items) <= MaxItems
  PROVE  /\ q' \in QueueType /\ told' \in Transitions
         /\ Hysteresis' /\ DepthIsWeight' /\ Capacity' /\ ToldMatches'
<1>1. told \in Transitions /\ Told(new, told) /\ (new.hardLimited => new.corked)
  BY DEF QInv, TypeOK, Hysteresis, ToldMatches, Told
<1>2. q' = Observed(new) /\ told' = IF Transition(new) = "none" THEN told ELSE Transition(new)
  BY DEF Settle
<1>3. q' \in QueueType /\ Exact(q') /\ SoundFlags(q') /\ told' \in Transitions
      /\ Told(q', told')
  BY <1>1, <1>2, SettleSound
<1>4. Len(q'.items) <= MaxItems
  BY <1>2, ObservedType
<1>5. Hysteresis'
  BY <1>3 DEF SoundFlags, Hysteresis
<1>6. DepthIsWeight'
  BY <1>3 DEF Exact, DepthIsWeight
<1>7. Capacity'
  BY <1>4 DEF Capacity
<1>8. ToldMatches'
  BY <1>3 DEF Told, ToldMatches
<1> QED
  BY <1>3, <1>5, <1>6, <1>7, <1>8

(* A step that leaves the queue and what was told alone. *)
LEMMA QInvSame ==
  ASSUME QInv, UNCHANGED <<q, told>>
  PROVE  /\ q' \in QueueType /\ told' \in Transitions
         /\ Hysteresis' /\ DepthIsWeight' /\ Capacity' /\ ToldMatches'
  BY DEF QInv, TypeOK, Hysteresis, DepthIsWeight, Capacity, ToldMatches

(* Every critical section of the class keeps the invariant. *)
LEMMA QInvNext == QInv /\ [Next]_vars => QInv'
<1> SUFFICES ASSUME QInv, [Next]_vars PROVE QInv'
  OBVIOUS
<1> USE DEF QInv
<1>a. /\ q \in QueueType /\ Exact(q)
      /\ pc \in [Producers -> {"idle", "cork", "put"}]
      /\ offer \in [Producers -> [weight : 0..MaxWeight, bypass : BOOLEAN]]
      /\ puts \in [Producers -> Nat]
      /\ consumer \in {"running", "raised"}
      /\ got \in [Producers -> Nat]
  BY DEF TypeOK, DepthIsWeight, Exact
<1>b. Len(q.items) \in Nat /\ Len(q.items) <= MaxItems /\ MaxItems \in Nat
      /\ q.items \in Seq(EntrySet)
  BY <1>a, CapacityAssumption DEF QueueType, Capacity
<1>1. ASSUME NEW p \in Producers, Put(p) PROVE QInv'
  <2>1. PICK w \in Weights, bypass \in BOOLEAN :
          /\ offer' = [offer EXCEPT ![p] = [weight |-> w, bypass |-> bypass]]
          /\ pc' = [pc EXCEPT ![p] = IF bypass THEN "put" ELSE "cork"]
    BY <1>1 DEF Put
  <2>2. w \in 0..MaxWeight
    BY WeightAssumption
  <2>3. TypeOK'
    BY <1>1, <1>a, <2>1, <2>2, QInvSame DEF Put, TypeOK
  <2> QED
    BY <1>1, <2>3, QInvSame DEF Put
<1>2. ASSUME NEW p \in Producers, PassCork(p) PROVE QInv'
  <2>1. TypeOK'
    BY <1>2, <1>a, QInvSame DEF PassCork, TypeOK
  <2> QED
    BY <1>2, <2>1, QInvSame DEF PassCork
<1>3. ASSUME NEW p \in Producers, Enqueue(p) PROVE QInv'
  <2> DEFINE new == Appended(q, Item(p), offer[p].weight)
  <2>1. Item(p) \in ItemSet /\ offer[p].weight \in 0..MaxWeight
    BY <1>a DEF Item, ItemSet
  <2>2. Settle(new) /\ ~ (Len(q.items) >= MaxItems)
    BY <1>3 DEF Enqueue, Full
  <2>3. /\ new \in QueueType /\ Exact(new) /\ Len(new.items) = Len(q.items) + 1
        /\ new.corked = q.corked /\ new.hardLimited = q.hardLimited
        /\ new.cancelled = q.cancelled
    BY <1>a, <2>1, AppendedSound
  <2> HIDE DEF new
  <2>4. Len(new.items) <= MaxItems
    BY <1>b, <2>2, <2>3
  <2>5. /\ q' \in QueueType /\ told' \in Transitions
        /\ Hysteresis' /\ DepthIsWeight' /\ Capacity' /\ ToldMatches'
    BY <2>2, <2>3, <2>4, QInvSettle
  <2>6. TypeOK'
    BY <1>3, <1>a, <2>5 DEF Enqueue, TypeOK
  <2> QED
    BY <2>5, <2>6
<1>4. ASSUME NEW p \in Producers, Refuse(p) PROVE QInv'
  <2>1. TypeOK'
    BY <1>4, <1>a, QInvSame DEF Refuse, TypeOK
  <2> QED
    BY <1>4, <2>1, QInvSame DEF Refuse
<1>5. CASE Get
  <2> DEFINE new == Popped(q)
  <2>1. Settle(new) /\ q.items # <<>>
    BY <1>5 DEF Get
  <2>2. /\ new \in QueueType /\ Exact(new) /\ Len(new.items) <= Len(q.items)
        /\ new.corked = q.corked /\ new.hardLimited = q.hardLimited
        /\ new.cancelled = q.cancelled
    BY <1>a, <2>1, PoppedSound
  <2>3. Head(q.items).item \in ItemSet
    <3>1. Head(q.items) \in EntrySet
      BY <1>b, <2>1, HeadTailProperties
    <3> QED
      BY <3>1 DEF EntrySet
  <2> HIDE DEF new
  <2>4. Len(new.items) \in Nat
    BY <2>2 DEF QueueType
  <2>5. /\ q' \in QueueType /\ told' \in Transitions
        /\ Hysteresis' /\ DepthIsWeight' /\ Capacity' /\ ToldMatches'
    BY <1>b, <2>1, <2>2, <2>4, QInvSettle
  <2>6. got' \in [Producers -> Nat]
    BY <1>5, <1>a, <2>3 DEF Get, ItemSet
  <2>7. TypeOK'
    BY <1>5, <1>a, <2>5, <2>6 DEF Get, TypeOK
  <2> QED
    BY <2>5, <2>7
<1>6. CASE GetRaises
  <2>1. TypeOK'
    BY <1>6, <1>a, QInvSame DEF GetRaises, TypeOK
  <2> QED
    BY <1>6, <2>1, QInvSame DEF GetRaises
<1>7. CASE Close
  <2>1. q' = [q EXCEPT !.closed = TRUE]
    BY <1>7 DEF Close, Closed
  <2>2. q' \in QueueType /\ q'.items = q.items /\ q'.depth = q.depth
        /\ q'.corked = q.corked /\ q'.hardLimited = q.hardLimited
        /\ q'.cancelled = q.cancelled
    BY <1>a, <2>1 DEF QueueType
  <2>3. Hysteresis' /\ DepthIsWeight' /\ Capacity' /\ ToldMatches'
    BY <1>7, <2>2 DEF Close, Hysteresis, DepthIsWeight, Capacity, ToldMatches
  <2>4. TypeOK'
    BY <1>7, <1>a, <2>2 DEF Close, TypeOK
  <2> QED
    BY <2>3, <2>4
<1>8. CASE Cancel
  <2>1. q' = [items |-> <<>>, depth |-> 0, corked |-> FALSE, hardLimited |-> FALSE,
              closed |-> TRUE, cancelled |-> TRUE]
    BY <1>8 DEF Cancel, Cancelled, EmptyQueue
  <2>2. <<>> \in Seq(EntrySet) /\ Len(<<>>) = 0 /\ Weight(<<>>) = 0
    <3>1. <<>> \in Seq(EntrySet) /\ Len(<<>>) = 0
      OBVIOUS
    <3> QED
      BY <3>1, EntryWeight, SumUnfold
  <2>3. q' \in QueueType
    BY <2>1, <2>2 DEF QueueType
  <2>4. Hysteresis' /\ DepthIsWeight' /\ Capacity' /\ ToldMatches'
    BY <2>1, <2>2, WatermarkAssumption, CapacityAssumption
    DEF Hysteresis, DepthIsWeight, Capacity, ToldMatches
  <2>5. TypeOK'
    BY <1>8, <1>a, <2>3 DEF Cancel, TypeOK
  <2> QED
    BY <2>4, <2>5
<1>9. CASE Flush
  <2>1. PICK stale \in SUBSET Queued : Settle(Flushed(q, stale))
    BY <1>9 DEF Flush
  <2> DEFINE new == Flushed(q, stale)
  <2>2. /\ new \in QueueType /\ Exact(new) /\ Len(new.items) <= Len(q.items)
        /\ new.corked = q.corked /\ new.hardLimited = q.hardLimited
        /\ new.cancelled = q.cancelled
    BY <1>a, FlushedSound
  <2>3. Settle(new)
    BY <2>1
  <2> HIDE DEF new
  <2>4. Len(new.items) \in Nat
    BY <2>2 DEF QueueType
  <2>5. /\ q' \in QueueType /\ told' \in Transitions
        /\ Hysteresis' /\ DepthIsWeight' /\ Capacity' /\ ToldMatches'
    BY <1>b, <2>2, <2>3, <2>4, QInvSettle
  <2>6. TypeOK'
    BY <1>9, <1>a, <2>5 DEF Flush, TypeOK
  <2> QED
    BY <2>5, <2>6
<1>10. CASE UNCHANGED vars
  <2>1. TypeOK'
    BY <1>10, <1>a, QInvSame DEF vars, TypeOK
  <2> QED
    BY <1>10, <2>1, QInvSame DEF vars
<1> QED
  BY <1>1, <1>2, <1>3, <1>4, <1>5, <1>6, <1>7, <1>8, <1>9, <1>10 DEF Next

(* The proof of Overshoot needs that what bypasses the cork is free: then  *)
(* only the producers of Past can still raise the depth above the mark.    *)
BypassIsFree == \A p \in Producers : offer[p].bypass => offer[p].weight = 0

(* Only put chooses a bypass, and it bypasses with weight 0 alone. *)
LEMMA BypassNext ==
  QInv /\ BypassIsFree /\ [Next]_vars => BypassIsFree'
<1> SUFFICES ASSUME QInv, BypassIsFree, [Next]_vars PROVE BypassIsFree'
  OBVIOUS
<1>1. offer \in [Producers -> [weight : 0..MaxWeight, bypass : BOOLEAN]]
  BY DEF QInv, TypeOK
<1>2. ASSUME NEW p \in Producers, Put(p) PROVE BypassIsFree'
  <2>1. PICK w \in Weights, bypass \in BOOLEAN :
          /\ bypass => w = 0
          /\ offer' = [offer EXCEPT ![p] = [weight |-> w, bypass |-> bypass]]
    BY <1>2 DEF Put
  <2> QED
    BY <1>1, <2>1 DEF BypassIsFree
<1>3. CASE UNCHANGED offer
  BY <1>3 DEF BypassIsFree
<1> QED
  BY <1>2, <1>3 DEF Next, PassCork, Enqueue, Refuse, Get, GetRaises, Close, Cancel, Flush, vars

(* The producers past the cork check can be counted. *)
LEMMA PastFinite ==
  /\ IsFiniteSet(Past) /\ Cardinality(Past) \in Nat /\ Cardinality(Producers) \in Nat
  /\ Cardinality(Past) <= Cardinality(Producers)
  BY ProducerAssumption, FS_Subset, FS_CardinalityType DEF Past

(* A larger number of producers in flight carries at least as much. *)
LEMMA Scaled ==
  /\ \A a \in Nat, b \in Nat : a <= b => MaxWeight * a <= MaxWeight * b
  /\ \A a \in Nat : MaxWeight * (a + 1) = MaxWeight * a + MaxWeight
  /\ \A a \in Nat : MaxWeight * a \in Nat
  BY WeightAssumption

(* Overshoot survives a step that neither raises the depth nor lets        *)
(* another producer past the cork.                                         *)
LEMMA OvershootKept ==
  ASSUME QInv, Overshoot, q'.depth \in Nat, q'.depth <= q.depth, Past' \subseteq Past
  PROVE  Overshoot'
<1> DEFINE c == Cardinality(Past)
           d == Cardinality(Past')
           N == Cardinality(Producers)
<1>1. c \in Nat /\ d \in Nat /\ d <= c /\ N \in Nat
  BY PastFinite, FS_Subset, FS_CardinalityType
<1>2. q.depth \in Nat /\ MaxWeight * d <= MaxWeight * c
      /\ MaxWeight * c \in Nat /\ MaxWeight * d \in Nat /\ MaxWeight * N \in Nat
      /\ High \in Nat
  BY <1>1, Scaled, WatermarkAssumption DEF QInv, TypeOK, QueueType
<1>3. q.depth + MaxWeight * c < High + MaxWeight * N
  BY DEF Overshoot
<1> HIDE DEF c, d, N
<1>4. q'.depth + MaxWeight * d < High + MaxWeight * N
  BY <1>2, <1>3
<1> QED
  BY <1>4 DEF Overshoot, d, N

(* The empty queue is below the high watermark. *)
LEMMA OvershootInit == Init => Overshoot
<1> SUFFICES ASSUME Init PROVE Overshoot
  OBVIOUS
<1>1. Past = {}
  BY DEF Init, Past
<1>2. Cardinality(Past) = 0 /\ q.depth = 0
  BY <1>1, FS_EmptySet DEF Init, EmptyQueue
<1>3. MaxWeight * Cardinality(Producers) \in Nat /\ MaxWeight * 0 = 0 /\ High > 0 /\ High \in Nat
  BY PastFinite, Scaled, WeightAssumption, WatermarkAssumption
<1> QED
  BY <1>2, <1>3 DEF Overshoot

(* No step overshoots the bound: a put spends the producer it counts, and *)
(* one passes the cork only below the high watermark.                     *)
LEMMA OvershootNext ==
  QInv /\ BypassIsFree /\ Overshoot /\ [Next]_vars => Overshoot'
<1> SUFFICES ASSUME QInv, BypassIsFree, Overshoot, [Next]_vars PROVE Overshoot'
  OBVIOUS
<1>a. /\ q \in QueueType /\ q.depth \in Nat /\ Exact(q)
      /\ pc \in [Producers -> {"idle", "cork", "put"}]
      /\ offer \in [Producers -> [weight : 0..MaxWeight, bypass : BOOLEAN]]
      /\ puts \in [Producers -> Nat]
  BY DEF QInv, TypeOK, DepthIsWeight, Exact, QueueType
<1>1. ASSUME NEW p \in Producers, Put(p) PROVE Overshoot'
  <2>1. PICK w \in Weights, bypass \in BOOLEAN :
          /\ offer' = [offer EXCEPT ![p] = [weight |-> w, bypass |-> bypass]]
          /\ pc' = [pc EXCEPT ![p] = IF bypass THEN "put" ELSE "cork"]
    BY <1>1 DEF Put
  <2>2. q' = q
    BY <1>1 DEF Put
  <2>3. Past' \subseteq Past
    BY <1>a, <2>1, <2>2 DEF Past
  <2> QED
    BY <1>a, <2>2, <2>3, OvershootKept
<1>2. ASSUME NEW p \in Producers, PassCork(p) PROVE Overshoot'
  <2>1. q' = q /\ offer' = offer /\ pc' = [pc EXCEPT ![p] = "put"]
    BY <1>2 DEF PassCork
  <2>2. CASE Stopped(q)
    <3>1. Past' \subseteq Past
      BY <2>1, <2>2 DEF Past
    <3> QED
      BY <1>a, <2>1, <3>1, OvershootKept
  <2>3. CASE ~Stopped(q)
    <3>1. q.depth < High
      BY <1>2, <2>3 DEF PassCork, QInv, Hysteresis
    <3>2. Past' \subseteq Producers
      BY DEF Past
    <3> DEFINE d == Cardinality(Past')
               N == Cardinality(Producers)
    <3>3. d \in Nat /\ N \in Nat /\ d <= N
      BY <3>2, PastFinite, ProducerAssumption, FS_Subset, FS_CardinalityType
    <3>4. MaxWeight * d <= MaxWeight * N /\ MaxWeight * d \in Nat /\ MaxWeight * N \in Nat
      BY <3>3, Scaled
    <3> HIDE DEF d, N
    <3>5. q'.depth + MaxWeight * d < High + MaxWeight * N
      BY <1>a, <2>1, <3>1, <3>4, WatermarkAssumption
    <3> QED
      BY <3>5 DEF Overshoot, d, N
  <2> QED
    BY <2>2, <2>3
<1>3. ASSUME NEW p \in Producers, Enqueue(p) PROVE Overshoot'
  <2> DEFINE w == offer[p].weight
             new == Appended(q, Item(p), w)
  <2>1. w \in 0..MaxWeight /\ Item(p) \in ItemSet
    BY <1>a DEF Item, ItemSet
  <2>2. new \in QueueType /\ new.depth = q.depth + w
        /\ new.closed = q.closed /\ new.cancelled = q.cancelled
    BY <1>a, <2>1, AppendedSound
  <2>3. q' = Observed(new) /\ offer' = offer /\ pc[p] = "put" /\ ~Stopped(q)
        /\ pc' = [pc EXCEPT ![p] = "idle"]
    BY <1>3 DEF Enqueue, Settle
  <2>4. q'.depth = q.depth + w /\ Stopped(q') = Stopped(q)
    BY <2>2, <2>3, ObservedType DEF Stopped
  <2>5. Past' = Past \ {p}
    BY <1>a, <2>3, <2>4 DEF Past
  <2> HIDE DEF new
  <2>6. CASE offer[p].bypass
    <3>1. w = 0
      BY <2>6 DEF BypassIsFree
    <3> HIDE DEF w
    <3>2. q'.depth \in Nat /\ q'.depth <= q.depth
      BY <1>a, <2>4, <3>1
    <3> QED
      BY <2>5, <3>2, OvershootKept
  <2>7. CASE ~offer[p].bypass
    <3>1. p \in Past
      BY <2>3, <2>7 DEF Past
    <3> DEFINE c == Cardinality(Past)
               d == Cardinality(Past')
               N == Cardinality(Producers)
    <3>2. c \in Nat /\ N \in Nat /\ d \in Nat /\ c = d + 1
      <4>1. IsFiniteSet(Past) /\ c \in Nat /\ N \in Nat
        BY PastFinite
      <4>2. IsFiniteSet(Past \ {p}) /\ Cardinality(Past \ {p}) = c - 1
        BY <3>1, <4>1, FS_RemoveElement
      <4>3. d = c - 1
        BY <2>5, <4>2
      <4>4. d \in Nat
        BY <2>5, <4>2, FS_CardinalityType
      <4> HIDE DEF c, d, N
      <4> QED
        BY <4>1, <4>3, <4>4
    <3>3. MaxWeight * c = MaxWeight * d + MaxWeight
          /\ MaxWeight * d \in Nat /\ MaxWeight * N \in Nat
      BY <3>2, Scaled
    <3>4. q.depth + MaxWeight * c < High + MaxWeight * N
      BY DEF Overshoot
    <3> HIDE DEF c, d, N, w
    <3>5. q'.depth + MaxWeight * d < High + MaxWeight * N
      BY <1>a, <2>1, <2>4, <3>3, <3>4, WeightAssumption, WatermarkAssumption
    <3> QED
      BY <3>5 DEF Overshoot, d, N
  <2> QED
    BY <2>6, <2>7
<1>4. ASSUME NEW p \in Producers, Refuse(p) PROVE Overshoot'
  <2>1. q' = q /\ offer' = offer /\ pc' = [pc EXCEPT ![p] = "idle"]
    BY <1>4 DEF Refuse
  <2>2. Past' \subseteq Past
    BY <1>a, <2>1 DEF Past
  <2> QED
    BY <1>a, <2>1, <2>2, OvershootKept
<1>5. CASE Get
  <2>1. q.items # <<>> /\ q' = Observed(Popped(q)) /\ UNCHANGED <<pc, offer>>
    BY <1>5 DEF Get, Settle
  <2>2. Popped(q) \in QueueType /\ Popped(q).depth <= q.depth
        /\ Popped(q).closed = q.closed /\ Popped(q).cancelled = q.cancelled
    BY <1>a, <2>1, PoppedSound
  <2>3. q'.depth \in Nat /\ q'.depth <= q.depth /\ Stopped(q') = Stopped(q)
    BY <2>1, <2>2, ObservedType DEF Stopped, QueueType
  <2>4. Past' \subseteq Past
    BY <2>1, <2>3 DEF Past
  <2> QED
    BY <2>3, <2>4, OvershootKept
<1>6. CASE Flush
  <2>1. PICK stale \in SUBSET Queued : q' = Observed(Flushed(q, stale))
    BY <1>6 DEF Flush, Settle
  <2>2. Flushed(q, stale) \in QueueType /\ Flushed(q, stale).depth <= q.depth
        /\ Flushed(q, stale).closed = q.closed /\ Flushed(q, stale).cancelled = q.cancelled
    BY <1>a, FlushedSound
  <2>3. q'.depth \in Nat /\ q'.depth <= q.depth /\ Stopped(q') = Stopped(q)
    BY <2>1, <2>2, ObservedType DEF Stopped, QueueType
  <2>4. Past' \subseteq Past
    BY <1>6, <2>3 DEF Past, Flush
  <2> QED
    BY <2>3, <2>4, OvershootKept
<1>7. CASE Close
  <2>1. q' = [q EXCEPT !.closed = TRUE] /\ UNCHANGED <<pc, offer>>
    BY <1>7 DEF Close, Closed
  <2>2. q'.depth = q.depth /\ Stopped(q')
    BY <1>a, <2>1 DEF QueueType, Stopped
  <2>3. Past' \subseteq Past
    BY <2>2 DEF Past
  <2> QED
    BY <1>a, <2>2, <2>3, OvershootKept
<1>8. CASE Cancel
  <2>1. q'.depth = 0 /\ Stopped(q')
    BY <1>8 DEF Cancel, Cancelled, EmptyQueue, Stopped
  <2>2. Past' \subseteq Past
    BY <2>1 DEF Past
  <2> QED
    BY <1>a, <2>1, <2>2, OvershootKept
<1>9. CASE UNCHANGED <<q, pc, offer>>
  <2>1. Past' = Past /\ q'.depth = q.depth
    BY <1>9 DEF Past
  <2> QED
    BY <1>a, <2>1, OvershootKept
<1>10. GetRaises \/ UNCHANGED vars => UNCHANGED <<q, pc, offer>>
  BY DEF GetRaises, vars
<1> QED
  BY <1>1, <1>2, <1>3, <1>4, <1>5, <1>6, <1>7, <1>8, <1>9, <1>10 DEF Next

(***************************************************************************)
(* The inductive invariant, and what follows from it.                      *)
(***************************************************************************)
IInv == QInv /\ BypassIsFree /\ Overshoot

(* IInv is an invariant of the specification. *)
LEMMA Inductive == Spec => []IInv
<1>1. Init => IInv
  <2>1. Init => BypassIsFree
    BY DEF Init, BypassIsFree
  <2> QED
    BY <2>1, QInvInit, OvershootInit DEF IInv
<1>2. IInv /\ [Next]_vars => IInv'
  BY QInvNext, BypassNext, OvershootNext DEF IInv
<1> QED
  BY <1>1, <1>2, PTL DEF Spec

(* put, get, flush, close and cancel keep every variable well formed, the  *)
(* depth a natural number.                                                 *)
THEOREM TypeCorrect == Spec => []TypeOK
<1>1. IInv => TypeOK  BY DEF IInv, QInv
<1> QED  BY <1>1, Inductive, PTL

(* _observe_locked: corked above the low mark, uncorked below the high     *)
(* one, hard-limited only while corked.                                    *)
THEOREM WatermarksHold == Spec => []Hysteresis
<1>1. IInv => Hysteresis  BY DEF IInv, QInv
<1> QED  BY <1>1, Inductive, PTL

(* The running depth of put, get and flush is the weight of the items.     *)
THEOREM DepthIsExact == Spec => []DepthIsWeight
<1>1. IInv => DepthIsWeight  BY DEF IInv, QInv
<1> QED  BY <1>1, Inductive, PTL

(* max_items holds for any number of producers.                            *)
THEOREM CapacityHolds == Spec => []Capacity
<1>1. IInv => Capacity  BY DEF IInv, QInv
<1> QED  BY <1>1, Inductive, PTL

(* A corked queue is never empty: its uncorking is in its consumer's hands. *)
THEOREM CorkNeverIdle == Spec => []CorkedHasWork
<1>1. IInv => CorkedHasWork
  <2> SUFFICES ASSUME IInv, q.corked, q.items = <<>> PROVE FALSE
    BY DEF CorkedHasWork
  <2>1. <<>> \in Seq(EntrySet) /\ Len(<<>>) = 0
    OBVIOUS
  <2>2. Weight(<<>>) = 0
    BY <2>1, EntryWeight, SumUnfold
  <2>3. q.depth = 0 /\ q.depth > Low
    BY <2>2 DEF IInv, QInv, DepthIsWeight, Hysteresis
  <2> QED
    BY <2>3, WatermarkAssumption
<1> QED  BY <1>1, Inductive, PTL

(* The overshoot over the high watermark is at most one item per producer  *)
(* that was between its cork check and its append.                         *)
THEOREM OvershootBounded == Spec => []Overshoot
<1>1. IInv => Overshoot  BY DEF IInv
<1> QED  BY <1>1, Inductive, PTL

(* The last transition on_state_change was called with describes the queue *)
(* until the queue is cancelled.                                           *)
THEOREM CallbackAgrees == Spec => []ToldMatches
<1>1. IInv => ToldMatches  BY DEF IInv, QInv
<1> QED  BY <1>1, Inductive, PTL

(* put, get, flush, close and cancel leave the queue sound in every state. *)
THEOREM QueueSound == Spec => []Inv
<1>1. TypeOK /\ Capacity /\ DepthIsWeight /\ CorkedHasWork /\ ToldMatches => Inv
  BY DEF Inv
<1> QED
  BY <1>1, TypeCorrect, CapacityHolds, DepthIsExact, CorkNeverIdle, CallbackAgrees, PTL

(* The distance between the high watermark and the hard limit that makes   *)
(* the cancel_response policy unreachable: one item of each producer.      *)
THEOREM RoomForOneEach ==
  High + MaxWeight * Cardinality(Producers) <= Hard => (Spec => [](q.depth < Hard))
<1> SUFFICES ASSUME High + MaxWeight * Cardinality(Producers) <= Hard
             PROVE  Spec => [](q.depth < Hard)
  OBVIOUS
<1>1. IInv => q.depth < Hard
  <2> SUFFICES ASSUME IInv PROVE q.depth < Hard
    OBVIOUS
  <2> DEFINE c == MaxWeight * Cardinality(Past)
             n == MaxWeight * Cardinality(Producers)
  <2>1. c \in Nat /\ n \in Nat /\ q.depth \in Nat /\ High \in Nat /\ Hard \in Nat
    BY PastFinite, Scaled, WatermarkAssumption DEF IInv, QInv, TypeOK, QueueType
  <2>2. q.depth + c < High + n /\ High + n <= Hard
    BY DEF IInv, Overshoot
  <2> HIDE DEF c, n
  <2> QED
    BY <2>1, <2>2
<1> QED  BY <1>1, Inductive, PTL

-----------------------------------------------------------------------------
(***************************************************************************)
(* The queue implements OrderedChannel.  The puts of a producer number its *)
(* items, so the order of the numbers is the order of the puts; what the   *)
(* channel asks of a Send, that the number is beyond everything queued or  *)
(* delivered of its producer, needs an invariant of its own.               *)
(***************************************************************************)

(* The last of a producer's puts that is over. *)
Over(p) == IF pc[p] = "idle" THEN puts[p] ELSE puts[p] - 1

(* What was delivered or is queued of a producer is of a put that is over. *)
Serials ==
  /\ \A p \in Producers : puts[p] \in 0..MaxPuts /\ Over(p) \in Nat /\ got[p] <= Over(p)
  /\ \A i \in DOMAIN q.items : q.items[i].item.n <= Over(q.items[i].item.from)

(* What the steps that settle leave in the queue, and that they do not     *)
(* stop it.                                                                *)
LEMMA SettledItems ==
  ASSUME NEW new \in QueueType, Settle(new)
  PROVE  q'.items = new.items /\ (Stopped(q') <=> Stopped(new))
  BY ObservedType DEF Settle, Stopped

(* put appends one entry. *)
LEMMA EnqueueItems ==
  ASSUME QInv, NEW p \in Producers, Enqueue(p)
  PROVE  /\ q.items \in Seq(EntrySet) /\ Entry(Item(p), offer[p].weight) \in EntrySet
         /\ q'.items = Append(q.items, Entry(Item(p), offer[p].weight))
         /\ ~Stopped(q) /\ ~Stopped(q')
<1> DEFINE new == Appended(q, Item(p), offer[p].weight)
<1>1. q \in QueueType /\ Exact(q) /\ Item(p) \in ItemSet /\ offer[p].weight \in 0..MaxWeight
  BY DEF QInv, TypeOK, DepthIsWeight, Exact, Item, ItemSet
<1>2. new \in QueueType /\ new.closed = q.closed /\ new.cancelled = q.cancelled
  BY <1>1, AppendedSound
<1>3. new.items = Append(q.items, Entry(Item(p), offer[p].weight))
  BY <1>1 DEF Appended, QueueType
<1>4. Settle(new) /\ ~Stopped(q)
  BY DEF Enqueue
<1>5. q.items \in Seq(EntrySet) /\ Entry(Item(p), offer[p].weight) \in EntrySet
  BY <1>1 DEF QueueType, Entry, EntrySet
<1> HIDE DEF new
<1> QED
  BY <1>2, <1>3, <1>4, <1>5, SettledItems DEF Stopped

(* get removes the first. *)
LEMMA GetItems ==
  ASSUME QInv, Get
  PROVE  /\ q.items \in Seq(EntrySet) /\ q.items # <<>> /\ q'.items = Tail(q.items)
         /\ Stopped(q') <=> Stopped(q)
<1> DEFINE new == Popped(q)
<1>1. q \in QueueType /\ Exact(q) /\ q.items # <<>> /\ Settle(new)
  BY DEF QInv, TypeOK, DepthIsWeight, Exact, Get
<1>2. new \in QueueType /\ new.closed = q.closed /\ new.cancelled = q.cancelled
  BY <1>1, PoppedSound
<1>3. new.items = Tail(q.items) /\ q.items \in Seq(EntrySet)
  BY <1>1 DEF Popped, QueueType
<1> HIDE DEF new
<1> QED
  BY <1>1, <1>2, <1>3, SettledItems DEF Stopped

(* flush keeps some of them in their order. *)
LEMMA FlushItems ==
  ASSUME QInv, Flush
  PROVE  /\ q.items \in Seq(EntrySet) /\ q'.items \in Seq(EntrySet)
         /\ Len(q'.items) <= Len(q.items)
         /\ KeptInOrder(q.items, q'.items, Len(q.items))
         /\ Stopped(q') <=> Stopped(q)
<1>1. PICK stale \in SUBSET Queued : Settle(Flushed(q, stale))
  BY DEF Flush
<1> DEFINE new == Flushed(q, stale)
<1>2. q \in QueueType /\ Exact(q) /\ q.items \in Seq(EntrySet)
  BY DEF QInv, TypeOK, DepthIsWeight, Exact, QueueType
<1>3. /\ new \in QueueType /\ new.closed = q.closed /\ new.cancelled = q.cancelled
      /\ Len(new.items) <= Len(q.items)
  BY <1>2, FlushedSound
<1>4. new.items = Scan(q.items, stale).kept
  BY <1>2 DEF Flushed, QueueType
<1>5. KeptInOrder(q.items, Scan(q.items, stale).kept, Len(q.items))
  BY <1>2, EntryWeight, ScanInOrder
<1>6. Settle(new) /\ new.items \in Seq(EntrySet)
  BY <1>1, <1>3 DEF QueueType
<1> HIDE DEF new
<1> QED
  BY <1>2, <1>3, <1>4, <1>5, <1>6, SettledItems DEF Stopped

(* Steps that leave the items alone. *)
Quiet ==
  \/ \E p \in Producers : Put(p) \/ PassCork(p) \/ Refuse(p)
  \/ GetRaises \/ UNCHANGED vars

(* The parts of what is queued. *)
LEMMA EntryParts ==
  \A s \in Seq(EntrySet) : \A i \in DOMAIN s :
    s[i].item \in ItemSet /\ s[i].item.from \in Producers /\ s[i].item.n \in Nat
<1>1. \A m \in ItemSet : m.from \in Producers /\ m.n \in Nat
  BY DEF ItemSet
<1>2. \A e \in EntrySet : e.item \in ItemSet
  BY DEF EntrySet
<1> QED
  BY <1>1, <1>2

(* The second part of Serials, producer by producer, in the next state.     *)
LEMMA SerialsNext ==
  ASSUME q'.items \in Seq(EntrySet),
         \A p \in Producers : /\ puts'[p] \in 0..MaxPuts /\ Over(p)' \in Nat
                              /\ got'[p] <= Over(p)',
         \A p \in Producers : \A i \in DOMAIN q'.items :
           q'.items[i].item.from = p => q'.items[i].item.n <= Over(p)'
  PROVE  Serials'
<1>1. \A i \in DOMAIN q'.items : q'.items[i].item.from \in Producers
  BY EntryParts
<1>2. (\A i \in DOMAIN q.items : q.items[i].item.n <= Over(q.items[i].item.from))'
  BY <1>1 DEF Over
<1> QED
  BY <1>2 DEF Serials

(* The same of this state, and its types. *)
LEMMA SerialsNow ==
  ASSUME QInv, Serials
  PROVE  /\ q.items \in Seq(EntrySet)
         /\ pc \in [Producers -> {"idle", "cork", "put"}] /\ puts \in [Producers -> Nat]
         /\ got \in [Producers -> Nat] /\ MaxPuts \in Nat
         /\ \A p \in Producers : puts[p] \in 0..MaxPuts /\ Over(p) \in Nat /\ got[p] <= Over(p)
         /\ \A p \in Producers : \A i \in DOMAIN q.items :
              q.items[i].item.from = p => q.items[i].item.n \in Nat /\ q.items[i].item.n <= Over(p)
<1>1. q.items \in Seq(EntrySet)
  BY DEF QInv, TypeOK, QueueType
<1>2. \A i \in DOMAIN q.items : q.items[i].item.n \in Nat
  BY <1>1, EntryParts
<1>3. /\ pc \in [Producers -> {"idle", "cork", "put"}] /\ puts \in [Producers -> Nat]
      /\ got \in [Producers -> Nat] /\ MaxPuts \in Nat
  BY BoundAssumption DEF QInv, TypeOK
<1> QED
  BY <1>1, <1>2, <1>3 DEF Serials

(* A put begins with a number that is not over; refusing ends it.          *)
LEMMA SerialsQuiet == QInv /\ Serials /\ Quiet => Serials' /\ UNCHANGED <<q, got>>
<1> SUFFICES ASSUME QInv, Serials, Quiet PROVE Serials' /\ UNCHANGED <<q, got>>
  OBVIOUS
<1>a. /\ q.items \in Seq(EntrySet)
      /\ pc \in [Producers -> {"idle", "cork", "put"}] /\ puts \in [Producers -> Nat]
      /\ got \in [Producers -> Nat] /\ MaxPuts \in Nat
      /\ \A p \in Producers : puts[p] \in 0..MaxPuts /\ Over(p) \in Nat /\ got[p] <= Over(p)
  BY SerialsNow
<1>1. UNCHANGED <<q, got>>
  BY DEF Quiet, Put, PassCork, Refuse, GetRaises, vars
<1>2. \A p \in Producers : puts'[p] \in 0..MaxPuts /\ Over(p)' \in Nat /\ Over(p) <= Over(p)'
  <2>1. ASSUME NEW r \in Producers, Put(r)
        PROVE  \A p \in Producers : puts'[p] \in 0..MaxPuts /\ Over(p)' = Over(p)
    <3>1. PICK c \in {"cork", "put"} : pc' = [pc EXCEPT ![r] = c]
      BY <2>1 DEF Put
    <3>2. puts' = [puts EXCEPT ![r] = @ + 1] /\ pc[r] = "idle" /\ puts[r] < MaxPuts
      BY <2>1 DEF Put
    <3> QED
      BY <1>a, <3>1, <3>2 DEF Over
  <2>2. ASSUME NEW r \in Producers, PassCork(r)
        PROVE  \A p \in Producers : puts'[p] \in 0..MaxPuts /\ Over(p)' = Over(p)
    BY <1>a, <2>2 DEF Over, PassCork
  <2>3. ASSUME NEW r \in Producers, Refuse(r)
        PROVE  \A p \in Producers : /\ puts'[p] \in 0..MaxPuts /\ Over(p)' \in Nat
                                    /\ Over(p) <= Over(p)'
    BY <1>a, <2>3 DEF Over, Refuse
  <2>4. CASE GetRaises \/ UNCHANGED vars
    BY <1>a, <2>4 DEF Over, GetRaises, vars
  <2> QED
    BY <1>a, <2>1, <2>2, <2>3, <2>4 DEF Quiet
<1>3. \A p \in Producers : got'[p] <= Over(p)'
  BY <1>a, <1>1, <1>2
<1>4. \A p \in Producers : \A i \in DOMAIN q'.items :
        q'.items[i].item.from = p => q'.items[i].item.n <= Over(p)'
  <2> SUFFICES ASSUME NEW p \in Producers, NEW i \in DOMAIN q'.items,
                      q'.items[i].item.from = p
               PROVE  q'.items[i].item.n <= Over(p)'
    OBVIOUS
  <2>1. q.items[i].item.n \in Nat /\ q.items[i].item.n <= Over(p)
    BY <1>1, SerialsNow
  <2> QED
    BY <1>a, <1>1, <1>2, <2>1
<1> QED
  BY <1>a, <1>1, <1>2, <1>3, <1>4, SerialsNext

(* What the channel sees of a queue. *)
Seen(items) == [i \in DOMAIN items |-> items[i].item]

(* A Seen sequence is as long as the items and has the same positions.     *)
LEMMA SeenIs ==
  ASSUME NEW s \in Seq(EntrySet)
  PROVE  /\ Seen(s) \in Seq(ItemSet) /\ Len(Seen(s)) = Len(s) /\ Len(s) \in Nat
         /\ DOMAIN Seen(s) = 1..Len(s) /\ DOMAIN s = 1..Len(s)
         /\ Seen(s) = [i \in 1..Len(s) |-> s[i].item]
         /\ \A i \in 1..Len(s) : Seen(s)[i] = s[i].item
<1>1. DOMAIN s = 1..Len(s) /\ Len(s) \in Nat
  OBVIOUS
<1>2. Seen(s) = [i \in 1..Len(s) |-> s[i].item]
  BY <1>1 DEF Seen
<1>3. Seen(s) \in [1..Len(s) -> ItemSet]
  BY <1>1, <1>2, EntryParts
<1>4. Seen(s) \in Seq(ItemSet)
  BY <1>1, <1>3
<1>5. Len(Seen(s)) = Len(s) /\ DOMAIN Seen(s) = 1..Len(s)
  BY <1>1, <1>3, <1>4
<1> QED
  BY <1>1, <1>2, <1>4, <1>5

(* put is a Send: its number is beyond what is queued or delivered.        *)
LEMMA EnqueueSends ==
  ASSUME QInv, Serials, NEW p \in Producers, Enqueue(p)
  PROVE  Serials' /\ Channel!Send(p)
<1>a. /\ q.items \in Seq(EntrySet) /\ Len(q.items) \in Nat
      /\ pc \in [Producers -> {"idle", "cork", "put"}] /\ puts \in [Producers -> Nat]
      /\ got \in [Producers -> Nat] /\ MaxPuts \in Nat
      /\ \A r \in Producers : puts[r] \in 0..MaxPuts /\ Over(r) \in Nat /\ got[r] <= Over(r)
  BY SerialsNow
<1> DEFINE e == Entry(Item(p), offer[p].weight)
<1>b. /\ e \in EntrySet /\ e.item = Item(p)
      /\ q'.items = Append(q.items, e) /\ ~Stopped(q) /\ ~Stopped(q')
  BY EnqueueItems DEF Entry
<1> HIDE DEF e
<1>1. /\ pc[p] = "put" /\ pc' = [pc EXCEPT ![p] = "idle"] /\ ~Full(q)
      /\ UNCHANGED <<puts, got>>
  BY DEF Enqueue
<1>2. Over(p) = puts[p] - 1 /\ Over(p)' = puts[p] /\ puts[p] \in 1..MaxPuts
  BY SMTT(30), <1>a, <1>1 DEF Over
<1>3. \A r \in Producers : Over(r)' \in Nat /\ Over(r) <= Over(r)'
  BY <1>a, <1>1 DEF Over
<1>4. Item(p) = [from |-> p, n |-> puts[p]]
  BY DEF Item
<1>5. \A r \in Producers : \A i \in DOMAIN q.items :
        q.items[i].item.from = r => q.items[i].item.n \in Nat /\ q.items[i].item.n <= Over(r)
  BY SerialsNow
<1>6. /\ q'.items \in Seq(EntrySet) /\ Len(q'.items) = Len(q.items) + 1
      /\ q'.items[Len(q.items) + 1] = e /\ \A i \in 1..Len(q.items) : q'.items[i] = q.items[i]
      /\ DOMAIN q.items = 1..Len(q.items) /\ DOMAIN q'.items = 1..(Len(q.items) + 1)
  BY <1>a, <1>b, AppendProperties
<1>7. Serials'
  <2>1. \A r \in Producers : /\ puts'[r] \in 0..MaxPuts /\ Over(r)' \in Nat
                             /\ got'[r] <= Over(r)'
    BY <1>a, <1>1, <1>3
  <2>2. \A r \in Producers : \A i \in DOMAIN q'.items :
          q'.items[i].item.from = r => q'.items[i].item.n <= Over(r)'
    <3> SUFFICES ASSUME NEW r \in Producers, NEW i \in DOMAIN q'.items,
                        q'.items[i].item.from = r
                 PROVE  q'.items[i].item.n <= Over(r)'
      OBVIOUS
    <3>1. CASE i = Len(q.items) + 1
      <4>1. r = p /\ q'.items[i].item.n = puts[p]
        BY <1>b, <1>4, <1>6, <3>1
      <4> QED
        BY <4>1, <1>2
    <3>2. CASE i # Len(q.items) + 1
      <4>1. i \in 1..Len(q.items)
        BY <1>a, <1>6, <3>2
      <4>2. q.items[i].item.n \in Nat /\ q.items[i].item.n <= Over(r) /\ q'.items[i] = q.items[i]
        BY <1>5, <1>6, <4>1
      <4>3. Over(r) <= Over(r)' /\ Over(r) \in Nat /\ Over(r)' \in Nat
        BY <1>a, <1>3
      <4> QED
        BY <4>2, <4>3
    <3> QED
      BY <3>1, <3>2
  <2> QED
    BY <1>6, <2>1, <2>2, SerialsNext
<1>8. Len(Seen(q.items)) = Len(q.items) /\ Len(q.items) < MaxItems
  <2>1. Len(Seen(q.items)) = Len(q.items)
    BY <1>a DEF Seen
  <2> QED
    BY <1>1, <1>a, <2>1, CapacityAssumption DEF Full
<1>9. Seen(q'.items) = Append(Seen(q.items), [from |-> p, n |-> puts[p]])
  <2> DEFINE s == Seen(q.items)
             t == Append(s, [from |-> p, n |-> puts[p]])
  <2>1. s \in Seq(ItemSet) /\ [from |-> p, n |-> puts[p]] \in ItemSet
    <3>2. s \in Seq(ItemSet)
      BY <1>a, SeenIs
    <3> QED
      BY <1>a, <3>2 DEF ItemSet
  <2>2. Len(s) = Len(q.items) /\ \A i \in 1..Len(q.items) : s[i] = q.items[i].item
    BY <1>8, <1>6 DEF Seen
  <2> HIDE DEF s
  <2>3. t \in Seq(ItemSet) /\ Len(t) = Len(q.items) + 1 /\ t[Len(q.items) + 1] = [from |-> p, n |-> puts[p]]
        /\ \A i \in 1..Len(q.items) : t[i] = s[i]
    BY <2>1, <2>2, AppendProperties
  <2>4. DOMAIN t = 1..(Len(q.items) + 1) /\ t = [i \in DOMAIN t |-> t[i]]
    BY <2>3
  <2> HIDE DEF t
  <2>5. \A i \in 1..(Len(q.items) + 1) : t[i] = q'.items[i].item
    BY <1>a, <1>b, <1>4, <1>6, <2>2, <2>3
  <2>6. t = Seen(q'.items)
    BY <1>6, <2>4, <2>5 DEF Seen
  <2> QED
    BY <2>6 DEF t, s
<1>10. \A m \in {Seen(q.items)[i] : i \in DOMAIN Seen(q.items)} : m.from = p => m.n < puts[p]
  <2> TAKE m \in {Seen(q.items)[i] : i \in DOMAIN Seen(q.items)}
  <2> HAVE m.from = p
  <2>1. PICK i \in DOMAIN q.items : m = q.items[i].item
    BY DEF Seen
  <2>2. m.n \in Nat /\ m.n <= Over(p)
    BY <1>5, <2>1
  <2> QED
    BY <1>2, <2>2
<1>11. got[p] < puts[p]
  BY <1>a, <1>2
<1> QED
  BY <1>1, <1>2, <1>7, <1>8, <1>9, <1>10, <1>11, <1>b DEF Channel!Send, Channel!Members, Seen

(* get is a Deliver: the head's number becomes the producer's last.        *)
LEMMA GetDelivers ==
  ASSUME QInv, Serials, Get
  PROVE  Serials' /\ Channel!Deliver
<1>a. /\ q.items \in Seq(EntrySet) /\ q.items # <<>> /\ q'.items = Tail(q.items)
      /\ Stopped(q') <=> Stopped(q)
  BY GetItems
<1>b. /\ got \in [Producers -> Nat]
      /\ \A r \in Producers : puts[r] \in 0..MaxPuts /\ Over(r) \in Nat /\ got[r] <= Over(r)
      /\ \A r \in Producers : \A i \in DOMAIN q.items :
           q.items[i].item.from = r => q.items[i].item.n \in Nat /\ q.items[i].item.n <= Over(r)
  BY SerialsNow
<1> DEFINE item == q.items[1].item
           t == q'.items
<1>1. UNCHANGED <<pc, puts>> /\ got' = [got EXCEPT ![item.from] = item.n]
  <2>1. Head(q.items) = q.items[1]
    BY <1>a
  <2> QED
    BY <2>1 DEF Get
<1>2. /\ Len(q.items) \in Nat /\ Len(q.items) > 0 /\ t \in Seq(EntrySet) /\ Len(t) = Len(q.items) - 1
      /\ \A i \in 1..Len(t) : t[i] = q.items[i + 1]
  BY <1>a
<1>3. \A r \in Producers : Over(r)' = Over(r)
  BY <1>1 DEF Over
<1>4. item \in ItemSet /\ item.from \in Producers /\ item.n \in Nat /\ item.n <= Over(item.from)
  <2>1. 1 \in DOMAIN q.items
    BY <1>2
  <2>2. item \in ItemSet /\ item.from \in Producers /\ item.n \in Nat
    BY <1>a, <2>1, EntryParts
  <2> QED
    BY <1>b, <2>1, <2>2
<1>5. Serials'
  <2>1. \A r \in Producers : /\ puts'[r] \in 0..MaxPuts /\ Over(r)' \in Nat
                             /\ got'[r] <= Over(r)'
    <3> HIDE DEF item
    <3> QED
      BY <1>b, <1>1, <1>3, <1>4
  <2>2. \A r \in Producers : \A i \in DOMAIN q'.items :
          q'.items[i].item.from = r => q'.items[i].item.n <= Over(r)'
    <3> SUFFICES ASSUME NEW r \in Producers, NEW i \in DOMAIN q'.items,
                        q'.items[i].item.from = r
                 PROVE  q'.items[i].item.n <= Over(r)'
      OBVIOUS
    <3>1. DOMAIN t = 1..Len(t) /\ DOMAIN q.items = 1..Len(q.items)
      BY <1>a, <1>2
    <3>2. i \in 1..Len(t) /\ i + 1 \in DOMAIN q.items /\ t[i] = q.items[i + 1]
      BY <1>2, <3>1
    <3> QED
      BY <1>b, <1>3, <3>2
  <2> QED
    BY <1>2, <2>1, <2>2, SerialsNext
<1>6. Seen(t) = Tail(Seen(q.items)) /\ Head(Seen(q.items)) = item /\ Seen(q.items) # <<>>
  <2> DEFINE s == Seen(q.items)
             u == Tail(s)
  <2>1. s \in Seq(ItemSet) /\ Len(s) = Len(q.items) /\ \A i \in 1..Len(q.items) : s[i] = q.items[i].item
    BY <1>a, SeenIs
  <2> HIDE DEF s
  <2>2. s # <<>> /\ Head(s) = s[1] /\ s[1] = item
    BY <1>2, <2>1
  <2>3. u \in Seq(ItemSet) /\ Len(u) = Len(t) /\ \A i \in 1..Len(t) : u[i] = s[i + 1]
    BY <1>2, <2>1, <2>2
  <2> HIDE DEF u
  <2>4. u = [i \in 1..Len(t) |-> u[i]]
    <3>1. DOMAIN u = 1..Len(t) /\ u = [i \in DOMAIN u |-> u[i]]
      BY <2>3
    <3> QED
      BY <3>1
  <2>5. \A i \in 1..Len(t) : u[i] = t[i].item
    BY <1>2, <2>1, <2>3
  <2>6. u = Seen(t)
    BY <1>2, <2>4, <2>5, SeenIs
  <2> QED
    BY <2>2, <2>6 DEF u, s
<1> QED
  BY <1>1, <1>5, <1>6, <1>a DEF Channel!Deliver, Seen

(* flush is a Discard. *)
LEMMA FlushDiscards ==
  ASSUME QInv, Serials, Flush
  PROVE  Serials' /\ Channel!Discard
<1>a. /\ q.items \in Seq(EntrySet) /\ q'.items \in Seq(EntrySet)
      /\ Len(q'.items) <= Len(q.items) /\ (Stopped(q') <=> Stopped(q))
  BY FlushItems
<1>b. /\ \A r \in Producers : puts[r] \in 0..MaxPuts /\ Over(r) \in Nat /\ got[r] <= Over(r)
      /\ \A r \in Producers : \A i \in DOMAIN q.items :
           q.items[i].item.from = r => q.items[i].item.n \in Nat /\ q.items[i].item.n <= Over(r)
  BY SerialsNow
<1> DEFINE n == Len(q'.items)
<1>1. PICK keep \in [1..n -> 1..Len(q.items)] :
        /\ \A j, k \in 1..n : j < k => keep[j] < keep[k]
        /\ \A j \in 1..n : q'.items[j] = q.items[keep[j]]
  BY FlushItems DEF KeptInOrder
<1>2. UNCHANGED <<pc, puts, got>>
  BY DEF Flush
<1>3. \A r \in Producers : Over(r)' = Over(r)
  BY <1>2 DEF Over
<1>4. /\ DOMAIN q.items = 1..Len(q.items) /\ DOMAIN q'.items = 1..n
      /\ n \in 0..Len(q.items) /\ Len(q.items) \in Nat
  BY <1>a
<1>5. Serials'
  <2>1. \A r \in Producers : /\ puts'[r] \in 0..MaxPuts /\ Over(r)' \in Nat
                             /\ got'[r] <= Over(r)'
    BY <1>b, <1>2, <1>3
  <2>2. \A r \in Producers : \A i \in DOMAIN q'.items :
          q'.items[i].item.from = r => q'.items[i].item.n <= Over(r)'
    <3> SUFFICES ASSUME NEW r \in Producers, NEW i \in DOMAIN q'.items,
                        q'.items[i].item.from = r
                 PROVE  q'.items[i].item.n <= Over(r)'
      OBVIOUS
    <3>1. i \in 1..n /\ keep[i] \in DOMAIN q.items /\ q'.items[i] = q.items[keep[i]]
      BY <1>1, <1>4
    <3> QED
      BY <1>b, <1>3, <3>1
  <2> QED
    BY <1>a, <2>1, <2>2, SerialsNext
<1>6. Seen(q'.items) = [i \in 1..n |-> Seen(q.items)[keep[i]]]
  <2>1. Seen(q'.items) = [i \in 1..n |-> q'.items[i].item]
    BY <1>a, SeenIs
  <2>2. \A i \in 1..Len(q.items) : Seen(q.items)[i] = q.items[i].item
    BY <1>a, SeenIs
  <2>3. \A i \in 1..n : q'.items[i].item = Seen(q.items)[keep[i]]
    BY <1>1, <2>2
  <2> QED
    BY <2>1, <2>3
<1>7. Len(Seen(q.items)) = Len(q.items) /\ DOMAIN Seen(q.items) = 1..Len(q.items)
  BY <1>a, SeenIs
<1> HIDE DEF n
<1>8. \E m \in 0..Len(Seen(q.items)) : \E f \in [1..m -> DOMAIN Seen(q.items)] :
        /\ \A i, j \in 1..m : i < j => f[i] < f[j]
        /\ Seen(q'.items) = [i \in 1..m |-> Seen(q.items)[f[i]]]
  <2>1. n \in 0..Len(Seen(q.items)) /\ keep \in [1..n -> DOMAIN Seen(q.items)]
    BY <1>1, <1>4, <1>7
  <2>2. /\ \A i, j \in 1..n : i < j => keep[i] < keep[j]
        /\ Seen(q'.items) = [i \in 1..n |-> Seen(q.items)[keep[i]]]
    BY <1>1, <1>6
  <2> QED
    BY <2>1, <2>2
<1> QED
  BY <1>2, <1>5, <1>8, <1>a DEF Channel!Discard, Seen

(* close and cancel are a Close. *)
LEMMA StopCloses ==
  ASSUME QInv, Serials, Close \/ Cancel
  PROVE  Serials' /\ Channel!Close
<1>a. /\ q.items \in Seq(EntrySet)
      /\ \A r \in Producers : puts[r] \in 0..MaxPuts /\ Over(r) \in Nat /\ got[r] <= Over(r)
      /\ \A r \in Producers : \A i \in DOMAIN q.items :
           q.items[i].item.from = r => q.items[i].item.n \in Nat /\ q.items[i].item.n <= Over(r)
  BY SerialsNow
<1>1. UNCHANGED <<pc, puts, got>>
  BY DEF Close, Cancel
<1>2. \A r \in Producers : Over(r)' = Over(r)
  BY <1>1 DEF Over
<1>3. q'.items \in {q.items, <<>>} /\ Stopped(q')
  <2>1. CASE Close
    <3>1. q' = [q EXCEPT !.closed = TRUE] /\ q \in QueueType
      BY <2>1 DEF Close, Closed, QInv, TypeOK
    <3>2. q'.items = q.items /\ q'.closed
      BY <3>1 DEF QueueType
    <3> QED
      BY <3>2 DEF Stopped
  <2>2. CASE Cancel
    BY <2>2 DEF Cancel, Cancelled, EmptyQueue, Stopped
  <2> QED
    BY <2>1, <2>2
<1>4. <<>> \in Seq(EntrySet) /\ DOMAIN <<>> = {}
  OBVIOUS
<1>5. Serials'
  <2>1. q'.items \in Seq(EntrySet)
    BY <1>a, <1>3, <1>4
  <2>2. \A r \in Producers : \A i \in DOMAIN q'.items :
          q'.items[i].item.from = r => q'.items[i].item.n <= Over(r)'
    BY <1>a, <1>2, <1>3, <1>4
  <2> QED
    BY <1>a, <1>1, <1>2, <2>1, <2>2, SerialsNext
<1>6. Seen(q'.items) \in {Seen(q.items), <<>>}
  BY <1>3, <1>4 DEF Seen
<1> QED
  BY <1>1, <1>3, <1>5, <1>6 DEF Channel!Close, Seen

(* The first state of the queue is the first state of the channel.         *)
LEMMA ChannelInit == Init => Serials /\ Channel!Init
<1> SUFFICES ASSUME Init PROVE Serials /\ Channel!Init
  OBVIOUS
<1>1. q.items = <<>> /\ DOMAIN <<>> = {} /\ ~Stopped(q)
  BY DEF Init, EmptyQueue, Stopped
<1>2. Serials
  BY <1>1, BoundAssumption DEF Init, Serials, Over
<1>3. [i \in DOMAIN q.items |-> q.items[i].item] = <<>>
  BY <1>1
<1> QED
  BY <1>1, <1>2, <1>3 DEF Init, Channel!Init

(* Every step of the queue is a step of the channel or leaves it alone.    *)
LEMMA ChannelNext ==
  QInv /\ Serials /\ [Next]_vars => Serials' /\ [Channel!Next]_(Channel!vars)
<1> SUFFICES ASSUME QInv, Serials, [Next]_vars
             PROVE  Serials' /\ [Channel!Next]_(Channel!vars)
  OBVIOUS
<1>1. CASE Quiet
  BY <1>1, SerialsQuiet DEF Channel!vars
<1>2. ASSUME NEW p \in Producers, Enqueue(p)
      PROVE  Serials' /\ [Channel!Next]_(Channel!vars)
  BY <1>2, EnqueueSends DEF Channel!Next
<1>3. CASE Get
  BY <1>3, GetDelivers DEF Channel!Next
<1>4. CASE Flush
  BY <1>4, FlushDiscards DEF Channel!Next
<1>5. CASE Close \/ Cancel
  BY <1>5, StopCloses DEF Channel!Next
<1> QED
  BY <1>1, <1>2, <1>3, <1>4, <1>5 DEF Next, Quiet

(* The queue implements the bounded ordered channel: whatever is put,      *)
(* taken, flushed, closed or cancelled, each producer's items come out in  *)
(* the order of its puts, none twice, and none is lost but by a discard.   *)
THEOREM QueueIsChannel == Spec => ChannelSpec
<1>1. Init => QInv /\ Serials /\ Channel!Init
  BY QInvInit, ChannelInit
<1>2. QInv /\ Serials /\ [Next]_vars => (QInv /\ Serials)' /\ [Channel!Next]_(Channel!vars)
  BY QInvNext, ChannelNext
<1> QED
  BY <1>1, <1>2, PTL DEF Spec, ChannelSpec, Channel!Spec
=============================================================================
