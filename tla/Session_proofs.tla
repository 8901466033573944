----------------------------- MODULE Session_proofs -----------------------------
(* Proofs about a session: first one response, then the turn-taking between the *)
(* responses.                                                                   *)
(*                                                                              *)
(* One response: what reaches the browser, and in which order, whatever the     *)
(* three tasks, the hard-limit callbacks and the message loop do between each   *)
(* other's awaits. The invariant counts: every token is spoken, in the phrase   *)
(* buffer, in the hand of tts, in the queue or about to be put; every chunk is  *)
(* sent, in hand, queued or about to be put, in this order; and nothing follows *)
(* an EndOfStream.                                                              *)
EXTENDS ResponsePipeline, BargeInSession, FlushLoop, SequenceTheorems, FiniteSetTheorems,
        WellFoundedInduction, TLAPS

(* A set of naturals that holds 0 and is closed under successor is Nat. *)
LEMMA NatSetInduction ==
  ASSUME NEW S, 0 \in S, \A n \in Nat : n \in S => n + 1 \in S
  PROVE  \A n \in Nat : n \in S
<1>1. SUFFICES ASSUME Nat \ S # {} PROVE FALSE
  OBVIOUS
<1>2. IsWellFoundedOn(OpToRel(<, Nat), Nat)
  BY NatLessThanWellFounded
<1>3. \E m \in Nat \ S : \A k \in Nat \ S : ~ (<<k, m>> \in OpToRel(<, Nat))
  BY <1>1, <1>2, WFMin
<1>4. \E m \in Nat : m \notin S /\ \A k \in Nat : k < m => k \in S
  BY <1>3 DEF OpToRel
<1>5. PICK m \in Nat : m \notin S /\ \A k \in Nat : k < m => k \in S
  BY <1>4
<1>6. m # 0
  BY <1>5
<1>7. m - 1 \in Nat /\ m - 1 < m /\ (m - 1) + 1 = m
  BY <1>5, <1>6
<1> QED
  BY <1>5, <1>7

(* One step of the loop of flush. *)
ScanStep(items, stale, f, i) ==
  IF i = 0 THEN [kept |-> <<>>, depth |-> 0]
  ELSE IF items[i].item \in stale THEN f[i - 1]
  ELSE [kept |-> Append(f[i - 1].kept, items[i]),
        depth |-> f[i - 1].depth + items[i].weight]

(* The recursive definition of the loop is met by a function. *)
LEMMA ScanLoopDef ==
  ASSUME NEW items, Len(items) \in Nat, NEW stale
  PROVE  ScanLoop(items, stale)
           = [i \in 0..Len(items) |->
                ScanStep(items, stale, ScanLoop(items, stale), i)]
<1> DEFINE Has(n) == \E f : f = [i \in 0..n |-> ScanStep(items, stale, f, i)]
           S == {n \in Nat : Has(n)}
<1>1. 0 \in S
  <2> DEFINE f0 == [i \in 0..0 |-> [kept |-> <<>>, depth |-> 0]]
  <2>1. f0 = [i \in 0..0 |-> ScanStep(items, stale, f0, i)]
    BY DEF ScanStep
  <2> QED  BY <2>1
<1>2. ASSUME NEW n \in Nat, n \in S PROVE n + 1 \in S
  <2>1. PICK f : f = [i \in 0..n |-> ScanStep(items, stale, f, i)]
    BY <1>2
  <2> DEFINE g == [i \in 0..(n + 1) |->
                     IF i = n + 1 THEN ScanStep(items, stale, f, i) ELSE f[i]]
  <2>2. \A i \in 0..n : g[i] = f[i]
    OBVIOUS
  <2>3. ASSUME NEW i \in 0..(n + 1)
        PROVE  g[i] = ScanStep(items, stale, g, i)
    <3>1. ScanStep(items, stale, g, i) = ScanStep(items, stale, f, i)
      <4>1. CASE i = 0  BY <4>1 DEF ScanStep
      <4>2. CASE i # 0
        <5>1. i - 1 \in 0..n  BY <4>2
        <5>2. g[i - 1] = f[i - 1]  BY <5>1, <2>2
        <5> HIDE DEF g
        <5> QED  BY <5>2 DEF ScanStep
      <4> QED  BY <4>1, <4>2
    <3>2. CASE i = n + 1
      <4>1. g[i] = ScanStep(items, stale, f, i)  BY <3>2
      <4> QED  BY <4>1, <3>1
    <3>3. CASE i # n + 1
      <4>1. i \in 0..n  BY <3>3
      <4>2. f[i] = ScanStep(items, stale, f, i)
        <5> DEFINE h == [j \in 0..n |-> ScanStep(items, stale, f, j)]
        <5>1. h[i] = ScanStep(items, stale, f, i)  BY <4>1
        <5> QED  BY <5>1, <2>1
      <4> QED  BY <4>1, <4>2, <2>2, <3>1
    <3> QED  BY <3>2, <3>3
  <2>4. g = [i \in 0..(n + 1) |-> ScanStep(items, stale, g, i)]
    <3>1. g = [i \in 0..(n + 1) |-> g[i]]  OBVIOUS
    <3> HIDE DEF g
    <3> QED  BY <2>3, <3>1
  <2> HIDE DEF g
  <2> QED  BY <2>4
<1>3. Has(Len(items))
  <2> HIDE DEF Has
  <2>1. \A n \in Nat : n \in S  BY <1>1, <1>2, NatSetInduction
  <2> QED  BY <2>1
<1> QED
  BY <1>3 DEF ScanLoop, ScanStep

(* The loop, one position at a time.                                       *)
LEMMA ScanUnfold ==
  ASSUME NEW items, Len(items) \in Nat, NEW stale, NEW i \in 0..Len(items)
  PROVE  ScanLoop(items, stale)[i] = ScanStep(items, stale, ScanLoop(items, stale), i)
<1> DEFINE f == ScanLoop(items, stale)
           h == [j \in 0..Len(items) |-> ScanStep(items, stale, f, j)]
<1>1. f = h
  BY ScanLoopDef
<1>2. h[i] = ScanStep(items, stale, f, i)
  OBVIOUS
<1> HIDE DEF f, h
<1>3. f[i] = ScanStep(items, stale, f, i)
  BY <1>1, <1>2
<1> QED  BY <1>3 DEF f

(* Where it begins.                                                        *)
LEMMA ScanFirst ==
  \A items, stale :
    Len(items) \in Nat => ScanLoop(items, stale)[0] = [kept |-> <<>>, depth |-> 0]
<1> SUFFICES ASSUME NEW items, NEW stale, Len(items) \in Nat
             PROVE  ScanLoop(items, stale)[0] = [kept |-> <<>>, depth |-> 0]
  OBVIOUS
<1>1. 0 \in 0..Len(items)
  OBVIOUS
<1>2. ScanLoop(items, stale)[0] = ScanStep(items, stale, ScanLoop(items, stale), 0)
  BY <1>1, ScanUnfold
<1> QED  BY <1>2 DEF ScanStep

(* A flush to which every item but the last is stale leaves one at most.   *)
LEMMA ScanAllButLast ==
  ASSUME NEW items, Len(items) \in Nat, NEW stale,
         \A i \in 1..(Len(items) - 1) : items[i].item \in stale
  PROVE  \/ Scan(items, stale) = [kept |-> <<>>, depth |-> 0]
         \/ /\ Len(items) > 0 /\ items[Len(items)].item \notin stale
            /\ Scan(items, stale) = [kept |-> Append(<<>>, items[Len(items)]),
                                     depth |-> 0 + items[Len(items)].weight]
<1> DEFINE f == ScanLoop(items, stale)
           n == Len(items)
           empty == [kept |-> <<>>, depth |-> 0]
           S == {i \in Nat : i < n \/ (i = 0) => f[i] = empty}
<1>1. f[0] = empty
  BY ScanFirst
<1>2. \A i \in 1..n : f[i] = ScanStep(items, stale, f, i)
  BY ScanUnfold
<1> HIDE DEF f, empty
<1>3. 0 \in S
  BY <1>1
<1>4. ASSUME NEW i \in Nat, i \in S PROVE i + 1 \in S
  <2> SUFFICES ASSUME i + 1 < n PROVE f[i + 1] = empty
    OBVIOUS
  <2>1. i + 1 \in 1..n /\ i + 1 \in 1..(n - 1) /\ (i + 1) - 1 = i
    OBVIOUS
  <2>2. f[i + 1] = f[i]
    <3>1. items[i + 1].item \in stale /\ i + 1 # 0
      BY <2>1
    <3>2. f[i + 1] = ScanStep(items, stale, f, i + 1)
      BY <1>2, <2>1
    <3>3. ScanStep(items, stale, f, i + 1) = f[(i + 1) - 1]
      BY <3>1 DEF ScanStep
    <3> QED  BY <2>1, <3>2, <3>3
  <2> QED  BY <1>4, <2>2
<1>5. \A i \in Nat : i \in S
  <2> HIDE DEF S
  <2> QED  BY <1>3, <1>4, NatSetInduction
<1>6. CASE n = 0
  BY <1>1, <1>6 DEF Scan, f, empty
<1>7. CASE n > 0
  <2>1. n \in 1..n /\ n - 1 \in Nat /\ n - 1 < n
    BY <1>7
  <2>2. f[n - 1] = empty
    BY <1>5, <2>1
  <2>3. f[n] = IF items[n].item \in stale THEN f[n - 1]
               ELSE [kept |-> Append(f[n - 1].kept, items[n]),
                     depth |-> f[n - 1].depth + items[n].weight]
    BY <1>2, <2>1 DEF ScanStep
  <2>4. CASE items[n].item \in stale
    BY <2>2, <2>3, <2>4 DEF Scan, f, empty
  <2>5. CASE items[n].item \notin stale
    <3>1. f[n] = [kept |-> Append(<<>>, items[n]), depth |-> 0 + items[n].weight]
      BY <2>2, <2>3, <2>5 DEF empty
    <3> QED  BY <1>7, <2>5, <3>1 DEF Scan, f
  <2> QED  BY <2>4, <2>5
<1> QED  BY <1>6, <1>7

(* A task that will put nothing more.                                           *)
Past == {"after", "done", "raised", "killed"}

EndsIn(q) == q.items # <<>> /\ q.items[Len(q.items)].item = EndOfStream

(* The tokens or chunks a queue holds.                                          *)
Carried(q) == IF EndsIn(q) THEN Len(q.items) - 1 ELSE Len(q.items)

Pending(t) == IF pc[t] \in {"cork", "put"} THEN 1 ELSE 0
InHand(t) == IF pc[t] = "got" /\ held[t] # EndOfStream THEN 1 ELSE 0

Flushing(t) == callback[t] \in {"flushText", "flushAudio", "mark"}

Halted == parent \in {"returned", "failed"}

(* Where every task may be, and what the message loop knows of it.              *)
Places ==
  /\ pc["llm"] \in {"stream", "cork", "put", "eos"} \cup Past
  /\ pc["tts"] \in {"get", "got", "synth", "cork", "put", "eos"} \cup Past
  /\ pc["transport"] \in {"get", "got"} \cup Past
  /\ callback["llm"] # "none" => pc["llm"] = "stream"
  /\ callback["tts"] # "none" => pc["tts"] = "synth"
  /\ parent = "gather" => (\A t \in Tasks : pc[t] # "killed") /\ \A t \in Stages : fate[t] # "killed"
  /\ parent = "gather" /\ pc["tts"] \in {"after", "done"} => fate["tts"] = "done"
  /\ pc["tts"] \in {"get", "got", "synth", "cork", "put"} => fate["tts"] = "done"
  /\ parent = "expired" => \A t \in Stages : pc[t] \in {"eos"} \cup Past
  /\ parent = "returned" => AllDone
  /\ response = "finished" => parent = "returned"
  /\ TextQ!Stopped(text) <=> Halted
  /\ AudioQ!Stopped(audio) <=> Halted
  /\ held["tts"] <= MaxTokens /\ held["transport"] <= MaxChunks
  /\ pc["llm"] \in {"cork", "put"} => tokens > 0
  /\ pc["tts"] \in {"cork", "put"} => made > 0

(* tts, or transport, has taken the EndOfStream or found its queue closed.      *)
TextOver ==
  \/ pc["tts"] \in {"after", "done"}
  \/ pc["tts"] = "eos" /\ fate["tts"] = "done"
  \/ pc["tts"] \in {"got", "synth", "cork", "put"} /\ held["tts"] = EndOfStream

AudioOver ==
  \/ pc["transport"] \in {"after", "done"}
  \/ pc["transport"] = "got" /\ held["transport"] = EndOfStream

(* Nothing follows an EndOfStream.                                              *)
TextEnds ==
  /\ \A i \in 1..(Len(text.items) - 1) : text.items[i].item # EndOfStream
  /\ EndsIn(text) => pc["llm"] \in Past
  /\ TextOver => text.items = <<>> /\ (pc["llm"] \in Past \/ Halted)

AudioEnds ==
  /\ \A i \in 1..(Len(audio.items) - 1) : audio.items[i].item # EndOfStream
  /\ EndsIn(audio) => pc["tts"] \in Past
  /\ AudioOver => audio.items = <<>> /\ (pc["tts"] \in Past \/ Halted)

(* Where the tokens are.                                                        *)
Voicing ==
  /\ voiced + buffer + InHand("tts") + Carried(text) + Pending("llm") <= tokens
  /\ parent = "gather" /\ Active /\ fate["tts"] = "done" /\ pc["tts"] # "raised" =>
       voiced + buffer + InHand("tts") + Carried(text) + Pending("llm") = tokens
  /\ pc["tts"] \in {"synth", "cork", "put"} => buffer = 0
  /\ TextOver /\ pc["tts"] # "got" /\ Active /\ parent = "gather" => buffer = 0

(* Where the chunks are, and in which order.                                    *)
Sending ==
  Active /\ pc["transport"] \notin {"raised", "killed"} =>
    LET k == Len(sent) + InHand("transport")
    IN  /\ InHand("transport") = 1 => held["transport"] = k
        /\ \A i \in 1..Len(audio.items) : audio.items[i].item \in {k + i, EndOfStream}
        /\ ~Halted => made = k + Carried(audio) + Pending("tts")

(* One cancellation, one mark in the conversation.                              *)
Cancelling ==
  /\ \A t, u \in Stages : Flushing(t) /\ Flushing(u) => t = u
  /\ (\E t \in Stages : Flushing(t)) => response = "cancelled"
  /\ Active \/ (\E t \in Stages : Flushing(t)) =>
       \A i \in DOMAIN entries : entries[i] = "completed"

PipelineInv ==
  /\ TypeOK /\ Places /\ TextEnds /\ AudioEnds
  /\ Voicing /\ SentInOrder /\ Sending
  /\ Cancelling /\ InterruptedIsFinal /\ CompleteDelivery
--------------------------------------------------------------------------------
(* The queue operations, as what they do to the items; the flags and the depth  *)
(* only have to keep their types.                                               *)
Queues(E) ==
  [items : Seq(E), depth : Nat, corked : BOOLEAN, hardLimited : BOOLEAN,
   closed : BOOLEAN, cancelled : BOOLEAN]

Entries(n) == [item : 0..n, weight : Nat]

Alike(q, r) == r.closed = q.closed /\ r.cancelled = q.cancelled

IsAppended(q, x, r) ==
  /\ Alike(q, r)
  /\ Len(r.items) = Len(q.items) + 1 /\ r.items[Len(r.items)] = x
  /\ \A i \in 1..Len(q.items) : r.items[i] = q.items[i]

IsPopped(q, r) ==
  /\ Alike(q, r)
  /\ Len(q.items) = Len(r.items) + 1
  /\ \A i \in 1..Len(r.items) : r.items[i] = q.items[i + 1]

IsFlushed(q, r) ==
  /\ Alike(q, r)
  /\ \/ Len(r.items) = 0
     \/ EndsIn(q) /\ Len(r.items) = 1 /\ r.items[1].item = EndOfStream

(* Items and depth of a queue are replaced.                                     *)
LEMMA ItemsReplaced ==
  ASSUME NEW E, NEW q \in Queues(E), NEW s \in Seq(E), NEW d \in Nat
  PROVE  LET r == [q EXCEPT !.items = s, !.depth = d]
         IN  r \in Queues(E) /\ r.items = s /\ Alike(q, r)
  BY DEF Queues, Alike

(* The two flags are.                                                           *)
LEMMA FlagsReplaced ==
  ASSUME NEW E, NEW q \in Queues(E), NEW c \in BOOLEAN, NEW h \in BOOLEAN
  PROVE  LET r == [q EXCEPT !.corked = c, !.hardLimited = h]
         IN  r \in Queues(E) /\ r.items = q.items /\ Alike(q, r)
  BY DEF Queues, Alike

(* Observing changes the two flags.                                             *)
LEMMA ObservedIs ==
  ASSUME NEW E, NEW q \in Queues(E)
  PROVE  /\ TextQ!Observed(q) \in Queues(E) /\ TextQ!Observed(q).items = q.items
         /\ Alike(q, TextQ!Observed(q))
         /\ AudioQ!Observed(q) \in Queues(E) /\ AudioQ!Observed(q).items = q.items
         /\ Alike(q, AudioQ!Observed(q))
<1>0. q.items \in Seq(E) /\ q.depth \in Nat /\ q.corked \in BOOLEAN /\ q.hardLimited \in BOOLEAN
  BY DEF Queues
<1>1. \E c, h \in BOOLEAN : TextQ!Observed(q) = [q EXCEPT !.corked = c, !.hardLimited = h]
  <2> DEFINE t == TextQ!Transition(q)
             c == t \in {"hard_limit", "corked"} \/ (q.corked /\ t = "none")
             h == t = "hard_limit" \/ (q.hardLimited /\ t # "uncorked")
  <2>1. TextQ!Observed(q) = [q EXCEPT !.corked = c, !.hardLimited = h]
    BY DEF TextQ!Observed, Queues
  <2>2. c \in BOOLEAN /\ h \in BOOLEAN
    BY <1>0
  <2> HIDE DEF c, h
  <2> QED  BY <2>1, <2>2
<1>2. \E c, h \in BOOLEAN : AudioQ!Observed(q) = [q EXCEPT !.corked = c, !.hardLimited = h]
  <2> DEFINE t == AudioQ!Transition(q)
             c == t \in {"hard_limit", "corked"} \/ (q.corked /\ t = "none")
             h == t = "hard_limit" \/ (q.hardLimited /\ t # "uncorked")
  <2>1. AudioQ!Observed(q) = [q EXCEPT !.corked = c, !.hardLimited = h]
    BY DEF AudioQ!Observed, Queues
  <2>2. c \in BOOLEAN /\ h \in BOOLEAN
    BY <1>0
  <2> HIDE DEF c, h
  <2> QED  BY <2>1, <2>2
<1>3. ASSUME NEW c \in BOOLEAN, NEW h \in BOOLEAN, NEW r,
             r = [q EXCEPT !.corked = c, !.hardLimited = h]
      PROVE  r \in Queues(E) /\ r.items = q.items /\ Alike(q, r)
  BY <1>3, FlagsReplaced
<1> QED  BY <1>1, <1>2, <1>3

(* put, get and flush of either queue.                                          *)
LEMMA AppendedIs ==
  ASSUME NEW n \in Nat, NEW q \in Queues(Entries(n)), NEW x \in 0..n, NEW w \in Nat
  PROVE  /\ TextQ!Observed(TextQ!Appended(q, x, w)) \in Queues(Entries(n))
         /\ IsAppended(q, [item |-> x, weight |-> w], TextQ!Observed(TextQ!Appended(q, x, w)))
         /\ AudioQ!Observed(AudioQ!Appended(q, x, w)) \in Queues(Entries(n))
         /\ IsAppended(q, [item |-> x, weight |-> w], AudioQ!Observed(AudioQ!Appended(q, x, w)))
<1> DEFINE e == [item |-> x, weight |-> w]
           s == Append(q.items, e)
           r == [q EXCEPT !.items = s, !.depth = q.depth + w]
<1>1. e \in Entries(n)
  BY DEF Entries
<1> HIDE DEF e
<1>2. q.items \in Seq(Entries(n)) /\ q.depth + w \in Nat
  BY DEF Queues
<1>3. /\ s \in Seq(Entries(n)) /\ Len(s) = Len(q.items) + 1 /\ s[Len(s)] = e
      /\ \A i \in 1..Len(q.items) : s[i] = q.items[i]
  BY <1>1, <1>2, AppendProperties
<1> HIDE DEF s
<1>4. r \in Queues(Entries(n)) /\ r.items = s /\ Alike(q, r)
  BY <1>2, <1>3, ItemsReplaced
<1>5. TextQ!Appended(q, x, w) = r /\ AudioQ!Appended(q, x, w) = r
  BY DEF TextQ!Appended, TextQ!Entry, AudioQ!Appended, AudioQ!Entry, Queues, s, e
<1> HIDE DEF r
<1>6. ASSUME NEW o \in {TextQ!Observed(r), AudioQ!Observed(r)}
      PROVE  o \in Queues(Entries(n)) /\ IsAppended(q, e, o)
  <2>1. o \in Queues(Entries(n)) /\ o.items = s /\ Alike(r, o)
    BY <1>4, ObservedIs
  <2> QED  BY <1>3, <1>4, <2>1 DEF IsAppended, Alike
<1> QED  BY <1>5, <1>6 DEF e

(* get takes the first item.                                                    *)
LEMMA PoppedIs ==
  ASSUME NEW n \in Nat, NEW q \in Queues(Entries(n)), q.items # <<>>
  PROVE  /\ Head(q.items) = q.items[1] /\ q.items[1].item \in 0..n
         /\ TextQ!Observed(TextQ!Popped(q)) \in Queues(Entries(n))
         /\ IsPopped(q, TextQ!Observed(TextQ!Popped(q)))
         /\ AudioQ!Observed(AudioQ!Popped(q)) \in Queues(Entries(n))
         /\ IsPopped(q, AudioQ!Observed(AudioQ!Popped(q)))
<1> DEFINE rest == q.depth - Head(q.items).weight
           d == IF rest < 0 THEN 0 ELSE rest
           s == Tail(q.items)
           r == [q EXCEPT !.items = s, !.depth = d]
<1>1. q.items \in Seq(Entries(n)) /\ q.depth \in Nat
  BY DEF Queues
<1>2. /\ Len(q.items) \in Nat /\ Head(q.items) = q.items[1] /\ Head(q.items) \in Entries(n)
      /\ s \in Seq(Entries(n)) /\ Len(q.items) = Len(s) + 1
      /\ \A i \in 1..Len(s) : s[i] = q.items[i + 1]
  BY <1>1, HeadTailProperties
<1>3. d \in Nat
  BY <1>1, <1>2 DEF Entries
<1> HIDE DEF s
<1>4. r \in Queues(Entries(n)) /\ r.items = s /\ Alike(q, r)
  <2> HIDE DEF d
  <2> QED  BY <1>2, <1>3, ItemsReplaced
<1>5. TextQ!Popped(q) = r /\ AudioQ!Popped(q) = r
  BY DEF TextQ!Popped, AudioQ!Popped, Queues, s
<1> HIDE DEF r
<1>6. ASSUME NEW o \in {TextQ!Observed(r), AudioQ!Observed(r)}
      PROVE  o \in Queues(Entries(n)) /\ IsPopped(q, o)
  <2>1. o \in Queues(Entries(n)) /\ o.items = s /\ Alike(r, o)
    BY <1>4, ObservedIs
  <2> QED  BY <1>2, <1>4, <2>1 DEF IsPopped, Alike
<1> QED  BY <1>2, <1>5, <1>6 DEF Entries

(* The loop of flush is the same in both queues.                                *)
LEMMA SameLoop ==
  ASSUME NEW s, NEW stale
  PROVE  TextQ!Scan(s, stale) = Scan(s, stale) /\ AudioQ!Scan(s, stale) = Scan(s, stale)
  BY DEF TextQ!Scan, AudioQ!Scan, Scan, TextQ!ScanLoop, AudioQ!ScanLoop, ScanLoop

(* A cancelled response leaves nothing in a queue but its EndOfStream.          *)
LEMMA FlushedIs ==
  ASSUME NEW n \in Nat, NEW q \in Queues(Entries(n)),
         \A i \in 1..(Len(q.items) - 1) : q.items[i].item # EndOfStream
  PROVE  /\ TextQ!Observed(TextQ!Flushed(q, Chunks(q))) \in Queues(Entries(n))
         /\ IsFlushed(q, TextQ!Observed(TextQ!Flushed(q, Chunks(q))))
         /\ AudioQ!Observed(AudioQ!Flushed(q, Chunks(q))) \in Queues(Entries(n))
         /\ IsFlushed(q, AudioQ!Observed(AudioQ!Flushed(q, Chunks(q))))
<1> DEFINE scan == Scan(q.items, Chunks(q))
           r == [q EXCEPT !.items = scan.kept, !.depth = scan.depth]
<1>1. /\ q.items \in Seq(Entries(n)) /\ Len(q.items) \in Nat
      /\ \A e \in Entries(n) : e.weight \in Nat
  BY DEF Queues, Entries
<1>3. \A i \in 1..(Len(q.items) - 1) : q.items[i].item \in Chunks(q)
  BY <1>1 DEF Chunks
<1>a. \/ scan = [kept |-> <<>>, depth |-> 0]
      \/ /\ Len(q.items) > 0 /\ q.items[Len(q.items)].item \notin Chunks(q)
         /\ scan = [kept |-> Append(<<>>, q.items[Len(q.items)]),
                    depth |-> 0 + q.items[Len(q.items)].weight]
  BY <1>1, <1>3, ScanAllButLast
<1>4. \/ scan.kept = <<>>
      \/ /\ Len(q.items) > 0 /\ q.items[Len(q.items)].item \notin Chunks(q)
         /\ scan.kept = Append(<<>>, q.items[Len(q.items)])
  BY <1>a
<1>2. scan \in [kept : Seq(Entries(n)), depth : Nat]
  <2>1. CASE scan = [kept |-> <<>>, depth |-> 0]
    BY <2>1
  <2>2. CASE /\ Len(q.items) > 0
             /\ scan = [kept |-> Append(<<>>, q.items[Len(q.items)]),
                        depth |-> 0 + q.items[Len(q.items)].weight]
    <3> DEFINE x == q.items[Len(q.items)]
    <3>1. x \in Entries(n) /\ x.weight \in Nat
      BY <1>1, <2>2
    <3> HIDE DEF x
    <3>2. Append(<<>>, x) \in Seq(Entries(n)) /\ 0 + x.weight \in Nat
      BY <3>1
    <3>3. scan = [kept |-> Append(<<>>, x), depth |-> 0 + x.weight]
      BY <2>2 DEF x
    <3> HIDE DEF scan
    <3> QED  BY <3>2, <3>3
  <2> QED  BY <1>a, <2>1, <2>2
<1>5. \/ Len(scan.kept) = 0
      \/ EndsIn(q) /\ Len(scan.kept) = 1 /\ scan.kept[1].item = EndOfStream
  <2>1. CASE /\ Len(q.items) > 0 /\ q.items[Len(q.items)].item \notin Chunks(q)
             /\ scan.kept = Append(<<>>, q.items[Len(q.items)])
    <3>1. q.items[Len(q.items)].item = EndOfStream /\ q.items # <<>>
      BY <1>1, <2>1 DEF Chunks
    <3>2. Len(scan.kept) = 1 /\ scan.kept[1] = q.items[Len(q.items)]
      BY <2>1
    <3> QED  BY <3>1, <3>2 DEF EndsIn
  <2> QED  BY <1>4, <2>1
<1>6. TextQ!Flushed(q, Chunks(q)) = r /\ AudioQ!Flushed(q, Chunks(q)) = r
  <2>1. TextQ!Scan(q.items, Chunks(q)) = scan /\ AudioQ!Scan(q.items, Chunks(q)) = scan
    BY SameLoop
  <2> HIDE DEF scan
  <2> QED  BY <2>1 DEF TextQ!Flushed, AudioQ!Flushed
<1> HIDE DEF scan
<1>7. r \in Queues(Entries(n)) /\ r.items = scan.kept /\ Alike(q, r)
  BY <1>2, ItemsReplaced
<1> HIDE DEF r
<1>8. ASSUME NEW o \in {TextQ!Observed(r), AudioQ!Observed(r)}
      PROVE  o \in Queues(Entries(n)) /\ IsFlushed(q, o)
  <2>1. o \in Queues(Entries(n)) /\ o.items = scan.kept /\ Alike(r, o)
    BY <1>7, ObservedIs
  <2> QED  BY <1>5, <1>7, <2>1 DEF IsFlushed, Alike
<1> QED  BY <1>6, <1>8

(* What these do to the tokens or chunks of a queue that ends as it should.     *)
LEMMA CarriedAppended ==
  ASSUME NEW E, NEW q \in Queues(E), NEW r \in Queues(E), NEW x, ~EndsIn(q), IsAppended(q, x, r)
  PROVE  /\ r.items # <<>>
         /\ EndsIn(r) <=> x.item = EndOfStream
         /\ (\A i \in 1..(Len(q.items) - 1) : q.items[i].item # EndOfStream) =>
              \A i \in 1..(Len(r.items) - 1) : r.items[i].item # EndOfStream
         /\ Carried(q) \in Nat
         /\ Carried(r) = IF x.item = EndOfStream THEN Carried(q) ELSE Carried(q) + 1
         /\ Carried(q) = Len(q.items)
  BY DEF Queues, IsAppended, EndsIn, Carried

(* get: the item taken was carried, unless it was the EndOfStream.              *)
LEMMA CarriedPopped ==
  ASSUME NEW E, NEW q \in Queues(E), NEW r \in Queues(E), IsPopped(q, r),
         \A i \in 1..(Len(q.items) - 1) : q.items[i].item # EndOfStream
  PROVE  /\ Carried(q) \in Nat /\ Carried(r) \in Nat
         /\ IF q.items[1].item = EndOfStream
            THEN EndsIn(q) /\ r.items = <<>> /\ Carried(r) = 0 /\ Carried(q) = 0
            ELSE Carried(q) = Carried(r) + 1
         /\ EndsIn(r) => EndsIn(q)
         /\ \A i \in 1..(Len(r.items) - 1) : r.items[i].item # EndOfStream
<1>1. Len(q.items) \in Nat /\ Len(r.items) \in Nat /\ q.items \in Seq(E) /\ r.items \in Seq(E)
  BY DEF Queues
<1>2. Len(q.items) = Len(r.items) + 1 /\ \A i \in 1..Len(r.items) : r.items[i] = q.items[i + 1]
  BY DEF IsPopped
<1>3. q.items # <<>> /\ (r.items = <<>> <=> Len(r.items) = 0)
  BY <1>1, <1>2, EmptySeq
<1>4. CASE Len(r.items) = 0
  BY <1>1, <1>2, <1>3, <1>4 DEF Carried, EndsIn
<1>5. CASE Len(r.items) > 0
  <2>1. r.items[Len(r.items)] = q.items[Len(q.items)] /\ 1 \in 1..(Len(q.items) - 1)
    BY <1>1, <1>2, <1>5
  <2>2. EndsIn(r) <=> EndsIn(q)
    BY <1>3, <1>5, <2>1 DEF EndsIn
  <2>3. \A i \in 1..(Len(r.items) - 1) : r.items[i].item # EndOfStream
    BY SMTT(30), <1>1, <1>2
  <2> QED  BY <1>1, <1>2, <2>1, <2>2, <2>3 DEF Carried
<1> QED  BY <1>1, <1>4, <1>5

(* flush: nothing is carried any more.                                          *)
LEMMA CarriedFlushed ==
  ASSUME NEW E, NEW q \in Queues(E), NEW r \in Queues(E), IsFlushed(q, r)
  PROVE  /\ Carried(q) \in Nat /\ Carried(r) = 0
         /\ EndsIn(r) => EndsIn(q)
         /\ q.items = <<>> => r.items = <<>>
         /\ \A i \in 1..(Len(r.items) - 1) : r.items[i].item # EndOfStream
<1>1. Len(q.items) \in Nat /\ Len(r.items) \in Nat /\ q.items \in Seq(E) /\ r.items \in Seq(E)
  BY DEF Queues
<1>2. /\ r.items = <<>> <=> Len(r.items) = 0
      /\ q.items = <<>> <=> Len(q.items) = 0
  BY <1>1, EmptySeq
<1>3. CASE Len(r.items) = 0
  BY <1>1, <1>2, <1>3 DEF Carried, EndsIn
<1>4. CASE EndsIn(q) /\ Len(r.items) = 1 /\ r.items[1].item = EndOfStream
  BY <1>1, <1>2, <1>4 DEF Carried, EndsIn
<1> QED  BY <1>3, <1>4 DEF IsFlushed
--------------------------------------------------------------------------------
(* What the steps on a queue do to it.                                          *)
LEMMA QueueTypes ==
  ASSUME TypeOK
  PROVE  /\ text \in Queues(Entries(MaxTokens)) /\ audio \in Queues(Entries(MaxChunks))
         /\ MaxTokens \in Nat /\ MaxChunks \in Nat
  BY PipelineAssumption DEF TypeOK, QueueType, Queues, Entries

(* The put of llm adds one token, unless the queue is closed.                   *)
LEMMA LlmPutIs ==
  ASSUME TypeOK, LlmPut
  PROVE  \/ TextQ!Stopped(text) /\ UNCHANGED <<text, callback>>
         \/ /\ ~TextQ!Stopped(text)
            /\ text' \in Queues(Entries(MaxTokens))
            /\ \E w \in Nat : IsAppended(text, [item |-> tokens, weight |-> w], text')
            /\ callback' \in {callback, [callback EXCEPT !["llm"] = "told"]}
<1>1. CASE TextQ!Stopped(text) /\ UNCHANGED <<text, callback>>
  BY <1>1
<1>2. ASSUME NEW w \in TextWeights, ~TextQ!Stopped(text),
             LET new == TextQ!Appended(text, tokens, w)
             IN text' = TextQ!Observed(new) /\ Tell("llm", TextQ!Transition(new))
      PROVE  /\ text' \in Queues(Entries(MaxTokens))
             /\ \E v \in Nat : IsAppended(text, [item |-> tokens, weight |-> v], text')
             /\ callback' \in {callback, [callback EXCEPT !["llm"] = "told"]}
  <2>1. tokens \in 0..MaxTokens /\ w \in Nat
    BY PipelineAssumption DEF TypeOK
  <2>2. text' = TextQ!Observed(TextQ!Appended(text, tokens, w))
    BY <1>2
  <2>3. callback' \in {callback, [callback EXCEPT !["llm"] = "told"]}
    BY <1>2 DEF Tell
  <2> QED  BY <2>1, <2>2, <2>3, QueueTypes, AppendedIs
<1> QED  BY <1>1, <1>2 DEF LlmPut

(* The put of tts adds one chunk, unless the queue is closed.                   *)
LEMMA TtsPutIs ==
  ASSUME TypeOK, TtsPut
  PROVE  \/ AudioQ!Stopped(audio) /\ UNCHANGED <<audio, callback>>
         \/ /\ ~AudioQ!Stopped(audio)
            /\ audio' \in Queues(Entries(MaxChunks))
            /\ \E w \in Nat : IsAppended(audio, [item |-> made, weight |-> w], audio')
            /\ callback' \in {callback, [callback EXCEPT !["tts"] = "told"]}
<1>1. CASE AudioQ!Stopped(audio) /\ UNCHANGED <<audio, callback>>
  BY <1>1
<1>2. ASSUME NEW w \in AudioWeights, ~AudioQ!Stopped(audio),
             LET new == AudioQ!Appended(audio, made, w)
             IN audio' = AudioQ!Observed(new) /\ Tell("tts", AudioQ!Transition(new))
      PROVE  /\ audio' \in Queues(Entries(MaxChunks))
             /\ \E v \in Nat : IsAppended(audio, [item |-> made, weight |-> v], audio')
             /\ callback' \in {callback, [callback EXCEPT !["tts"] = "told"]}
  <2>1. made \in 0..MaxChunks /\ w \in Nat
    BY PipelineAssumption DEF TypeOK
  <2>2. audio' = AudioQ!Observed(AudioQ!Appended(audio, made, w))
    BY <1>2
  <2>3. callback' \in {callback, [callback EXCEPT !["tts"] = "told"]}
    BY <1>2 DEF Tell
  <2> QED  BY <2>1, <2>2, <2>3, QueueTypes, AppendedIs
<1> QED  BY <1>1, <1>2 DEF TtsPut

(* llm ends its stream, unless the queue is closed.                             *)
LEMMA LlmEosIs ==
  ASSUME TypeOK, LlmEos
  PROVE  \/ TextQ!Stopped(text) /\ UNCHANGED text
         \/ /\ ~TextQ!Stopped(text)
            /\ text' \in Queues(Entries(MaxTokens))
            /\ IsAppended(text, [item |-> EndOfStream, weight |-> 0], text')
<1>1. EndOfStream \in 0..MaxTokens /\ 0 \in Nat
  BY PipelineAssumption DEF EndOfStream
<1> QED  BY <1>1, QueueTypes, AppendedIs DEF LlmEos

(* tts ends its own.                                                            *)
LEMMA TtsEosIs ==
  ASSUME TypeOK, TtsEos
  PROVE  \/ AudioQ!Stopped(audio) /\ UNCHANGED audio
         \/ /\ ~AudioQ!Stopped(audio)
            /\ audio' \in Queues(Entries(MaxChunks))
            /\ IsAppended(audio, [item |-> EndOfStream, weight |-> 0], audio')
<1>1. EndOfStream \in 0..MaxChunks /\ 0 \in Nat
  BY PipelineAssumption DEF EndOfStream
<1> QED  BY <1>1, QueueTypes, AppendedIs DEF TtsEos

(* tts and transport take the item at the head of their queue.                  *)
LEMMA GetIs ==
  ASSUME TypeOK
  PROVE  /\ TtsGet =>
              /\ text' \in Queues(Entries(MaxTokens)) /\ IsPopped(text, text')
              /\ text.items[1].item \in 0..MaxTokens
              /\ held' = [held EXCEPT !["tts"] = text.items[1].item]
         /\ TransportGet =>
              /\ audio' \in Queues(Entries(MaxChunks)) /\ IsPopped(audio, audio')
              /\ audio.items[1].item \in 0..MaxChunks
              /\ held' = [held EXCEPT !["transport"] = audio.items[1].item]
  BY QueueTypes, PoppedIs DEF TtsGet, TransportGet

(* A cancellation flushes one queue, then the other.                            *)
LEMMA FlushIs ==
  ASSUME TypeOK, TextEnds, AudioEnds, NEW t \in Stages
  PROVE  /\ CancelFlushesText(t) =>
              text' \in Queues(Entries(MaxTokens)) /\ IsFlushed(text, text')
         /\ CancelFlushesAudio(t) =>
              audio' \in Queues(Entries(MaxChunks)) /\ IsFlushed(audio, audio')
  BY QueueTypes, FlushedIs DEF CancelFlushesText, CancelFlushesAudio, TextEnds, AudioEnds

(* The end of the turn closes both queues and leaves their items in them.       *)
LEMMA CloseIs ==
  ASSUME TypeOK, CloseQueues
  PROVE  /\ text' \in Queues(Entries(MaxTokens)) /\ text'.items = text.items
         /\ TextQ!Stopped(text')
         /\ audio' \in Queues(Entries(MaxChunks)) /\ audio'.items = audio.items
         /\ AudioQ!Stopped(audio')
<1>1. ASSUME NEW E, NEW q \in Queues(E)
      PROVE  LET r == [q EXCEPT !.closed = TRUE]
             IN  r \in Queues(E) /\ r.items = q.items /\ r.closed = TRUE
  BY DEF Queues
<1> QED
  BY <1>1, QueueTypes
  DEF CloseQueues, TextQ!Closed, AudioQ!Closed, TextQ!Stopped, AudioQ!Stopped

(* Every task stays on its way, and the message loop knows how it went.         *)
LEMMA PlacesStep ==
  ASSUME TypeOK, Places, TextEnds, AudioEnds, [Next]_vars
  PROVE  Places'
<1>1. CASE LlmNeverStarts
  BY <1>1
  DEF LlmNeverStarts, At, Goto, Places, TypeOK, Past, Tasks, Stages, Final, Halted, AllDone, SomeRaised, Active, Live, EndOfStream, TextQ!Stopped, AudioQ!Stopped, Alike, IsAppended, IsPopped, IsFlushed
<1>2. CASE LlmToken
  BY <1>2
  DEF LlmToken, At, Goto, Leave, Places, TypeOK, Past, Tasks, Stages, Final, Halted, AllDone, SomeRaised, Active, Live, EndOfStream, TextQ!Stopped, AudioQ!Stopped, Alike, IsAppended, IsPopped, IsFlushed
<1>3. CASE LlmCork
  BY <1>3
  DEF LlmCork, At, Goto, Places, TypeOK, Past, Tasks, Stages, Final, Halted, AllDone, SomeRaised, Active, Live, EndOfStream, TextQ!Stopped, AudioQ!Stopped, Alike, IsAppended, IsPopped, IsFlushed
<1>4. CASE LlmPut
  BY ZenonT(30), <1>4, LlmPutIs
  DEF LlmPut, At, Goto, Places, TypeOK, Past, Tasks, Stages, Final, Halted, AllDone, SomeRaised, Active, Live, EndOfStream, TextQ!Stopped, AudioQ!Stopped, Alike, IsAppended, IsPopped, IsFlushed
<1>5. CASE LlmStreamEnds
  BY <1>5
  DEF LlmStreamEnds, At, Goto, Leave, Places, TypeOK, Past, Tasks, Stages, Final, Halted, AllDone, SomeRaised, Active, Live, EndOfStream, TextQ!Stopped, AudioQ!Stopped, Alike, IsAppended, IsPopped, IsFlushed
<1>6. CASE LlmEos
  BY <1>6, LlmEosIs
  DEF LlmEos, At, Goto, AfterEos, Places, TypeOK, Past, Tasks, Stages, Final, Halted, AllDone, SomeRaised, Active, Live, EndOfStream, TextQ!Stopped, AudioQ!Stopped, Alike, IsAppended, IsPopped, IsFlushed
<1>7. CASE TtsNeverStarts
  BY <1>7
  DEF TtsNeverStarts, At, Goto, Places, TypeOK, Past, Tasks, Stages, Final, Halted, AllDone, SomeRaised, Active, Live, EndOfStream, TextQ!Stopped, AudioQ!Stopped, Alike, IsAppended, IsPopped, IsFlushed
<1>8. CASE TtsGet
  BY SMTT(30), <1>8, GetIs
  DEF TtsGet, At, Goto, Places, TypeOK, Past, Tasks, Stages, Final, Halted, AllDone, SomeRaised, Active, Live, EndOfStream, TextQ!Stopped, AudioQ!Stopped, Alike, IsAppended, IsPopped, IsFlushed
<1>9. CASE TtsClosed
  BY <1>9
  DEF TtsClosed, At, Goto, Leave, Places, TypeOK, Past, Tasks, Stages, Final, Halted, AllDone, SomeRaised, Active, Live, EndOfStream, TextQ!Stopped, AudioQ!Stopped, Alike, IsAppended, IsPopped, IsFlushed
<1>10. CASE TtsRaises
  BY <1>10
  DEF TtsRaises, At, Goto, Leave, Places, TypeOK, Past, Tasks, Stages, Final, Halted, AllDone, SomeRaised, Active, Live, EndOfStream, TextQ!Stopped, AudioQ!Stopped, Alike, IsAppended, IsPopped, IsFlushed
<1>11. CASE TtsText
  BY <1>11
  DEF TtsText, At, Goto, Synthesize, Places, TypeOK, Past, Tasks, Stages, Final, Halted, AllDone, SomeRaised, Active, Live, EndOfStream, TextQ!Stopped, AudioQ!Stopped, Alike, IsAppended, IsPopped, IsFlushed
<1>12. CASE TtsLast
  BY <1>12
  DEF TtsLast, At, Goto, Leave, Synthesize, Places, TypeOK, Past, Tasks, Stages, Final, Halted, AllDone, SomeRaised, Active, Live, EndOfStream, TextQ!Stopped, AudioQ!Stopped, Alike, IsAppended, IsPopped, IsFlushed
<1>13. CASE TtsAudio
  BY <1>13
  DEF TtsAudio, At, Goto, Places, TypeOK, Past, Tasks, Stages, Final, Halted, AllDone, SomeRaised, Active, Live, EndOfStream, TextQ!Stopped, AudioQ!Stopped, Alike, IsAppended, IsPopped, IsFlushed
<1>14. CASE TtsCork
  BY <1>14
  DEF TtsCork, At, Goto, Places, TypeOK, Past, Tasks, Stages, Final, Halted, AllDone, SomeRaised, Active, Live, EndOfStream, TextQ!Stopped, AudioQ!Stopped, Alike, IsAppended, IsPopped, IsFlushed
<1>15. CASE TtsPut
  BY ZenonT(30), <1>15, TtsPutIs
  DEF TtsPut, At, Goto, Places, TypeOK, Past, Tasks, Stages, Final, Halted, AllDone, SomeRaised, Active, Live, EndOfStream, TextQ!Stopped, AudioQ!Stopped, Alike, IsAppended, IsPopped, IsFlushed
<1>16. CASE TtsPhraseEnds
  BY <1>16
  DEF TtsPhraseEnds, At, Goto, Leave, Places, TypeOK, Past, Tasks, Stages, Final, Halted, AllDone, SomeRaised, Active, Live, EndOfStream, TextQ!Stopped, AudioQ!Stopped, Alike, IsAppended, IsPopped, IsFlushed
<1>17. CASE TtsEos
  BY <1>17, TtsEosIs
  DEF TtsEos, At, Goto, AfterEos, Places, TypeOK, Past, Tasks, Stages, Final, Halted, AllDone, SomeRaised, Active, Live, EndOfStream, TextQ!Stopped, AudioQ!Stopped, Alike, IsAppended, IsPopped, IsFlushed
<1>18. CASE TransportGet
  BY <1>18, GetIs
  DEF TransportGet, At, Goto, Places, TypeOK, Past, Tasks, Stages, Final, Halted, AllDone, SomeRaised, Active, Live, EndOfStream, TextQ!Stopped, AudioQ!Stopped, Alike, IsAppended, IsPopped, IsFlushed
<1>19. CASE TransportClosed
  BY <1>19
  DEF TransportClosed, At, Goto, Places, TypeOK, Past, Tasks, Stages, Final, Halted, AllDone, SomeRaised, Active, Live, EndOfStream, TextQ!Stopped, AudioQ!Stopped, Alike, IsAppended, IsPopped, IsFlushed
<1>20. CASE TransportSend
  BY <1>20
  DEF TransportSend, At, Goto, Places, TypeOK, Past, Tasks, Stages, Final, Halted, AllDone, SomeRaised, Active, Live, EndOfStream, TextQ!Stopped, AudioQ!Stopped, Alike, IsAppended, IsPopped, IsFlushed
<1>21. ASSUME NEW t \in Tasks, Publish(t) PROVE Places'
  BY <1>21
  DEF Publish, At, Goto, Places, TypeOK, Past, Tasks, Stages, Final, Halted, AllDone, SomeRaised, Active, Live, EndOfStream, TextQ!Stopped, AudioQ!Stopped, Alike, IsAppended, IsPopped, IsFlushed
<1>22. ASSUME NEW t \in Stages, CancelBegins(t) PROVE Places'
  BY <1>22
  DEF CancelBegins, Places, TypeOK, Past, Tasks, Stages, Final, Halted, AllDone, SomeRaised, Active, Live, EndOfStream, TextQ!Stopped, AudioQ!Stopped, Alike, IsAppended, IsPopped, IsFlushed
<1>23. ASSUME NEW t \in Stages, CancelFlushesText(t) PROVE Places'
  <2>1. Alike(text, text')
    BY <1>23, FlushIs DEF IsFlushed
  <2> QED
    BY <1>23, <2>1
    DEF CancelFlushesText, Places, TypeOK, Past, Tasks, Stages, Halted, AllDone, TextQ!Stopped, AudioQ!Stopped, Alike
<1>24. ASSUME NEW t \in Stages, CancelFlushesAudio(t) PROVE Places'
  <2>1. Alike(audio, audio')
    BY <1>24, FlushIs DEF IsFlushed
  <2> QED
    BY <1>24, <2>1
    DEF CancelFlushesAudio, Places, TypeOK, Past, Tasks, Stages, Halted, AllDone, TextQ!Stopped, AudioQ!Stopped, Alike
<1>25. ASSUME NEW t \in Stages, CancelMarks(t) PROVE Places'
  BY <1>25
  DEF CancelMarks, Places, TypeOK, Past, Tasks, Stages, Final, Halted, AllDone, SomeRaised, Active, Live, EndOfStream, TextQ!Stopped, AudioQ!Stopped, Alike, IsAppended, IsPopped, IsFlushed
<1>26. ASSUME NEW t \in Stages, CallbackRaises(t) PROVE Places'
  BY <1>26
  DEF CallbackRaises, Goto, Leave, Places, TypeOK, Past, Tasks, Stages, Final, Halted, AllDone, SomeRaised, Active, Live, EndOfStream, TextQ!Stopped, AudioQ!Stopped, Alike, IsAppended, IsPopped, IsFlushed
<1>27. CASE GatherReturns
  BY <1>27, CloseIs
  DEF GatherReturns, Places, TypeOK, Past, Tasks, Stages, Final, Halted, AllDone, SomeRaised, Active, Live, EndOfStream, TextQ!Stopped, AudioQ!Stopped, Alike, IsAppended, IsPopped, IsFlushed
<1>28. CASE GatherRaises
  BY <1>28, CloseIs
  DEF GatherRaises, Places, TypeOK, Past, Tasks, Stages, Final, Halted, AllDone, SomeRaised, Active, Live, EndOfStream, TextQ!Stopped, AudioQ!Stopped, Alike, IsAppended, IsPopped, IsFlushed
<1>29. CASE TimeoutFires
  BY <1>29
  DEF TimeoutFires, Places, TypeOK, Past, Tasks, Stages, Final, Halted, AllDone, SomeRaised, Active, Live, EndOfStream, TextQ!Stopped, AudioQ!Stopped, Alike, IsAppended, IsPopped, IsFlushed
<1>30. CASE TimeoutEnds
  BY <1>30, CloseIs
  DEF TimeoutEnds, Places, TypeOK, Past, Tasks, Stages, Final, Halted, AllDone, SomeRaised, Active, Live, EndOfStream, TextQ!Stopped, AudioQ!Stopped, Alike, IsAppended, IsPopped, IsFlushed
<1>31. CASE PlaybackDone
  BY <1>31
  DEF PlaybackDone, Places, TypeOK, Past, Tasks, Stages, Final, Halted, AllDone, SomeRaised, Active, Live, EndOfStream, TextQ!Stopped, AudioQ!Stopped, Alike, IsAppended, IsPopped, IsFlushed
<1>32. CASE BargeIn
  BY <1>32
  DEF BargeIn, Places, TypeOK, Past, Tasks, Stages, Final, Halted, AllDone, SomeRaised, Active, Live, EndOfStream, TextQ!Stopped, AudioQ!Stopped, Alike, IsAppended, IsPopped, IsFlushed
<1>33. CASE UNCHANGED vars
  BY <1>33
  DEF vars, Places, TypeOK, Past, Tasks, Stages, Final, Halted, AllDone, SomeRaised, Active, Live, EndOfStream, TextQ!Stopped, AudioQ!Stopped, Alike, IsAppended, IsPopped, IsFlushed
<1> QED
  BY <1>1, <1>2, <1>3, <1>4, <1>5, <1>6, <1>7, <1>8, <1>9, <1>10, <1>11, <1>12, <1>13, <1>14, <1>15, <1>16, <1>17, <1>18, <1>19, <1>20, <1>21, <1>22, <1>23, <1>24, <1>25, <1>26, <1>27, <1>28, <1>29, <1>30, <1>31, <1>32, <1>33
  DEF Next, LlmNext, TtsNext, TransportNext, PublishNext, CancelNext, GatherNext, Terminated

(* A second cancellation does not begin, and the mark of the first is the last. *)
LEMMA CancellingStep ==
  ASSUME TypeOK, Places, TextEnds, AudioEnds, Cancelling, InterruptedIsFinal, [Next]_vars
  PROVE  Cancelling' /\ InterruptedIsFinal'
<1>1. CASE LlmNeverStarts
  BY <1>1
  DEF LlmNeverStarts, At, Goto, Cancelling, InterruptedIsFinal, Flushing, Places, TypeOK, Past, Tasks, Stages, Active, Live, Final
<1>2. CASE LlmToken
  BY <1>2
  DEF LlmToken, At, Goto, Leave, Cancelling, InterruptedIsFinal, Flushing, Places, TypeOK, Past, Tasks, Stages, Active, Live, Final
<1>3. CASE LlmCork
  BY <1>3
  DEF LlmCork, At, Goto, Cancelling, InterruptedIsFinal, Flushing, Places, TypeOK, Past, Tasks, Stages, Active, Live, Final
<1>4. CASE LlmPut
  BY <1>4, LlmPutIs
  DEF LlmPut, At, Goto, Cancelling, InterruptedIsFinal, Flushing, Places, TypeOK, Past, Tasks, Stages, Active, Live, Final
<1>5. CASE LlmStreamEnds
  BY <1>5
  DEF LlmStreamEnds, At, Goto, Leave, Cancelling, InterruptedIsFinal, Flushing, Places, TypeOK, Past, Tasks, Stages, Active, Live, Final
<1>6. CASE LlmEos
  BY <1>6, LlmEosIs
  DEF LlmEos, At, Goto, AfterEos, Cancelling, InterruptedIsFinal, Flushing, Places, TypeOK, Past, Tasks, Stages, Active, Live, Final
<1>7. CASE TtsNeverStarts
  BY <1>7
  DEF TtsNeverStarts, At, Goto, Cancelling, InterruptedIsFinal, Flushing, Places, TypeOK, Past, Tasks, Stages, Active, Live, Final
<1>8. CASE TtsGet
  BY <1>8, GetIs
  DEF TtsGet, At, Goto, Cancelling, InterruptedIsFinal, Flushing, Places, TypeOK, Past, Tasks, Stages, Active, Live, Final
<1>9. CASE TtsClosed
  BY <1>9
  DEF TtsClosed, At, Goto, Leave, Cancelling, InterruptedIsFinal, Flushing, Places, TypeOK, Past, Tasks, Stages, Active, Live, Final
<1>10. CASE TtsRaises
  BY <1>10
  DEF TtsRaises, At, Goto, Leave, Cancelling, InterruptedIsFinal, Flushing, Places, TypeOK, Past, Tasks, Stages, Active, Live, Final
<1>11. CASE TtsText
  BY <1>11
  DEF TtsText, At, Goto, Synthesize, Cancelling, InterruptedIsFinal, Flushing, Places, TypeOK, Past, Tasks, Stages, Active, Live, Final
<1>12. CASE TtsLast
  BY <1>12
  DEF TtsLast, At, Goto, Leave, Synthesize, Cancelling, InterruptedIsFinal, Flushing, Places, TypeOK, Past, Tasks, Stages, Active, Live, Final
<1>13. CASE TtsAudio
  BY <1>13
  DEF TtsAudio, At, Goto, Cancelling, InterruptedIsFinal, Flushing, Places, TypeOK, Past, Tasks, Stages, Active, Live, Final
<1>14. CASE TtsCork
  BY <1>14
  DEF TtsCork, At, Goto, Cancelling, InterruptedIsFinal, Flushing, Places, TypeOK, Past, Tasks, Stages, Active, Live, Final
<1>15. CASE TtsPut
  BY <1>15, TtsPutIs
  DEF TtsPut, At, Goto, Cancelling, InterruptedIsFinal, Flushing, Places, TypeOK, Past, Tasks, Stages, Active, Live, Final
<1>16. CASE TtsPhraseEnds
  BY <1>16
  DEF TtsPhraseEnds, At, Goto, Leave, Cancelling, InterruptedIsFinal, Flushing, Places, TypeOK, Past, Tasks, Stages, Active, Live, Final
<1>17. CASE TtsEos
  BY <1>17, TtsEosIs
  DEF TtsEos, At, Goto, AfterEos, Cancelling, InterruptedIsFinal, Flushing, Places, TypeOK, Past, Tasks, Stages, Active, Live, Final
<1>18. CASE TransportGet
  BY <1>18, GetIs
  DEF TransportGet, At, Goto, Cancelling, InterruptedIsFinal, Flushing, Places, TypeOK, Past, Tasks, Stages, Active, Live, Final
<1>19. CASE TransportClosed
  BY <1>19
  DEF TransportClosed, At, Goto, Cancelling, InterruptedIsFinal, Flushing, Places, TypeOK, Past, Tasks, Stages, Active, Live, Final
<1>20. CASE TransportSend
  BY <1>20
  DEF TransportSend, At, Goto, Cancelling, InterruptedIsFinal, Flushing, Places, TypeOK, Past, Tasks, Stages, Active, Live, Final
<1>21. ASSUME NEW t \in Tasks, Publish(t) PROVE Cancelling' /\ InterruptedIsFinal'
  BY <1>21
  DEF Publish, At, Goto, Cancelling, InterruptedIsFinal, Flushing, Places, TypeOK, Past, Tasks, Stages, Active, Live, Final
<1>22. ASSUME NEW t \in Stages, CancelBegins(t) PROVE Cancelling' /\ InterruptedIsFinal'
  <2>1. CASE ~Active
    BY <1>22, <2>1 DEF CancelBegins, Cancelling, InterruptedIsFinal, Flushing, Places, TypeOK, Past, Tasks, Stages, Active, Live, Final
  <2>2. CASE Active /\ Live
    BY <1>22, <2>2 DEF CancelBegins, Cancelling, InterruptedIsFinal, Flushing, Places, TypeOK, Past, Tasks, Stages, Active, Live, Final
  <2>3. CASE Active /\ ~Live
    <3>1. /\ callback' = [callback EXCEPT ![t] = "none"] /\ response' = "cancelled"
          /\ entries' = Append(entries, "interrupted")
      BY <1>22, <2>3 DEF CancelBegins
    <3>2. /\ \A u \in Stages : ~Flushing(u)
          /\ \A i \in DOMAIN entries : entries[i] = "completed"
      BY <2>3 DEF Cancelling, Active
    <3>3. \A u \in Stages : ~Flushing(u)'
      BY <3>1, <3>2 DEF Flushing, TypeOK, Stages
    <3> QED  BY <3>1, <3>2, <3>3 DEF Cancelling, InterruptedIsFinal, TypeOK, Active
  <2> QED  BY <2>1, <2>2, <2>3
<1>23. ASSUME NEW t \in Stages, CancelFlushesText(t) PROVE Cancelling' /\ InterruptedIsFinal'
  BY <1>23, FlushIs
  DEF CancelFlushesText, Cancelling, InterruptedIsFinal, Flushing, Places, TypeOK, Past, Tasks, Stages, Active, Live, Final
<1>24. ASSUME NEW t \in Stages, CancelFlushesAudio(t) PROVE Cancelling' /\ InterruptedIsFinal'
  BY <1>24, FlushIs
  DEF CancelFlushesAudio, Cancelling, InterruptedIsFinal, Flushing, Places, TypeOK, Past, Tasks, Stages, Active, Live, Final
<1>25. ASSUME NEW t \in Stages, CancelMarks(t) PROVE Cancelling' /\ InterruptedIsFinal'
  BY <1>25
  DEF CancelMarks, Cancelling, InterruptedIsFinal, Flushing, Places, TypeOK, Past, Tasks, Stages, Active, Live, Final
<1>26. ASSUME NEW t \in Stages, CallbackRaises(t) PROVE Cancelling' /\ InterruptedIsFinal'
  BY <1>26
  DEF CallbackRaises, Goto, Leave, Cancelling, InterruptedIsFinal, Flushing, Places, TypeOK, Past, Tasks, Stages, Active, Live, Final
<1>27. CASE GatherReturns
  BY <1>27, CloseIs
  DEF GatherReturns, Cancelling, InterruptedIsFinal, Flushing, Places, TypeOK, Past, Tasks, Stages, Active, Live, Final
<1>28. CASE GatherRaises
  BY <1>28, CloseIs
  DEF GatherRaises, Cancelling, InterruptedIsFinal, Flushing, Places, TypeOK, Past, Tasks, Stages, Active, Live, Final
<1>29. CASE TimeoutFires
  BY <1>29
  DEF TimeoutFires, Cancelling, InterruptedIsFinal, Flushing, Places, TypeOK, Past, Tasks, Stages, Active, Live, Final
<1>30. CASE TimeoutEnds
  BY <1>30, CloseIs
  DEF TimeoutEnds, Cancelling, InterruptedIsFinal, Flushing, Places, TypeOK, Past, Tasks, Stages, Active, Live, Final
<1>31. CASE PlaybackDone
  BY <1>31
  DEF PlaybackDone, Cancelling, InterruptedIsFinal, Flushing, Places, TypeOK, Past, Tasks, Stages, Active, Live, Final
<1>32. CASE BargeIn
  BY <1>32
  DEF BargeIn, Cancelling, InterruptedIsFinal, Flushing, Places, TypeOK, Past, Tasks, Stages, Active, Live, Final
<1>33. CASE UNCHANGED vars
  BY <1>33
  DEF vars, Cancelling, InterruptedIsFinal, Flushing, Places, TypeOK, Past, Tasks, Stages, Active, Live, Final
<1> QED
  BY <1>1, <1>2, <1>3, <1>4, <1>5, <1>6, <1>7, <1>8, <1>9, <1>10, <1>11, <1>12, <1>13, <1>14, <1>15, <1>16, <1>17, <1>18, <1>19, <1>20, <1>21, <1>22, <1>23, <1>24, <1>25, <1>26, <1>27, <1>28, <1>29, <1>30, <1>31, <1>32, <1>33
  DEF Next, LlmNext, TtsNext, TransportNext, PublishNext, CancelNext, GatherNext, Terminated

(* Nothing follows the EndOfStream of the text, and it is the last tts takes.   *)
LEMMA TextEndsStep ==
  ASSUME TypeOK, Places, TextEnds, AudioEnds, [Next]_vars
  PROVE  TextEnds'
<1>1. CASE LlmNeverStarts
  BY <1>1
  DEF LlmNeverStarts, At, Goto, TextEnds, TextOver, Places, TypeOK, Past, Tasks, Stages, Final, Halted
<1>2. CASE LlmToken
  BY <1>2
  DEF LlmToken, At, Goto, Leave, TextEnds, TextOver, Places, TypeOK, Past, Tasks, Stages, Final, Halted
<1>3. CASE LlmCork
  BY <1>3
  DEF LlmCork, At, Goto, TextEnds, TextOver, Places, TypeOK, Past, Tasks, Stages, Final, Halted
<1>4. CASE LlmPut
  <2>1. CASE UNCHANGED text
    <3>1. /\ pc' = [pc EXCEPT !["llm"] = pc'["llm"]] /\ pc["llm"] \notin Past
          /\ UNCHANGED <<fate, held, parent>>
      BY <1>4 DEF LlmPut, At, Goto, TypeOK, Tasks, Past
    <3>2. TextOver' => TextOver
      BY <1>4 DEF LlmPut, At, Goto, TextOver, TypeOK, Tasks
    <3> QED  BY <2>1, <3>1, <3>2 DEF TextEnds, EndsIn, Halted
  <2>2. ASSUME NEW w \in Nat, ~TextQ!Stopped(text), text' \in Queues(Entries(MaxTokens)),
               IsAppended(text, [item |-> tokens, weight |-> w], text')
        PROVE  TextEnds'
    <3>1. /\ ~EndsIn(text) /\ ~TextOver /\ tokens # EndOfStream
          /\ \A i \in 1..(Len(text.items) - 1) : text.items[i].item # EndOfStream
      BY <1>4, <2>2 DEF LlmPut, At, TextEnds, Places, TypeOK, Past, EndOfStream
    <3>2. /\ ~EndsIn(text')
          /\ \A i \in 1..(Len(text'.items) - 1) : text'.items[i].item # EndOfStream
      <4> DEFINE x == [item |-> tokens, weight |-> w]
      <4>1. text \in Queues(Entries(MaxTokens)) /\ x.item = tokens
        BY QueueTypes
      <4> HIDE DEF x
      <4>2. IsAppended(text, x, text')
        BY <2>2 DEF x
      <4> QED  BY <2>2, <3>1, <4>1, <4>2, CarriedAppended
    <3>3. ~TextOver'
      BY <1>4, <3>1 DEF LlmPut, At, Goto, TextOver, TypeOK, Tasks, Stages
    <3> QED  BY <3>2, <3>3 DEF TextEnds
  <2> QED  BY <1>4, <2>1, <2>2, LlmPutIs
<1>5. CASE LlmStreamEnds
  BY <1>5
  DEF LlmStreamEnds, At, Goto, Leave, TextEnds, TextOver, Places, TypeOK, Past, Tasks, Stages, Final, Halted
<1>6. CASE LlmEos
  BY ZenonT(30), <1>6, LlmEosIs, CarriedAppended, QueueTypes
  DEF LlmEos, At, Goto, AfterEos, TextEnds, TextOver, Places, TypeOK, Past, Tasks, Stages, Final, Halted
<1>7. CASE TtsNeverStarts
  BY <1>7
  DEF TtsNeverStarts, At, Goto, TextEnds, TextOver, Places, TypeOK, Past, Tasks, Stages, Final, Halted
<1>8. CASE TtsGet
  <2>1. IsPopped(text, text') /\ held' = [held EXCEPT !["tts"] = text.items[1].item]
    BY <1>8, GetIs
  <2>2. /\ IF text.items[1].item = EndOfStream THEN EndsIn(text) /\ text'.items = <<>>
           ELSE TRUE
        /\ EndsIn(text') => EndsIn(text)
        /\ \A i \in 1..(Len(text'.items) - 1) : text'.items[i].item # EndOfStream
    BY <1>8, <2>1, GetIs, CarriedPopped, QueueTypes DEF TextEnds
  <2>3. TextOver' => text.items[1].item = EndOfStream
    BY <1>8, <2>1 DEF TtsGet, At, Goto, TextOver, TypeOK, Tasks, Stages
  <2>4. UNCHANGED parent /\ (pc["llm"] \in Past => pc'["llm"] \in Past)
    BY <1>8 DEF TtsGet, At, Goto, TypeOK, Tasks
  <2> QED  BY <2>2, <2>3, <2>4 DEF TextEnds
<1>9. CASE TtsClosed
  BY <1>9
  DEF TtsClosed, At, Goto, Leave, TextEnds, TextOver, Places, TypeOK, Past, Tasks, Stages, Final, Halted
<1>10. CASE TtsRaises
  BY <1>10
  DEF TtsRaises, At, Goto, Leave, TextEnds, TextOver, Places, TypeOK, Past, Tasks, Stages, Final, Halted
<1>11. CASE TtsText
  BY <1>11
  DEF TtsText, At, Goto, Synthesize, TextEnds, TextOver, Places, TypeOK, Past, Tasks, Stages, Final, Halted
<1>12. CASE TtsLast
  BY <1>12
  DEF TtsLast, At, Goto, Leave, Synthesize, TextEnds, TextOver, Places, TypeOK, Past, Tasks, Stages, Final, Halted
<1>13. CASE TtsAudio
  BY <1>13
  DEF TtsAudio, At, Goto, TextEnds, TextOver, Places, TypeOK, Past, Tasks, Stages, Final, Halted
<1>14. CASE TtsCork
  BY <1>14
  DEF TtsCork, At, Goto, TextEnds, TextOver, Places, TypeOK, Past, Tasks, Stages, Final, Halted
<1>15. CASE TtsPut
  BY <1>15, TtsPutIs
  DEF TtsPut, At, Goto, TextEnds, TextOver, Places, TypeOK, Past, Tasks, Stages, Final, Halted
<1>16. CASE TtsPhraseEnds
  BY <1>16
  DEF TtsPhraseEnds, At, Goto, Leave, TextEnds, TextOver, Places, TypeOK, Past, Tasks, Stages, Final, Halted
<1>17. CASE TtsEos
  BY <1>17, TtsEosIs
  DEF TtsEos, At, Goto, AfterEos, TextEnds, TextOver, Places, TypeOK, Past, Tasks, Stages, Final, Halted
<1>18. CASE TransportGet
  BY <1>18, GetIs
  DEF TransportGet, At, Goto, TextEnds, TextOver, Places, TypeOK, Past, Tasks, Stages, Final, Halted
<1>19. CASE TransportClosed
  BY <1>19
  DEF TransportClosed, At, Goto, TextEnds, TextOver, Places, TypeOK, Past, Tasks, Stages, Final, Halted
<1>20. CASE TransportSend
  BY <1>20
  DEF TransportSend, At, Goto, TextEnds, TextOver, Places, TypeOK, Past, Tasks, Stages, Final, Halted
<1>21. ASSUME NEW t \in Tasks, Publish(t) PROVE TextEnds'
  BY <1>21
  DEF Publish, At, Goto, TextEnds, TextOver, Places, TypeOK, Past, Tasks, Stages, Final, Halted
<1>22. ASSUME NEW t \in Stages, CancelBegins(t) PROVE TextEnds'
  BY <1>22
  DEF CancelBegins, TextEnds, TextOver, Places, TypeOK, Past, Tasks, Stages, Final, Halted
<1>23. ASSUME NEW t \in Stages, CancelFlushesText(t) PROVE TextEnds'
  <2>1. text \in Queues(Entries(MaxTokens)) /\ text' \in Queues(Entries(MaxTokens))
        /\ IsFlushed(text, text')
    BY <1>23, FlushIs, QueueTypes
  <2>2. /\ EndsIn(text') => EndsIn(text)
        /\ text.items = <<>> => text'.items = <<>>
        /\ \A i \in 1..(Len(text'.items) - 1) : text'.items[i].item # EndOfStream
    BY <2>1, CarriedFlushed
  <2>3. pc' = pc /\ (TextOver' <=> TextOver) /\ (Halted' <=> Halted)
    BY <1>23 DEF CancelFlushesText, TextOver, Halted
  <2> QED  BY <2>2, <2>3 DEF TextEnds
<1>24. ASSUME NEW t \in Stages, CancelFlushesAudio(t) PROVE TextEnds'
  BY <1>24, FlushIs
  DEF CancelFlushesAudio, TextEnds, TextOver, Places, TypeOK, Past, Tasks, Stages, Final, Halted
<1>25. ASSUME NEW t \in Stages, CancelMarks(t) PROVE TextEnds'
  BY <1>25
  DEF CancelMarks, TextEnds, TextOver, Places, TypeOK, Past, Tasks, Stages, Final, Halted
<1>26. ASSUME NEW t \in Stages, CallbackRaises(t) PROVE TextEnds'
  BY <1>26
  DEF CallbackRaises, Goto, Leave, TextEnds, TextOver, Places, TypeOK, Past, Tasks, Stages, Final, Halted
<1>27. CASE GatherReturns
  BY <1>27, CloseIs
  DEF GatherReturns, EndsIn, TextEnds, TextOver, Places, TypeOK, Past, Tasks, Stages, Final, Halted
<1>28. CASE GatherRaises
  BY <1>28, CloseIs
  DEF GatherRaises, EndsIn, TextEnds, TextOver, Places, TypeOK, Past, Tasks, Stages, Final, Halted
<1>29. CASE TimeoutFires
  BY <1>29
  DEF TimeoutFires, SomeRaised, TextEnds, TextOver, Places, TypeOK, Past, Tasks, Stages, Final, Halted
<1>30. CASE TimeoutEnds
  BY <1>30, CloseIs
  DEF TimeoutEnds, TextEnds, TextOver, Places, TypeOK, Past, Tasks, Stages, Final, Halted
<1>31. CASE PlaybackDone
  BY <1>31
  DEF PlaybackDone, TextEnds, TextOver, Places, TypeOK, Past, Tasks, Stages, Final, Halted
<1>32. CASE BargeIn
  BY <1>32
  DEF BargeIn, TextEnds, TextOver, Places, TypeOK, Past, Tasks, Stages, Final, Halted
<1>33. CASE UNCHANGED vars
  BY <1>33
  DEF vars, TextEnds, TextOver, Places, TypeOK, Past, Tasks, Stages, Final, Halted
<1> QED
  BY <1>1, <1>2, <1>3, <1>4, <1>5, <1>6, <1>7, <1>8, <1>9, <1>10, <1>11, <1>12, <1>13, <1>14, <1>15, <1>16, <1>17, <1>18, <1>19, <1>20, <1>21, <1>22, <1>23, <1>24, <1>25, <1>26, <1>27, <1>28, <1>29, <1>30, <1>31, <1>32, <1>33
  DEF Next, LlmNext, TtsNext, TransportNext, PublishNext, CancelNext, GatherNext, Terminated

(* Nor that of the audio.                                                       *)
LEMMA AudioEndsStep ==
  ASSUME TypeOK, Places, TextEnds, AudioEnds, [Next]_vars
  PROVE  AudioEnds'
<1>1. CASE LlmNeverStarts
  BY <1>1
  DEF LlmNeverStarts, At, Goto, AudioEnds, AudioOver, Places, TypeOK, Past, Tasks, Stages, Final, Halted
<1>2. CASE LlmToken
  BY <1>2
  DEF LlmToken, At, Goto, Leave, AudioEnds, AudioOver, Places, TypeOK, Past, Tasks, Stages, Final, Halted
<1>3. CASE LlmCork
  BY <1>3
  DEF LlmCork, At, Goto, AudioEnds, AudioOver, Places, TypeOK, Past, Tasks, Stages, Final, Halted
<1>4. CASE LlmPut
  BY <1>4, LlmPutIs
  DEF LlmPut, At, Goto, AudioEnds, AudioOver, Places, TypeOK, Past, Tasks, Stages, Final, Halted
<1>5. CASE LlmStreamEnds
  BY <1>5
  DEF LlmStreamEnds, At, Goto, Leave, AudioEnds, AudioOver, Places, TypeOK, Past, Tasks, Stages, Final, Halted
<1>6. CASE LlmEos
  BY <1>6, LlmEosIs
  DEF LlmEos, At, Goto, AfterEos, AudioEnds, AudioOver, Places, TypeOK, Past, Tasks, Stages, Final, Halted
<1>7. CASE TtsNeverStarts
  BY <1>7
  DEF TtsNeverStarts, At, Goto, AudioEnds, AudioOver, Places, TypeOK, Past, Tasks, Stages, Final, Halted
<1>8. CASE TtsGet
  BY <1>8, GetIs
  DEF TtsGet, At, Goto, AudioEnds, AudioOver, Places, TypeOK, Past, Tasks, Stages, Final, Halted
<1>9. CASE TtsClosed
  BY <1>9
  DEF TtsClosed, At, Goto, Leave, AudioEnds, AudioOver, Places, TypeOK, Past, Tasks, Stages, Final, Halted
<1>10. CASE TtsRaises
  BY <1>10
  DEF TtsRaises, At, Goto, Leave, AudioEnds, AudioOver, Places, TypeOK, Past, Tasks, Stages, Final, Halted
<1>11. CASE TtsText
  BY <1>11
  DEF TtsText, At, Goto, Synthesize, AudioEnds, AudioOver, Places, TypeOK, Past, Tasks, Stages, Final, Halted
<1>12. CASE TtsLast
  BY <1>12
  DEF TtsLast, At, Goto, Leave, Synthesize, AudioEnds, AudioOver, Places, TypeOK, Past, Tasks, Stages, Final, Halted
<1>13. CASE TtsAudio
  BY <1>13
  DEF TtsAudio, At, Goto, AudioEnds, AudioOver, Places, TypeOK, Past, Tasks, Stages, Final, Halted
<1>14. CASE TtsCork
  BY <1>14
  DEF TtsCork, At, Goto, AudioEnds, AudioOver, Places, TypeOK, Past, Tasks, Stages, Final, Halted
<1>15. CASE TtsPut
  <2>1. CASE UNCHANGED audio
    <3>1. /\ pc' = [pc EXCEPT !["tts"] = pc'["tts"]] /\ pc["tts"] \notin Past
          /\ UNCHANGED <<fate, held, parent>>
      BY <1>15 DEF TtsPut, At, Goto, TypeOK, Tasks, Past
    <3>2. AudioOver' => AudioOver
      BY <1>15 DEF TtsPut, At, Goto, AudioOver, TypeOK, Tasks
    <3> QED  BY <2>1, <3>1, <3>2 DEF AudioEnds, EndsIn, Halted
  <2>2. ASSUME NEW w \in Nat, ~AudioQ!Stopped(audio), audio' \in Queues(Entries(MaxChunks)),
               IsAppended(audio, [item |-> made, weight |-> w], audio')
        PROVE  AudioEnds'
    <3>1. /\ ~EndsIn(audio) /\ ~AudioOver /\ made # EndOfStream
          /\ \A i \in 1..(Len(audio.items) - 1) : audio.items[i].item # EndOfStream
      BY <1>15, <2>2 DEF TtsPut, At, AudioEnds, Places, TypeOK, Past, EndOfStream
    <3>2. /\ ~EndsIn(audio')
          /\ \A i \in 1..(Len(audio'.items) - 1) : audio'.items[i].item # EndOfStream
      BY <2>2, <3>1, CarriedAppended, QueueTypes
    <3>3. ~AudioOver'
      BY <1>15, <3>1 DEF TtsPut, At, Goto, AudioOver, TypeOK, Tasks, Stages
    <3> QED  BY <3>2, <3>3 DEF AudioEnds
  <2> QED  BY <1>15, <2>1, <2>2, TtsPutIs
<1>16. CASE TtsPhraseEnds
  BY <1>16
  DEF TtsPhraseEnds, At, Goto, Leave, AudioEnds, AudioOver, Places, TypeOK, Past, Tasks, Stages, Final, Halted
<1>17. CASE TtsEos
  BY ZenonT(30), <1>17, TtsEosIs, CarriedAppended, QueueTypes
  DEF TtsEos, At, Goto, AfterEos, AudioEnds, AudioOver, Places, TypeOK, Past, Tasks, Stages, Final, Halted
<1>18. CASE TransportGet
  <2>1. IsPopped(audio, audio') /\ held' = [held EXCEPT !["transport"] = audio.items[1].item]
    BY <1>18, GetIs
  <2>2. /\ IF audio.items[1].item = EndOfStream THEN EndsIn(audio) /\ audio'.items = <<>>
           ELSE TRUE
        /\ EndsIn(audio') => EndsIn(audio)
        /\ \A i \in 1..(Len(audio'.items) - 1) : audio'.items[i].item # EndOfStream
    BY <1>18, <2>1, GetIs, CarriedPopped, QueueTypes DEF AudioEnds
  <2>3. AudioOver' => audio.items[1].item = EndOfStream
    BY <1>18, <2>1 DEF TransportGet, At, Goto, AudioOver, TypeOK, Tasks, Stages
  <2>4. UNCHANGED parent /\ (pc["tts"] \in Past => pc'["tts"] \in Past)
    BY <1>18 DEF TransportGet, At, Goto, TypeOK, Tasks
  <2> QED  BY <2>2, <2>3, <2>4 DEF AudioEnds
<1>19. CASE TransportClosed
  BY <1>19
  DEF TransportClosed, At, Goto, AudioEnds, AudioOver, Places, TypeOK, Past, Tasks, Stages, Final, Halted
<1>20. CASE TransportSend
  BY <1>20
  DEF TransportSend, At, Goto, AudioEnds, AudioOver, Places, TypeOK, Past, Tasks, Stages, Final, Halted
<1>21. ASSUME NEW t \in Tasks, Publish(t) PROVE AudioEnds'
  BY <1>21
  DEF Publish, At, Goto, AudioEnds, AudioOver, Places, TypeOK, Past, Tasks, Stages, Final, Halted
<1>22. ASSUME NEW t \in Stages, CancelBegins(t) PROVE AudioEnds'
  BY <1>22
  DEF CancelBegins, AudioEnds, AudioOver, Places, TypeOK, Past, Tasks, Stages, Final, Halted
<1>23. ASSUME NEW t \in Stages, CancelFlushesText(t) PROVE AudioEnds'
  BY <1>23, FlushIs
  DEF CancelFlushesText, AudioEnds, AudioOver, Places, TypeOK, Past, Tasks, Stages, Final, Halted
<1>24. ASSUME NEW t \in Stages, CancelFlushesAudio(t) PROVE AudioEnds'
  <2>1. /\ EndsIn(audio') => EndsIn(audio)
        /\ audio.items = <<>> => audio'.items = <<>>
        /\ \A i \in 1..(Len(audio'.items) - 1) : audio'.items[i].item # EndOfStream
    BY <1>24, FlushIs, CarriedFlushed, QueueTypes
  <2>2. (AudioOver' => AudioOver) /\ UNCHANGED <<pc, parent>>
    BY <1>24 DEF CancelFlushesAudio, AudioOver
  <2> QED  BY <2>1, <2>2 DEF AudioEnds, Halted
<1>25. ASSUME NEW t \in Stages, CancelMarks(t) PROVE AudioEnds'
  BY <1>25
  DEF CancelMarks, AudioEnds, AudioOver, Places, TypeOK, Past, Tasks, Stages, Final, Halted
<1>26. ASSUME NEW t \in Stages, CallbackRaises(t) PROVE AudioEnds'
  BY <1>26
  DEF CallbackRaises, Goto, Leave, AudioEnds, AudioOver, Places, TypeOK, Past, Tasks, Stages, Final, Halted
<1>27. CASE GatherReturns
  BY <1>27, CloseIs
  DEF GatherReturns, EndsIn, AudioEnds, AudioOver, Places, TypeOK, Past, Tasks, Stages, Final, Halted
<1>28. CASE GatherRaises
  BY <1>28, CloseIs
  DEF GatherRaises, EndsIn, AudioEnds, AudioOver, Places, TypeOK, Past, Tasks, Stages, Final, Halted
<1>29. CASE TimeoutFires
  BY <1>29
  DEF TimeoutFires, SomeRaised, AudioEnds, AudioOver, Places, TypeOK, Past, Tasks, Stages, Final, Halted
<1>30. CASE TimeoutEnds
  BY <1>30, CloseIs
  DEF TimeoutEnds, AudioEnds, AudioOver, Places, TypeOK, Past, Tasks, Stages, Final, Halted
<1>31. CASE PlaybackDone
  BY <1>31
  DEF PlaybackDone, AudioEnds, AudioOver, Places, TypeOK, Past, Tasks, Stages, Final, Halted
<1>32. CASE BargeIn
  BY <1>32
  DEF BargeIn, AudioEnds, AudioOver, Places, TypeOK, Past, Tasks, Stages, Final, Halted
<1>33. CASE UNCHANGED vars
  BY <1>33
  DEF vars, AudioEnds, AudioOver, Places, TypeOK, Past, Tasks, Stages, Final, Halted
<1> QED
  BY <1>1, <1>2, <1>3, <1>4, <1>5, <1>6, <1>7, <1>8, <1>9, <1>10, <1>11, <1>12, <1>13, <1>14, <1>15, <1>16, <1>17, <1>18, <1>19, <1>20, <1>21, <1>22, <1>23, <1>24, <1>25, <1>26, <1>27, <1>28, <1>29, <1>30, <1>31, <1>32, <1>33
  DEF Next, LlmNext, TtsNext, TransportNext, PublishNext, CancelNext, GatherNext, Terminated

(* How many tokens, chunks or hands there are.                                  *)
LEMMA CarriedNat ==
  ASSUME TypeOK
  PROVE  /\ Carried(text) \in Nat /\ Carried(audio) \in Nat
         /\ text.items = <<>> => Carried(text) = 0
         /\ audio.items = <<>> => Carried(audio) = 0
         /\ tokens \in Nat /\ buffer \in Nat /\ voiced \in Nat /\ made \in Nat
<1>1. /\ text.items \in Seq(Entries(MaxTokens)) /\ audio.items \in Seq(Entries(MaxChunks))
  BY QueueTypes DEF Queues
<1> QED  BY SMTT(30), <1>1, EmptySeq, PipelineAssumption DEF Carried, EndsIn, TypeOK

(* No token is lost while the response and tts go on, and none is spoken twice. *)
LEMMA VoicingStep ==
  ASSUME TypeOK, Places, TextEnds, AudioEnds, Cancelling, Voicing, [Next]_vars
  PROVE  Voicing'
<1>1. CASE LlmNeverStarts
  BY <1>1, CarriedNat
  DEF LlmNeverStarts, At, Goto, Voicing, InHand, Pending, TextOver, EndOfStream, Places, TypeOK, Past, Tasks, Stages, Final, Halted, Active
<1>2. CASE LlmToken
  <2>1. /\ pc'["tts"] = pc["tts"] /\ fate'["tts"] = fate["tts"] /\ InHand("tts")' = InHand("tts")
        /\ Carried(text)' = Carried(text) /\ (TextOver' <=> TextOver)
        /\ Pending("llm") = 0 /\ UNCHANGED <<voiced, buffer, parent, response>>
        /\ tokens' = tokens + 1 /\ InHand("tts") \in Nat
    BY <1>2 DEF LlmToken, At, Goto, Leave, InHand, Pending, TextOver, TypeOK, Tasks, Stages
  <2>2. Pending("llm")' = IF Active THEN 1 ELSE 0
    BY <1>2 DEF LlmToken, At, Goto, Leave, Pending, TypeOK, Tasks
  <2> QED  BY <2>1, <2>2, CarriedNat DEF Voicing, Active
<1>3. CASE LlmCork
  BY <1>3, CarriedNat
  DEF LlmCork, At, Goto, Voicing, InHand, Pending, TextOver, EndOfStream, Places, TypeOK, Past, Tasks, Stages, Final, Halted, Active
<1>4. CASE LlmPut
  <2>1. /\ pc'["tts"] = pc["tts"] /\ InHand("tts")' = InHand("tts") /\ InHand("tts") \in Nat
        /\ TextOver' <=> TextOver
        /\ Pending("llm") = 1 /\ Pending("llm")' = 0 /\ tokens # EndOfStream
        /\ UNCHANGED <<voiced, buffer, tokens, fate, parent, response>>
    BY <1>4 DEF LlmPut, At, Goto, InHand, Pending, TextOver, Places, TypeOK, Tasks, Stages, EndOfStream
  <2>2. CASE TextQ!Stopped(text) /\ UNCHANGED text
    <3>1. parent # "gather" /\ Carried(text') = Carried(text)
      BY <2>2 DEF Places, Halted
    <3> QED  BY <2>1, <3>1, CarriedNat DEF Voicing
  <2>3. ASSUME NEW w \in Nat, text' \in Queues(Entries(MaxTokens)),
               IsAppended(text, [item |-> tokens, weight |-> w], text')
        PROVE  Voicing'
    <3>1. ~EndsIn(text)
      BY <1>4 DEF LlmPut, At, TextEnds, Past
    <3>2. Carried(text') = Carried(text) + 1
      BY <2>1, <2>3, <3>1, CarriedAppended, QueueTypes
    <3> QED  BY <2>1, <3>2, CarriedNat DEF Voicing, Active
  <2> QED  BY <1>4, <2>2, <2>3, LlmPutIs
<1>5. CASE LlmStreamEnds
  BY <1>5, CarriedNat
  DEF LlmStreamEnds, At, Goto, Leave, Voicing, InHand, Pending, TextOver, EndOfStream, Places, TypeOK, Past, Tasks, Stages, Final, Halted, Active
<1>6. CASE LlmEos
  <2>1. /\ pc'["tts"] = pc["tts"] /\ InHand("tts")' = InHand("tts") /\ InHand("tts") \in Nat
        /\ TextOver' <=> TextOver
        /\ Pending("llm") = 0 /\ Pending("llm")' = 0
        /\ UNCHANGED <<voiced, buffer, tokens, fate, parent, response>>
    BY <1>6 DEF LlmEos, At, Goto, AfterEos, InHand, Pending, TextOver, TypeOK, Tasks, Stages, Final
  <2>2. CASE UNCHANGED text
    BY <2>1, <2>2, CarriedNat DEF Voicing, Active
  <2>3. ASSUME text' \in Queues(Entries(MaxTokens)),
               IsAppended(text, [item |-> EndOfStream, weight |-> 0], text')
        PROVE  Voicing'
    <3>1. ~EndsIn(text)
      BY <1>6 DEF LlmEos, At, TextEnds, Past
    <3>2. Carried(text') = Carried(text)
      BY <2>3, <3>1, CarriedAppended, QueueTypes
    <3> QED  BY <2>1, <3>2, CarriedNat DEF Voicing, Active
  <2> QED  BY <1>6, <2>2, <2>3, LlmEosIs
<1>7. CASE TtsNeverStarts
  BY <1>7, CarriedNat
  DEF TtsNeverStarts, At, Goto, Voicing, InHand, Pending, TextOver, EndOfStream, Places, TypeOK, Past, Tasks, Stages, Final, Halted, Active
<1>8. CASE TtsGet
  <2>1. /\ text' \in Queues(Entries(MaxTokens)) /\ IsPopped(text, text')
        /\ held' = [held EXCEPT !["tts"] = text.items[1].item]
    BY <1>8, GetIs
  <2>2. /\ Pending("llm")' = Pending("llm") /\ Pending("llm") \in Nat
        /\ pc["tts"] = "get" /\ pc'["tts"] = "got" /\ InHand("tts") = 0
        /\ InHand("tts")' = IF text.items[1].item = EndOfStream THEN 0 ELSE 1
        /\ UNCHANGED <<voiced, buffer, tokens, fate, parent, response>>
    BY <1>8, <2>1 DEF TtsGet, At, Goto, InHand, Pending, TypeOK, Tasks
  <2>3. Carried(text) = Carried(text') + InHand("tts")' /\ Carried(text') \in Nat
    <3>1. /\ Carried(text) \in Nat /\ Carried(text') \in Nat
          /\ IF text.items[1].item = EndOfStream THEN Carried(text') = 0 /\ Carried(text) = 0
             ELSE Carried(text) = Carried(text') + 1
      BY <2>1, CarriedPopped, QueueTypes DEF TextEnds
    <3> QED  BY <2>2, <3>1
  <2> QED  BY <2>2, <2>3, CarriedNat DEF Voicing, Active
<1>9. CASE TtsClosed
  BY <1>9, CarriedNat
  DEF TtsClosed, At, Goto, Leave, Voicing, InHand, Pending, TextOver, EndOfStream, Places, TypeOK, Past, Tasks, Stages, Final, Halted, Active
<1>10. CASE TtsRaises
  BY <1>10, CarriedNat
  DEF TtsRaises, At, Goto, Leave, Voicing, InHand, Pending, TextOver, EndOfStream, Places, TypeOK, Past, Tasks, Stages, Final, Halted, Active
<1>11. CASE TtsText
  <2>1. /\ pc["tts"] = "got" /\ held["tts"] # EndOfStream
        /\ InHand("tts") = 1 /\ InHand("tts")' = 0
        /\ Pending("llm")' = Pending("llm") /\ Pending("llm") \in Nat
        /\ Carried(text)' = Carried(text) /\ ~TextOver'
        /\ UNCHANGED <<tokens, parent, response>>
    BY <1>11 DEF TtsText, At, Goto, Synthesize, InHand, Pending, TextOver, TypeOK, Tasks
  <2>2. \/ voiced' = voiced + buffer + 1 /\ buffer' = 0
        \/ /\ voiced' = voiced /\ buffer' = (IF Active THEN buffer + 1 ELSE buffer)
           /\ pc'["tts"] = "get"
    BY <1>11, CarriedNat DEF TtsText, Goto, Synthesize, TypeOK, Tasks
  <2>3. fate["tts"] = "done" /\ UNCHANGED fate
    BY <1>11, <2>1 DEF TtsText, Synthesize, Places
  <2> QED  BY <2>1, <2>2, <2>3, CarriedNat DEF Voicing, Active
<1>12. CASE TtsLast
  <2>1. /\ pc["tts"] = "got" /\ held["tts"] = EndOfStream
        /\ InHand("tts") = 0 /\ InHand("tts")' = 0
        /\ Pending("llm")' = Pending("llm") /\ Pending("llm") \in Nat
        /\ Carried(text)' = Carried(text)
        /\ UNCHANGED <<tokens, parent, response>>
    BY <1>12 DEF TtsLast, At, Goto, Leave, Synthesize, InHand, Pending, TypeOK, Tasks, Stages
  <2>2. CASE buffer > 0 /\ Active
    <3>1. voiced' = voiced + buffer /\ buffer' = 0 /\ fate' = fate /\ pc'["tts"] = "synth"
      BY <1>12, <2>2 DEF TtsLast, Goto, Synthesize, TypeOK, Tasks
    <3> QED  BY <2>1, <3>1, CarriedNat DEF Voicing, Active
  <2>3. CASE ~(buffer > 0 /\ Active)
    <3>1. voiced' = voiced /\ buffer' = buffer /\ pc'["tts"] = "eos" /\ fate'["tts"] = "done"
      BY <1>12, <2>3 DEF TtsLast, Goto, Leave, TypeOK, Tasks, Stages
    <3>2. fate["tts"] = "done"
      BY <2>1 DEF Places
    <3> QED  BY <2>1, <2>3, <3>1, <3>2, CarriedNat DEF Voicing, Active
  <2> QED  BY <2>2, <2>3
<1>13. CASE TtsAudio
  BY <1>13, CarriedNat
  DEF TtsAudio, At, Goto, Voicing, InHand, Pending, TextOver, EndOfStream, Places, TypeOK, Past, Tasks, Stages, Final, Halted, Active
<1>14. CASE TtsCork
  BY <1>14, CarriedNat
  DEF TtsCork, At, Goto, Voicing, InHand, Pending, TextOver, EndOfStream, Places, TypeOK, Past, Tasks, Stages, Final, Halted, Active
<1>15. CASE TtsPut
  BY <1>15, TtsPutIs, CarriedNat
  DEF TtsPut, At, Goto, Voicing, InHand, Pending, TextOver, EndOfStream, Places, TypeOK, Past, Tasks, Stages, Final, Halted, Active
<1>16. CASE TtsPhraseEnds
  <2>1. /\ pc["tts"] = "synth" /\ pc'["tts"] \in {"get", "eos"}
        /\ InHand("tts") = 0 /\ InHand("tts")' = 0
        /\ Pending("llm")' = Pending("llm") /\ Pending("llm") \in Nat
        /\ Carried(text)' = Carried(text)
        /\ fate'["tts"] = "done" => fate["tts"] = "done"
        /\ UNCHANGED <<voiced, buffer, tokens, parent, response>>
    BY <1>16 DEF TtsPhraseEnds, At, Goto, Leave, InHand, Pending, TypeOK, Tasks, Stages, Places
  <2> QED  BY <2>1, CarriedNat DEF Voicing, Active
<1>17. CASE TtsEos
  BY <1>17, TtsEosIs, CarriedNat
  DEF TtsEos, At, Goto, AfterEos, Voicing, InHand, Pending, TextOver, EndOfStream, Places, TypeOK, Past, Tasks, Stages, Final, Halted, Active
<1>18. CASE TransportGet
  BY <1>18, GetIs, CarriedNat
  DEF TransportGet, At, Goto, Voicing, InHand, Pending, TextOver, EndOfStream, Places, TypeOK, Past, Tasks, Stages, Final, Halted, Active
<1>19. CASE TransportClosed
  BY <1>19, CarriedNat
  DEF TransportClosed, At, Goto, Voicing, InHand, Pending, TextOver, EndOfStream, Places, TypeOK, Past, Tasks, Stages, Final, Halted, Active
<1>20. CASE TransportSend
  <2>1. /\ pc'["tts"] = pc["tts"] /\ pc'["llm"] = pc["llm"]
        /\ UNCHANGED <<held, fate, text, voiced, buffer, tokens, parent, response>>
    BY <1>20 DEF TransportSend, At, Goto, TypeOK, Tasks
  <2>2. /\ InHand("tts")' = InHand("tts") /\ Pending("llm")' = Pending("llm")
        /\ (TextOver' <=> TextOver) /\ (Active' <=> Active)
    BY <2>1 DEF InHand, Pending, TextOver, Active
  <2> QED  BY <2>1, <2>2, CarriedNat DEF Voicing
<1>21. ASSUME NEW t \in Tasks, Publish(t) PROVE Voicing'
  <2>1. /\ pc[t] = "after" /\ pc'[t] \in {"done", "raised"}
        /\ \A u \in Tasks \ {t} : pc'[u] = pc[u]
        /\ UNCHANGED <<text, audio, fate, held, tokens, buffer, voiced, parent, response>>
    BY <1>21 DEF Publish, At, Goto, TypeOK
  <2>2. InHand("tts")' = InHand("tts") /\ Pending("llm")' = Pending("llm")
    BY <2>1 DEF InHand, Pending, Tasks
  <2>3. /\ Carried(text)' = Carried(text) /\ (TextOver' => TextOver)
        /\ pc'["tts"] \in {"synth", "cork", "put"} => pc["tts"] \in {"synth", "cork", "put"}
        /\ TextOver' /\ pc["tts"] = "got" => pc'["tts"] = "got"
        /\ pc["tts"] = "raised" => pc'["tts"] = "raised"
    BY <2>1 DEF TextOver, Tasks
  <2> QED  BY <2>1, <2>2, <2>3 DEF Voicing, Active
<1>22. ASSUME NEW t \in Stages, CancelBegins(t) PROVE Voicing'
  BY <1>22, CarriedNat
  DEF CancelBegins, Voicing, InHand, Pending, TextOver, EndOfStream, Places, TypeOK, Past, Tasks, Stages, Final, Halted, Active
<1>23. ASSUME NEW t \in Stages, CancelFlushesText(t) PROVE Voicing'
  <2>1. /\ InHand("tts")' = InHand("tts") /\ Pending("llm")' = Pending("llm")
        /\ InHand("tts") \in Nat /\ Pending("llm") \in Nat
        /\ UNCHANGED <<voiced, buffer, tokens, pc, held, fate, parent, response>>
        /\ TextOver' <=> TextOver
    BY <1>23 DEF CancelFlushesText, InHand, Pending, TextOver
  <2>2. Carried(text') = 0
    <3>1. text' \in Queues(Entries(MaxTokens)) /\ IsFlushed(text, text')
      BY <1>23, FlushIs
    <3> QED  BY <3>1, CarriedFlushed, QueueTypes
  <2>3. ~Active
    BY <1>23 DEF CancelFlushesText, Cancelling, Flushing, Active
  <2> QED  BY <2>1, <2>2, <2>3, CarriedNat DEF Voicing, Active
<1>24. ASSUME NEW t \in Stages, CancelFlushesAudio(t) PROVE Voicing'
  BY <1>24, FlushIs, CarriedNat
  DEF CancelFlushesAudio, Voicing, InHand, Pending, TextOver, EndOfStream, Places, TypeOK, Past, Tasks, Stages, Final, Halted, Active
<1>25. ASSUME NEW t \in Stages, CancelMarks(t) PROVE Voicing'
  BY <1>25, CarriedNat
  DEF CancelMarks, Voicing, InHand, Pending, TextOver, EndOfStream, Places, TypeOK, Past, Tasks, Stages, Final, Halted, Active
<1>26. ASSUME NEW t \in Stages, CallbackRaises(t) PROVE Voicing'
  BY <1>26, CarriedNat
  DEF CallbackRaises, Goto, Leave, Voicing, InHand, Pending, TextOver, EndOfStream, Places, TypeOK, Past, Tasks, Stages, Final, Halted, Active
<1>27. CASE GatherReturns
  <2>1. text'.items = text.items /\ UNCHANGED <<voiced, buffer, tokens, pc, held, fate>>
        /\ parent' # "gather"
    BY <1>27, CloseIs DEF GatherReturns
  <2>2. /\ Carried(text)' = Carried(text) /\ InHand("tts")' = InHand("tts")
        /\ Pending("llm")' = Pending("llm")
    BY <2>1 DEF Carried, EndsIn, InHand, Pending
  <2> QED  BY <2>1, <2>2 DEF Voicing
<1>28. CASE GatherRaises
  <2>1. text'.items = text.items /\ UNCHANGED <<voiced, buffer, tokens, pc, held, fate>>
        /\ parent' # "gather"
    BY <1>28, CloseIs DEF GatherRaises
  <2>2. /\ Carried(text)' = Carried(text) /\ InHand("tts")' = InHand("tts")
        /\ Pending("llm")' = Pending("llm")
    BY <2>1 DEF Carried, EndsIn, InHand, Pending
  <2> QED  BY <2>1, <2>2 DEF Voicing
<1>29. CASE TimeoutFires
  BY <1>29, CarriedNat
  DEF TimeoutFires, SomeRaised, Voicing, InHand, Pending, TextOver, EndOfStream, Places, TypeOK, Past, Tasks, Stages, Final, Halted, Active
<1>30. CASE TimeoutEnds
  <2>1. /\ text'.items = text.items /\ UNCHANGED <<voiced, buffer, tokens, held, fate>>
        /\ parent' # "gather" /\ pc' = [t \in Tasks |-> IF pc[t] \in Final THEN pc[t] ELSE "killed"]
    BY <1>30, CloseIs DEF TimeoutEnds
  <2>2. /\ Carried(text)' = Carried(text) /\ InHand("tts")' = 0 /\ Pending("llm")' = 0
        /\ InHand("tts") \in Nat /\ Pending("llm") \in Nat
        /\ pc'["tts"] \notin {"synth", "cork", "put"}
    BY <2>1 DEF Carried, EndsIn, InHand, Pending, Tasks, Final
  <2> QED  BY <2>1, <2>2, CarriedNat DEF Voicing
<1>31. CASE PlaybackDone
  BY <1>31, CarriedNat
  DEF PlaybackDone, Voicing, InHand, Pending, TextOver, EndOfStream, Places, TypeOK, Past, Tasks, Stages, Final, Halted, Active
<1>32. CASE BargeIn
  BY <1>32, CarriedNat
  DEF BargeIn, Voicing, InHand, Pending, TextOver, EndOfStream, Places, TypeOK, Past, Tasks, Stages, Final, Halted, Active
<1>33. CASE UNCHANGED vars
  BY <1>33, CarriedNat
  DEF vars, Voicing, InHand, Pending, TextOver, EndOfStream, Places, TypeOK, Past, Tasks, Stages, Final, Halted, Active
<1> QED
  BY <1>1, <1>2, <1>3, <1>4, <1>5, <1>6, <1>7, <1>8, <1>9, <1>10, <1>11, <1>12, <1>13, <1>14, <1>15, <1>16, <1>17, <1>18, <1>19, <1>20, <1>21, <1>22, <1>23, <1>24, <1>25, <1>26, <1>27, <1>28, <1>29, <1>30, <1>31, <1>32, <1>33
  DEF Next, LlmNext, TtsNext, TransportNext, PublishNext, CancelNext, GatherNext, Terminated

(* How many chunks are with the browser, in hand or about to be put.            *)
LEMMA SendingNat ==
  ASSUME TypeOK
  PROVE  /\ Len(sent) \in Nat /\ Len(audio.items) \in Nat
         /\ InHand("transport") \in {0, 1} /\ Pending("tts") \in {0, 1}
  BY SMTT(30), PipelineAssumption, QueueTypes DEF TypeOK, InHand, Pending, Queues

(* No chunk is lost while the response and transport go on, and they keep their order. *)
LEMMA SendingStep ==
  ASSUME TypeOK, Places, TextEnds, AudioEnds, Cancelling, SentInOrder, Sending, [Next]_vars
  PROVE  Sending' /\ SentInOrder'
<1>1. CASE LlmNeverStarts
  BY <1>1
  DEF LlmNeverStarts, At, Goto, Sending, SentInOrder, InHand, Pending, Places, TypeOK, Tasks, Stages, Final, Halted, Active, Carried, EndsIn
<1>2. CASE LlmToken
  BY <1>2
  DEF LlmToken, At, Goto, Leave, Sending, SentInOrder, InHand, Pending, Places, TypeOK, Tasks, Stages, Final, Halted, Active, Carried, EndsIn
<1>3. CASE LlmCork
  BY <1>3
  DEF LlmCork, At, Goto, Sending, SentInOrder, InHand, Pending, Places, TypeOK, Tasks, Stages, Final, Halted, Active, Carried, EndsIn
<1>4. CASE LlmPut
  BY <1>4
  DEF LlmPut, At, Goto, Sending, SentInOrder, InHand, Pending, TypeOK, Tasks, Halted, Active
<1>5. CASE LlmStreamEnds
  BY <1>5
  DEF LlmStreamEnds, At, Goto, Leave, Sending, SentInOrder, InHand, Pending, Places, TypeOK, Tasks, Stages, Final, Halted, Active, Carried, EndsIn
<1>6. CASE LlmEos
  BY <1>6
  DEF LlmEos, At, Goto, Sending, SentInOrder, InHand, Pending, TypeOK, Tasks, Halted, Active
<1>7. CASE TtsNeverStarts
  BY <1>7
  DEF TtsNeverStarts, At, Goto, Sending, SentInOrder, InHand, Pending, Places, TypeOK, Tasks, Stages, Final, Halted, Active, Carried, EndsIn
<1>8. CASE TtsGet
  BY <1>8, GetIs
  DEF TtsGet, At, Goto, Sending, SentInOrder, InHand, Pending, TypeOK, Tasks, Halted, Active
<1>9. CASE TtsClosed
  BY <1>9
  DEF TtsClosed, At, Goto, Leave, Sending, SentInOrder, InHand, Pending, Places, TypeOK, Tasks, Stages, Final, Halted, Active, Carried, EndsIn
<1>10. CASE TtsRaises
  BY <1>10
  DEF TtsRaises, At, Goto, Leave, Sending, SentInOrder, InHand, Pending, Places, TypeOK, Tasks, Stages, Final, Halted, Active, Carried, EndsIn
<1>11. CASE TtsText
  BY <1>11
  DEF TtsText, At, Goto, Synthesize, Sending, SentInOrder, InHand, Pending, Places, TypeOK, Tasks, Stages, Final, Halted, Active, Carried, EndsIn
<1>12. CASE TtsLast
  BY ZenonT(30), <1>12
  DEF TtsLast, At, Goto, Leave, Synthesize, Sending, SentInOrder, InHand, Pending, Places, TypeOK, Tasks, Stages, Final, Halted, Active, Carried, EndsIn
<1>13. CASE TtsAudio
  <2>1. /\ InHand("transport")' = InHand("transport") /\ pc'["transport"] = pc["transport"]
        /\ Pending("tts") = 0 /\ Pending("tts")' = 1 /\ made' = made + 1
        /\ UNCHANGED <<audio, held, sent, parent, response>>
        /\ Carried(audio)' = Carried(audio)
    BY <1>13 DEF TtsAudio, At, Goto, InHand, Pending, TypeOK, Tasks
  <2> QED  BY <2>1, SendingNat, CarriedNat DEF Sending, SentInOrder, Halted, Active
<1>14. CASE TtsCork
  BY <1>14
  DEF TtsCork, At, Goto, Sending, SentInOrder, InHand, Pending, Places, TypeOK, Tasks, Stages, Final, Halted, Active, Carried, EndsIn
<1>15. CASE TtsPut
  <2>1. /\ InHand("transport")' = InHand("transport") /\ pc'["transport"] = pc["transport"]
        /\ Pending("tts") = 1 /\ Pending("tts")' = 0 /\ made # EndOfStream
        /\ UNCHANGED <<held, sent, made, parent, response>>
    BY <1>15 DEF TtsPut, At, Goto, InHand, Pending, Places, TypeOK, Tasks, EndOfStream
  <2>2. CASE AudioQ!Stopped(audio) /\ UNCHANGED audio
    BY <2>1, <2>2 DEF Sending, SentInOrder, Places, Halted, Active
  <2>3. ASSUME NEW w \in Nat, ~AudioQ!Stopped(audio), audio' \in Queues(Entries(MaxChunks)),
               IsAppended(audio, [item |-> made, weight |-> w], audio')
        PROVE  Sending' /\ SentInOrder'
    <3>1. ~EndsIn(audio) /\ ~Halted
      BY <1>15, <2>3 DEF TtsPut, At, AudioEnds, Past, Places
    <3>2. Carried(audio') = Carried(audio) + 1 /\ Carried(audio) = Len(audio.items)
      BY <2>1, <2>3, <3>1, CarriedAppended, QueueTypes
    <3>3. /\ Len(audio'.items) = Len(audio.items) + 1 /\ audio'.items[Len(audio'.items)].item = made
          /\ \A i \in 1..Len(audio.items) : audio'.items[i] = audio.items[i]
      BY <2>3 DEF IsAppended
    <3>4. SUFFICES ASSUME Active, pc["transport"] \notin {"raised", "killed"}
                   PROVE  Sending'
      BY <2>1 DEF Sending, SentInOrder, Active
    <3> DEFINE k == Len(sent) + InHand("transport")
    <3>5. /\ InHand("transport") = 1 => held["transport"] = k
          /\ \A i \in 1..Len(audio.items) : audio.items[i].item \in {k + i, EndOfStream}
          /\ made = k + Len(audio.items) + 1
      BY <2>1, <3>1, <3>2, <3>4 DEF Sending
    <3>6. k \in Nat /\ Len(audio.items) \in Nat
      BY SendingNat
    <3>7. \A i \in 1..Len(audio'.items) : audio'.items[i].item \in {k + i, EndOfStream}
      <4>1. ASSUME NEW i \in 1..Len(audio'.items)
            PROVE  audio'.items[i].item \in {k + i, EndOfStream}
        <5>1. CASE i = Len(audio'.items)
          <6>1. made = k + i
            BY <3>3, <3>5, <3>6, <5>1
          <6> QED  BY <3>3, <5>1, <6>1
        <5>2. CASE i # Len(audio'.items)
          <6>1. i \in 1..Len(audio.items)
            BY <3>3, <3>6, <5>2
          <6> QED  BY <3>3, <3>5, <6>1
        <5> QED  BY <5>1, <5>2
      <4> QED  BY <4>1
    <3>8. made = k + Carried(audio') + 0
      BY <3>2, <3>5, <3>6
    <3> QED  BY <2>1, <3>5, <3>7, <3>8 DEF Sending
  <2> QED  BY <1>15, <2>2, <2>3, TtsPutIs
<1>16. CASE TtsPhraseEnds
  BY <1>16
  DEF TtsPhraseEnds, At, Goto, Leave, Sending, SentInOrder, InHand, Pending, Places, TypeOK, Tasks, Stages, Final, Halted, Active, Carried, EndsIn
<1>17. CASE TtsEos
  <2>1. /\ InHand("transport")' = InHand("transport") /\ pc'["transport"] = pc["transport"]
        /\ Pending("tts") = 0 /\ Pending("tts")' = 0
        /\ UNCHANGED <<held, sent, made, parent, response>>
    BY <1>17 DEF TtsEos, At, Goto, AfterEos, InHand, Pending, TypeOK, Tasks, Stages, Final
  <2>2. CASE AudioQ!Stopped(audio) /\ UNCHANGED audio
    BY <2>1, <2>2 DEF Sending, SentInOrder, Places, Halted, Active
  <2>3. ASSUME audio' \in Queues(Entries(MaxChunks)),
               IsAppended(audio, [item |-> EndOfStream, weight |-> 0], audio')
        PROVE  Sending' /\ SentInOrder'
    <3>1. ~EndsIn(audio)
      BY <1>17 DEF TtsEos, At, AudioEnds, Past
    <3>2. Carried(audio') = Carried(audio)
      BY <2>3, <3>1, CarriedAppended, QueueTypes
    <3>3. /\ Len(audio'.items) = Len(audio.items) + 1
          /\ audio'.items[Len(audio'.items)].item = EndOfStream
          /\ \A i \in 1..Len(audio.items) : audio'.items[i] = audio.items[i]
      BY <2>3 DEF IsAppended
    <3> QED  BY SMTT(30), <2>1, <3>2, <3>3, SendingNat DEF Sending, SentInOrder, Halted, Active
  <2> QED  BY <1>17, <2>2, <2>3, TtsEosIs
<1>18. CASE TransportGet
  <2>1. /\ audio' \in Queues(Entries(MaxChunks)) /\ IsPopped(audio, audio')
        /\ audio.items[1].item \in Nat
        /\ held' = [held EXCEPT !["transport"] = audio.items[1].item]
    BY <1>18, GetIs, PipelineAssumption
  <2>2. /\ Pending("tts")' = Pending("tts") /\ InHand("transport") = 0
        /\ InHand("transport")' = IF audio.items[1].item = EndOfStream THEN 0 ELSE 1
        /\ pc["transport"] = "get" /\ held'["transport"] = audio.items[1].item
        /\ UNCHANGED <<sent, made, parent, response>>
    BY <1>18, <2>1 DEF TransportGet, At, Goto, InHand, Pending, TypeOK, Tasks
  <2>3. /\ Carried(audio) \in Nat /\ Carried(audio') \in Nat
        /\ IF audio.items[1].item = EndOfStream
           THEN audio'.items = <<>> /\ Carried(audio') = 0 /\ Carried(audio) = 0
           ELSE Carried(audio) = Carried(audio') + 1
    BY <2>1, CarriedPopped, QueueTypes DEF AudioEnds
  <2>4. /\ Len(audio.items) = Len(audio'.items) + 1 /\ Len(audio'.items) \in Nat
        /\ \A i \in 1..Len(audio'.items) : audio'.items[i] = audio.items[i + 1]
    BY <2>1 DEF IsPopped, Queues
  <2>5. SUFFICES ASSUME Active PROVE Sending'
    BY <2>2 DEF Sending, SentInOrder, Active
  <2>6. /\ \A i \in 1..Len(audio.items) : audio.items[i].item \in {Len(sent) + i, EndOfStream}
        /\ ~Halted => made = Len(sent) + Carried(audio) + Pending("tts")
    BY <2>2, <2>5, SendingNat DEF Sending
  <2>7. CASE audio.items[1].item = EndOfStream
    <3>1. Len(audio'.items) = 0
      BY <2>3, <2>7
    <3> QED  BY <2>2, <2>3, <2>6, <2>7, <3>1, SendingNat DEF Sending, Halted
  <2>8. CASE audio.items[1].item # EndOfStream
    <3>1. audio.items[1].item = Len(sent) + 1
      BY <2>4, <2>6, <2>8
    <3>2. \A i \in 1..Len(audio'.items) :
            audio'.items[i].item \in {Len(sent) + 1 + i, EndOfStream}
      <4>1. ASSUME NEW i \in 1..Len(audio'.items)
            PROVE  audio'.items[i].item \in {Len(sent) + 1 + i, EndOfStream}
        <5>1. i + 1 \in 1..Len(audio.items) /\ Len(sent) + (i + 1) = Len(sent) + 1 + i
          BY <2>4, SendingNat
        <5> QED  BY <2>4, <2>6, <5>1
      <4> QED  BY <4>1
    <3>3. ~Halted' => made = Len(sent) + 1 + Carried(audio') + Pending("tts")
      BY <2>2, <2>3, <2>6, <2>8, SendingNat DEF Halted
    <3> QED  BY <2>2, <2>8, <3>1, <3>2, <3>3, SendingNat DEF Sending
  <2> QED  BY <2>7, <2>8
<1>19. CASE TransportClosed
  BY <1>19
  DEF TransportClosed, At, Goto, Sending, SentInOrder, InHand, Pending, Places, TypeOK, Tasks, Stages, Final, Halted, Active, Carried, EndsIn
<1>20. CASE TransportSend
  <2>1. /\ Pending("tts")' = Pending("tts") /\ pc["transport"] = "got"
        /\ UNCHANGED <<audio, held, made, parent, response>>
        /\ InHand("transport") = (IF held["transport"] = EndOfStream THEN 0 ELSE 1)
        /\ InHand("transport")' = 0
    BY <1>20 DEF TransportSend, At, Goto, InHand, Pending, TypeOK, Tasks
  <2>2. CASE sent' = sent /\ (held["transport"] = EndOfStream \/ ~Active \/ pc'["transport"] = "raised")
    BY <2>1, <2>2, SendingNat DEF Sending, SentInOrder, Halted, Active
  <2>3. CASE Active /\ held["transport"] # EndOfStream /\ sent' = Append(sent, held["transport"])
    <3>1. held["transport"] = Len(sent) + 1 /\ InHand("transport") = 1
      BY <2>1, <2>3, SendingNat DEF Sending
    <3>2. /\ Len(sent') = Len(sent) + 1 /\ sent'[Len(sent) + 1] = held["transport"]
          /\ \A i \in 1..Len(sent) : sent'[i] = sent[i]
          /\ DOMAIN sent = 1..Len(sent) /\ DOMAIN sent' = 1..Len(sent')
      BY <2>3, <3>1, PipelineAssumption DEF TypeOK
    <3>3. SentInOrder'
      BY <3>1, <3>2, SendingNat DEF SentInOrder
    <3>4. Len(sent') + InHand("transport")' = Len(sent) + InHand("transport")
      BY <2>1, <3>1, <3>2, SendingNat
    <3> QED  BY <2>1, <2>3, <3>3, <3>4 DEF Sending, Halted, Active
  <2> QED  BY <1>20, <2>1, <2>2, <2>3 DEF TransportSend, Goto, TypeOK, Tasks
<1>21. ASSUME NEW t \in Tasks, Publish(t) PROVE Sending' /\ SentInOrder'
  <2>1. /\ pc[t] = "after" /\ pc'[t] \in {"done", "raised"}
        /\ \A u \in Tasks \ {t} : pc'[u] = pc[u]
        /\ UNCHANGED <<audio, held, made, sent, parent, response>>
    BY <1>21 DEF Publish, At, Goto, TypeOK
  <2>2. /\ InHand("transport")' = InHand("transport") /\ Pending("tts")' = Pending("tts")
        /\ pc["transport"] \in {"raised", "killed"} => pc'["transport"] \in {"raised", "killed"}
    BY <2>1 DEF InHand, Pending, Tasks
  <2> QED  BY <2>1, <2>2 DEF Sending, SentInOrder, Halted, Active
<1>22. ASSUME NEW t \in Stages, CancelBegins(t) PROVE Sending' /\ SentInOrder'
  BY <1>22
  DEF CancelBegins, Sending, SentInOrder, InHand, Pending, Places, TypeOK, Tasks, Stages, Final, Halted, Active, Carried, EndsIn
<1>23. ASSUME NEW t \in Stages, CancelFlushesText(t) PROVE Sending' /\ SentInOrder'
  BY <1>23
  DEF CancelFlushesText, Sending, SentInOrder, InHand, Pending, Halted, Active
<1>24. ASSUME NEW t \in Stages, CancelFlushesAudio(t) PROVE Sending' /\ SentInOrder'
  BY <1>24
  DEF CancelFlushesAudio, Sending, SentInOrder, Cancelling, Flushing, Active
<1>25. ASSUME NEW t \in Stages, CancelMarks(t) PROVE Sending' /\ SentInOrder'
  BY <1>25
  DEF CancelMarks, Sending, SentInOrder, InHand, Pending, Places, TypeOK, Tasks, Stages, Final, Halted, Active, Carried, EndsIn
<1>26. ASSUME NEW t \in Stages, CallbackRaises(t) PROVE Sending' /\ SentInOrder'
  BY <1>26
  DEF CallbackRaises, Goto, Leave, Sending, SentInOrder, InHand, Pending, Places, TypeOK, Tasks, Stages, Final, Halted, Active, Carried, EndsIn
<1>27. CASE GatherReturns
  <2>1. /\ audio'.items = audio.items /\ UNCHANGED <<pc, held, sent, response>> /\ Halted'
    BY <1>27, CloseIs DEF GatherReturns, Halted
  <2> QED  BY <2>1 DEF Sending, SentInOrder, InHand, Active
<1>28. CASE GatherRaises
  <2>1. /\ audio'.items = audio.items /\ UNCHANGED <<pc, held, sent, response>> /\ Halted'
    BY <1>28, CloseIs DEF GatherRaises, Halted
  <2> QED  BY <2>1 DEF Sending, SentInOrder, InHand, Active
<1>29. CASE TimeoutFires
  <2>1. /\ pc'["transport"] \in {"done", "killed"} /\ pc'["tts"] \notin {"cork", "put"}
        /\ pc'["transport"] = "done" => pc["transport"] = "done"
        /\ UNCHANGED <<audio, held, sent, made, response>> /\ ~Halted
    <3>1. PICK inPut \in SUBSET {t \in Stages : pc[t] = "eos"} :
            pc' = [t \in Tasks |-> IF pc[t] = "done" THEN "done"
                                  ELSE IF t \in inPut \cup {"transport"} \/ pc[t] = "after"
                                  THEN "killed"
                                  ELSE "eos"]
      BY <1>29 DEF TimeoutFires
    <3>2. /\ pc'["transport"] = IF pc["transport"] = "done" THEN "done" ELSE "killed"
          /\ pc'["tts"] \in {"done", "killed", "eos"}
      BY <3>1 DEF Tasks
    <3>3. UNCHANGED <<audio, held, sent, made, response>> /\ ~Halted
      BY <1>29 DEF TimeoutFires, Halted
    <3> QED  BY <3>2, <3>3
  <2>2. SUFFICES ASSUME Active, pc["transport"] = "done", pc'["transport"] = "done" PROVE Sending'
    BY <2>1 DEF Sending, SentInOrder, Active
  <2>3. Pending("tts") = 0 /\ InHand("transport") = 0
    BY <2>1, <2>2 DEF AudioEnds, AudioOver, Pending, InHand, Past
  <2>4. Pending("tts")' = 0 /\ InHand("transport")' = 0
    BY <2>1, <2>2 DEF Pending, InHand
  <2> QED  BY <2>1, <2>2, <2>3, <2>4 DEF Sending, Halted
<1>30. CASE TimeoutEnds
  <2>1. /\ audio'.items = audio.items /\ UNCHANGED <<held, sent, response>> /\ Halted'
        /\ pc'["transport"] = IF pc["transport"] \in Final THEN pc["transport"] ELSE "killed"
    BY <1>30, CloseIs DEF TimeoutEnds, Halted, Tasks
  <2> QED  BY <2>1 DEF Sending, SentInOrder, InHand, Active, Final
<1>31. CASE PlaybackDone
  BY <1>31
  DEF PlaybackDone, Sending, SentInOrder, InHand, Pending, Places, TypeOK, Tasks, Stages, Final, Halted, Active, Carried, EndsIn
<1>32. CASE BargeIn
  BY <1>32
  DEF BargeIn, Sending, SentInOrder, InHand, Pending, Places, TypeOK, Tasks, Stages, Final, Halted, Active, Carried, EndsIn
<1>33. CASE UNCHANGED vars
  BY <1>33
  DEF vars, Sending, SentInOrder, InHand, Pending, Places, TypeOK, Tasks, Stages, Final, Halted, Active, Carried, EndsIn
<1> QED
  BY <1>1, <1>2, <1>3, <1>4, <1>5, <1>6, <1>7, <1>8, <1>9, <1>10, <1>11, <1>12, <1>13, <1>14, <1>15, <1>16, <1>17, <1>18, <1>19, <1>20, <1>21, <1>22, <1>23, <1>24, <1>25, <1>26, <1>27, <1>28, <1>29, <1>30, <1>31, <1>32, <1>33
  DEF Next, LlmNext, TtsNext, TransportNext, PublishNext, CancelNext, GatherNext, Terminated

(* The two ways to write the type of a queue.                                   *)
LEMMA QueueTypeIs ==
  ASSUME NEW n \in Nat
  PROVE  QueueType(n) = Queues(Entries(n))
  BY DEF QueueType, Queues, Entries

(* Every variable keeps its type.                                               *)
LEMMA TypeStep ==
  ASSUME TypeOK, Places, TextEnds, AudioEnds, Voicing, [Next]_vars
  PROVE  TypeOK'
<1>1. CASE LlmNeverStarts
  BY <1>1
  DEF LlmNeverStarts, At, Goto, TypeOK, Places, Tasks, Stages, Final, Active, Live
<1>2. CASE LlmToken
  BY <1>2, PipelineAssumption
  DEF LlmToken, At, Goto, Leave, TypeOK, Tasks, Stages, Final
<1>3. CASE LlmCork
  BY <1>3
  DEF LlmCork, At, Goto, TypeOK, Places, Tasks, Stages, Final, Active, Live
<1>4. CASE LlmPut
  BY <1>4, LlmPutIs, QueueTypeIs, PipelineAssumption
  DEF LlmPut, At, Goto, TypeOK, Places, Tasks, Stages, Final, Active, Live
<1>5. CASE LlmStreamEnds
  BY <1>5
  DEF LlmStreamEnds, At, Goto, Leave, TypeOK, Places, Tasks, Stages, Final, Active, Live
<1>6. CASE LlmEos
  <2>1. text' \in QueueType(MaxTokens)
    BY <1>6, LlmEosIs, QueueTypeIs, PipelineAssumption DEF TypeOK
  <2>2. entries' \in Seq({"completed", "interrupted"})
    <3>1. entries' \in {entries, <<"completed">>}
      BY <1>6 DEF LlmEos
    <3>2. <<"completed">> \in Seq({"completed", "interrupted"})
      OBVIOUS
    <3> QED  BY <3>1, <3>2 DEF TypeOK
  <2>3. pc' \in {[pc EXCEPT !["llm"] = "after"], [pc EXCEPT !["llm"] = fate["llm"]]}
    BY <1>6 DEF LlmEos, AfterEos, Goto
  <2> QED  BY <1>6, <2>1, <2>2, <2>3 DEF LlmEos, TypeOK, Tasks, Stages
<1>7. CASE TtsNeverStarts
  BY <1>7
  DEF TtsNeverStarts, At, Goto, TypeOK, Places, Tasks, Stages, Final, Active, Live
<1>8. CASE TtsGet
  BY <1>8, GetIs, QueueTypeIs, PipelineAssumption
  DEF TtsGet, At, Goto, TypeOK, Places, Tasks, Stages, Final, Active, Live
<1>9. CASE TtsClosed
  BY <1>9
  DEF TtsClosed, At, Goto, Leave, TypeOK, Places, Tasks, Stages, Final, Active, Live
<1>10. CASE TtsRaises
  BY <1>10
  DEF TtsRaises, At, Goto, Leave, TypeOK, Places, Tasks, Stages, Final, Active, Live
<1>11. CASE TtsText
  <2>1. voiced + buffer + 1 \in 0..MaxTokens
    <3>1. InHand("tts") = 1 /\ Pending("llm") \in Nat
      BY <1>11 DEF TtsText, At, InHand, Pending
    <3>2. voiced + buffer + InHand("tts") + Carried(text) + Pending("llm") <= tokens
      BY DEF Voicing
    <3>3. tokens \in 0..MaxTokens /\ MaxTokens \in Nat
      BY PipelineAssumption DEF TypeOK
    <3> QED  BY <3>1, <3>2, <3>3, CarriedNat
  <2>2. voiced' \in 0..MaxTokens /\ buffer' \in 0..MaxTokens
    <3>1. voiced \in Nat /\ buffer \in Nat /\ MaxTokens \in Nat /\ voiced \in 0..MaxTokens
      BY CarriedNat, PipelineAssumption DEF TypeOK
    <3>2. \/ voiced' = voiced + (buffer + 1) /\ buffer' = 0
          \/ voiced' = voiced /\ buffer' \in {buffer, buffer + 1}
      BY <1>11 DEF TtsText, Synthesize
    <3> QED  BY <2>1, <3>1, <3>2
  <2>3. pc' \in {[pc EXCEPT !["tts"] = "synth"], [pc EXCEPT !["tts"] = "get"]}
    BY <1>11 DEF TtsText, Synthesize, Goto
  <2> QED  BY <1>11, <2>2, <2>3 DEF TtsText, Synthesize, TypeOK
<1>12. CASE TtsLast
  <2>1. voiced + buffer \in 0..MaxTokens
    <3>1. InHand("tts") \in Nat /\ Pending("llm") \in Nat
      BY DEF InHand, Pending
    <3>2. voiced + buffer + InHand("tts") + Carried(text) + Pending("llm") <= tokens
      BY DEF Voicing
    <3>3. tokens \in 0..MaxTokens /\ MaxTokens \in Nat
      BY PipelineAssumption DEF TypeOK
    <3> QED  BY <3>1, <3>2, <3>3, CarriedNat
  <2>2. voiced' \in 0..MaxTokens /\ buffer' \in 0..MaxTokens
    BY SMTT(30), <1>12, <2>1, PipelineAssumption DEF TtsLast, Synthesize, TypeOK
  <2>3. /\ pc' \in {[pc EXCEPT !["tts"] = "synth"], [pc EXCEPT !["tts"] = "eos"]}
        /\ fate' \in {fate, [fate EXCEPT !["tts"] = "done"]}
    BY <1>12 DEF TtsLast, Synthesize, Leave, Goto
  <2> QED  BY <1>12, <2>2, <2>3 DEF TtsLast, TypeOK, Stages, Final
<1>13. CASE TtsAudio
  <2>1. made' \in 0..MaxChunks
    BY <1>13, PipelineAssumption DEF TtsAudio, TypeOK
  <2> QED  BY <1>13, <2>1 DEF TtsAudio, Goto, TypeOK, Tasks
<1>14. CASE TtsCork
  BY <1>14
  DEF TtsCork, At, Goto, TypeOK, Places, Tasks, Stages, Final, Active, Live
<1>15. CASE TtsPut
  BY <1>15, TtsPutIs, QueueTypeIs, PipelineAssumption
  DEF TtsPut, At, Goto, TypeOK, Places, Tasks, Stages, Final, Active, Live
<1>16. CASE TtsPhraseEnds
  BY <1>16
  DEF TtsPhraseEnds, At, Goto, Leave, TypeOK, Places, Tasks, Stages, Final, Active, Live
<1>17. CASE TtsEos
  BY <1>17, TtsEosIs, QueueTypeIs, PipelineAssumption
  DEF TtsEos, At, Goto, AfterEos, TypeOK, Places, Tasks, Stages, Final, Active, Live
<1>18. CASE TransportGet
  BY SMTT(30), <1>18, GetIs, QueueTypeIs, PipelineAssumption
  DEF TransportGet, At, Goto, TypeOK, Places, Tasks, Stages, Final, Active, Live
<1>19. CASE TransportClosed
  BY <1>19
  DEF TransportClosed, At, Goto, TypeOK, Places, Tasks, Stages, Final, Active, Live
<1>20. CASE TransportSend
  <2>1. sent' \in Seq(1..MaxChunks)
    <3>1. held["transport"] # EndOfStream => held["transport"] \in 1..MaxChunks
      BY PipelineAssumption DEF TypeOK, Places, EndOfStream
    <3>2. \/ sent' = sent
          \/ held["transport"] # EndOfStream /\ sent' = Append(sent, held["transport"])
      BY <1>20 DEF TransportSend
    <3>3. sent \in Seq(1..MaxChunks)
      BY DEF TypeOK
    <3>4. ASSUME NEW e \in 1..MaxChunks PROVE Append(sent, e) \in Seq(1..MaxChunks)
      BY <3>3, AppendProperties
    <3> QED  BY <3>1, <3>2, <3>3, <3>4
  <2> QED  BY <1>20, <2>1 DEF TransportSend, Goto, TypeOK, Tasks, Final
<1>21. ASSUME NEW t \in Tasks, Publish(t) PROVE TypeOK'
  BY <1>21
  DEF Publish, At, Goto, TypeOK, Places, Tasks, Stages, Final, Active, Live
<1>22. ASSUME NEW t \in Stages, CancelBegins(t) PROVE TypeOK'
  <2>1. entries' \in {entries, Append(entries, "interrupted")}
    BY <1>22 DEF CancelBegins
  <2>2. entries' \in Seq({"completed", "interrupted"})
    BY SMTT(30), <2>1 DEF TypeOK
  <2>3. response' \in {response, "cancelled"}
    BY <1>22 DEF CancelBegins
  <2>4. callback' \in {[callback EXCEPT ![t] = "none"], [callback EXCEPT ![t] = "flushText"]}
    BY <1>22 DEF CancelBegins
  <2> QED  BY <1>22, <2>2, <2>3, <2>4 DEF CancelBegins, TypeOK
<1>23. ASSUME NEW t \in Stages, CancelFlushesText(t) PROVE TypeOK'
  BY <1>23, FlushIs, QueueTypeIs, PipelineAssumption
  DEF CancelFlushesText, TypeOK, Places, Tasks, Stages, Final, Active, Live
<1>24. ASSUME NEW t \in Stages, CancelFlushesAudio(t) PROVE TypeOK'
  BY <1>24, FlushIs, QueueTypeIs, PipelineAssumption
  DEF CancelFlushesAudio, TypeOK, Places, Tasks, Stages, Final, Active, Live
<1>25. ASSUME NEW t \in Stages, CancelMarks(t) PROVE TypeOK'
  BY <1>25
  DEF CancelMarks, TypeOK, Places, Tasks, Stages, Final, Active, Live
<1>26. ASSUME NEW t \in Stages, CallbackRaises(t) PROVE TypeOK'
  BY <1>26
  DEF CallbackRaises, Goto, Leave, TypeOK, Places, Tasks, Stages, Final, Active, Live
<1>27. CASE GatherReturns
  BY <1>27, CloseIs, QueueTypeIs, PipelineAssumption
  DEF GatherReturns, TypeOK, Places, Tasks, Stages, Final, Active, Live
<1>28. CASE GatherRaises
  BY <1>28, CloseIs, QueueTypeIs, PipelineAssumption
  DEF GatherRaises, TypeOK, Places, Tasks, Stages, Final, Active, Live
<1>29. CASE TimeoutFires
  BY <1>29
  DEF TimeoutFires, SomeRaised, TypeOK, Places, Tasks, Stages, Final, Active, Live
<1>30. CASE TimeoutEnds
  BY <1>30, CloseIs, QueueTypeIs, PipelineAssumption
  DEF TimeoutEnds, TypeOK, Places, Tasks, Stages, Final, Active, Live
<1>31. CASE PlaybackDone
  BY <1>31
  DEF PlaybackDone, TypeOK, Places, Tasks, Stages, Final, Active, Live
<1>32. CASE BargeIn
  BY <1>32
  DEF BargeIn, TypeOK, Places, Tasks, Stages, Final, Active, Live
<1>33. CASE UNCHANGED vars
  BY <1>33
  DEF vars, TypeOK, Places, Tasks, Stages, Final, Active, Live
<1> QED
  BY <1>1, <1>2, <1>3, <1>4, <1>5, <1>6, <1>7, <1>8, <1>9, <1>10, <1>11, <1>12, <1>13, <1>14, <1>15, <1>16, <1>17, <1>18, <1>19, <1>20, <1>21, <1>22, <1>23, <1>24, <1>25, <1>26, <1>27, <1>28, <1>29, <1>30, <1>31, <1>32, <1>33
  DEF Next, LlmNext, TtsNext, TransportNext, PublishNext, CancelNext, GatherNext, Terminated

(* Once gather has returned only the end of the playback or a barge-in is left. *)
LEMMA NothingRunsAfterwards ==
  ASSUME TypeOK, Places, parent = "returned", [Next]_vars
  PROVE  PlaybackDone \/ BargeIn \/ UNCHANGED vars
<1>1. /\ \A t \in Tasks : pc[t] = "done"
      /\ \A t \in Stages : callback[t] = "none"
  BY DEF Places, AllDone, Tasks, Stages, TypeOK
<1>2. ~LlmNext
  BY <1>1
  DEF LlmNext, LlmNeverStarts, LlmToken, LlmCork, LlmPut, LlmStreamEnds, LlmEos, At, Tasks
<1>3. ~TtsNext
  BY <1>1
  DEF TtsNext, TtsNeverStarts, TtsGet, TtsClosed, TtsRaises, TtsText, TtsLast, TtsAudio,
      TtsCork, TtsPut, TtsPhraseEnds, TtsEos, At, Tasks
<1>4. ~TransportNext /\ ~PublishNext
  BY <1>1
  DEF TransportNext, TransportGet, TransportClosed, TransportSend, PublishNext, Publish, At, Tasks
<1>5. ~CancelNext
  BY <1>1
  DEF CancelNext, CancelBegins, CancelFlushesText, CancelFlushesAudio, CancelMarks,
      CallbackRaises
<1>6. ~GatherNext /\ ~TimeoutFires
  BY DEF GatherNext, GatherReturns, GatherRaises, TimeoutEnds, TimeoutFires
<1> QED  BY <1>2, <1>3, <1>4, <1>5, <1>6 DEF Next, Terminated

(* And nothing else makes it return.                                            *)
LEMMA OnlyGatherReturns ==
  ASSUME TypeOK, parent # "returned", [Next]_vars
  PROVE  GatherReturns \/ parent' # "returned"
<1>1. CASE LlmNext
  BY <1>1
  DEF LlmNext, LlmNeverStarts, LlmToken, LlmCork, LlmPut, LlmStreamEnds, LlmEos
<1>2. CASE TtsNext
  BY <1>2
  DEF TtsNext, TtsNeverStarts, TtsGet, TtsClosed, TtsRaises, TtsText, TtsLast, TtsAudio,
      TtsCork, TtsPut, TtsPhraseEnds, TtsEos
<1>3. CASE TransportNext \/ PublishNext
  BY <1>3
  DEF TransportNext, TransportGet, TransportClosed, TransportSend, PublishNext, Publish
<1>4. CASE CancelNext
  BY <1>4
  DEF CancelNext, CancelBegins, CancelFlushesText, CancelFlushesAudio, CancelMarks,
      CallbackRaises
<1>5. CASE GatherNext \/ TimeoutFires \/ PlaybackDone \/ BargeIn \/ UNCHANGED vars
  BY <1>5
  DEF GatherNext, GatherRaises, TimeoutEnds, TimeoutFires, PlaybackDone, BargeIn, vars
<1> QED  BY <1>1, <1>2, <1>3, <1>4, <1>5 DEF Next, Terminated

(* When gather returns the counts close: everything is spoken and sent.         *)
LEMMA CompleteDeliveryStep ==
  ASSUME TypeOK, Places, TextEnds, AudioEnds, Voicing, Sending, CompleteDelivery, [Next]_vars
  PROVE  CompleteDelivery'
<1>1. CASE parent = "returned"
  BY <1>1, NothingRunsAfterwards DEF CompleteDelivery, PlaybackDone, BargeIn, Active, vars
<1>2. CASE GatherReturns
  <2>1. /\ \A t \in Tasks : pc[t] = "done"
        /\ parent = "gather" /\ ~Halted
        /\ UNCHANGED <<tokens, voiced, made, sent, response>>
        /\ text'.items = text.items /\ audio'.items = audio.items
    BY <1>2, CloseIs DEF GatherReturns, AllDone, Halted
  <2>2. TextOver /\ AudioOver /\ fate["tts"] = "done"
    BY <2>1 DEF TextOver, AudioOver, Places, Tasks
  <2>3. text.items = <<>> /\ audio.items = <<>> /\ Carried(text) = 0 /\ Carried(audio) = 0
    BY <2>2, CarriedNat DEF TextEnds, AudioEnds
  <2>4. InHand("tts") = 0 /\ InHand("transport") = 0 /\ Pending("llm") = 0 /\ Pending("tts") = 0
    BY <2>1 DEF InHand, Pending, Tasks
  <2>5. SUFFICES ASSUME response # "cancelled" PROVE voiced = tokens /\ Len(sent) = made
    BY <2>1, <2>3 DEF CompleteDelivery
  <2>6. Active
    BY <2>1, <2>5 DEF Places, TypeOK, Active
  <2>7. voiced = tokens
    BY <2>1, <2>2, <2>3, <2>4, <2>6, CarriedNat DEF Voicing, Tasks
  <2>8. Len(sent) = made
    BY <2>1, <2>3, <2>4, <2>6, SendingNat DEF Sending, Tasks
  <2> QED  BY <2>7, <2>8
<1>3. CASE parent' # "returned"
  BY <1>3 DEF CompleteDelivery
<1> QED  BY <1>1, <1>2, <1>3, OnlyGatherReturns

(* The first state.                                                             *)
LEMMA PipelineInit == Init => PipelineInv
<1> SUFFICES ASSUME Init PROVE PipelineInv
  OBVIOUS
<1>1. /\ text.items = <<>> /\ audio.items = <<>> /\ sent = <<>> /\ entries = <<>>
      /\ ~TextQ!Stopped(text) /\ ~AudioQ!Stopped(audio)
  BY DEF Init, TextQ!EmptyQueue, AudioQ!EmptyQueue, TextQ!Stopped, AudioQ!Stopped
<1>2. TypeOK
  <2>1. text \in QueueType(MaxTokens) /\ audio \in QueueType(MaxChunks)
    <3>1. ASSUME NEW n \in Nat
          PROVE  TextQ!EmptyQueue \in QueueType(n) /\ AudioQ!EmptyQueue \in QueueType(n)
      BY DEF TextQ!EmptyQueue, AudioQ!EmptyQueue, QueueType
    <3> QED  BY <3>1, PipelineAssumption DEF Init
  <2> QED
    BY <2>1, PipelineAssumption DEF Init, TypeOK, Tasks, Stages, Final, EndOfStream
<1>3. Places
  BY <1>1, PipelineAssumption
  DEF Init, Places, Past, Tasks, Stages, Halted, EndOfStream
<1>4. /\ Carried(text) = 0 /\ Carried(audio) = 0 /\ ~EndsIn(text) /\ ~EndsIn(audio)
      /\ Len(text.items) = 0 /\ Len(audio.items) = 0 /\ Len(sent) = 0
  BY <1>1 DEF Carried, EndsIn
<1>5. TextEnds /\ AudioEnds
  BY <1>1, <1>4 DEF Init, TextEnds, AudioEnds, TextOver, AudioOver
<1>6. Voicing /\ Sending
  BY <1>4 DEF Init, Voicing, Sending, InHand, Pending
<1>7. Cancelling /\ InterruptedIsFinal /\ SentInOrder /\ CompleteDelivery
  BY <1>1 DEF Init, Cancelling, Flushing, InterruptedIsFinal, SentInOrder, CompleteDelivery, Stages
<1> QED  BY <1>2, <1>3, <1>5, <1>6, <1>7 DEF PipelineInv

(* The inductive invariant: where everything is, and how many of it.            *)
THEOREM PipelineInvariant == Spec => []PipelineInv
<1>1. PipelineInv /\ [Next]_vars => PipelineInv'
  <2> SUFFICES ASSUME PipelineInv, [Next]_vars PROVE PipelineInv'
    OBVIOUS
  <2>1. /\ TypeOK /\ Places /\ TextEnds /\ AudioEnds /\ Voicing /\ Sending /\ Cancelling
        /\ InterruptedIsFinal /\ SentInOrder /\ CompleteDelivery
    BY DEF PipelineInv
  <2>2. TypeOK' /\ Places'
    BY <2>1, TypeStep, PlacesStep
  <2>3. TextEnds' /\ AudioEnds'
    BY <2>1, TextEndsStep, AudioEndsStep
  <2>4. Voicing'
    BY <2>1, VoicingStep
  <2>5. Sending' /\ SentInOrder'
    BY <2>1, SendingStep
  <2>6. Cancelling' /\ InterruptedIsFinal'
    BY <2>1, CancellingStep
  <2>7. CompleteDelivery'
    BY <2>1, CompleteDeliveryStep
  <2> QED  BY <2>2, <2>3, <2>4, <2>5, <2>6, <2>7 DEF PipelineInv
<1> QED  BY <1>1, PipelineInit, PTL DEF Spec

(* The shape of the state, and of the conversation: a response marked           *)
(* interrupted is not recorded as completed afterwards, nor marked twice.       *)
THEOREM PipelineIsSound == Spec => []Inv
<1>1. PipelineInv => Inv
  BY DEF PipelineInv, Inv
<1> QED  BY <1>1, PipelineInvariant, PTL

(* The browser receives the chunks in order, without a gap and none twice.      *)
THEOREM PipelineSendsInOrder == Spec => []SentInOrder
<1>1. PipelineInv => SentInOrder
  BY DEF PipelineInv
<1> QED  BY <1>1, PipelineInvariant, PTL

(* A turn that returns has spoken every token and sent every chunk, unless it   *)
(* was cancelled, and leaves nothing behind in a queue.                         *)
THEOREM PipelineDeliversAll == Spec => []CompleteDelivery
<1>1. PipelineInv => CompleteDelivery
  BY DEF PipelineInv
<1> QED  BY <1>1, PipelineInvariant, PTL

(* Two hard limits at once start one cancellation.                              *)
THEOREM PipelineCancelsOnce == Spec => []OneCancellation
<1>1. ASSUME PipelineInv PROVE OneCancellation
  <2> DEFINE S == {t \in Stages : callback[t] \in {"flushText", "flushAudio", "mark"}}
  <2>1. \A t, u \in S : t = u
    BY <1>1 DEF PipelineInv, Cancelling, Flushing
  <2>2. CASE S = {}
    BY <2>2, FS_EmptySet DEF OneCancellation
  <2>3. ASSUME NEW t \in S PROVE OneCancellation
    <3>1. S = {t}
      BY <2>1
    <3>2. Cardinality({t}) = 1
      BY FS_Singleton
    <3> QED  BY <3>1, <3>2 DEF OneCancellation
  <2> QED  BY <2>2, <2>3
<1> QED  BY <1>1, PipelineInvariant, PTL

(* No audio of a cancelled response is sent, although chunks of it can still be *)
(* put after the flush.                                                         *)
THEOREM PipelineFallsSilent == Spec => SilentAfterCancel
<1>1. [Next]_vars => [response = "cancelled" => sent' = sent]_vars
  <2> SUFFICES ASSUME Next, response = "cancelled" PROVE sent' = sent
    BY DEF vars
  <2>1. CASE LlmNext
    BY <2>1
    DEF LlmNext, LlmNeverStarts, LlmToken, LlmCork, LlmPut, LlmStreamEnds, LlmEos
  <2>2. CASE TtsNext
    BY <2>2
    DEF TtsNext, TtsNeverStarts, TtsGet, TtsClosed, TtsRaises, TtsText, TtsLast, TtsAudio,
        TtsCork, TtsPut, TtsPhraseEnds, TtsEos
  <2>3. CASE TransportNext \/ PublishNext
    BY <2>3
    DEF TransportNext, TransportGet, TransportClosed, TransportSend, PublishNext, Publish, Active
  <2>4. CASE CancelNext
    BY <2>4
    DEF CancelNext, CancelBegins, CancelFlushesText, CancelFlushesAudio, CancelMarks,
        CallbackRaises
  <2>5. CASE GatherNext \/ TimeoutFires \/ PlaybackDone \/ BargeIn \/ Terminated
    BY <2>5
    DEF GatherNext, GatherReturns, GatherRaises, TimeoutEnds, TimeoutFires, PlaybackDone,
        BargeIn, Terminated, vars
  <2> QED  BY <2>1, <2>2, <2>3, <2>4, <2>5 DEF Next
<1> QED  BY <1>1, PTL DEF Spec, SilentAfterCancel

--------------------------------------------------------------------------------
(* The turn-taking, for any number of responses, candidates and messages in     *)
(* flight.                                                                      *)
(*                                                                              *)
(* FenceHolds is not inductive alone: a response about to start must not be     *)
(* cancelled already, so cancelled responses are started ones (Known).          *)
(* CandidatePending needs the order of the candidates on their way: one that    *)
(* arrives late may be marked decided as stale, and must not be the one that is *)
(* pending (Ordered). The coordinator may for a moment hold a decided candidate,*)
(* inside a confirmation that cancels at once; that it always does depends on   *)
(* CoordinatorFollows and FenceHolds.                                           *)

CandidateType == [id : Ids, response : 0..MaxResponses]
CoordType == [state : States, active : 0..MaxResponses,
              candidate : CandidateType, processed : SUBSET Ids]

(* CandidatePending of any coordinator. *)
PendingIn(c) ==
  /\ c.state = "CANDIDATE" => Holding(c)
  /\ Holding(c) => c.candidate.id \notin c.processed

Sound(c) == c \in CoordType /\ PendingIn(c)

(* No candidate is one, and the backend's are. *)
LEMMA Candidates ==
  /\ NoCandidate \in CandidateType
  /\ \A r \in 1..MaxResponses :
       BackendCandidate(r) \in CandidateType /\ BackendCandidate(r) # NoCandidate
  BY SessionAssumption
  DEF NoCandidate, BackendCandidate, CandidateType, Ids, None

(* The coordinator c moved to state s, following a. *)
Move(c, s, a) == [c EXCEPT !.active = a, !.state = s]

(* Moving a coordinator keeps its candidate and the decided ones. *)
LEMMA Moved ==
  ASSUME NEW c \in CoordType, NEW s \in States, NEW a \in 0..MaxResponses
  PROVE  /\ Move(c, s, a) \in CoordType
         /\ Move(c, s, a).state = s /\ Move(c, s, a).active = a
         /\ Move(c, s, a).candidate = c.candidate
         /\ Move(c, s, a).processed = c.processed
  BY DEF CoordType, Move

(* None stands for a response where the type has them. *)
LEMMA NoneInRange == None \in 0..MaxResponses
  BY SessionAssumption DEF None

(* assistant_playing follows the response and keeps the candidate. *)
LEMMA PlayingSound ==
  ASSUME NEW c \in CoordType, NEW r \in 0..MaxResponses, PendingIn(c)
  PROVE  /\ Sound(AssistantPlaying(c, r))
         /\ AssistantPlaying(c, r).active = r
         /\ AssistantPlaying(c, r).candidate = c.candidate
  BY DEF Sound, PendingIn, AssistantPlaying, CoordType, States, Holding

(* assistant_finished may only forget the response. *)
LEMMA FinishedSound ==
  ASSUME NEW c \in CoordType, NEW r \in 0..MaxResponses, PendingIn(c)
  PROVE  /\ Sound(AssistantFinished(c, r))
         /\ AssistantFinished(c, r).active \in {None, c.active}
         /\ AssistantFinished(c, r).candidate = c.candidate
<1>1. CASE r # c.active \/ c.candidate.response = r
  BY <1>1 DEF Sound, AssistantFinished
<1>2. CASE ~(r # c.active \/ c.candidate.response = r)
  <2> DEFINE s == IF c.state = "ASSISTANT_PLAYING" THEN "IDLE" ELSE c.state
             d == Move(c, s, None)
  <2>1. s \in States /\ (s = "CANDIDATE" => c.state = "CANDIDATE")
    BY DEF CoordType, States
  <2>2. AssistantFinished(c, r) = d
    BY <1>2 DEF AssistantFinished, Move
  <2> HIDE DEF s
  <2>3. d \in CoordType /\ d.state = s /\ d.active = None
        /\ d.candidate = c.candidate /\ d.processed = c.processed
    BY <2>1, NoneInRange, Moved
  <2> QED
    BY <2>1, <2>2, <2>3 DEF Sound, PendingIn, Holding
<1> QED
  BY <1>1, <1>2

(* candidate keeps the response; a new candidate may become pending. *)
LEMMA ConsideredSound ==
  ASSUME NEW c \in CoordType, NEW cand \in CandidateType, PendingIn(c),
         cand # NoCandidate,
         Holding(c) => cand.id # c.candidate.id
  PROVE  /\ Sound(Considered(c, cand))
         /\ Considered(c, cand).active = c.active
         /\ Considered(c, cand).candidate \in {c.candidate, cand}
  BY DEF Sound, PendingIn, Considered, CoordType, CandidateType, States, Holding

(* reject leaves no candidate. *)
LEMMA RejectedSound ==
  ASSUME NEW c \in CoordType, PendingIn(c)
  PROVE  /\ Sound(Rejected(c))
         /\ Rejected(c).active = c.active
         /\ Rejected(c).candidate = NoCandidate
  BY Candidates DEF Sound, PendingIn, Rejected, CoordType, CandidateType, States, Holding

(* resolved forgets the response only. *)
LEMMA ResolvedSound ==
  ASSUME NEW c \in CoordType, PendingIn(c)
  PROVE  /\ Sound(Resolved(c))
         /\ Resolved(c).active = None
         /\ Resolved(c).candidate = c.candidate
<1>1. "IDLE" \in States
  BY DEF States
<1> DEFINE d == Move(c, "IDLE", None)
<1>2. d \in CoordType /\ d.state = "IDLE" /\ d.active = None
      /\ d.candidate = c.candidate /\ d.processed = c.processed
  BY <1>1, NoneInRange, Moved
<1>3. Resolved(c) = d
  BY DEF Resolved, CoordType, Move
<1> QED
  BY <1>2, <1>3 DEF Sound, PendingIn, Holding

(* begin_cancelling and cancelled, on the response followed, drop whatever *)
(* candidate there is; on another they do nothing.                         *)
LEMMA CancelSound ==
  ASSUME NEW c \in CoordType, NEW r \in 0..MaxResponses,
         PendingIn(c) \/ c.active = r
  PROVE  LET d == CancelDone(BeginCancelling(c, r), r)
         IN /\ Sound(d)
            /\ d.active = c.active
            /\ d.candidate \in {c.candidate, NoCandidate}
<1>1. CASE r # c.active
  BY <1>1 DEF Sound, PendingIn, BeginCancelling, CancelDone
<1>2. CASE r = c.active
  <2> DEFINE b == [c EXCEPT !.state = "CANCELLING"]
             p == IF Holding(b) THEN b.processed \cup {b.candidate.id} ELSE b.processed
             d == [b EXCEPT !.processed = p, !.candidate = NoCandidate, !.state = "CANCELLED"]
  <2>1. b \in CoordType /\ b.active = c.active /\ b.candidate = c.candidate
    BY DEF CoordType, States
  <2>2. CancelDone(BeginCancelling(c, r), r) = d
    BY <1>2, <2>1 DEF CancelDone, BeginCancelling
  <2>3. p \in SUBSET Ids
    BY <2>1 DEF CoordType, CandidateType
  <2> HIDE DEF p
  <2>4. d \in CoordType /\ d.active = b.active /\ d.candidate = NoCandidate
        /\ d.state = "CANCELLED"
    BY <2>1, <2>3, Candidates DEF CoordType, States
  <2> QED
    BY <2>1, <2>2, <2>4 DEF Sound, PendingIn, Holding
<1> QED
  BY <1>1, <1>2

(* A coordinator that follows r or nothing confirms nothing, rejects, or   *)
(* confirms a candidate on r.                                              *)
LEMMA ConfirmOutcome ==
  ASSUME NEW c \in CoordType, PendingIn(c), NEW r \in 1..MaxResponses,
         c.active \in {None, r}, c.candidate.response # None \/ ~Holding(c)
  PROVE  LET result == Confirm(c)
         IN /\ result.coord \in CoordType
            /\ result.coord.active = c.active
            /\ PendingIn(result.coord) \/ result.coord.active = r
            /\ result.coord.candidate \in {c.candidate, NoCandidate, BackendCandidate(r)}
<1>1. CASE ~Holding(c) /\ c.active = None
  BY <1>1 DEF Confirm
<1>2. CASE ~Holding(c) /\ c.active = r
  <2>1. BackendCandidate(r) \in CandidateType /\ BackendCandidate(r).response = c.active
    BY <1>2, Candidates DEF BackendCandidate
  <2>2. Confirm(c).coord = [c EXCEPT !.candidate = BackendCandidate(r), !.state = "CONFIRMED"]
    BY <1>2, <2>1 DEF Confirm, None
  <2> QED
    BY <1>2, <2>1, <2>2 DEF CoordType, States
<1>3. CASE Holding(c) /\ c.candidate.response # c.active
  BY <1>3, RejectedSound DEF Confirm, Sound
<1>4. CASE Holding(c) /\ c.candidate.response = c.active
  <2>1. Confirm(c).coord = [c EXCEPT !.candidate = c.candidate, !.state = "CONFIRMED"]
    BY <1>4 DEF Confirm
  <2> QED
    BY <1>4, <2>1 DEF CoordType, States, PendingIn, Holding
<1> QED
  BY <1>1, <1>2, <1>3, <1>4
-----------------------------------------------------------------------------
(* The inductive invariant.                                                *)

IsCandidate(m) == m.type = "candidate"

(* Only responses that were started are cancelled or active. *)
Known ==
  /\ cancelled \subseteq 1..started /\ active \in 0..started
  /\ Generating => started # 0

(* A sound in the browser is of some response, and so is a candidate. *)
Named ==
  /\ browser.sound # "silent" => browser.playing # None
  /\ Holding(coord) => coord.candidate.response # None

(* The candidates of q are in the order they were sent, at most `last` of  *)
(* them, all after id.                                                     *)
InOrder(q, id, last) ==
  /\ \A i \in 1..Len(q) : IsCandidate(q[i]) =>
       /\ q[i].id \in 1..last
       /\ q[i].id > id
       /\ \A j \in i+1..Len(q) : IsCandidate(q[j]) => q[i].id < q[j].id
  /\ id <= last

(* The candidates on their way come after the pending one. *)
Ordered == InOrder(inbox, coord.candidate.id, browser.sent)

TurnTaking ==
  /\ SessionTypeOK
  /\ ShownIsActive /\ FenceHolds /\ CoordinatorFollows /\ CandidatePending
  /\ Known /\ Named /\ Ordered

Messages == [type : {"candidate", "done"}, response : Responses, id : Nat]

(* The order does not depend on what an earlier candidate was. *)
LEMMA OrderBelow ==
  ASSUME NEW q \in Seq(Messages), NEW last \in Nat, NEW id \in Int,
         NEW lower \in Int, lower <= id, InOrder(q, id, last)
  PROVE  InOrder(q, lower, last)
  BY DEF InOrder, Messages

(* What is left after the first message is in order, after the first too. *)
LEMMA OrderTail ==
  ASSUME NEW q \in Seq(Messages), NEW last \in Nat, NEW id \in Int,
         q # <<>>, InOrder(q, id, last)
  PROVE  /\ InOrder(Tail(q), id, last)
         /\ IsCandidate(Head(q)) =>
              InOrder(Tail(q), Head(q).id, last) /\ id < Head(q).id /\ Head(q).id \in 1..last
<1>1. /\ Len(q) \in Nat /\ Len(q) >= 1 /\ Len(Tail(q)) = Len(q) - 1 /\ Head(q) = q[1]
      /\ \A i \in 1..Len(q) : q[i] \in Messages
      /\ \A i \in 1..Len(Tail(q)) : Tail(q)[i] = q[i + 1]
  OBVIOUS
<1>2. \A i \in 1..Len(Tail(q)) : IsCandidate(Tail(q)[i]) =>
        /\ Tail(q)[i].id \in 1..last
        /\ Tail(q)[i].id > id
        /\ \A j \in i+1..Len(Tail(q)) : IsCandidate(Tail(q)[j]) => Tail(q)[i].id < Tail(q)[j].id
        /\ IsCandidate(q[1]) => q[1].id < Tail(q)[i].id
  <2> SUFFICES ASSUME NEW i \in 1..Len(Tail(q)), IsCandidate(Tail(q)[i])
               PROVE  /\ Tail(q)[i].id \in 1..last
                      /\ Tail(q)[i].id > id
                      /\ \A j \in i+1..Len(Tail(q)) :
                           IsCandidate(Tail(q)[j]) => Tail(q)[i].id < Tail(q)[j].id
                      /\ IsCandidate(q[1]) => q[1].id < Tail(q)[i].id
    OBVIOUS
  <2>1. i + 1 \in 1..Len(q) /\ i + 1 \in 1+1..Len(q) /\ 1 \in 1..Len(q)
        /\ Tail(q)[i] = q[i + 1]
    BY <1>1
  <2>2. Tail(q)[i].id \in 1..last /\ Tail(q)[i].id > id
    BY <2>1 DEF InOrder
  <2>3. IsCandidate(q[1]) => q[1].id < Tail(q)[i].id
    BY <2>1 DEF InOrder
  <2>4. ASSUME NEW j \in i+1..Len(Tail(q)), IsCandidate(Tail(q)[j])
        PROVE  Tail(q)[i].id < Tail(q)[j].id
    <3>1. j + 1 \in (i+1)+1..Len(q) /\ Tail(q)[j] = q[j + 1]
      BY <1>1
    <3> QED
      BY <2>1, <2>4, <3>1 DEF InOrder
  <2> QED
    BY <2>2, <2>3, <2>4
<1>3. IsCandidate(Head(q)) => id < Head(q).id /\ Head(q).id \in 1..last
  BY <1>1 DEF InOrder
<1>4. id <= last
  BY DEF InOrder
<1> QED
  BY <1>1, <1>2, <1>3, <1>4 DEF InOrder

(* The next candidate, and a report of the end of playback, keep the order. *)
LEMMA OrderAppend ==
  ASSUME NEW q \in Seq(Messages), NEW last \in Nat, NEW id \in Int,
         NEW m \in Messages, NEW now \in Nat, InOrder(q, id, last),
         \/ m.type = "done" /\ now = last
         \/ m.id = last + 1 /\ now = last + 1
  PROVE  InOrder(Append(q, m), id, now)
<1>1. /\ Len(q) \in Nat /\ Len(Append(q, m)) = Len(q) + 1 /\ Append(q, m)[Len(q) + 1] = m
      /\ \A i \in 1..Len(q) : q[i] \in Messages /\ Append(q, m)[i] = q[i]
  OBVIOUS
<1> DEFINE a == Append(q, m)
<1> HIDE DEF a
<1>2. ASSUME NEW i \in 1..Len(a), IsCandidate(a[i])
      PROVE  /\ a[i].id \in 1..now /\ a[i].id > id
             /\ \A j \in i+1..Len(a) : IsCandidate(a[j]) => a[i].id < a[j].id
  <2>1. CASE i = Len(q) + 1
    BY <1>1, <1>2, <2>1 DEF a, InOrder, IsCandidate, Messages
  <2>2. CASE i \in 1..Len(q)
    <3>1. a[i] = q[i] /\ IsCandidate(q[i]) /\ a[i].id \in 1..last /\ a[i].id > id
      BY <1>1, <1>2, <2>2 DEF a, InOrder
    <3>2. ASSUME NEW j \in i+1..Len(a), IsCandidate(a[j])
          PROVE  a[i].id < a[j].id
      <4>1. CASE j \in i+1..Len(q)
        BY <1>1, <2>2, <3>1, <3>2, <4>1 DEF a, InOrder
      <4>2. CASE j = Len(q) + 1
        BY <1>1, <3>1, <3>2, <4>2 DEF a, IsCandidate, Messages
      <4> QED
        BY <1>1, <2>2, <4>1, <4>2 DEF a
    <3> QED
      BY <3>1, <3>2
  <2> QED
    BY <1>1, <2>1, <2>2 DEF a
<1>3. id <= now
  BY DEF InOrder
<1> QED
  BY <1>2, <1>3 DEF a, InOrder
-----------------------------------------------------------------------------
(* The steps.  First what the invariant says in the words of the lemmas,   *)
(* and what is enough to know of a coordinator after a step.               *)

(* What the other lemmas ask of the state. *)
LEMMA InvFacts ==
  ASSUME TurnTaking
  PROVE  /\ coord \in CoordType /\ PendingIn(coord)
         /\ inbox \in Seq(Messages) /\ browser.sent \in Nat
         /\ coord.candidate.id \in Int
         /\ None \notin cancelled
         /\ shown = active
  BY SessionAssumption
  DEF TurnTaking, SessionTypeOK, CoordType, CandidateType, Ids, CandidatePending, PendingIn,
      Messages, Known, ShownIsActive, None

(* A coordinator that the other parts of the invariant accept. *)
Fit(c) ==
  /\ c \in CoordType /\ PendingIn(c)
  /\ c.candidate.response # None \/ ~Holding(c)
  /\ c.candidate = coord.candidate \/ c.candidate.id <= 0

(* The coordinator as it is fits. *)
LEMMA FitNow == ASSUME TurnTaking PROVE Fit(coord)
  BY InvFacts DEF Fit, TurnTaking, Named

(* Without a candidate, or with a backend's, the order is not disturbed. *)
LEMMA FitOrder ==
  ASSUME TurnTaking, NEW c, Fit(c)
  PROVE  InOrder(inbox, c.candidate.id, browser.sent)
<1>1. CASE c.candidate = coord.candidate
  BY <1>1 DEF TurnTaking, Ordered
<1>2. CASE c.candidate.id <= 0 /\ c.candidate.id <= coord.candidate.id
  <2>1. c.candidate.id \in Int
    BY SessionAssumption DEF Fit, CoordType, CandidateType, Ids
  <2> QED
    BY <1>2, <2>1, InvFacts, OrderBelow DEF TurnTaking, Ordered
<1>3. CASE c.candidate.id <= 0 /\ ~(c.candidate.id <= coord.candidate.id)
  <2>1. c.candidate.id \in Int
    BY SessionAssumption DEF Fit, CoordType, CandidateType, Ids
  <2> QED
    BY <1>3, <2>1, InvFacts DEF TurnTaking, Ordered, InOrder
<1> QED
  BY <1>1, <1>2, <1>3 DEF Fit

(* _cancel_response of the response shown always fences it: it cannot be   *)
(* fenced already, so whatever candidate the coordinator held is dropped.  *)
LEMMA CancelKeeps ==
  ASSUME TurnTaking, shown # None, NEW c \in CoordType, c.active = coord.active,
         PendingIn(c) \/ c.active = shown,
         c.candidate.response # None \/ ~Holding(c),
         c.candidate = coord.candidate \/ c.candidate.id <= 0,
         CancelResponse(c, shown)
  PROVE  /\ Fit(coord') /\ coord'.active = coord.active
         /\ cancelled' = cancelled \cup {shown} /\ active' = None /\ shown' = None
         /\ interruption' = shown
         /\ outbox' \in Seq([type : {"audio", "cancelled"}, response : Responses])
<1>1. shown \in Responses /\ shown \in 0..MaxResponses /\ shown \notin cancelled /\ shown = active
  BY InvFacts DEF TurnTaking, SessionTypeOK, FenceHolds, Responses, None
<1>2. /\ coord' = CancelDone(BeginCancelling(c, shown), shown)
      /\ cancelled' = cancelled \cup {shown} /\ active' = None /\ shown' = None
      /\ interruption' = shown
      /\ outbox' = Append(outbox, [type |-> "cancelled", response |-> shown])
  BY <1>1 DEF CancelResponse
<1>3. Sound(coord') /\ coord'.active = c.active /\ coord'.candidate \in {c.candidate, NoCandidate}
  BY <1>1, <1>2, CancelSound
<1>4. outbox' \in Seq([type : {"audio", "cancelled"}, response : Responses])
  BY <1>1, <1>2 DEF TurnTaking, SessionTypeOK
<1>5. Fit(coord')
  BY <1>3 DEF Fit, Sound, Holding, NoCandidate
<1> QED
  BY <1>2, <1>3, <1>4, <1>5

(* CancelKeeps the response shown keeps the invariant. *)
LEMMA CancelledInv ==
  ASSUME TurnTaking, shown # None, Fit(coord'), coord.active = coord'.active,
         cancelled' = cancelled \cup {shown}, active' = None, shown' = None,
         interruption' = shown,
         outbox' \in Seq([type : {"audio", "cancelled"}, response : Responses]),
         turn' = turn, vad' \in {"QUIET", "STARTING", "SPEAKING"}, heard' \in 0..2,
         fencedOn' \subseteq {"CONFIRMED", "REJECTED"},
         UNCHANGED <<started, complete, played, audible, inbox, browser>>
  PROVE  TurnTaking'
<1>1. shown \in Responses /\ shown \in 1..started /\ shown = active
  BY SMTT(30), InvFacts DEF TurnTaking, SessionTypeOK, Known, Responses, None
<1>2. SessionTypeOK'
  BY <1>1, NoneInRange DEF TurnTaking, SessionTypeOK, Fit, CoordType, CandidateType, Responses
<1>3. ShownIsActive' /\ FenceHolds' /\ CoordinatorFollows' /\ Known'
  BY <1>1, InvFacts
  DEF TurnTaking, ShownIsActive, FenceHolds, CoordinatorFollows, Known, Generating, SessionTypeOK, None
<1>4. CandidatePending' /\ Named'
  BY DEF TurnTaking, Fit, PendingIn, CandidatePending, Named, Holding
<1>5. Ordered'
  BY FitOrder DEF Ordered
<1> QED
  BY <1>2, <1>3, <1>4, <1>5 DEF TurnTaking

(* Receiving leaves an inbox whose order no undecided candidate disturbs. *)
LEMMA Received ==
  ASSUME TurnTaking, NEW type, Receive(type)
  PROVE  /\ Head(inbox) \in Messages /\ inbox' \in Seq(Messages)
         /\ \A c : Fit(c) => InOrder(inbox', c.candidate.id, browser.sent)
<1>1. inbox # <<>> /\ inbox' = Tail(inbox) /\ inbox \in Seq(Messages)
  BY InvFacts DEF Receive
<1>2. Head(inbox) \in Messages /\ inbox' \in Seq(Messages)
  BY <1>1
<1>3. ASSUME NEW c, Fit(c)
      PROVE  InOrder(inbox', c.candidate.id, browser.sent)
  <2>1. c.candidate.id \in Int
    BY <1>3, SessionAssumption DEF Fit, CoordType, CandidateType, Ids
  <2> QED
    BY <1>1, <1>3, <2>1, InvFacts, FitOrder, OrderTail
<1> QED
  BY <1>2, <1>3

(* A candidate, or a restore and a candidate (_handle_barge_in_candidate). *)
LEMMA HandleCandidateStep == ASSUME TurnTaking, HandleCandidate PROVE TurnTaking'
<1> DEFINE m == Head(inbox)
           cand == [id |-> m.id, response |-> m.response]
<1>1. /\ m \in Messages /\ IsCandidate(m) /\ inbox' \in Seq(Messages)
      /\ inbox # <<>> /\ inbox' = Tail(inbox) /\ heard' = 0 /\ turn = "idle"
  BY Received DEF HandleCandidate, Receive, IsCandidate
<1>2. /\ InOrder(inbox', coord.candidate.id, browser.sent)
      /\ InOrder(inbox', m.id, browser.sent)
      /\ coord.candidate.id < m.id /\ m.id \in 1..browser.sent
  BY <1>1, InvFacts, OrderTail DEF TurnTaking, Ordered
<1>3. /\ cand \in CandidateType /\ cand # NoCandidate /\ cand.id # coord.candidate.id
      /\ cand.id = m.id /\ cand.response = m.response
      /\ m.response \in 1..MaxResponses /\ m.response \in 0..MaxResponses
      /\ m.response # None
  <2>1. m.id \in 1..MaxCandidates
    BY <1>2, SessionAssumption DEF TurnTaking, SessionTypeOK
  <2>2. m.id \in Ids
    BY <2>1, SessionAssumption DEF Ids
  <2>3. m.response \in 1..MaxResponses
    BY <1>1 DEF Messages, Responses
  <2> HIDE DEF m
  <2> QED
    BY <1>2, <2>1, <2>2, <2>3, InvFacts, SessionAssumption
    DEF CandidateType, NoCandidate, None
<1> HIDE DEF m, cand
<1>4. ASSUME NEW c \in CoordType, PendingIn(c), c.candidate = coord.candidate,
             coord' = Considered(c, cand)
      PROVE  /\ coord' \in CoordType /\ PendingIn(coord') /\ coord'.active = c.active
             /\ coord'.candidate \in {coord.candidate, cand}
  BY <1>3, <1>4, ConsideredSound DEF Sound
<1>5. /\ coord' \in CoordType /\ PendingIn(coord')
      /\ coord'.candidate \in {coord.candidate, cand}
      /\ \/ /\ coord'.active = m.response /\ active' = m.response /\ shown' = m.response
            /\ m.response \notin cancelled /\ m.response \in 1..started
            /\ played' = played \ {m.response}
         \/ coord'.active = coord.active /\ UNCHANGED <<active, shown, played>>
  <2>1. CASE /\ Restorable(m.response)
             /\ active' = m.response /\ shown' = m.response
             /\ played' = played \ {m.response}
             /\ coord' = Considered(Restored(coord, m.response), cand)
    <3> DEFINE p == AssistantPlaying(coord, m.response)
    <3>1. p \in CoordType /\ PendingIn(p) /\ p.active = m.response
          /\ p.candidate = coord.candidate
      BY <1>3, InvFacts, PlayingSound DEF Sound
    <3>2. coord' = Considered(p, cand)
      BY <2>1 DEF Restored
    <3> HIDE DEF p
    <3> QED
      BY <1>4, <2>1, <3>1, <3>2 DEF Restorable
  <2>2. CASE coord' = Considered(coord, cand) /\ UNCHANGED <<active, shown, played>>
    BY <1>4, <2>2, InvFacts
  <2> QED
    BY <2>1, <2>2 DEF HandleCandidate, m, cand
<1>6. UNCHANGED <<started, cancelled, complete, audible, interruption, turn,
                  vad, fencedOn, outbox, browser>>
  BY DEF HandleCandidate
<1>7. SessionTypeOK'
  BY SMTT(30), <1>1, <1>3, <1>5, <1>6
  DEF TurnTaking, SessionTypeOK, CoordType, CandidateType, Messages
<1>8. ShownIsActive' /\ FenceHolds' /\ CoordinatorFollows' /\ Known'
  BY <1>1, <1>3, <1>5, <1>6
  DEF TurnTaking, ShownIsActive, FenceHolds, CoordinatorFollows, Known, Generating
<1>9. CandidatePending' /\ Named'
  BY <1>3, <1>5, <1>6 DEF TurnTaking, PendingIn, CandidatePending, Named, Holding
<1>10. Ordered'
  BY <1>2, <1>3, <1>5, <1>6 DEF Ordered
<1> QED
  BY <1>7, <1>8, <1>9, <1>10 DEF TurnTaking

(* The end of a response's playback, as FinishIfPlayed decides it. *)
LEMMA Finishing ==
  ASSUME TurnTaking, NEW r \in 0..MaxResponses, NEW done, NEW last, FinishIfPlayed(r, done, last)
  PROVE  /\ Fit(coord')
         /\ \/ active' = None /\ shown' = None
            \/ UNCHANGED <<active, shown, coord>>
<1>1. CASE active' = None /\ shown' = None /\ coord' = AssistantFinished(coord, r)
  <2>1. Sound(coord') /\ coord'.candidate = coord.candidate
    BY <1>1, InvFacts, FinishedSound
  <2> QED
    BY <1>1, <2>1, FitNow DEF Fit, Sound, Holding
<1>2. CASE UNCHANGED <<active, shown, coord>>
  BY <1>2, FitNow
<1> QED
  BY <1>1, <1>2 DEF FinishIfPlayed

(* A report of the end of playback, of whichever response it is. *)
LEMMA HandlePlaybackDoneStep == ASSUME TurnTaking, HandlePlaybackDone PROVE TurnTaking'
<1> DEFINE r == Head(inbox).response
<1>1. /\ r \in Responses /\ r \in 0..MaxResponses /\ inbox' \in Seq(Messages)
      /\ heard' = 0 /\ turn = "idle"
  <2>1. Head(inbox) \in Messages /\ inbox' \in Seq(Messages)
    BY Received DEF HandlePlaybackDone
  <2>2. heard' = 0 /\ turn = "idle"
    BY DEF HandlePlaybackDone, Receive
  <2>3. r \in Responses
    BY <2>1 DEF Messages
  <2> HIDE DEF r
  <2> QED
    BY <2>1, <2>2, <2>3, SessionAssumption DEF Responses
<1>2. /\ Fit(coord')
      /\ \/ active' = None /\ shown' = None
         \/ UNCHANGED <<active, shown, coord>>
  BY <1>1, Finishing DEF HandlePlaybackDone
<1>3. /\ played' = played \cup {r}
      /\ UNCHANGED <<started, cancelled, complete, audible, interruption, turn,
                     vad, fencedOn, outbox, browser>>
  BY DEF HandlePlaybackDone
<1>4. InOrder(inbox', coord'.candidate.id, browser.sent)
  BY <1>2, Received DEF HandlePlaybackDone
<1> HIDE DEF r
<1>5. SessionTypeOK'
  <2>1. active' \in 0..MaxResponses /\ shown' \in 0..MaxResponses
    BY <1>2, NoneInRange DEF TurnTaking, SessionTypeOK
  <2>2. coord' \in CoordType /\ played' \subseteq Responses
    BY <1>1, <1>2, <1>3 DEF TurnTaking, SessionTypeOK, Fit
  <2>3. heard' \in 0..2 /\ inbox' \in Seq(Messages) /\ SessionTypeOK
    BY <1>1 DEF TurnTaking
  <2>4. UNCHANGED <<started, cancelled, complete, audible, interruption, turn,
                    vad, fencedOn, outbox, browser>>
    BY <1>3
  <2> QED
    BY <2>1, <2>2, <2>3, <2>4 DEF SessionTypeOK, CoordType, CandidateType, Messages
<1>6. ShownIsActive' /\ FenceHolds' /\ CoordinatorFollows' /\ Known'
  BY <1>1, <1>2, <1>3, InvFacts
  DEF TurnTaking, SessionTypeOK, ShownIsActive, FenceHolds, CoordinatorFollows, Known, Generating, None
<1>7. CandidatePending' /\ Named'
  BY <1>2, <1>3 DEF TurnTaking, Fit, PendingIn, CandidatePending, Named, Holding
<1>8. Ordered'
  BY <1>3, <1>4 DEF Ordered
<1> QED
  BY <1>5, <1>6, <1>7, <1>8 DEF TurnTaking

(* A step that changes the coordinator and none of the queues, and makes   *)
(* nothing active, keeps the invariant if the coordinator fits.            *)
LEMMA CoordinatorStep ==
  ASSUME TurnTaking, Fit(coord'), coord'.active \in {None, coord.active},
         vad' \in {"QUIET", "STARTING", "SPEAKING"}, heard' \in 0..2,
         interruption' \in 0..MaxResponses,
         UNCHANGED <<active, shown, started, cancelled, complete, played, audible,
                     turn, fencedOn, inbox, outbox, browser>>
  PROVE  TurnTaking'
<1>1. SessionTypeOK'
  <2>1. coord' \in CoordType /\ SessionTypeOK
    BY DEF TurnTaking, Fit
  <2> QED
    BY <2>1 DEF SessionTypeOK, CoordType, CandidateType
<1>2. ShownIsActive' /\ FenceHolds' /\ CoordinatorFollows' /\ Known'
  BY DEF TurnTaking, ShownIsActive, FenceHolds, CoordinatorFollows, Known, Generating
<1>3. CandidatePending' /\ Named'
  BY DEF TurnTaking, Fit, PendingIn, CandidatePending, Named, Holding
<1>4. Ordered'
  BY FitOrder DEF Ordered
<1> QED
  BY <1>1, <1>2, <1>3, <1>4 DEF TurnTaking

(* A quiet frame rejects whatever candidate there is. *)
LEMMA QuietFrameStep == ASSUME TurnTaking, QuietFrame PROVE TurnTaking'
<1>1. Sound(coord') /\ coord'.active = coord.active /\ coord'.candidate = NoCandidate
  BY InvFacts, RejectedSound DEF QuietFrame
<1>2. Fit(coord')
  BY <1>1 DEF Fit, Sound, Holding, NoCandidate
<1> QED
  BY <1>1, <1>2, CoordinatorStep DEF QuietFrame, TurnTaking, SessionTypeOK

(* The first frame of speech changes the detector only. *)
LEMMA StartingFrameStep == ASSUME TurnTaking, StartingFrame PROVE TurnTaking'
  BY FitNow, CoordinatorStep DEF StartingFrame, TurnTaking, SessionTypeOK

(* A turn without a response may resolve the barge-in, no more. *)
LEMMA TurnIgnoredStep == ASSUME TurnTaking, TurnIgnored PROVE TurnTaking'
<1>1. Sound(Resolved(coord)) /\ Resolved(coord).active = None
      /\ Resolved(coord).candidate = coord.candidate
  BY InvFacts, ResolvedSound
<1>2. Fit(Resolved(coord))
  BY <1>1, FitNow DEF Fit, Sound, Holding
<1>3. coord' = Resolved(coord) \/ coord' = coord
  BY DEF TurnIgnored
<1>4. Fit(coord') /\ coord'.active \in {None, coord.active}
  BY <1>1, <1>2, <1>3, FitNow
<1>5. vad' \in {"QUIET", "STARTING", "SPEAKING"} /\ heard' \in 0..2
  BY DEF TurnIgnored, EndTurn
<1>6. interruption' \in 0..MaxResponses
  BY NoneInRange DEF TurnIgnored
<1> QED
  BY <1>4, <1>5, <1>6, CoordinatorStep DEF TurnIgnored

(* A frame of speech does nothing, or forgets a stale backend candidate, or *)
(* fences the response shown (_confirm_barge_in_from_vad).                  *)
LEMMA SpeechFrameStep == ASSUME TurnTaking, SpeechFrame PROVE TurnTaking'
<1>1. PICK evidence \in 0..2 : heard' = evidence /\ ConfirmFromVad(evidence)
  BY DEF SpeechFrame
<1>2. /\ vad' \in {"QUIET", "STARTING", "SPEAKING"} /\ heard' \in 0..2
      /\ UNCHANGED <<started, complete, played, audible, turn, inbox, browser>>
  BY <1>1 DEF SpeechFrame
<1> DEFINE c == IF Holding(coord) THEN coord ELSE Considered(coord, BackendCandidate(shown))
           result == Confirm(c)
<1>3. CASE UNCHANGED <<coord, active, shown, cancelled, interruption, outbox, fencedOn>>
  BY <1>2, <1>3, FitNow, CoordinatorStep DEF TurnTaking, SessionTypeOK
<1>4. CASE shown # None
  <2>1. shown \in 1..MaxResponses /\ shown \in 0..MaxResponses
        /\ coord.active \in {None, shown}
    BY <1>4 DEF TurnTaking, SessionTypeOK, CoordinatorFollows, None
  <2>2. c \in CoordType /\ PendingIn(c) /\ c.active = coord.active
        /\ c.candidate \in {coord.candidate, BackendCandidate(shown)}
    <3>1. CASE Holding(coord)
      BY <3>1, InvFacts
    <3>2. CASE ~Holding(coord)
      <4>1. BackendCandidate(shown) \in CandidateType /\ BackendCandidate(shown) # NoCandidate
        BY <2>1, Candidates
      <4> QED
        BY <3>2, <4>1, InvFacts, ConsideredSound DEF Sound
    <3> QED
      BY <3>1, <3>2
  <2>3. BackendCandidate(shown).id <= 0 /\ BackendCandidate(shown).response # None
        /\ NoCandidate.id <= 0
    BY <2>1 DEF BackendCandidate, NoCandidate, None
  <2>4. c.candidate.response # None \/ ~Holding(c)
    BY <2>2, <2>3, FitNow DEF Fit, Holding
  <2>5. c.candidate = coord.candidate \/ c.candidate.id <= 0
    BY <2>2, <2>3
  <2> HIDE DEF c
  <2>6. /\ result.coord \in CoordType /\ result.coord.active = c.active
        /\ PendingIn(result.coord) \/ result.coord.active = shown
        /\ result.coord.candidate \in {c.candidate, NoCandidate, BackendCandidate(shown)}
    BY <2>1, <2>2, <2>4, ConfirmOutcome
  <2>7. CASE coord' = c
             /\ UNCHANGED <<active, shown, cancelled, interruption, outbox, fencedOn>>
    <3>1. Fit(coord')
      BY <2>2, <2>4, <2>5, <2>7 DEF Fit
    <3> QED
      BY <1>2, <2>2, <2>7, <3>1, CoordinatorStep DEF TurnTaking, SessionTypeOK
  <2>8. CASE CancelResponse(result.coord, shown)
             /\ fencedOn' = fencedOn \cup {result.verdict}
             /\ result.verdict # "none"
    <3>1. result.verdict \in {"CONFIRMED", "REJECTED"}
      BY <2>8 DEF Confirm
    <3> HIDE DEF result
    <3>2. result.coord.candidate.response # None \/ ~Holding(result.coord)
      BY <2>3, <2>4, <2>6 DEF Holding
    <3>3. result.coord.candidate = coord.candidate \/ result.coord.candidate.id <= 0
      BY <2>3, <2>5, <2>6
    <3>4. /\ Fit(coord') /\ coord'.active = coord.active
          /\ cancelled' = cancelled \cup {shown} /\ active' = None /\ shown' = None
          /\ interruption' = shown
          /\ outbox' \in Seq([type : {"audio", "cancelled"}, response : Responses])
      BY <1>4, <2>2, <2>6, <2>8, <3>2, <3>3, CancelKeeps
    <3>5. fencedOn' \subseteq {"CONFIRMED", "REJECTED"}
      BY <2>8, <3>1 DEF TurnTaking, SessionTypeOK
    <3> QED
      BY <1>2, <1>4, <3>4, <3>5, CancelledInv
  <2> QED
    BY <1>1, <1>3, <2>7, <2>8 DEF ConfirmFromVad, c
<1> QED
  BY <1>1, <1>3, <1>4 DEF ConfirmFromVad

(* The response that starts is a new one: no cancelled response has its    *)
(* number, and the coordinator follows it whatever it followed before.     *)
LEMMA TurnAcceptedStep == ASSUME TurnTaking, TurnAccepted PROVE TurnTaking'
<1>1. /\ started' = started + 1 /\ active' = started' /\ shown' = started'
      /\ turn' \in {"generating", "explaining"}
      /\ vad' \in {"QUIET", "STARTING", "SPEAKING"} /\ heard' = 0
      /\ UNCHANGED <<cancelled, complete, played, audible, interruption, fencedOn,
                     inbox, outbox, browser>>
  BY DEF TurnAccepted, EndTurn
<1>2. started' \in 1..MaxResponses /\ started' \in 0..MaxResponses /\ started' \notin cancelled
  BY <1>1, SessionAssumption DEF TurnAccepted, TurnTaking, SessionTypeOK, Known
<1> DEFINE c == IF interruption # None THEN Resolved(coord) ELSE coord
<1>3. c \in CoordType /\ PendingIn(c) /\ c.candidate = coord.candidate
  BY InvFacts, ResolvedSound DEF Sound
<1>4. coord' = AssistantPlaying(c, started')
  BY DEF TurnAccepted
<1> HIDE DEF c
<1>5. Sound(coord') /\ coord'.active = started' /\ coord'.candidate = coord.candidate
  BY <1>2, <1>3, <1>4, PlayingSound
<1>6. Fit(coord')
  BY <1>5, FitNow DEF Fit, Sound, Holding
<1>7. SessionTypeOK'
  <2>1. coord' \in CoordType /\ SessionTypeOK
    BY <1>6 DEF TurnTaking, Fit
  <2> QED
    BY <1>1, <1>2, <2>1 DEF SessionTypeOK, CoordType, CandidateType
<1>8. ShownIsActive' /\ FenceHolds' /\ CoordinatorFollows'
  BY <1>1, <1>2, <1>5 DEF ShownIsActive, FenceHolds, CoordinatorFollows
<1>9. Known'
  BY <1>1, <1>2 DEF TurnTaking, SessionTypeOK, Known, Generating
<1>10. CandidatePending' /\ Named'
  BY <1>1, <1>6 DEF TurnTaking, Fit, PendingIn, CandidatePending, Named, Holding
<1>11. Ordered'
  BY <1>1, <1>6, FitOrder DEF Ordered
<1> QED
  BY <1>7, <1>8, <1>9, <1>10, <1>11 DEF TurnTaking

(* Sending audio adds to the outbox and to what may be restored. *)
LEMMA SendAudioStep == ASSUME TurnTaking, SendAudio PROVE TurnTaking'
<1>1. started \in Responses
  BY DEF SendAudio, TurnTaking, SessionTypeOK, Known, Responses
<1>2. SessionTypeOK'
  <2>1. SessionTypeOK /\ audible' \subseteq Responses
        /\ outbox' \in Seq([type : {"audio", "cancelled"}, response : Responses])
    BY <1>1 DEF SendAudio, TurnTaking, SessionTypeOK
  <2> QED
    BY <2>1 DEF SendAudio, SessionTypeOK
<1>3. UNCHANGED <<coord, active, shown, started, cancelled, turn, inbox, browser>>
  BY DEF SendAudio
<1>4. ShownIsActive' /\ FenceHolds' /\ CoordinatorFollows' /\ Known'
  BY <1>3 DEF TurnTaking, ShownIsActive, FenceHolds, CoordinatorFollows, Known, Generating
<1>5. CandidatePending' /\ Named' /\ Ordered'
  BY <1>3 DEF TurnTaking, CandidatePending, Named, Ordered, Holding
<1> QED
  BY <1>2, <1>4, <1>5 DEF TurnTaking

(* The hard limit fences the response shown, confirmed or not. *)
LEMMA HardLimitStep == ASSUME TurnTaking, HardLimit PROVE TurnTaking'
<1>1. /\ shown # None /\ CancelResponse(coord, shown)
      /\ UNCHANGED <<started, complete, played, audible, turn, vad, heard, fencedOn,
                     inbox, browser>>
  BY DEF HardLimit
<1>2. /\ coord \in CoordType /\ PendingIn(coord)
      /\ coord.candidate.response # None \/ ~Holding(coord)
  BY FitNow DEF Fit
<1>3. /\ Fit(coord') /\ coord'.active = coord.active
      /\ cancelled' = cancelled \cup {shown} /\ active' = None /\ shown' = None
      /\ interruption' = shown
      /\ outbox' \in Seq([type : {"audio", "cancelled"}, response : Responses])
  BY <1>1, <1>2, CancelKeeps
<1>4. vad' \in {"QUIET", "STARTING", "SPEAKING"} /\ heard' \in 0..2
      /\ fencedOn' \subseteq {"CONFIRMED", "REJECTED"}
  BY <1>1 DEF TurnTaking, SessionTypeOK
<1> QED
  BY <1>1, <1>3, <1>4, CancelledInv

(* The end of a generation completes the response and may finish it. *)
LEMMA GenerationEndsStep == ASSUME TurnTaking, GenerationEnds PROVE TurnTaking'
<1>1. /\ complete' = complete \cup {started} /\ turn' = "idle"
      /\ UNCHANGED <<started, cancelled, played, audible, vad, heard, fencedOn,
                     inbox, outbox, browser>>
      /\ started \in Responses /\ started \in 0..MaxResponses
  BY DEF GenerationEnds, TransportDone, TurnTaking, SessionTypeOK, Known, Responses
<1>2. /\ Fit(coord')
      /\ \/ active' = None /\ shown' = None
         \/ UNCHANGED <<active, shown, coord>>
  BY <1>1, Finishing DEF GenerationEnds
<1>3. SessionTypeOK'
  <2>1. active' \in 0..MaxResponses /\ shown' \in 0..MaxResponses
        /\ interruption' \in 0..MaxResponses
    BY <1>2, NoneInRange DEF TurnTaking, SessionTypeOK, GenerationEnds
  <2>2. coord' \in CoordType /\ complete' \subseteq Responses /\ SessionTypeOK
    BY <1>1, <1>2 DEF TurnTaking, SessionTypeOK, Fit
  <2> QED
    BY <1>1, <2>1, <2>2 DEF SessionTypeOK, CoordType, CandidateType
<1>4. ShownIsActive' /\ FenceHolds' /\ CoordinatorFollows' /\ Known'
  BY <1>1, <1>2, InvFacts
  DEF TurnTaking, SessionTypeOK, ShownIsActive, FenceHolds, CoordinatorFollows, Known, Generating, None
<1>5. CandidatePending' /\ Named'
  BY <1>1, <1>2 DEF TurnTaking, Fit, PendingIn, CandidatePending, Named, Holding
<1>6. Ordered'
  BY <1>1, <1>2, FitOrder DEF Ordered
<1> QED
  BY <1>3, <1>4, <1>5, <1>6 DEF TurnTaking

(* The browser's steps leave the session alone: a type, a sound that has a *)
(* name and an order of the inbox are enough.                              *)
LEMMA BrowserStep ==
  ASSUME TurnTaking,
         UNCHANGED <<coord, active, shown, started, cancelled, complete, played,
                     audible, interruption, turn, vad, heard, fencedOn>>,
         inbox' \in Seq(Messages),
         outbox' \in Seq([type : {"audio", "cancelled"}, response : Responses]),
         browser' \in [playing : 0..MaxResponses, sound : {"silent", "sounding", "stopped"},
                       muted : SUBSET Responses, sent : 0..MaxCandidates],
         browser'.sound # "silent" => browser'.playing # None,
         InOrder(inbox', coord.candidate.id, browser'.sent)
  PROVE  TurnTaking'
<1>1. SessionTypeOK'
  BY DEF TurnTaking, SessionTypeOK, Messages
<1>2. ShownIsActive' /\ FenceHolds' /\ CoordinatorFollows' /\ Known'
  BY DEF TurnTaking, ShownIsActive, FenceHolds, CoordinatorFollows, Known, Generating
<1>3. CandidatePending' /\ Named' /\ Ordered'
  BY DEF TurnTaking, CandidatePending, Named, Ordered, Holding
<1> QED
  BY <1>1, <1>2, <1>3 DEF TurnTaking

(* The browser plays a chunk, skips it or goes silent. *)
LEMMA BrowserHearsStep == ASSUME TurnTaking, BrowserHears PROVE TurnTaking'
<1> DEFINE m == Head(outbox)
           Out == [type : {"audio", "cancelled"}, response : Responses]
           Browsers == [playing : 0..MaxResponses, sound : {"silent", "sounding", "stopped"},
                        muted : SUBSET Responses, sent : 0..MaxCandidates]
<1>1. outbox \in Seq(Out) /\ browser \in Browsers
  BY DEF TurnTaking, SessionTypeOK
<1>2. outbox' \in Seq(Out) /\ m \in Out
  <2>1. outbox # <<>> /\ outbox' = Tail(outbox)
    BY DEF BrowserHears
  <2> HIDE DEF Out
  <2> QED
    BY <1>1, <2>1
<1>3. m.response \in Responses /\ m.response \in 0..MaxResponses /\ m.response # None
  BY <1>2, SessionAssumption DEF Responses, None
<1>4. /\ browser' \in Browsers /\ browser'.sent = browser.sent
      /\ browser'.sound # "silent" => browser'.playing # None
  <2>1. CASE UNCHANGED browser
    BY <1>1, <2>1 DEF TurnTaking, Named
  <2>2. CASE browser' = [browser EXCEPT !.playing = m.response, !.sound = "sounding"]
    <3> HIDE DEF m
    <3> QED
      BY <1>1, <1>3, <2>2
  <2>3. CASE browser' = [browser EXCEPT !.playing = None, !.sound = "silent",
                                        !.muted = @ \cup {m.response}]
    <3> HIDE DEF m
    <3> QED
      BY <1>1, <1>3, <2>3, NoneInRange
  <2> QED
    BY <2>1, <2>2, <2>3 DEF BrowserHears
<1>5. inbox' = inbox /\ inbox' \in Seq(Messages)
  BY InvFacts DEF BrowserHears
<1>6. InOrder(inbox', coord.candidate.id, browser'.sent)
  BY <1>4, <1>5 DEF TurnTaking, Ordered
<1> QED
  BY <1>2, <1>4, <1>5, <1>6, BrowserStep DEF BrowserHears

(* The next candidate is later than all those on their way. *)
LEMMA BrowserCandidateStep == ASSUME TurnTaking, BrowserCandidate PROVE TurnTaking'
<1> DEFINE m == [type |-> "candidate", response |-> browser.playing, id |-> browser.sent + 1]
           Browsers == [playing : 0..MaxResponses, sound : {"silent", "sounding", "stopped"},
                        muted : SUBSET Responses, sent : 0..MaxCandidates]
<1>1. browser \in Browsers /\ browser.playing \in Responses
  BY DEF TurnTaking, SessionTypeOK, Named, BrowserCandidate, Responses, None
<1>2. m \in Messages /\ m.id = browser.sent + 1
  BY <1>1, SessionAssumption DEF Messages
<1>3. PICK sound \in {"sounding", "stopped"} :
        browser' = [browser EXCEPT !.sound = sound, !.sent = @ + 1]
  BY DEF BrowserCandidate
<1>4. browser.sent + 1 \in 0..MaxCandidates
  BY <1>1, SessionAssumption DEF BrowserCandidate
<1>5. /\ browser' \in Browsers /\ browser'.sent = browser.sent + 1
      /\ browser'.playing = browser.playing
  BY <1>1, <1>3, <1>4
<1>6. browser'.playing # None
  BY <1>1, <1>5 DEF Responses, None
<1>7. inbox' = Append(inbox, m)
  BY DEF BrowserCandidate
<1> HIDE DEF m, Browsers
<1>8. inbox' \in Seq(Messages)
  BY <1>2, <1>7, InvFacts
<1>9. InOrder(inbox', coord.candidate.id, browser'.sent)
  BY <1>2, <1>5, <1>7, InvFacts, OrderAppend DEF TurnTaking, Ordered
<1>10. outbox' \in Seq([type : {"audio", "cancelled"}, response : Responses])
  BY DEF BrowserCandidate, TurnTaking, SessionTypeOK
<1> QED
  BY <1>5, <1>6, <1>8, <1>9, <1>10, BrowserStep DEF BrowserCandidate, Browsers

(* A report of the end of playback is no candidate. *)
LEMMA BrowserEndsStep == ASSUME TurnTaking, BrowserEnds PROVE TurnTaking'
<1> DEFINE m == [type |-> "done", response |-> browser.playing, id |-> 0]
           Browsers == [playing : 0..MaxResponses, sound : {"silent", "sounding", "stopped"},
                        muted : SUBSET Responses, sent : 0..MaxCandidates]
<1>1. browser \in Browsers /\ browser.playing \in Responses
  BY DEF TurnTaking, SessionTypeOK, Named, BrowserEnds, Responses, None
<1>2. m \in Messages /\ m.type = "done"
  BY <1>1 DEF Messages
<1>3. PICK sound \in {"silent", browser.sound} : browser' = [browser EXCEPT !.sound = sound]
  BY DEF BrowserEnds
<1>4. /\ browser' \in Browsers /\ browser'.sent = browser.sent
      /\ browser'.playing = browser.playing
  BY <1>1, <1>3
<1>5. browser'.playing # None
  BY <1>1, <1>4 DEF Responses, None
<1>6. inbox' = Append(inbox, m)
  BY DEF BrowserEnds
<1> HIDE DEF m, Browsers
<1>7. inbox' \in Seq(Messages)
  BY <1>2, <1>6, InvFacts
<1>8. InOrder(inbox', coord.candidate.id, browser'.sent)
  BY <1>2, <1>4, <1>6, InvFacts, OrderAppend DEF TurnTaking, Ordered
<1>9. outbox' \in Seq([type : {"audio", "cancelled"}, response : Responses])
  BY DEF BrowserEnds, TurnTaking, SessionTypeOK
<1> QED
  BY <1>4, <1>5, <1>7, <1>8, <1>9, BrowserStep DEF BrowserEnds, Browsers
-----------------------------------------------------------------------------
(* The theorems.                                                           *)

(* The call begins with no response, no candidate and nothing on its way. *)
THEOREM SessionStarts == SessionInit => TurnTaking
<1> SUFFICES ASSUME SessionInit PROVE TurnTaking
  OBVIOUS
<1>1. coord.candidate = NoCandidate /\ coord.active = None /\ coord.state = "IDLE"
      /\ inbox = <<>> /\ browser.sound = "silent" /\ browser.sent = 0
  BY DEF SessionInit
<1>2. SessionTypeOK
  <2>1. coord \in CoordType
    BY NoneInRange, Candidates DEF SessionInit, CoordType, States
  <2>2. browser \in [playing : 0..MaxResponses, sound : {"silent", "sounding", "stopped"},
                     muted : SUBSET Responses, sent : 0..MaxCandidates]
    BY NoneInRange, SessionAssumption DEF SessionInit
  <2>3. inbox \in Seq(Messages)
        /\ outbox \in Seq([type : {"audio", "cancelled"}, response : Responses])
    BY DEF SessionInit
  <2>4. 0 \in 0..MaxResponses /\ 0 \in 0..2
    BY SessionAssumption
  <2> QED
    BY <2>1, <2>2, <2>3, <2>4, NoneInRange
    DEF SessionInit, SessionTypeOK, CoordType, CandidateType, Messages
<1>3. ShownIsActive /\ FenceHolds /\ CoordinatorFollows /\ CandidatePending
  BY <1>1 DEF SessionInit, ShownIsActive, FenceHolds, CoordinatorFollows, CandidatePending, Holding
<1>4. Known /\ Named
  BY <1>1 DEF SessionInit, Known, Named, Generating, Holding, None
<1>5. Ordered
  BY <1>1 DEF Ordered, InOrder, NoCandidate
<1> QED
  BY <1>2, <1>3, <1>4, <1>5 DEF TurnTaking

(* No handler of the session and no step of the browser breaks TurnTaking. *)
THEOREM SessionSteps == TurnTaking /\ [SessionNext]_sessionVars => TurnTaking'
<1> SUFFICES ASSUME TurnTaking, [SessionNext]_sessionVars PROVE TurnTaking'
  OBVIOUS
<1>1. CASE HandleCandidate
  BY <1>1, HandleCandidateStep
<1>2. CASE HandlePlaybackDone
  BY <1>2, HandlePlaybackDoneStep
<1>3. CASE QuietFrame
  BY <1>3, QuietFrameStep
<1>4. CASE StartingFrame
  BY <1>4, StartingFrameStep
<1>5. CASE SpeechFrame
  BY <1>5, SpeechFrameStep
<1>6. CASE TurnIgnored
  BY <1>6, TurnIgnoredStep
<1>7. CASE TurnAccepted
  BY <1>7, TurnAcceptedStep
<1>8. CASE SendAudio
  BY <1>8, SendAudioStep
<1>9. CASE HardLimit
  BY <1>9, HardLimitStep
<1>10. CASE GenerationEnds
  BY <1>10, GenerationEndsStep
<1>11. CASE BrowserHears
  BY <1>11, BrowserHearsStep
<1>12. CASE BrowserCandidate
  BY <1>12, BrowserCandidateStep
<1>13. CASE BrowserEnds
  BY <1>13, BrowserEndsStep
<1>14. CASE UNCHANGED sessionVars
  BY <1>14 DEF sessionVars, TurnTaking, SessionTypeOK, ShownIsActive, FenceHolds, CoordinatorFollows,
               CandidatePending, Known, Named, Ordered, Generating, Holding
<1> QED
  BY <1>1, <1>2, <1>3, <1>4, <1>5, <1>6, <1>7, <1>8, <1>9, <1>10, <1>11, <1>12,
     <1>13, <1>14 DEF SessionNext

(* TurnTaking holds in every state of every call. *)
THEOREM SessionInvariant == SessionSpec => []TurnTaking
  BY SessionStarts, SessionSteps, PTL DEF SessionSpec

(* Every variable keeps its shape. *)
THEOREM SessionTypeCorrect == SessionSpec => []SessionTypeOK
<1>1. TurnTaking => SessionTypeOK
  BY DEF TurnTaking
<1> QED
  BY <1>1, SessionInvariant, PTL

(* PipelineState and the ResponseController name the same response: start, *)
(* _cancel_response, the finish and the restore assign both or neither.    *)
THEOREM SessionShownIsActive == SessionSpec => []ShownIsActive
<1>1. TurnTaking => ShownIsActive
  BY DEF TurnTaking
<1> QED
  BY <1>1, SessionInvariant, PTL

(* A cancelled response is never active again, whichever candidates and    *)
(* reports of playback arrive late.                                        *)
THEOREM SessionFenceHolds == SessionSpec => []FenceHolds
<1>1. TurnTaking => FenceHolds
  BY DEF TurnTaking
<1> QED
  BY <1>1, SessionInvariant, PTL

(* The coordinator follows the response the session considers active.      *)
THEOREM SessionCoordinatorFollows == SessionSpec => []CoordinatorFollows
<1>1. TurnTaking => CoordinatorFollows
  BY DEF TurnTaking
<1> QED
  BY <1>1, SessionInvariant, PTL

(* A candidate is decided once: no pending one has been decided.           *)
THEOREM SessionCandidatePending == SessionSpec => []CandidatePending
<1>1. TurnTaking => CandidatePending
  BY DEF TurnTaking
<1> QED
  BY <1>1, SessionInvariant, PTL

(* The handlers keep the shape of the state and of the candidates in it.   *)
THEOREM SessionSound == SessionSpec => []SessionInv
<1>1. SessionTypeOK /\ CandidatePending => SessionInv
  BY DEF SessionInv
<1> QED
  BY <1>1, SessionTypeCorrect, SessionCandidatePending, PTL

(* The copies of the active response agree between any two handlers.       *)
THEOREM SessionResponseAgreed == SessionSpec => []ResponseAgreed
<1>1. ShownIsActive /\ CoordinatorFollows => ResponseAgreed
  BY DEF ResponseAgreed
<1> QED
  BY <1>1, SessionShownIsActive, SessionCoordinatorFollows, PTL
================================================================================
