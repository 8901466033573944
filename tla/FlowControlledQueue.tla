------------------------ MODULE FlowControlledQueue ------------------------
(***************************************************************************)
(* Producers and a consumer around one FlowControlledQueue                 *)
(* (apps/api/pipeline/backpressure.py).                                    *)
(*                                                                         *)
(* put() takes the lock twice: once in wait_if_corked and once to append.  *)
(* Every await is a point where another coroutine may run, so the two are  *)
(* separate steps here and a producer can be overtaken between them; a     *)
(* `while ...: await condition.wait()` is an action that is disabled while *)
(* the condition of the loop holds.  Everything between two awaits is one  *)
(* atomic step, the call that starts on_state_change included: no await    *)
(* separates it from the critical section that computed the transition.    *)
(***************************************************************************)
EXTENDS FlowQueue, FiniteSets

CONSTANTS
  Producers,  \* coroutines that call put
  Weights,    \* the values weight_fn may return
  MaxWeight,  \* the largest of them
  MaxPuts     \* bound on the puts of one producer

ASSUME ProducerAssumption == IsFiniteSet(Producers)

(* weight_fn is clamped to max(0.0, ...) by put. *)
ASSUME WeightAssumption ==
  /\ MaxWeight \in Nat
  /\ Weights \subseteq 0..MaxWeight
  /\ 0 \in Weights

ASSUME BoundAssumption == MaxPuts \in Nat

VARIABLES
  q,         \* the queue
  pc,        \* per producer: "idle", "cork" (in wait_if_corked) or "put"
  offer,     \* per producer: weight of the item being put, and bypass_cork
  puts,      \* per producer: number of put calls so far; names the item
  told,      \* the transition on_state_change was last called with
  consumer,  \* "running", or "raised" once get raised QueueClosed
  got        \* history: per producer, the last item that get returned

vars == <<q, pc, offer, puts, told, consumer, got>>

Item(p) == [from |-> p, n |-> puts[p]]
Queued == {q.items[i].item : i \in DOMAIN q.items}

Init ==
  /\ q = EmptyQueue
  /\ pc = [p \in Producers |-> "idle"]
  /\ offer = [p \in Producers |-> [weight |-> 0, bypass |-> FALSE]]
  /\ puts = [p \in Producers |-> 0]
  /\ told = "none"
  /\ consumer = "running"
  /\ got = [p \in Producers |-> 0]

(* Leave the critical section with queue `new`: observe and tell. *)
Settle(new) ==
  /\ q' = Observed(new)
  /\ told' = IF Transition(new) = "none" THEN told ELSE Transition(new)

(* put(item, bypass_cork) is called.  The pipeline bypasses the cork only  *)
(* for EndOfStream, whose weight is 0.                                     *)
Put(p) ==
  /\ pc[p] = "idle"
  /\ puts[p] < MaxPuts
  /\ \E w \in Weights, bypass \in BOOLEAN :
       /\ bypass => w = 0
       /\ offer' = [offer EXCEPT ![p] = [weight |-> w, bypass |-> bypass]]
       /\ pc' = [pc EXCEPT ![p] = IF bypass THEN "put" ELSE "cork"]
  /\ puts' = [puts EXCEPT ![p] = @ + 1]
  /\ UNCHANGED <<q, told, consumer, got>>

(* Mutant of PassCork: the cork is ignored. *)
PassCorkUnchecked(p) ==
  /\ pc[p] = "cork"
  /\ pc' = [pc EXCEPT ![p] = "put"]
  /\ UNCHANGED <<q, offer, puts, told, consumer, got>>

(* wait_until_uncorked returns. *)
PassCork(p) ==
  /\ pc[p] = "cork"
  /\ ~q.corked \/ Stopped(q)
  /\ pc' = [pc EXCEPT ![p] = "put"]
  /\ UNCHANGED <<q, offer, puts, told, consumer, got>>

(* The second critical section of put: there is room, or the queue is      *)
(* stopped and the item is silently dropped.                               *)
Enqueue(p) ==
  /\ pc[p] = "put"
  /\ ~Stopped(q) /\ ~Full(q)
  /\ Settle(Appended(q, Item(p), offer[p].weight))
  /\ pc' = [pc EXCEPT ![p] = "idle"]
  /\ UNCHANGED <<offer, puts, consumer, got>>

Refuse(p) ==
  /\ pc[p] = "put"
  /\ Stopped(q)
  /\ pc' = [pc EXCEPT ![p] = "idle"]
  /\ UNCHANGED <<q, offer, puts, told, consumer, got>>

Get ==
  /\ consumer = "running"
  /\ q.items # <<>>
  /\ Settle(Popped(q))
  /\ LET item == Head(q.items).item IN got' = [got EXCEPT ![item.from] = item.n]
  /\ UNCHANGED <<pc, offer, puts, consumer>>

(* get raises QueueClosed; every consumer of the pipeline then returns. *)
GetRaises ==
  /\ consumer = "running"
  /\ q.items = <<>>
  /\ Stopped(q)
  /\ consumer' = "raised"
  /\ UNCHANGED <<q, pc, offer, puts, told, got>>

Close ==
  /\ ~q.closed
  /\ q' = Closed(q)
  /\ UNCHANGED <<pc, offer, puts, told, consumer, got>>

Cancel ==
  /\ ~q.cancelled
  /\ q' = Cancelled(q)
  /\ UNCHANGED <<pc, offer, puts, told, consumer, got>>

Flush ==
  /\ \E stale \in SUBSET Queued : Settle(Flushed(q, stale))
  /\ UNCHANGED <<pc, offer, puts, consumer, got>>

Next ==
  \/ \E p \in Producers : Put(p) \/ PassCork(p) \/ Enqueue(p) \/ Refuse(p)
  \/ Get \/ GetRaises \/ Close \/ Cancel \/ Flush

Spec == Init /\ [][Next]_vars

(***************************************************************************)
(* Fairness.  A coroutine whose wait condition has become false is woken   *)
(* by the notify_all of the section that made it false and the event loop  *)
(* runs it: weak fairness on the steps that end a wait.  Nobody is obliged *)
(* to call put, flush, close or cancel.                                    *)
(***************************************************************************)
ProducerFairness ==
  \A p \in Producers :
    WF_vars(PassCork(p)) /\ WF_vars(Enqueue(p)) /\ WF_vars(Refuse(p))

(* The consumer may have stopped calling get. *)
FairSpec == Spec /\ ProducerFairness

(* A consumer that keeps calling get. *)
ConsumerRuns == WF_vars(Get) /\ WF_vars(GetRaises)
-----------------------------------------------------------------------------
ItemSet == [from : Producers, n : Nat]

EntrySet == [item : ItemSet, weight : 0..MaxWeight]

QueueType ==
  [items : Seq(EntrySet), depth : Nat, corked : BOOLEAN,
   hardLimited : BOOLEAN, closed : BOOLEAN, cancelled : BOOLEAN]

(* The shape of every variable. *)
TypeOK ==
  /\ q \in QueueType
  /\ pc \in [Producers -> {"idle", "cork", "put"}]
  /\ offer \in [Producers -> [weight : 0..MaxWeight, bypass : BOOLEAN]]
  /\ puts \in [Producers -> Nat]
  /\ told \in Transitions
  /\ consumer \in {"running", "raised"}
  /\ got \in [Producers -> Nat]

(* The watermarks act with hysteresis (_observe_locked): a corked queue is *)
(* above the low watermark, an uncorked one below the high one, and the    *)
(* hard limit is only ever in force on a corked queue.                     *)
Hysteresis ==
  /\ q.corked => q.depth > Low
  /\ ~q.corked => q.depth < High
  /\ q.hardLimited => q.corked

(* max_items is respected although the check is made before a wait that    *)
(* other producers wake from too.                                          *)
Capacity == Len(q.items) <= MaxItems

(* The running total kept by put, get and flush is the weight of what is   *)
(* in the queue, so the max(0.0, ...) of get never hides a drift.          *)
DepthIsWeight == q.depth = Weight(q.items)

(* No producer waits for a consumer that has nothing left to take: a       *)
(* corked queue holds an item whose removal will lower the depth.          *)
CorkedHasWork == q.corked => q.items # <<>>

(* Producers past the cork check whose append can still happen. *)
Past == {p \in Producers : pc[p] = "put" /\ ~offer[p].bypass /\ ~Stopped(q)}

(* The cork is checked in one critical section and the item appended in    *)
(* another; the depth can overshoot the high watermark by what the         *)
(* producers caught between the two still carry, and by no more.           *)
Overshoot ==
  q.depth + MaxWeight * Cardinality(Past)
    < High + MaxWeight * Cardinality(Producers)

(* What on_state_change was last told is what the queue does now (the      *)
(* pipeline shows it to the browser and acts on the hard limit), except    *)
(* after cancel, which resets the flags and tells nobody.                  *)
ToldMatches ==
  ~q.cancelled =>
    /\ q.corked <=> told \in {"corked", "hard_limit"}
    /\ q.hardLimited <=> told = "hard_limit"

(* The state of the queue is sound whatever was put, taken, flushed,     *)
(* closed or cancelled: its types, its capacity, its depth, the cork and *)
(* what the callback knows of it.                                        *)
Inv == TypeOK /\ Capacity /\ DepthIsWeight /\ CorkedHasWork /\ ToldMatches

(* Once a queue is stopped, a producer that waits for the low watermark or *)
(* for room returns, even if nobody takes from the queue any more.         *)
StopReleases ==
  \A p \in Producers : (Stopped(q) /\ pc[p] # "idle") ~> pc[p] = "idle"

(* While the consumer keeps taking, no put blocks for ever: the low        *)
(* watermark is always reached, and the wakeup is not lost.                *)
EveryPutReturns ==
  ConsumerRuns => \A p \in Producers : pc[p] # "idle" ~> pc[p] = "idle"

(* No put waits for ever, while there is a consumer or once the queue is *)
(* stopped.                                                              *)
PutsReturn == EveryPutReturns /\ StopReleases

(* FIFO per producer, at most once, lossy only through flush and cancel. *)
Channel == INSTANCE OrderedChannel WITH
             chan <- [i \in DOMAIN q.items |-> q.items[i].item],
             open <- ~Stopped(q),
             Capacity <- MaxItems,
             MaxSerial <- MaxPuts
ChannelSpec == Channel!Spec
=============================================================================
