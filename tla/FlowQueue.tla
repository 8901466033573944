----------------------------- MODULE FlowQueue -----------------------------
(***************************************************************************)
(* The data structure behind every bounded buffer of the voice pipeline:   *)
(* FlowControlledQueue of apps/api/pipeline/backpressure.py.               *)
(*                                                                         *)
(* A queue is one record.  Every operator below is one critical section of *)
(* the class, that is one `async with self._condition` block, given as the *)
(* queue the block leaves behind.  The waiting (the `while ... wait()`     *)
(* loops) belongs to the modules that use the operators: they put the      *)
(* negation of the loop condition in the guard of the action.              *)
(*                                                                         *)
(* `depth` is kept by the code as a running total, beside the items; that  *)
(* it stays equal to the weight of the items is a property to check and    *)
(* not a definition.                                                       *)
(***************************************************************************)
EXTENDS Integers, Sequences, FlushLoop

CONSTANTS
  Low,       \* depth at which corked producers are released
  High,      \* depth at which producers are corked
  Hard,      \* depth at which the hard-limit policy applies
  MaxItems   \* the number of items the deque may hold

(* The two ValueErrors of the constructor, and the ranges of the settings. *)
ASSUME WatermarkAssumption ==
  /\ Low \in Nat /\ High \in Nat /\ Hard \in Nat
  /\ Low < High
  /\ High <= Hard

ASSUME CapacityAssumption == MaxItems \in Nat \ {0}

Transitions == {"none", "corked", "uncorked", "hard_limit"}

EmptyQueue ==
  [items |-> <<>>, depth |-> 0, corked |-> FALSE, hardLimited |-> FALSE,
   closed |-> FALSE, cancelled |-> FALSE]

Entry(item, weight) == [item |-> item, weight |-> weight]

Stopped(q) == q.closed \/ q.cancelled
Full(q) == Len(q.items) >= MaxItems

(* Mutant of Transition: released only strictly below the low watermark. *)
TransitionBelowLow(q) ==
  IF q.depth >= Hard /\ ~q.hardLimited THEN "hard_limit"
  ELSE IF ~q.corked /\ q.depth >= High THEN "corked"
  ELSE IF q.corked /\ q.depth < Low THEN "uncorked"
  ELSE "none"

(* What _observe_locked reports for the depth it finds. *)
Transition(q) ==
  IF q.depth >= Hard /\ ~q.hardLimited THEN "hard_limit"
  ELSE IF ~q.corked /\ q.depth >= High THEN "corked"
  ELSE IF q.corked /\ q.depth <= Low THEN "uncorked"
  ELSE "none"

(* Mutant of Observed: uncorking leaves the hard limit in force. *)
ObservedStaysLimited(q) ==
  LET t == Transition(q)
  IN [q EXCEPT !.corked = t \in {"hard_limit", "corked"} \/ (@ /\ t = "none"),
               !.hardLimited = @ \/ t = "hard_limit"]

(* _observe_locked: the flags after that transition. *)
Observed(q) ==
  LET t == Transition(q)
  IN [q EXCEPT !.corked = t \in {"hard_limit", "corked"} \/ (@ /\ t = "none"),
               !.hardLimited = t = "hard_limit" \/ (@ /\ t # "uncorked")]

(* put, past its waits: append, add the weight.  Observe comes after. *)
Appended(q, item, weight) ==
  [q EXCEPT !.items = Append(@, Entry(item, weight)), !.depth = @ + weight]

(* Mutant of Popped: the deque is popped at the wrong end. *)
PoppedLast(q) ==
  LET n == Len(q.items)
      rest == q.depth - q.items[n].weight
  IN [q EXCEPT !.items = SubSeq(@, 1, n - 1), !.depth = IF rest < 0 THEN 0 ELSE rest]

(* get, past its wait: pop the head, subtract its weight, never below 0. *)
Popped(q) ==
  LET rest == q.depth - Head(q.items).weight
  IN [q EXCEPT !.items = Tail(@), !.depth = IF rest < 0 THEN 0 ELSE rest]

(* Mutant of Flushed: the running depth is not recomputed. *)
FlushedKeepsDepth(q, stale) == [q EXCEPT !.items = Scan(@, stale).kept]

Flushed(q, stale) ==
  LET s == Scan(q.items, stale)
  IN [q EXCEPT !.items = s.kept, !.depth = s.depth]

Closed(q) == [q EXCEPT !.closed = TRUE]

(* cancel empties the queue and drops both flags without a transition. *)
Cancelled(q) == [EmptyQueue EXCEPT !.closed = TRUE, !.cancelled = TRUE]
=============================================================================
