------------------------------ MODULE UsageLedger -------------------------------
(* What the usage projection promises: a set of measured events, each counted   *)
(* once however often and in whatever batch it is delivered, and columns that   *)
(* are at every moment the sums over exactly the counted events.                *)
EXTENDS Naturals, FiniteSets, FiniteSetsExt

CONSTANTS
  Counted,        \* the usage events a call may produce
  Column,         \* the sums that are kept
  Amount          \* [Counted -> [Column -> Nat]]: what one event adds to each

VARIABLES
  counted,        \* the events counted so far
  sums            \* the columns

Sum(events) == [c \in Column |-> MapThenSumSet(LAMBDA e : Amount[e][c], events)]

Init ==
  /\ counted = {}
  /\ sums = Sum({})

Count(new) ==
  /\ new \cap counted = {}
  /\ counted' = counted \cup new
  /\ sums' = Sum(counted')

Next == \E new \in SUBSET Counted : Count(new)

Spec == Init /\ [][Next]_<<counted, sums>>
================================================================================
