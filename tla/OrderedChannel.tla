--------------------------- MODULE OrderedChannel ---------------------------
(***************************************************************************)
(* What a stage of the pipeline may assume of the buffer in front of it:   *)
(* a bounded channel that delivers each producer's items in the order they *)
(* were accepted, each at most once.  Items disappear only when somebody   *)
(* discards them; once closed nothing is accepted any more, and what was   *)
(* accepted before can still be drained.  FlowControlledQueue implements   *)
(* this specification.                                                     *)
(***************************************************************************)
EXTENDS Integers, Sequences

CONSTANTS Producers, Capacity, MaxSerial

VARIABLES
  chan,   \* accepted and not delivered: a sequence of [from, n]
  got,    \* per producer, the serial number delivered last
  open    \* whether the channel still accepts items

vars == <<chan, got, open>>

Members == {chan[i] : i \in DOMAIN chan}

Init ==
  /\ chan = <<>>
  /\ got = [p \in Producers |-> 0]
  /\ open = TRUE

(* A producer's serial numbers grow; a gap is an item that was refused. *)
Send(p) ==
  /\ open
  /\ Len(chan) < Capacity
  /\ \E n \in 1..MaxSerial :
       /\ n > got[p]
       /\ \A m \in Members : m.from = p => m.n < n
       /\ chan' = Append(chan, [from |-> p, n |-> n])
  /\ UNCHANGED <<got, open>>

Deliver ==
  /\ chan # <<>>
  /\ got' = [got EXCEPT ![Head(chan).from] = Head(chan).n]
  /\ chan' = Tail(chan)
  /\ UNCHANGED open

(* Any items may go; those that stay keep their order. *)
Discard ==
  /\ \E n \in 0..Len(chan) : \E kept \in [1..n -> DOMAIN chan] :
       /\ \A i, j \in 1..n : i < j => kept[i] < kept[j]
       /\ chan' = [i \in 1..n |-> chan[kept[i]]]
  /\ UNCHANGED <<got, open>>

Close ==
  /\ open' = FALSE
  /\ chan' \in {chan, <<>>}
  /\ UNCHANGED got

Next == (\E p \in Producers : Send(p)) \/ Deliver \/ Discard \/ Close

Spec == Init /\ [][Next]_vars
=============================================================================
