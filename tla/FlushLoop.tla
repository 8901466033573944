----------------------------- MODULE FlushLoop -----------------------------
(***************************************************************************)
(* The one loop over a queue: FlowControlledQueue.flush of                 *)
(* apps/api/pipeline/backpressure.py.  It depends on no watermark, so that *)
(* what is proved of it holds in every instance of FlowQueue.              *)
(***************************************************************************)
EXTENDS Integers, Sequences

(***************************************************************************)
(* The loop of flush: walk the items, keep those outside `stale` in order  *)
(* and add up their weight from zero.                                      *)
(***************************************************************************)
ScanLoop(items, stale) ==
  LET scan[i \in 0..Len(items)] ==
        IF i = 0 THEN [kept |-> <<>>, depth |-> 0]
        ELSE IF items[i].item \in stale THEN scan[i - 1]
        ELSE [kept |-> Append(scan[i - 1].kept, items[i]),
              depth |-> scan[i - 1].depth + items[i].weight]
  IN scan

Scan(items, stale) == ScanLoop(items, stale)[Len(items)]

(* The weight of the items as they stand. *)
Weight(items) == Scan(items, {}).depth
=============================================================================
