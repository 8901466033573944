------------------------ MODULE MCProjectionTransactions -----------------------
(* Instances of ProjectionTransactions for TLC.                                 *)
EXTENDS ProjectionTransactions

E(key, kind, call, topic, offset, cost) ==
  [key |-> key, kind |-> kind, call |-> call, topic |-> topic, offset |-> offset, cost |-> cost]

UsageA   == E("u1", "usage", "A", "usage", 1, 1)
UsageB   == E("u2", "usage", "B", "usage", 2, 2)
MoreA    == E("u3", "usage", "A", "usage", 3, 4)
MoreB    == E("u4", "usage", "B", "usage", 3, 8)
BarrierB == E("m1", "barrier", "B", "usage", 4, 0)
StartB   == E("c1", "started", "B", "call", 1, 0)
FailB    == E("c2", "failed", "B", "call", 2, 0)
EndA     == E("c3", "ended", "A", "call", 3, 0)
EndB     == E("c4", "ended", "B", "call", 4, 0)
StageB   == E("p1", "progress", "B", "pipeline", 1, 0)
StageA   == E("p2", "progress", "A", "pipeline", 2, 0)

(* Three members of the group: the usage of two calls, their verdicts and their *)
(* progress belong to different workers, and name the calls in different orders.*)
MembersBatches ==
  [w1 |-> <<<<UsageA, UsageB>>, <<MoreB, BarrierB>>>>,
   w2 |-> <<<<StartB, FailB, EndA>>, <<EndB>>>>,
   w3 |-> <<<<StageB, StageA>>>>]

(* The second worker has the topics of the first, which still works on a batch  *)
(* that the second fetches again, in other company.                             *)
RebalancedBatches ==
  [w1 |-> <<<<UsageA, UsageB>>, <<StartB>>>>,
   w2 |-> <<<<StartB, FailB, UsageA>>, <<UsageB, MoreA, EndA, EndB>>>>,
   w3 |-> <<>>]

BothPlans == {MembersBatches, RebalancedBatches}
================================================================================
