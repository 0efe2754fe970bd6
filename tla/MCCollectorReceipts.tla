-------------------------- MODULE MCCollectorReceipts --------------------------
(* CollectorReceipts with clients that retry a batch, send overlapping       *)
(* batches, reuse a batch id for another payload or another producer, and    *)
(* exceed the record bound.                                                  *)
EXTENDS CollectorReceipts, TLC

CONSTANTS r1, r2, r3, r4, b1, b2, c1, c2, c3, q1, q2

\* r1 and r2 are two records about one identity; r3 does not decode.
MCRecords == {r1, r2, r3, r4}
MCIdentity == (r1 :> 1) @@ (r2 :> 1) @@ (r3 :> 2) @@ (r4 :> 3)
MCSize == [r \in MCRecords |-> 1]

MCRequests ==
  {[id |-> b1, from |-> q1, body |-> <<r1, r3>>],
   [id |-> b1, from |-> q1, body |-> <<r2>>],
   [id |-> b1, from |-> q2, body |-> <<r1, r3>>],
   [id |-> b2, from |-> q1, body |-> <<r4, r2>>],
   [id |-> b2, from |-> q1, body |-> <<r1, r2, r3>>]}

MCSymmetry == Permutations(Conns)

MCNext ==
  \/ \E c \in Conns : \E req \in MCRequests : Arrive(c, req)
  \/ \E c \in Conns : Lose(c) \/ Respond(c)
  \/ Server

MCSpec == InitCollector /\ [][MCNext]_collectorVars
===============================================================================
