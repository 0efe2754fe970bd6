--------------------------- MODULE MCCaptureDelivery ---------------------------
(* CaptureDelivery with two records of one byte each.                      *)
EXTENDS CaptureDelivery, TLC

CONSTANTS r1, r2, c1, c2

MCRecords == {r1, r2}
MCRecord == {r1}
MCIdentity == [r \in Records |-> r]

MCSize == [r \in Records |-> 1]
MCBatchIds == Segs \X Nat \X Seq(Records)
MCSymmetry == Permutations(Conns) \cup Permutations(Records)
===============================================================================
