---------------------------- MODULE MCCaptureSpool ----------------------------
(* CaptureSpool on small sizes: records of one and two bytes, segments of    *)
(* three bytes.                                                              *)
EXTENDS CaptureSpool, TLC

CONSTANTS r1, r2, r3, r4

MCRecords == {r1, r2, r3, r4}
MCRecords3 == {r1, r2, r3}
MCIdentity == [r \in Records |-> 1]
MCSize == [r \in Records |-> IF r = r1 THEN 1 ELSE 2]

===============================================================================
