---------------------------- MODULE DurableHandoff ----------------------------
(***************************************************************************)
(* What remote capture promises, without segments, batches or receipts:    *)
(* a captured record is on its host until it is in central storage, and    *)
(* leaves the host only then.  (ADR-012: a sealed segment is deleted only  *)
(* after every record has an accepted acknowledgement; a rejected record   *)
(* is retained.)                                                           *)
(***************************************************************************)
CONSTANT Records

VARIABLES
  captured,  \* records whose capture call returned
  host,      \* records in the host's spool directory
  central    \* records in central storage

vars == <<captured, host, central>>

Init == captured = {} /\ host = {} /\ central = {}

Capture(r) ==
  /\ r \notin captured
  /\ captured' = captured \cup {r}
  /\ host' = host \cup {r}
  /\ UNCHANGED central

Deliver(r) ==
  /\ r \in host
  /\ central' = central \cup {r}
  /\ UNCHANGED <<captured, host>>

Release(rs) ==
  /\ rs \subseteq host \cap central
  /\ host' = host \ rs
  /\ UNCHANGED <<captured, central>>

Next ==
  \/ \E r \in Records : Capture(r) \/ Deliver(r)
  \/ \E rs \in SUBSET Records : Release(rs)

Spec == Init /\ [][Next]_vars

\* What a reader of the promise wants: nothing captured is ever lost.
NothingLost == captured \subseteq host \cup central

===============================================================================
