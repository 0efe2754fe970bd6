---------------------------- MODULE CaptureDelivery ----------------------------
(***************************************************************************)
(* Remote capture end to end: producers append records to a spool, one     *)
(* shipper delivers the spool to a collector, and the collector stores the *)
(* records centrally.  Every process may crash and restart at any step,    *)
(* requests may be lost, and answers may come late or never.               *)
(***************************************************************************)
EXTENDS SegmentShipper, Functions

vars == <<segs, sink, fate, server, conn, receipts, evidence, ship, checkpoint>>

Init == InitSpool /\ InitCollector /\ InitShipper

---------------------------------------------------------------------------
ProducerStep == Producer /\ UNCHANGED <<server, conn, receipts, evidence, ship, checkpoint>>

\* The collector's own steps; a request may be lost on its way, and an answer
\* nobody waits for is dropped.
CollectorStep ==
  /\ \/ Server
     \/ \E c \in Conns : Lose(c) \/ (c # ship.conn /\ Respond(c))
  /\ UNCHANGED <<segs, sink, fate, ship, checkpoint>>

\* Shipper steps by what they touch: nothing but the shipper, a connection,
\* or a segment.
ShipperAlone ==
  /\ \/ Launch \/ RequestStop \/ Exit \/ StartCycle \/ ScanPaths \/ OpenPath
     \/ ReadChunk \/ SendFails \/ ConnectionBroken \/ RequestTimeout \/ SaveAck
     \/ SaveDisposal \/ KeepSegment \/ EndCycle \/ SpoolIoError \/ ShipperCrash
  /\ UNCHANGED <<segs, sink, fate, server, conn, receipts, evidence>>

ShipperTalks ==
  /\ \/ \E c \in Conns : SendBatch(c)
     \/ ReceiveRefusal \/ ReceiveAck
  /\ UNCHANGED <<segs, sink, fate>>

ShipperDisposes == DisposeSegment /\ UNCHANGED collectorVars

Next == ProducerStep \/ CollectorStep \/ ShipperAlone \/ ShipperTalks \/ ShipperDisposes

Spec == Init /\ [][Next]_vars

\* The types of the spool are its own invariant, whoever ships it.
TypeOK == CollectorTypeOK /\ ShipperTypeOK

---------------------------------------------------------------------------
\* Fairness.  Each process goes on with what it has to do, the daemon and the
\* collector are restarted when they are down, and from some time on every
\* step is one that a system without failures takes.

HandlerProgress(c) ==
  /\ \/ Admit(c) \/ RefuseBody(c) \/ EnsurePending(c) \/ Lock(c) \/ Apply(c)
     \/ (Complete(c) /\ conn'[c].answer = "ack")
     \/ (~conn[c].row /\ RollBack(c))
  /\ UNCHANGED <<segs, sink, fate, ship, checkpoint>>

ResponseLeaves(c) ==
  /\ c # ship.conn
  /\ Respond(c)
  /\ UNCHANGED <<segs, sink, fate, ship, checkpoint>>

CollectorRestarts ==
  /\ CollectorStart \/ EndShutdown
  /\ UNCHANGED <<segs, sink, fate, ship, checkpoint>>

ShipperProgress ==
  \/ /\ \/ Launch \/ Exit \/ StartCycle \/ ScanPaths \/ OpenPath \/ ReadChunk
        \/ ConnectionBroken \/ SaveAck \/ SaveDisposal \/ KeepSegment \/ EndCycle
     /\ UNCHANGED <<segs, sink, fate, server, conn, receipts, evidence>>
  \/ ShipperTalks
  \/ ShipperDisposes

Works ==
  \/ ProducerStep /\ \E p \in Procs : ProducerWorks(p)
  \/ \E c \in Conns : HandlerProgress(c) \/ ResponseLeaves(c)
  \/ CollectorRestarts
  \/ ShipperProgress

Fairness ==
  /\ WF_vars(ShipperProgress)
  /\ \A c \in Conns : WF_vars(HandlerProgress(c)) /\ WF_vars(ResponseLeaves(c))
  /\ WF_vars(CollectorRestarts)
  /\ <>[][Works]_vars

FairSpec == Spec /\ Fairness

---------------------------------------------------------------------------
\* Safety.

\* A record held by storage, or one no delivery can get into storage: the
\* collector cannot read it, or other evidence has its identity.
Refusable(r) ==
  \/ r \in Malformed \cup Unsupported
  \/ evidence[Identity[r]] \notin {NoRec, r}

Judged(r) == Stored(r) \/ Refusable(r)

\* A segment is removed from the host only when central storage holds every
\* record of it.
DeletedIsStored ==
  \A s \in Segs : segs[s].life = "deleted" =>
     \A i \in DOMAIN segs[s].recs : Stored(segs[s].recs[i])

\* The checkpoint never runs ahead of the collector: what it counts as
\* acknowledged was judged, and stored if it says that nothing was rejected.
Sound(progress, recs) ==
  /\ progress.off <= Len(recs)
  /\ \A i \in 1..progress.off :
        Judged(recs[i]) /\ (~progress.rej => Stored(recs[i]))

CheckpointSound ==
  \A s \in Segs : /\ Sound(checkpoint[s], segs[s].recs)
                  /\ Sound(ship.mem[s], segs[s].recs)

\* A segment is quarantined only for a record that could not be delivered.
QuarantineJustified ==
  \A s \in Segs : segs[s].life = "rejected" =>
     /\ \A i \in DOMAIN segs[s].recs : Judged(segs[s].recs[i])
     /\ \E i \in DOMAIN segs[s].recs : Refusable(segs[s].recs[i])

\* Central storage sees the records of a producer in the order in which they
\* were captured (collector-side span links and agent event sequences rest on
\* it): no record is stored while an earlier one still waits to be judged.
Earlier(s, i, t, j) == s[1] = t[1] /\ (s[2] < t[2] \/ (s = t /\ i < j))

StoredInOrder ==
  \A s, t \in Segs : \A i \in DOMAIN segs[s].recs, j \in DOMAIN segs[t].recs :
     Earlier(s, i, t, j) /\ Stored(segs[t].recs[j]) => Judged(segs[s].recs[i])

\* Shipper and collector keep to their types, and to the order of capture.
DeliveredInOrder == TypeOK /\ StoredInOrder

\* Seen without segments and batches, capture is a durable handoff: every
\* step delivers a record that is on the host, or removes from the host only
\* what storage holds, or does not matter.
OnHost == UNION {Range(segs[s].recs) : s \in {t \in Segs : segs[t].life \in OnDisk}}

Handoff == INSTANCE DurableHandoff WITH
  captured <- {r \in Records : fate[r] = "captured"},
  host     <- OnHost,
  central  <- {r \in Records : Stored(r)}

HandoffSpec == Handoff!Spec

---------------------------------------------------------------------------
\* Liveness.

\* A sealed segment eventually leaves the backlog.
SealedDrains ==
  \A s \in Segs : segs[s].life = "jsonl" ~> segs[s].life \in {"deleted", "rejected"}

\* Every captured record is eventually judged by the collector, also one in a
\* segment its producer will never seal.
CapturedIsJudged ==
  \A r \in Records : fate[r] = "captured" ~> Judged(r)

===============================================================================
